------------------------------ MODULE PwHelper ------------------------------
(***************************************************************************)
(* The PipeWire helper: it connects, keeps a table of the nodes and        *)
(* metadata objects of the server, and looks nodes up in it.               *)
(*                                                                         *)
(* Two threads share the table.  The loop thread handles the messages of   *)
(* the server in order; the client's thread creates the helper, waits for  *)
(* a round trip and then asks for nodes.  Helper::lock takes state_mutex   *)
(* only if init_state is Running, Helper::unlock gives it back only if     *)
(* init_state is Running, and each of them reads init_state for itself.    *)
(*                                                                         *)
(* Sound devices come, change and go at any time.  An object has an        *)
(* identity of its own and does not come back.                             *)
(***************************************************************************)
EXTENDS Sequences

CONSTANTS
  Nodes,      \* audio nodes of the server
  Metadata,   \* its metadata objects named "default"
  NoObject,
  Lookups,    \* lookups that the client makes
  Hotplug,    \* objects that may appear after the client has connected
  Changing    \* objects that the server may describe again

ASSUME HelperAssumption ==
  /\ NoObject \notin Nodes \cup Metadata
  /\ Nodes \cap Metadata = {}
  /\ Lookups \subseteq {"find", "default", "enumerate"}
  /\ Hotplug \subseteq Nodes \cup Metadata
  /\ Changing \subseteq Nodes \cup Metadata

Objects == Nodes \cup Metadata

VARIABLES
  \* The server and the connection to it.
  server,          \* server[o]: "absent", "registered" or "gone"
  first,           \* what was registered when the round trip was asked for
  announced,       \* the objects that the client has been told of
  asked,           \* the objects bound but not yet described to the client
  wire,            \* messages to the client, in order
  \* The helper.
  init_state,      \* "Init", "Ready" or "Running"
  state_mutex,     \* "free", "client" or "loop"
  bound_proxies,   \* the table
  info,            \* its nodes whose info_state is not Init
  default_nodes,   \* a metadata object, or NoObject
  default_name,    \* its default node, or NoObject for the empty string
  nodes_mutex,     \* the object whose mutex the client holds, or NoObject
  \* The two threads.
  loop,            \* "idle", "changing" the table or "updating" a node
  client,          \* where the client's thread is
  lookup,          \* what it looks up, or "none"
  found,           \* what the lookup has found, or NoObject
  early,           \* init_state was not Running when the lookup began
  fault            \* undefined behaviour

serverVars == <<server, first, announced, asked>>
tableVars  == <<bound_proxies, info, default_nodes, default_name>>
clientVars == <<client, lookup, found, early, nodes_mutex>>
vars == <<serverVars, wire, init_state, state_mutex, tableVars, loop, clientVars, fault>>

Message(type, o) == [type |-> type, id |-> o]
Messages ==
  [type : {"global", "remove"}, id : Objects] \cup [type : {"info"}, id : Nodes]
    \cup [type : {"property"}, id : Metadata] \cup [type : {"done"}, id : {NoObject}]

ClientPoints == {"creating", "waiting", "ready", "locking", "locked", "spinning",
                 "finding", "unlocking"}
Iterating == {"locked", "spinning", "finding"}

Init ==
  /\ server = [o \in Objects |-> "absent"]
  /\ first = {}
  /\ announced = {}
  /\ asked = {}
  /\ wire = <<>>
  /\ init_state = "Init"
  /\ state_mutex = "free"
  /\ bound_proxies = {}
  /\ info = {}
  /\ default_nodes = NoObject
  /\ default_name = NoObject
  /\ nodes_mutex = NoObject
  /\ loop = "idle"
  /\ client = "creating"
  /\ lookup = "none"
  /\ found = NoObject
  /\ early = FALSE
  /\ fault = "none"

TypeOK ==
  /\ server \in [Objects -> {"absent", "registered", "gone"}]
  /\ first \subseteq Objects
  /\ announced \subseteq Objects
  /\ asked \subseteq Objects
  /\ wire \in Seq(Messages)
  /\ init_state \in {"Init", "Ready", "Running"}
  /\ state_mutex \in {"free", "client", "loop"}
  /\ bound_proxies \subseteq Objects
  /\ info \subseteq Nodes
  /\ default_nodes \in Metadata \cup {NoObject}
  /\ default_name \in Nodes \cup {NoObject}
  /\ nodes_mutex \in Metadata \cup {NoObject}
  /\ loop \in {"idle", "changing", "updating"}
  /\ client \in ClientPoints
  /\ lookup \in Lookups \cup {"none"}
  /\ found \in Nodes \cup {NoObject}
  /\ early \in BOOLEAN
  /\ fault \in {"none", "unlock", "table", "torn"}

Registered == {o \in Objects : server[o] = "registered"}
OnWire(type, o) == \E i \in DOMAIN wire : wire[i] = Message(type, o)
Sends(type, o) == wire' = Append(wire, Message(type, o))

-----------------------------------------------------------------------------
(* The server, as far as the helper sees it.  It is not in src/.           *)

Appear(o) ==
  /\ init_state = "Init" \/ o \in Hotplug
  /\ server[o] = "absent"
  /\ server' = [server EXCEPT ![o] = "registered"]
  /\ UNCHANGED <<first, announced, asked, wire, init_state, state_mutex, tableVars,
                 loop, clientVars, fault>>

\* The registry, which the client has asked for, lists an object.
Announce(o) ==
  /\ init_state # "Init"
  /\ o \in Registered \ announced
  /\ announced' = announced \cup {o}
  /\ Sends("global", o)
  /\ UNCHANGED <<server, first, asked, init_state, state_mutex, tableVars, loop,
                 clientVars, fault>>

\* The answer to pw_core_sync follows all that was sent for earlier requests.
Done ==
  /\ init_state = "Ready"
  /\ first \cap Registered \subseteq announced
  /\ ~OnWire("done", NoObject)
  /\ Sends("done", NoObject)
  /\ UNCHANGED <<serverVars, init_state, state_mutex, tableVars, loop, clientVars, fault>>

Disappear(o) ==
  /\ server[o] = "registered"
  /\ server' = [server EXCEPT ![o] = "gone"]
  /\ asked' = asked \ {o}
  /\ IF o \in announced THEN Sends("remove", o) ELSE UNCHANGED wire
  /\ UNCHANGED <<first, announced, init_state, state_mutex, tableVars, loop,
                 clientVars, fault>>

\* The first description of an object that the client has bound.
Describe(o) ==
  /\ o \in asked
  /\ asked' = asked \ {o}
  /\ Sends(IF o \in Nodes THEN "info" ELSE "property", o)
  /\ UNCHANGED <<server, first, announced, init_state, state_mutex, tableVars, loop,
                 clientVars, fault>>

\* A later one: a node has changed, or another node is the default.
Change(o) ==
  LET type == IF o \in Nodes THEN "info" ELSE "property" IN
  /\ o \in (bound_proxies \cap Registered \cap Changing) \ asked
  /\ ~OnWire(type, o)
  /\ Sends(type, o)
  /\ UNCHANGED <<serverVars, init_state, state_mutex, tableVars, loop, clientVars, fault>>

-----------------------------------------------------------------------------
(* The loop thread.                                                        *)

Handles(type) == loop = "idle" /\ wire # <<>> /\ Head(wire).type = type
Handled == wire' = Tail(wire) /\ loop' = "idle"
Subject == Head(wire).id

\* Helper::lock and Helper::unlock in a handler.
LoopLocks ==
  IF init_state = "Running"
    THEN state_mutex = "free" /\ state_mutex' = "loop"
    ELSE UNCHANGED state_mutex
LoopUnlocks == state_mutex' = IF init_state = "Running" THEN "free" ELSE state_mutex

\* roundtrip_handler
RoundtripHandler ==
  /\ Handles("done")
  /\ init_state' = "Running"
  /\ Handled
  /\ UNCHANGED <<serverVars, state_mutex, tableVars, clientVars, fault>>

\* Plausible slip: the handlers take no lock.
RegistryEnterUnlocked ==
  /\ Handles("global") \/ Handles("remove")
  /\ loop' = "changing"
  /\ UNCHANGED <<serverVars, wire, init_state, state_mutex, tableVars, clientVars, fault>>

\* registry_global_handler and registry_global_remove_handler: the lock.
RegistryEnter ==
  /\ Handles("global") \/ Handles("remove")
  /\ LoopLocks
  /\ loop' = "changing"
  /\ UNCHANGED <<serverVars, wire, init_state, tableVars, clientVars, fault>>

\* Plausible slip: an object counts as described as soon as it is bound.
RegistryGlobalDescribed ==
  /\ loop = "changing"
  /\ Head(wire).type = "global"
  /\ bound_proxies' = bound_proxies \cup {Subject}
  /\ info' = info \cup {Subject}
  /\ IF Subject \in Metadata
       THEN default_nodes' = Subject /\ default_name' = NoObject
       ELSE UNCHANGED <<default_nodes, default_name>>
  /\ LoopUnlocks
  /\ Handled
  /\ UNCHANGED <<serverVars, init_state, clientVars, fault>>

\* registry_global_handler: binding asks the server for a description.
RegistryGlobal ==
  /\ loop = "changing"
  /\ Head(wire).type = "global"
  /\ bound_proxies' = bound_proxies \cup {Subject}
  /\ asked' = asked \cup ({Subject} \cap Registered)
  /\ IF Subject \in Metadata
       THEN default_nodes' = Subject /\ default_name' = NoObject
       ELSE UNCHANGED <<default_nodes, default_name>>
  /\ LoopUnlocks
  /\ Handled
  /\ UNCHANGED <<server, first, announced, init_state, info, clientVars, fault>>

\* Plausible slip: default_nodes is kept.
RegistryRemoveKeepsDefault ==
  /\ loop = "changing"
  /\ Head(wire).type = "remove"
  /\ bound_proxies' = bound_proxies \ {Subject}
  /\ info' = info \ {Subject}
  /\ LoopUnlocks
  /\ Handled
  /\ UNCHANGED <<serverVars, init_state, default_nodes, default_name, clientVars, fault>>

\* Plausible slip: the lock is not given back.
RegistryRemoveKeepsLock ==
  /\ loop = "changing"
  /\ Head(wire).type = "remove"
  /\ bound_proxies' = bound_proxies \ {Subject}
  /\ info' = info \ {Subject}
  /\ IF Subject = default_nodes
       THEN default_nodes' = NoObject /\ default_name' = NoObject
       ELSE UNCHANGED <<default_nodes, default_name>>
  /\ Handled
  /\ UNCHANGED <<serverVars, init_state, state_mutex, clientVars, fault>>

RegistryGlobalRemove ==
  /\ loop = "changing"
  /\ Head(wire).type = "remove"
  /\ bound_proxies' = bound_proxies \ {Subject}
  /\ info' = info \ {Subject}
  /\ IF Subject = default_nodes
       THEN default_nodes' = NoObject /\ default_name' = NoObject
       ELSE UNCHANGED <<default_nodes, default_name>>
  /\ LoopUnlocks
  /\ Handled
  /\ UNCHANGED <<serverVars, init_state, clientVars, fault>>

\* Node::update takes no lock.
NodeInfoEnter ==
  /\ Handles("info")
  /\ loop' = "updating"
  /\ UNCHANGED <<serverVars, wire, init_state, state_mutex, tableVars, clientVars, fault>>

\* Plausible slip: info_state is left as it is.
NodeInfoUnmarked ==
  /\ loop = "updating"
  /\ Handled
  /\ UNCHANGED <<serverVars, init_state, state_mutex, tableVars, clientVars, fault>>

NodeInfo ==
  /\ loop = "updating"
  /\ info' = info \cup {Subject}
  /\ Handled
  /\ UNCHANGED <<serverVars, init_state, state_mutex, bound_proxies, default_nodes,
                 default_name, clientVars, fault>>

\* default_nodes_source_handler: it waits for the mutex of the object.
DefaultNodesProperty ==
  /\ Handles("property")
  /\ nodes_mutex # Subject
  /\ IF Subject = default_nodes THEN default_name' \in Nodes ELSE UNCHANGED default_name
  /\ Handled
  /\ UNCHANGED <<serverVars, init_state, state_mutex, bound_proxies, info,
                 default_nodes, clientVars, fault>>

Loop ==
  \/ RoundtripHandler \/ RegistryEnter \/ RegistryGlobal \/ RegistryGlobalRemove
  \/ NodeInfoEnter \/ NodeInfo \/ DefaultNodesProperty

-----------------------------------------------------------------------------
(* The client's thread.                                                    *)

ClientMoves(from, to) == client = from /\ client' = to

\* create_helper, until the loop thread has been started.
CreateHelper ==
  /\ ClientMoves("creating", "waiting")
  /\ init_state' = "Ready"
  /\ first' = Registered
  /\ UNCHANGED <<server, announced, asked, wire, state_mutex, tableVars, loop,
                 nodes_mutex, lookup, found, early, fault>>

\* wait_for_roundtrip waits for the state that create_helper has set itself.
WaitForRoundtrip ==
  /\ init_state = "Ready"
  /\ ClientMoves("waiting", "ready")
  /\ UNCHANGED <<serverVars, wire, init_state, state_mutex, tableVars, loop,
                 nodes_mutex, lookup, found, early, fault>>

LookUp(what) ==
  /\ ClientMoves("ready", "locking")
  /\ lookup' = what
  /\ UNCHANGED <<serverVars, wire, init_state, state_mutex, tableVars, loop,
                 nodes_mutex, found, early, fault>>

ClientLocks ==
  /\ ClientMoves("locking", IF lookup = "default" THEN "locked" ELSE "finding")
  /\ IF init_state = "Running"
       THEN state_mutex = "free" /\ state_mutex' = "client"
       ELSE UNCHANGED state_mutex
  /\ early' = (init_state # "Running")
  /\ UNCHANGED <<serverVars, wire, init_state, tableVars, loop, nodes_mutex, lookup,
                 found, fault>>

\* get_default_node, with and without an object to ask.
GetDefaultNode ==
  /\ client = "locked"
  /\ IF default_nodes = NoObject
       THEN client' = "unlocking" /\ found' = NoObject
       ELSE client' = "spinning" /\ UNCHANGED found
  /\ nodes_mutex' = default_nodes
  /\ UNCHANGED <<serverVars, wire, init_state, state_mutex, tableVars, loop, lookup,
                 early, fault>>

Waited == {o \in bound_proxies \cap Nodes : o \notin info}

\* wait_for_nodes_init holds both mutexes and spins.
WaitForNodesInit ==
  /\ Waited = {}
  /\ ClientMoves("spinning", "finding")
  /\ UNCHANGED <<serverVars, wire, init_state, state_mutex, tableVars, loop,
                 nodes_mutex, lookup, found, early, fault>>

\* The name that is looked up is the default, or any; nodes have names, no two
\* the same, and the empty string is none of them.
Wanted == IF lookup = "default" THEN {default_name} ELSE Nodes

\* The loops over bound_proxies.
FindNode ==
  /\ ClientMoves("finding", "unlocking")
  /\ \E n \in Wanted :
       found' = IF n \in bound_proxies /\ (n \in info \/ lookup = "enumerate")
                  THEN n ELSE NoObject
  /\ nodes_mutex' = NoObject
  /\ UNCHANGED <<serverVars, wire, init_state, state_mutex, tableVars, loop, lookup,
                 early, fault>>

ClientUnlocks ==
  /\ ClientMoves("unlocking", "ready")
  /\ lookup' = "none"
  /\ found' = NoObject
  /\ IF init_state = "Running"
       THEN /\ fault' = IF state_mutex = "client" THEN "none" ELSE "unlock"
            /\ state_mutex' = "free"
       ELSE UNCHANGED <<fault, state_mutex>>
  /\ UNCHANGED <<serverVars, wire, init_state, tableVars, loop, nodes_mutex, early>>

Client ==
  \/ CreateHelper \/ WaitForRoundtrip
  \/ ClientLocks \/ GetDefaultNode \/ WaitForNodesInit \/ FindNode \/ ClientUnlocks

\* Two threads in the table, or in the properties of a node, at a time.
Collide(what) ==
  /\ \/ what = "table" /\ client \in Iterating /\ loop = "changing"
     \/ what = "torn" /\ client = "finding" /\ lookup # "enumerate"
          /\ loop = "updating" /\ Subject \in info
  /\ fault' = what
  /\ UNCHANGED <<serverVars, wire, init_state, state_mutex, tableVars, loop, clientVars>>

-----------------------------------------------------------------------------
Server == \E o \in Objects : Appear(o) \/ Announce(o) \/ Disappear(o) \/ Describe(o) \/ Change(o)

Step ==
  \/ Server \/ Done \/ Loop \/ Client
  \/ \E what \in Lookups : LookUp(what)
  \/ \E what \in {"table", "torn"} : Collide(what)

Halted == fault # "none" /\ UNCHANGED vars

Next == (fault = "none" /\ Step) \/ Halted

Spec == Init /\ [][Next]_vars

\* Both threads are scheduled and the server answers what it is asked.
FairSpec ==
  /\ Spec
  /\ WF_vars(fault = "none" /\ Loop)
  /\ WF_vars(fault = "none" /\ Client)
  /\ WF_vars(fault = "none" /\ Done)
  /\ \A o \in Objects : WF_vars(fault = "none" /\ Describe(o))

-----------------------------------------------------------------------------
(* Properties.                                                             *)

\* The two reads of init_state in one lookup differ only if it began before the
\* round trip was done: any later lookup has the table for itself and gives
\* back the mutex that it took.
OnlyEarlyLookupsFault == fault \in {"unlock", "table"} => early

\* What a lookup returns is in the table as long as the lookup holds the mutex.
FoundIsBound ==
  client = "unlocking" /\ ~early /\ found # NoObject => found \in bound_proxies

\* default_nodes never points to an object that has been removed.
DefaultIsBound == default_nodes # NoObject => default_nodes \in bound_proxies

InLookup == {"locking", "locked", "spinning", "finding", "unlocking"}

\* The loop thread waits for a mutex of the client's.
LoopBlocked ==
  \/ (Handles("global") \/ Handles("remove")) /\ state_mutex = "client"
  \/ Handles("property") /\ nodes_mutex = Subject

\* A lookup by name and an enumeration return.
PlainLookupReturns ==
  (client \in InLookup /\ lookup # "default") ~> (client = "ready" \/ fault # "none")

\* wait_for_nodes_init ends, unless a handler on which it waits waits for it.
SpinEndsOrBlocks == (client = "spinning") ~> (client # "spinning" \/ LoopBlocked \/ fault # "none")

-----------------------------------------------------------------------------
(* What a comment says and the code does not do.                           *)

\* "Make sure to get all registered nodes before the client asks for them."
NodesKnownFirst ==
  client \notin {"creating", "waiting"} => first \cap Registered \subseteq bound_proxies
=============================================================================
