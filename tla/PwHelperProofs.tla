--------------------------- MODULE PwHelperProofs ---------------------------
(***************************************************************************)
(* Helper::lock and Helper::unlock read init_state each for itself, and    *)
(* still exclude each other for every lookup that begins after the round   *)
(* trip: the state becomes Running once, in a handler of the loop thread,  *)
(* which is in no other handler at that time.  Proved for every set of     *)
(* nodes and metadata objects that come, change and go at any time.        *)
(***************************************************************************)
EXTENDS PwHelper, TLAPS

Holding == {"locked", "spinning", "finding", "unlocking"}

\* A handler in progress is that of the first message.
WireInv ==
  /\ loop = "changing" => wire # <<>> /\ Head(wire).type \in {"global", "remove"}
  /\ loop = "updating" => wire # <<>> /\ Head(wire).type = "info"

\* Who has the mutex.  A lookup that began early may or may not.
MutexInv ==
  fault = "none" =>
    /\ state_mutex = "client" => client \in Holding /\ init_state = "Running"
    /\ client \in Holding /\ ~early => init_state = "Running" /\ state_mutex = "client"
    /\ loop = "changing" => init_state # "Running" \/ state_mutex = "loop"

HelperInv ==
  TypeOK /\ WireInv /\ MutexInv /\ OnlyEarlyLookupsFault /\ FoundIsBound /\ DefaultIsBound

-----------------------------------------------------------------------------
(* The wire.                                                               *)

\* A message that is sent leaves the first message of a handler in progress.
LEMMA SendLemma ==
  ASSUME TypeOK, WireInv, NEW m \in Messages, wire' = Append(wire, m), UNCHANGED loop
  PROVE  wire' \in Seq(Messages) /\ WireInv'
<1>1. wire' \in Seq(Messages)
  BY DEF TypeOK
<1>2. wire # <<>> => wire' # <<>> /\ Head(wire') = Head(wire)
  BY DEF TypeOK
<1> QED BY <1>1, <1>2 DEF WireInv

\* A message that has been handled is taken away.
LEMMA HandledLemma ==
  ASSUME TypeOK, wire # <<>>, Handled
  PROVE  wire' \in Seq(Messages) /\ loop' \in {"idle"} /\ WireInv'
<1>1. wire' \in Seq(Messages)
  BY DEF TypeOK, Handled
<1> QED BY <1>1 DEF Handled, WireInv

\* What the first message is about.
LEMMA SubjectLemma ==
  ASSUME TypeOK, wire # <<>>
  PROVE  /\ Head(wire).type \in {"global", "remove"} => Subject \in Objects
         /\ Head(wire).type = "info" => Subject \in Nodes
         /\ Head(wire).type = "property" => Subject \in Metadata
<1>1. Head(wire) \in Messages
  BY DEF TypeOK
<1> QED BY <1>1 DEF Messages, Subject

-----------------------------------------------------------------------------
(* The steps.                                                              *)

\* The server touches nothing of the helper's.
LEMMA ServerStep ==
  ASSUME HelperInv, Server \/ Done
  PROVE  HelperInv'
<1>1. TypeOK /\ WireInv
  BY DEF HelperInv
<1>2. UNCHANGED <<init_state, state_mutex, tableVars, loop, clientVars, fault>>
  BY DEF Server, Done, Appear, Announce, Disappear, Describe, Change
<1>3. /\ server' \in [Objects -> {"absent", "registered", "gone"}]
      /\ first' \subseteq Objects /\ announced' \subseteq Objects /\ asked' \subseteq Objects
  BY <1>1 DEF Server, Done, Appear, Announce, Disappear, Describe, Change, TypeOK, serverVars
<1>4. wire' \in Seq(Messages) /\ WireInv'
  <2>1. CASE UNCHANGED wire
    BY <1>1, <1>2, <2>1 DEF TypeOK, WireInv
  <2>2. CASE Done
    <3>1. Message("done", NoObject) \in Messages
      BY DEF Message, Messages
    <3> QED BY <1>1, <1>2, <2>2, <3>1, SendLemma DEF Done, Sends
  <2>3. CASE \E o \in Objects : Announce(o)
    <3>1. \A o \in Objects : Message("global", o) \in Messages
      BY DEF Message, Messages
    <3> QED BY <1>1, <1>2, <2>3, <3>1, SendLemma DEF Announce, Sends
  <2>4. CASE \E o \in Objects : Disappear(o)
    <3>1. \A o \in Objects : Message("remove", o) \in Messages
      BY DEF Message, Messages
    <3> QED BY <1>1, <1>2, <2>1, <2>4, <3>1, SendLemma DEF Disappear, Sends
  <2>5. CASE \E o \in Objects : Describe(o) \/ Change(o)
    <3>1. \A o \in Objects : Message(IF o \in Nodes THEN "info" ELSE "property", o) \in Messages
      BY DEF Message, Messages, Objects
    <3> QED BY <1>1, <1>2, <2>5, <3>1, SendLemma DEF Describe, Change, Sends
  <2>6. CASE \E o \in Objects : Appear(o)
    BY <2>1, <2>6 DEF Appear
  <2> QED BY <2>2, <2>3, <2>4, <2>5, <2>6 DEF Server
<1>5. TypeOK'
  BY <1>1, <1>2, <1>3, <1>4 DEF TypeOK, tableVars, clientVars
<1> QED
  BY <1>2, <1>4, <1>5 DEF HelperInv, MutexInv, OnlyEarlyLookupsFault, FoundIsBound,
     DefaultIsBound, tableVars, clientVars

\* A handler changes the table only while no lookup reads it, or an early one.
LEMMA LoopStep ==
  ASSUME HelperInv, fault = "none", Loop
  PROVE  HelperInv'
<1> USE DEF HelperInv
<1>1. fault' = "none" /\ UNCHANGED <<clientVars, server, first, announced>>
  BY DEF Loop, RoundtripHandler, RegistryEnter, RegistryGlobal, RegistryGlobalRemove,
     NodeInfoEnter, NodeInfo, DefaultNodesProperty, serverVars
<1>2. CASE RoundtripHandler
  <2>1. wire' \in Seq(Messages) /\ loop' = "idle" /\ WireInv'
    BY <1>2, HandledLemma DEF RoundtripHandler, Handles
  <2>2. TypeOK'
    BY <1>1, <1>2, <2>1 DEF RoundtripHandler, TypeOK, serverVars, tableVars, clientVars
  <2> QED
    BY <1>1, <1>2, <2>1, <2>2 DEF RoundtripHandler, MutexInv, OnlyEarlyLookupsFault,
       FoundIsBound, DefaultIsBound, tableVars, clientVars
<1>3. CASE RegistryEnter
  <2>1. wire # <<>> /\ Head(wire).type \in {"global", "remove"} /\ loop = "idle"
    BY <1>3 DEF RegistryEnter, Handles
  <2>2. TypeOK'
    BY <1>1, <1>3 DEF RegistryEnter, LoopLocks, TypeOK, serverVars, tableVars, clientVars
  <2>3. MutexInv'
    BY <1>1, <1>3 DEF RegistryEnter, LoopLocks, MutexInv, clientVars
  <2> QED
    BY <1>1, <1>3, <2>1, <2>2, <2>3 DEF RegistryEnter, WireInv, OnlyEarlyLookupsFault,
       FoundIsBound, DefaultIsBound, tableVars, clientVars
<1>4. CASE RegistryGlobal \/ RegistryGlobalRemove
  <2>1. wire # <<>> /\ Subject \in Objects
    BY <1>4, SubjectLemma DEF RegistryGlobal, RegistryGlobalRemove, WireInv
  <2>2. wire' \in Seq(Messages) /\ loop' = "idle" /\ WireInv'
    BY <1>4, <2>1, HandledLemma DEF RegistryGlobal, RegistryGlobalRemove
  <2>3. TypeOK'
    <3>1. CASE RegistryGlobal
      BY <1>1, <2>1, <2>2, <3>1
         DEF RegistryGlobal, LoopUnlocks, TypeOK, serverVars, clientVars, Registered
    <3>2. CASE RegistryGlobalRemove
      BY <1>1, <2>1, <2>2, <3>2
         DEF RegistryGlobalRemove, LoopUnlocks, TypeOK, serverVars, clientVars
    <3> QED BY <1>4, <3>1, <3>2
  <2>4. init_state # "Running" \/ state_mutex = "loop"
    BY <1>4, fault = "none" DEF RegistryGlobal, RegistryGlobalRemove, MutexInv
  <2>5. client \in Holding => early
    BY <2>4, fault = "none" DEF MutexInv
  <2>6. MutexInv'
    BY <1>1, <1>4, <2>2, <2>4, <2>5
       DEF RegistryGlobal, RegistryGlobalRemove, LoopUnlocks, MutexInv, clientVars
  <2>7. DefaultIsBound'
    BY <1>4 DEF RegistryGlobal, RegistryGlobalRemove, DefaultIsBound
  <2> QED
    BY <1>1, <2>2, <2>3, <2>5, <2>6, <2>7
       DEF OnlyEarlyLookupsFault, FoundIsBound, Holding, clientVars
<1>5. CASE NodeInfoEnter
  <2>1. wire # <<>> /\ Head(wire).type = "info" /\ loop = "idle"
    BY <1>5 DEF NodeInfoEnter, Handles
  <2>2. TypeOK'
    BY <1>1, <1>5 DEF NodeInfoEnter, TypeOK, serverVars, tableVars, clientVars
  <2> QED
    BY <1>1, <1>5, <2>1, <2>2 DEF NodeInfoEnter, WireInv, MutexInv, OnlyEarlyLookupsFault,
       FoundIsBound, DefaultIsBound, tableVars, clientVars
<1>6. CASE NodeInfo
  <2>1. wire # <<>> /\ Subject \in Nodes
    BY <1>6, SubjectLemma DEF NodeInfo, WireInv
  <2>2. wire' \in Seq(Messages) /\ loop' = "idle" /\ WireInv'
    BY <1>6, <2>1, HandledLemma DEF NodeInfo
  <2>3. TypeOK'
    BY <1>1, <1>6, <2>1, <2>2 DEF NodeInfo, TypeOK, serverVars, clientVars
  <2> QED
    BY <1>1, <1>6, <2>2, <2>3 DEF NodeInfo, MutexInv, OnlyEarlyLookupsFault,
       FoundIsBound, DefaultIsBound, clientVars
<1>7. CASE DefaultNodesProperty
  <2>1. wire' \in Seq(Messages) /\ loop' = "idle" /\ WireInv'
    BY <1>7, HandledLemma DEF DefaultNodesProperty, Handles
  <2>2. TypeOK'
    BY <1>1, <1>7, <2>1 DEF DefaultNodesProperty, TypeOK, serverVars, clientVars
  <2> QED
    BY <1>1, <1>7, <2>1, <2>2 DEF DefaultNodesProperty, MutexInv, OnlyEarlyLookupsFault,
       FoundIsBound, DefaultIsBound, clientVars
<1> QED BY <1>2, <1>3, <1>4, <1>5, <1>6, <1>7 DEF Loop

\* A lookup that began after the round trip unlocks the mutex it has locked.
LEMMA ClientStep ==
  ASSUME HelperInv, fault = "none", Client \/ (\E what \in Lookups : LookUp(what))
  PROVE  HelperInv'
<1> USE DEF HelperInv
<1>1. UNCHANGED <<server, announced, asked, wire, tableVars, loop>>
  BY DEF Client, LookUp, CreateHelper, WaitForRoundtrip, ClientLocks, GetDefaultNode,
     WaitForNodesInit, FindNode, ClientUnlocks, serverVars
<1>2. WireInv' /\ DefaultIsBound'
  BY <1>1 DEF WireInv, DefaultIsBound, tableVars
<1>3. CASE CreateHelper \/ WaitForRoundtrip \/ (\E what \in Lookups : LookUp(what))
  <2>1. TypeOK'
    BY <1>1, <1>3 DEF CreateHelper, WaitForRoundtrip, LookUp, ClientMoves, TypeOK,
       ClientPoints, Registered, serverVars, tableVars
  <2>2. MutexInv'
    BY <1>1, <1>3 DEF CreateHelper, WaitForRoundtrip, LookUp, ClientMoves, MutexInv, Holding
  <2> QED
    BY <1>1, <1>2, <1>3, <2>1, <2>2 DEF CreateHelper, WaitForRoundtrip, LookUp, ClientMoves,
       OnlyEarlyLookupsFault, FoundIsBound
<1>4. CASE ClientLocks
  <2>1. TypeOK'
    BY <1>1, <1>4 DEF ClientLocks, ClientMoves, TypeOK, ClientPoints, serverVars, tableVars
  <2>2. MutexInv'
    BY <1>1, <1>4 DEF ClientLocks, ClientMoves, MutexInv, Holding
  <2> QED
    BY <1>1, <1>2, <1>4, <2>1, <2>2 DEF ClientLocks, ClientMoves, OnlyEarlyLookupsFault,
       FoundIsBound
<1>5. CASE GetDefaultNode \/ WaitForNodesInit
  <2>1. TypeOK'
    BY <1>1, <1>5 DEF GetDefaultNode, WaitForNodesInit, ClientMoves, TypeOK, ClientPoints,
       serverVars, tableVars
  <2>2. MutexInv'
    BY <1>1, <1>5 DEF GetDefaultNode, WaitForNodesInit, ClientMoves, MutexInv, Holding
  <2> QED
    BY <1>1, <1>2, <1>5, <2>1, <2>2 DEF GetDefaultNode, WaitForNodesInit, ClientMoves,
       OnlyEarlyLookupsFault, FoundIsBound
<1>6. CASE FindNode
  <2>1. found' \in Nodes \cup {NoObject} /\ (found' # NoObject => found' \in bound_proxies)
    BY <1>6 DEF FindNode, Wanted, TypeOK
  <2>2. TypeOK'
    BY <1>1, <1>6, <2>1 DEF FindNode, ClientMoves, TypeOK, ClientPoints, serverVars, tableVars
  <2>3. MutexInv'
    BY <1>1, <1>6 DEF FindNode, ClientMoves, MutexInv, Holding
  <2> QED
    BY <1>1, <1>2, <1>6, <2>1, <2>2, <2>3 DEF FindNode, ClientMoves, OnlyEarlyLookupsFault,
       FoundIsBound, tableVars
<1>7. CASE ClientUnlocks
  <2>1. fault' # "none" => early
    BY <1>7, fault = "none" DEF ClientUnlocks, ClientMoves, MutexInv, Holding
  <2>2. TypeOK'
    BY <1>1, <1>7 DEF ClientUnlocks, ClientMoves, TypeOK, ClientPoints, serverVars, tableVars
  <2>3. MutexInv'
    BY <1>1, <1>7, fault = "none" DEF ClientUnlocks, ClientMoves, MutexInv, Holding
  <2> QED
    BY <1>1, <1>2, <1>7, <2>1, <2>2, <2>3 DEF ClientUnlocks, ClientMoves,
       OnlyEarlyLookupsFault, FoundIsBound
<1> QED BY <1>3, <1>4, <1>5, <1>6, <1>7 DEF Client

\* A lookup that began after the round trip meets no handler in the table.
LEMMA CollideStep ==
  ASSUME HelperInv, fault = "none", NEW what \in {"table", "torn"}, Collide(what)
  PROVE  HelperInv'
<1> USE DEF HelperInv
<1>1. what = "table" => early
  BY fault = "none" DEF Collide, MutexInv, Iterating, Holding
<1>2. TypeOK'
  BY DEF Collide, TypeOK, serverVars, tableVars, clientVars
<1> QED
  BY <1>1, <1>2 DEF Collide, WireInv, MutexInv, OnlyEarlyLookupsFault, FoundIsBound,
     DefaultIsBound, tableVars, clientVars

-----------------------------------------------------------------------------
(* The theorems.                                                           *)

\* The inductive invariant of the helper.
THEOREM HelperInvariant == Spec => []HelperInv
<1>1. Init => HelperInv
  <2> SUFFICES ASSUME Init PROVE HelperInv
    OBVIOUS
  <2>1. wire \in Seq(Messages)
    BY DEF Init
  <2>2. TypeOK
    BY <2>1 DEF Init, TypeOK, ClientPoints
  <2> QED
    BY <2>2 DEF Init, HelperInv, WireInv, MutexInv, OnlyEarlyLookupsFault, FoundIsBound,
       DefaultIsBound, Holding
<1>2. HelperInv /\ [Next]_vars => HelperInv'
  <2> SUFFICES ASSUME HelperInv, [Next]_vars PROVE HelperInv'
    OBVIOUS
  <2>1. CASE UNCHANGED vars
    BY <2>1 DEF HelperInv, TypeOK, WireInv, MutexInv, OnlyEarlyLookupsFault, FoundIsBound,
       DefaultIsBound, vars, serverVars, tableVars, clientVars
  <2>2. CASE fault = "none" /\ Step
    BY <2>2, ServerStep, LoopStep, ClientStep, CollideStep DEF Step
  <2> QED BY <2>1, <2>2 DEF Next, Halted
<1> QED BY <1>1, <1>2, PTL DEF Spec

\* A lookup that begins after the round trip has the table to itself and gives
\* back the mutex that it took, whatever devices do in the meantime.
THEOREM LateLookupsAreExclusive == Spec => []OnlyEarlyLookupsFault
<1>1. HelperInv => OnlyEarlyLookupsFault
  BY DEF HelperInv
<1> QED BY <1>1, HelperInvariant, PTL

\* What such a lookup has found stays in the table until it lets the mutex go,
\* and default_nodes always points into the table.
THEOREM PointersAreBound == Spec => [](FoundIsBound /\ DefaultIsBound)
<1>1. HelperInv => FoundIsBound /\ DefaultIsBound
  BY DEF HelperInv
<1> QED BY <1>1, HelperInvariant, PTL

\* Every variable of the helper keeps its type, for all nodes and metadata objects.
THEOREM TypesCorrect == Spec => []TypeOK
<1>1. HelperInv => TypeOK
  BY DEF HelperInv
<1> QED BY <1>1, HelperInvariant, PTL
=============================================================================
