------------------------- MODULE DriverMethodsProofs -------------------------
(***************************************************************************)
(* What one driver object keeps for every number of channels, every set of *)
(* sizes, durations and rates, and every failure: types, accesses within   *)
(* the array of channels and copies within the buffers as long as the      *)
(* panel leaves the channel numbers alone, and the protocol of the host as *)
(* long as CreateBuffers does not fail half-way.  For a careful user and   *)
(* host: no fault, silence at Start, and every prepared channel served.    *)
(***************************************************************************)
EXTENDS DriverMethods, FiniteSetTheorems, TLAPS

-----------------------------------------------------------------------------
(* Requests and slots.                                                     *)

\* A host asks for channels among those that GetChannels reports.
LEMMA RequestLemma ==
  ASSUME TypeOK, NEW c \in Requests
  PROVE  /\ c = [inputs |-> c.inputs, outputs |-> c.outputs]
         /\ c.inputs \subseteq 0 .. wineasio_number.inputs - 1
         /\ c.outputs \subseteq 0 .. wineasio_number.outputs - 1
         /\ c.inputs # {} \/ c.outputs # {}
<1>1. wineasio_number.inputs \in Int /\ wineasio_number.outputs \in Int
  BY MethodsAssumption DEF TypeOK, Numbers, NoChannels
<1>2. CASE c \in [inputs : SUBSET First(wineasio_number).inputs,
                  outputs : SUBSET First(wineasio_number).outputs]
  BY <1>2 DEF Requests, First
<1>3. CASE c \in {First(n) : n \in [inputs : 0 .. wineasio_number.inputs,
                                    outputs : 0 .. wineasio_number.outputs]}
  <2>1. PICK n \in [inputs : 0 .. wineasio_number.inputs,
                    outputs : 0 .. wineasio_number.outputs] : c = First(n)
    BY <1>3
  <2>2. n.inputs \in 0 .. wineasio_number.inputs /\ n.outputs \in 0 .. wineasio_number.outputs
    OBVIOUS
  <2>3. c = [inputs |-> 0 .. n.inputs - 1, outputs |-> 0 .. n.outputs - 1]
    BY <2>1 DEF First
  <2>4. /\ 0 .. n.inputs - 1 \subseteq 0 .. wineasio_number.inputs - 1
        /\ 0 .. n.outputs - 1 \subseteq 0 .. wineasio_number.outputs - 1
    BY <1>1, <2>2
  <2> QED BY <2>3, <2>4 DEF Requests
<1> QED BY <1>2, <1>3 DEF Requests

\* The counts of a request fit the configured numbers.
LEMMA CountLemma ==
  ASSUME TypeOK, NEW c \in Requests
  PROVE  /\ Cardinality(c.inputs) \in 0 .. wineasio_number.inputs
         /\ Cardinality(c.outputs) \in 0 .. wineasio_number.outputs
<1>1. wineasio_number.inputs \in Nat /\ wineasio_number.outputs \in Nat
  BY MethodsAssumption DEF TypeOK, Numbers, NoChannels
<1>2. ASSUME NEW n \in Nat, NEW S \in SUBSET (0 .. n - 1)
      PROVE  Cardinality(S) \in 0 .. n
  <2>1. IsFiniteSet(0 .. n - 1) /\ Cardinality(0 .. n - 1) = n
    BY FS_Interval
  <2>2. IsFiniteSet(S) /\ Cardinality(S) <= n
    BY <2>1, FS_Subset
  <2> QED BY <2>2, FS_CardinalityType
<1> QED BY <1>1, <1>2, RequestLemma

\* What the panel confirms.
LEMMA ConfirmLemma ==
  ASSUME TypeOK, Confirm
  PROVE  \E size \in Sizes \cup {0}, rate \in Rates \cup {0}, number \in Numbers \cup {NoChannels} :
           /\ GuiApplyConfig(size, rate, number)
           /\ "channels" \notin Panel => number = wineasio_number
BY DEF Confirm, TypeOK

-----------------------------------------------------------------------------
(* Types.                                                                  *)

\* The counts of a driver without buffers, and what an access and a request do.
LEMMA TypesLemma ==
  /\ NoChannels \in [inputs : 0 .. MaxChannels, outputs : 0 .. MaxChannels]
  /\ \A S : Access(S) \in {"none", "dangling", "bounds"}
  /\ \A c : ClaimFault(c) \in {"none", "dangling", "bounds", "zero"}
<1>1. 0 \in 0 .. MaxChannels
  BY MethodsAssumption
<1>2. \A S : Access(S) \in {"none", "dangling", "bounds"}
  BY DEF Access
<1>3. \A c : ClaimFault(c) \in {"none", "dangling", "bounds", "zero"}
  BY <1>2 DEF ClaimFault, ConnectFault
<1> QED BY <1>1, <1>2, <1>3 DEF NoChannels

\* Every method keeps the types.
LEMMA TypeMethod ==
  ASSUME TypeOK, Method
  PROVE  TypeOK'
<1> USE DEF TypeOK, DriverStates, Faults
<1>1. CASE CreateInstance
  <2>1. /\ [s \in Slots |-> FALSE] \in [Slots -> BOOLEAN]
        /\ [s \in Slots |-> 0] \in [Slots -> Sizes \cup {0}]
    OBVIOUS
  <2>2. /\ active' \in [Slots -> BOOLEAN]
        /\ buffer_size' \in [Slots -> Sizes \cup {0}]
        /\ wine_buffers' \in [Slots -> BOOLEAN]
    BY <1>1, <2>1, Zenon DEF CreateInstance
  <2>3. ref' \in 0 .. 2
    BY <1>1 DEF CreateInstance
  <2>4. asio_active' \in [inputs : 0 .. MaxChannels, outputs : 0 .. MaxChannels]
    BY <1>1, TypesLemma, Zenon DEF CreateInstance
  <2> QED
    BY <1>1, <2>2, <2>3, <2>4 DEF CreateInstance, panelVars
<1>2. CASE InitDriver
  BY <1>2 DEF InitDriver, Configure, InitPorts, streamVars
<1>3. CASE InitFails
  BY <1>3 DEF InitFails, Configure, streamVars, channelVars, panelVars
<1>4. CASE AddRef
  BY <1>4 DEF AddRef, streamVars, channelVars, configVars, panelVars
<1>5. CASE Release
  <2>1. Access(Configured) \in Faults
    BY TypesLemma
  <2>2. [s \in Slots |-> active[s] /\ s \notin Configured] \in [Slots -> BOOLEAN]
    OBVIOUS
  <2> QED
    <3>1. CASE asio_driver_state = "Initialized"
      <4>1. ref' \in 0 .. 2
        BY <1>5 DEF Release
      <4>2. asio_active' \in [inputs : 0 .. MaxChannels, outputs : 0 .. MaxChannels]
        BY <1>5, <3>1, TypesLemma, Zenon DEF Release
      <4>3. active' \in [Slots -> BOOLEAN]
        BY <1>5, <2>2, <3>1, Zenon DEF Release
      <4> QED
        BY <1>5, <2>1, <3>1, <4>1, <4>2, <4>3
           DEF Release, streamVars, configVars, panelVars
    <3>2. CASE asio_driver_state # "Initialized"
      BY <1>5, <3>2 DEF Release, streamVars, configVars, panelVars
    <3> QED BY <3>1, <3>2
<1>6. CASE SetSampleRate
  BY <1>6 DEF SetSampleRate, objectVars, streamVars, channelVars, panelVars
<1>7. ASSUME NEW c \in Requests, CreateBuffersStops(c)
      PROVE  TypeOK'
  <2>1. ClaimFault(c) \in Faults
    BY TypesLemma
  <2>2. asio_active' \in [inputs : 0 .. MaxChannels, outputs : 0 .. MaxChannels]
    BY <1>7, CountLemma, MethodsAssumption
       DEF CreateBuffersStops, Claims, Numbers, NoChannels
  <2> QED
    BY <1>7, <2>1, <2>2 DEF CreateBuffersStops, Claims, objectVars, configVars, panelVars
<1>8. ASSUME NEW c \in Requests, NEW size \in RequestedSizes,
             CreateBuffers(c, size) \/ CreateBuffersKeeps(c, size)
      PROVE  TypeOK'
  <2>1. ClaimFault(c) \in Faults
    BY TypesLemma
  <2>2. Claims(c)
    BY <1>8 DEF CreateBuffers, CreateBuffersKeeps
  <2>3. asio_active' \in [inputs : 0 .. MaxChannels, outputs : 0 .. MaxChannels]
    BY <2>2, CountLemma, MethodsAssumption DEF Claims, Numbers, NoChannels
  <2>4. size \in Sizes \cup {0}
    BY DEF RequestedSizes
  <2>5. PICK S : Allocates(S, size)
    BY <1>8 DEF CreateBuffers, CreateBuffersKeeps
  <2>6. /\ buffer_size' \in [Slots -> Sizes \cup {0}]
        /\ wine_buffers' \in [Slots -> BOOLEAN]
        /\ dirty' \subseteq Slots
    BY <2>4, <2>5 DEF Allocates
  <2> QED
    BY <1>8, <2>1, <2>2, <2>3, <2>6
       DEF CreateBuffers, CreateBuffersKeeps, Claims, objectVars, configVars, panelVars
<1>9. CASE Start \/ Stop
  BY <1>9 DEF Start, Stop, ClearsAndSwitches, Access, streamVars, channelVars, configVars,
     panelVars
<1>10. CASE DisposeBuffers
  <2>1. Access(Configured) \in Faults
    BY TypesLemma
  <2>2. /\ [s \in Slots |-> active[s] /\ s \notin Configured] \in [Slots -> BOOLEAN]
        /\ [s \in Slots |-> wine_buffers[s] /\ s \notin Configured] \in [Slots -> BOOLEAN]
    OBVIOUS
  <2> QED
    BY <1>10, <2>1, <2>2, TypesLemma DEF DisposeBuffers, configVars, panelVars
<1> QED
  BY <1>1, <1>2, <1>3, <1>4, <1>5, <1>6, <1>7, <1>8, <1>9, <1>10 DEF Method

\* So do the process callback and the panel.
LEMMA TypeOthers ==
  ASSUME TypeOK, Process \/ PanelStep
  PROVE  TypeOK'
<1> USE DEF TypeOK, DriverStates, Faults
<1>1. CASE ProcessSilent
  BY <1>1 DEF ProcessSilent, Access, objectVars, streamVars, channelVars, configVars, panelVars
<1>2. ASSUME NEW duration \in Durations, ProcessRunning(duration)
      PROVE  TypeOK'
  BY <1>2 DEF ProcessRunning, Access, Copied, Prepared, objectVars, streamVars, channelVars,
     configVars, panelVars
<1>3. CASE ControlPanel \/ GuiClosed \/ PanelReturns
  BY <1>3, ZenonT(60)
     DEF ControlPanel, GuiClosed, PanelReturns, objectVars, streamVars, channelVars, configVars
<1>4. CASE Confirm
  <2>1. PICK size \in Sizes \cup {0}, rate \in Rates \cup {0}, number \in Numbers \cup {NoChannels} :
          GuiApplyConfig(size, rate, number)
    BY <1>4, ConfirmLemma
  <2> QED
    BY <2>1, ZenonT(60) DEF GuiApplyConfig, Reconnects, ConnectFault, objectVars, channelVars
<1> QED BY <1>1, <1>2, <1>3, <1>4 DEF Process, PanelStep

\* A driver starts with these types.
LEMMA InitTypes ==
  ASSUME Init
  PROVE  TypeOK
<1>1. /\ active \in [Slots -> BOOLEAN]
      /\ buffer_size \in [Slots -> Sizes \cup {0}]
      /\ wine_buffers \in [Slots -> BOOLEAN]
  BY DEF Init
<1>2. asio_active \in [inputs : 0 .. MaxChannels, outputs : 0 .. MaxChannels]
  BY TypesLemma, Zenon DEF Init
<1>3. ref \in 0 .. 2
  BY DEF Init
<1>4. /\ asio_callbacks \in BOOLEAN /\ gui \in BOOLEAN
      /\ asio_driver_state \in DriverStates /\ fault \in Faults
      /\ pw_filter \in {"none", "present", "connected"}
      /\ input_channel \in {"none", "live", "freed"}
      /\ panel \in {"closed", "open", "decided"}
  BY DEF Init, DriverStates, Faults
<1> QED BY <1>1, <1>2, <1>3, <1>4 DEF Init, TypeOK

\* Every variable of a driver keeps its type.
THEOREM TypesCorrect == Spec => []TypeOK
<1>1. Init => TypeOK
  BY InitTypes
<1>2. TypeOK /\ [Next]_vars => TypeOK'
  <2> SUFFICES ASSUME TypeOK, [Next]_vars PROVE TypeOK'
    OBVIOUS
  <2>1. CASE UNCHANGED vars
    BY <2>1 DEF TypeOK, vars, objectVars, streamVars, channelVars, configVars, panelVars
  <2> QED BY <2>1, TypeMethod, TypeOthers DEF Next, Halted
<1> QED BY <1>1, <1>2, PTL DEF Spec

-----------------------------------------------------------------------------
(* Accesses and copies within bounds.  The loops over the configured       *)
(* numbers of channels are as long as the array, and those of the process  *)
(* callback no longer: wineasio_number changes with the array only, and    *)
(* the counts of active channels are those of a request made after it.     *)

\* What a driver keeps whose panel leaves the numbers of channels alone.
ArrayMatches ==
  /\ asio_driver_state \in {"raw", "Loaded"} =>
       input_channel = "none" /\ asio_active = NoChannels
  /\ input_channel = "live" =>
       /\ wineasio_number = allocated
       /\ asio_active.inputs <= allocated.inputs
       /\ asio_active.outputs <= allocated.outputs

HasFilter == asio_driver_state \in {"Prepared", "Running"} => pw_filter # "none"

BoundsInv == TypeOK /\ ArrayMatches /\ HasFilter /\ AccessesInBounds

\* Channels below the allocated numbers are in the array.
LEMMA AccessLemma ==
  ASSUME TypeOK, NEW I, NEW O,
         input_channel = "live" =>
           I \subseteq 0 .. allocated.inputs - 1 /\ O \subseteq 0 .. allocated.outputs - 1
  PROVE  /\ Access({InputSlot(i) : i \in I} \cup {OutputSlot(i) : i \in O}) # "bounds"
         /\ Access({OutputSlot(i) : i \in O}) # "bounds"
<1>1. allocated.inputs \in Nat /\ allocated.outputs \in Nat
  BY MethodsAssumption DEF TypeOK, Numbers, NoChannels
<1>2. CASE input_channel = "live"
  <2>1. {InputSlot(i) : i \in I} \cup {OutputSlot(i) : i \in O}
          \subseteq 0 .. allocated.inputs + allocated.outputs - 1
    BY <1>1, <1>2 DEF InputSlot, OutputSlot
  <2> QED BY <2>1 DEF Access
<1>3. CASE input_channel # "live"
  BY <1>3 DEF Access
<1> QED BY <1>2, <1>3

\* So are the configured channels, the requested and the active ones.
LEMMA LoopsLemma ==
  ASSUME TypeOK, ArrayMatches
  PROVE  /\ Access(Configured) # "bounds"
         /\ \A c \in Requests : ClaimFault(c) # "bounds"
         /\ Access(InputsVisited \cup OutputsVisited) # "bounds"
         /\ Access(OutputsVisited) # "bounds"
<1>1. /\ allocated.inputs \in Nat /\ allocated.outputs \in Nat
      /\ asio_active.inputs \in Nat /\ asio_active.outputs \in Nat
  BY MethodsAssumption DEF TypeOK, Numbers, NoChannels
<1>2. Access(Configured) # "bounds"
  BY AccessLemma, Zenon DEF Configured, SlotsOf, First, ArrayMatches
<1>3. ASSUME NEW c \in Requests
      PROVE  ClaimFault(c) # "bounds"
  <2>1. Access(SlotsOf(c)) # "bounds"
    BY RequestLemma, AccessLemma DEF SlotsOf, ArrayMatches
  <2> QED BY <2>1 DEF ClaimFault, ConnectFault
<1>4. input_channel = "live" =>
        /\ First(asio_active).inputs \subseteq 0 .. allocated.inputs - 1
        /\ First(asio_active).outputs \subseteq 0 .. allocated.outputs - 1
  BY <1>1 DEF First, ArrayMatches
<1>5. /\ Access(InputsVisited \cup OutputsVisited) # "bounds"
      /\ Access(OutputsVisited) # "bounds"
  BY <1>4, AccessLemma DEF InputsVisited, OutputsVisited
<1> QED BY <1>2, <1>3, <1>5

\* A copy reads and writes within the buffers of channel and port.
LEMMA CopyLemma ==
  ASSUME TypeOK, NEW duration \in Durations
  PROVE  ~Overruns(duration)
<1>1. duration \in Nat /\ asio_current_buffersize \in Nat
  BY MethodsAssumption DEF TypeOK
<1>2. ASSUME NEW s \in Slots, buffer_size[s] >= asio_current_buffersize
      PROVE  /\ ~(InputCopy(duration).read > duration)
             /\ ~(InputCopy(duration).written > buffer_size[s])
             /\ ~(OutputCopy(duration).read > buffer_size[s])
             /\ ~(OutputCopy(duration).written > duration)
  <2>1. buffer_size[s] \in Nat
    <3>1. buffer_size[s] \in Sizes \cup {0}
      BY DEF TypeOK
    <3>2. \A size \in Sizes \cup {0} : size \in Nat
      BY MethodsAssumption
    <3> QED BY <3>1, <3>2
  <2>2. /\ ProcessSamples(duration) <= duration
        /\ ProcessSamples(duration) <= asio_current_buffersize
        /\ ProcessSamples(duration) \in Nat
    BY <1>1 DEF ProcessSamples
  <2> QED BY <1>1, <1>2, <2>1, <2>2 DEF InputCopy, OutputCopy
<1> QED BY <1>2 DEF Overruns, Copied

\* The methods keep the array and the configuration in step.
LEMMA BoundsMethod ==
  ASSUME BoundsInv, Method
  PROVE  ArrayMatches' /\ HasFilter' /\ AccessesInBounds'
<1> USE DEF BoundsInv
<1>0. /\ Access(Configured) \notin {"bounds", "overrun", "filter"}
      /\ \A c \in Requests : ClaimFault(c) \notin {"bounds", "overrun", "filter"}
  BY LoopsLemma, TypesLemma
<1>1. CASE CreateInstance
  BY <1>1 DEF CreateInstance, ArrayMatches, HasFilter, AccessesInBounds
<1>2. CASE InitDriver
  <2>1. wineasio_number'.inputs >= 0 /\ wineasio_number'.outputs >= 0
    BY <1>2, MethodsAssumption DEF InitDriver, Configure, Numbers
  <2>2. asio_active' = NoChannels
    BY <1>2 DEF InitDriver, ArrayMatches
  <2> QED
    BY <1>2, <2>1, <2>2
       DEF InitDriver, InitPorts, NoChannels, ArrayMatches, HasFilter, AccessesInBounds
<1>3. CASE InitFails
  BY <1>3 DEF InitFails, ArrayMatches, HasFilter, AccessesInBounds, streamVars
<1>4. CASE AddRef
  BY <1>4 DEF AddRef, ArrayMatches, HasFilter, AccessesInBounds, streamVars, configVars
<1>5. CASE Release
  BY <1>0, <1>5 DEF Release, ArrayMatches, HasFilter, AccessesInBounds, streamVars, configVars
<1>6. CASE SetSampleRate
  BY <1>6 DEF SetSampleRate, ArrayMatches, HasFilter, AccessesInBounds, objectVars, streamVars
<1>7. ASSUME NEW c \in Requests, Claims(c),
             UNCHANGED <<input_channel, allocated, wineasio_number>>,
             asio_driver_state' \in {"Initialized", "Prepared"}
      PROVE  ArrayMatches'
  <2>1. /\ asio_active'.inputs <= wineasio_number.inputs
        /\ asio_active'.outputs <= wineasio_number.outputs
    <3>1. /\ Cardinality(c.inputs) <= wineasio_number.inputs
          /\ Cardinality(c.outputs) <= wineasio_number.outputs
      BY CountLemma
    <3> QED BY <1>7, <3>1 DEF Claims
  <2> QED BY <1>7, <2>1 DEF ArrayMatches
<1>8. ASSUME NEW c \in Requests, CreateBuffersStops(c)
      PROVE  ArrayMatches' /\ HasFilter' /\ AccessesInBounds'
  BY <1>0, <1>7, <1>8
     DEF CreateBuffersStops, Claims, HasFilter, AccessesInBounds, objectVars, configVars
<1>9. ASSUME NEW c \in Requests, NEW size \in RequestedSizes,
             CreateBuffers(c, size) \/ CreateBuffersKeeps(c, size)
      PROVE  ArrayMatches' /\ HasFilter' /\ AccessesInBounds'
  BY <1>0, <1>7, <1>9
     DEF CreateBuffers, CreateBuffersKeeps, Claims, HasFilter, AccessesInBounds,
         objectVars, configVars
<1>10. CASE Start \/ Stop
  BY <1>0, <1>10 DEF Start, Stop, ClearsAndSwitches, ArrayMatches, HasFilter,
     AccessesInBounds, streamVars, configVars
<1>11. CASE DisposeBuffers
  <2>1. input_channel = "live" => allocated.inputs >= 0 /\ allocated.outputs >= 0
    BY MethodsAssumption DEF TypeOK, Numbers, NoChannels
  <2> QED
    BY <1>0, <1>11, <2>1 DEF DisposeBuffers, ArrayMatches, NoChannels, HasFilter,
       AccessesInBounds, configVars
<1> QED
  BY <1>1, <1>2, <1>3, <1>4, <1>5, <1>6, <1>8, <1>9, <1>10, <1>11 DEF Method

\* So do the process callback and the panel.
LEMMA BoundsOthers ==
  ASSUME "channels" \notin Panel, BoundsInv, Process \/ PanelStep
  PROVE  ArrayMatches' /\ HasFilter' /\ AccessesInBounds'
<1> USE DEF BoundsInv, ArrayMatches, HasFilter, AccessesInBounds
<1>1. CASE ProcessSilent
  <2>1. Access(OutputsVisited) \notin {"bounds", "overrun", "filter"}
    BY LoopsLemma, TypesLemma
  <2> QED
    BY <1>1, <2>1 DEF ProcessSilent, objectVars, streamVars, configVars
<1>2. ASSUME NEW duration \in Durations, ProcessRunning(duration)
      PROVE  ArrayMatches' /\ HasFilter' /\ AccessesInBounds'
  <2>1. Access(InputsVisited \cup OutputsVisited) \notin {"bounds", "overrun", "filter"}
    BY LoopsLemma, TypesLemma
  <2> QED
    BY <1>2, <2>1, CopyLemma DEF ProcessRunning, objectVars, streamVars, configVars
<1>3. CASE ControlPanel \/ GuiClosed \/ PanelReturns
  BY <1>3 DEF ControlPanel, GuiClosed, PanelReturns, objectVars, streamVars, configVars
<1>4. CASE Confirm
  <2>1. PICK size, rate : GuiApplyConfig(size, rate, wineasio_number)
    BY <1>4, ConfirmLemma
  <2> QED
    BY <2>1 DEF GuiApplyConfig, Reconnects, ConnectFault, objectVars
<1> QED BY <1>1, <1>2, <1>3, <1>4 DEF Process, PanelStep

\* Whatever fails, whatever size or rate the panel sets and whichever channels
\* and sizes the host asks for, the loops of asio.c stay within the array of
\* channels, the copies of the process callback within the buffers, and Start
\* and Stop have a filter, unless the panel changes the numbers of channels.
THEOREM BoundsKept ==
  ASSUME "channels" \notin Panel
  PROVE  Spec => []AccessesInBounds
<1>1. Init => BoundsInv
  BY InitTypes DEF Init, BoundsInv, ArrayMatches, HasFilter, AccessesInBounds
<1>2. BoundsInv /\ [Next]_vars => BoundsInv'
  <2> SUFFICES ASSUME BoundsInv, [Next]_vars PROVE BoundsInv'
    OBVIOUS
  <2>1. CASE UNCHANGED vars
    BY <2>1 DEF BoundsInv, TypeOK, ArrayMatches, HasFilter, AccessesInBounds, vars,
       objectVars, streamVars, channelVars, configVars, panelVars
  <2>2. CASE Method
    BY <2>2, TypeMethod, BoundsMethod DEF BoundsInv
  <2>3. CASE Process \/ PanelStep
    BY <2>3, TypeOthers, BoundsOthers DEF BoundsInv
  <2> QED BY <2>1, <2>2, <2>3 DEF Next, Halted
<1>3. BoundsInv => AccessesInBounds
  BY DEF BoundsInv
<1> QED BY <1>1, <1>2, <1>3, PTL DEF Spec

-----------------------------------------------------------------------------
(* The protocol of the host.  Between CreateBuffers and DisposeBuffers the  *)
(* array is live and the prepared channels are configured ones, so that    *)
(* DisposeBuffers finds them all; in every other state there are none.     *)

\* What one driver object keeps whose host takes no second reference.
Lives ==
  /\ ref <= 1
  /\ ref = 0 => asio_driver_state \notin {"Prepared", "Running"}
  /\ ref = 1 /\ asio_driver_state \in {"Initialized", "Prepared", "Running"} =>
       input_channel = "live"
  /\ asio_driver_state # "raw" => asio_current_buffersize \in Sizes

PreparedInArray ==
  /\ asio_driver_state \notin {"Prepared", "Running"} => Prepared = {}
  /\ Prepared \subseteq 0 .. allocated.inputs + allocated.outputs - 1

ProtocolInv == BoundsInv /\ Lives /\ PreparedInArray

\* The numbers of configured and of allocated channels.
LEMMA NumbersLemma ==
  ASSUME TypeOK
  PROVE  /\ wineasio_number.inputs \in 0 .. MaxChannels
         /\ wineasio_number.outputs \in 0 .. MaxChannels
         /\ allocated.inputs \in 0 .. MaxChannels
         /\ allocated.outputs \in 0 .. MaxChannels
         /\ MaxChannels \in Nat
BY MethodsAssumption DEF TypeOK, Numbers, NoChannels

\* A request to a driver that is Initialized is a set of slots of its array.
LEMMA RequestedSlots ==
  ASSUME ProtocolInv, ref > 0, asio_driver_state = "Initialized", NEW c \in Requests
  PROVE  /\ SlotsOf(c) \subseteq 0 .. allocated.inputs + allocated.outputs - 1
         /\ SlotsOf(c) \subseteq Slots
         /\ SlotsOf(c) # {}
<1>1. wineasio_number = allocated
  BY DEF ProtocolInv, BoundsInv, TypeOK, Lives, ArrayMatches
<1>2. TypeOK
  BY DEF ProtocolInv, BoundsInv
<1>3. /\ c.inputs \subseteq 0 .. allocated.inputs - 1
      /\ c.outputs \subseteq 0 .. allocated.outputs - 1
      /\ c.inputs # {} \/ c.outputs # {}
  BY <1>1, <1>2, RequestLemma
<1>4. SlotsOf(c) \subseteq 0 .. allocated.inputs + allocated.outputs - 1
  BY <1>2, <1>3, NumbersLemma DEF SlotsOf, InputSlot, OutputSlot
<1>5. 0 .. allocated.inputs + allocated.outputs - 1 \subseteq Slots
  BY <1>2, NumbersLemma DEF Slots
<1>6. SlotsOf(c) # {}
  BY <1>3 DEF SlotsOf
<1> QED BY <1>4, <1>5, <1>6

\* The loops of DisposeBuffers reach every prepared channel.
LEMMA PreparedConfigured ==
  ASSUME ProtocolInv, ref > 0, asio_driver_state = "Prepared"
  PROVE  Prepared \subseteq Configured
<1>1. wineasio_number = allocated
  BY DEF ProtocolInv, BoundsInv, TypeOK, Lives, ArrayMatches
<1>2. TypeOK
  BY DEF ProtocolInv, BoundsInv
<1> SUFFICES ASSUME NEW s \in Prepared PROVE s \in Configured
  OBVIOUS
<1>3. s \in 0 .. allocated.inputs + allocated.outputs - 1
  BY DEF ProtocolInv, PreparedInArray
<1>4. Configured = {i : i \in 0 .. allocated.inputs - 1}
                     \cup {allocated.inputs + i : i \in 0 .. allocated.outputs - 1}
  BY <1>1 DEF Configured, SlotsOf, First, InputSlot, OutputSlot
<1>5. CASE s < allocated.inputs
  BY <1>2, <1>3, <1>4, <1>5, NumbersLemma
<1>6. CASE s >= allocated.inputs
  <2>1. s - allocated.inputs \in 0 .. allocated.outputs - 1
    BY <1>2, <1>3, <1>6, NumbersLemma
  <2>2. s = allocated.inputs + (s - allocated.inputs)
    BY <1>2, <1>3, NumbersLemma
  <2> QED BY <1>4, <2>1, <2>2
<1> QED BY <1>2, <1>3, <1>5, <1>6, NumbersLemma

\* The channels prepared by CreateBuffers and left by DisposeBuffers.
LEMMA PreparedLemma ==
  ASSUME ProtocolInv, ref > 0
  PROVE  /\ \A c \in Requests, size \in RequestedSizes :
              CreateBuffers(c, size) =>
                /\ Prepared' = SlotsOf(c)
                /\ SlotsOf(c) \in (SUBSET Slots) \ {{}}
                /\ size \in Sizes
                /\ \A s \in SlotsOf(c) : buffer_size'[s] = size
         /\ DisposeBuffers => Prepared' = {}
<1>1. ASSUME NEW c \in Requests, NEW size \in RequestedSizes, CreateBuffers(c, size)
      PROVE  /\ Prepared' = SlotsOf(c)
             /\ SlotsOf(c) \in (SUBSET Slots) \ {{}}
             /\ size \in Sizes
             /\ \A s \in SlotsOf(c) : buffer_size'[s] = size
  <2>1. asio_driver_state = "Initialized" /\ Prepared = {}
    BY <1>1 DEF CreateBuffers, Claims, ProtocolInv, PreparedInArray
  <2>2. SlotsOf(c) \subseteq Slots /\ SlotsOf(c) # {}
    BY <2>1, RequestedSlots
  <2>3. wine_buffers' = [s \in Slots |-> wine_buffers[s] \/ s \in SlotsOf(c)]
    BY <1>1 DEF CreateBuffers, Allocates
  <2>4. \A s \in Slots : ~wine_buffers[s]
    BY <2>1 DEF Prepared
  <2>5. Prepared' = SlotsOf(c)
    BY <2>2, <2>3, <2>4 DEF Prepared
  <2>6. buffer_size' = [s \in Slots |-> IF s \in SlotsOf(c) THEN size ELSE buffer_size[s]]
    BY <1>1 DEF CreateBuffers, Allocates
  <2>7. size \in Sizes
    BY <2>1 DEF RequestedSizes, ProtocolInv, Lives
  <2> QED BY <2>2, <2>5, <2>6, <2>7
<1>2. ASSUME DisposeBuffers PROVE Prepared' = {}
  <2>1. Prepared \subseteq Configured
    BY <1>2, PreparedConfigured DEF DisposeBuffers
  <2>2. wine_buffers' = [s \in Slots |-> wine_buffers[s] /\ s \notin Configured]
    BY <1>2 DEF DisposeBuffers
  <2> QED BY <2>1, <2>2 DEF Prepared
<1> QED BY <1>1, <1>2

\* The methods of such a driver keep its array live and its channels in it.
LEMMA ProtocolMethod ==
  ASSUME "reference" \notin Host, {"memory", "manager"} \cap Failures = {},
         ProtocolInv, Method
  PROVE  Lives' /\ PreparedInArray'
<1>0. TypeOK /\ ref \in {0, 1}
  BY DEF ProtocolInv, BoundsInv, TypeOK, Lives
<1> USE DEF ProtocolInv
<1>1. CASE CreateInstance
  BY <1>1 DEF CreateInstance, Lives, PreparedInArray, Prepared
<1>2. CASE InitDriver
  BY <1>0, <1>2 DEF InitDriver, Configure, InitPorts, Lives, PreparedInArray, Prepared
<1>3. CASE InitFails
  BY <1>0, <1>3 DEF InitFails, Configure, Lives, PreparedInArray, Prepared, channelVars
<1>4. CASE AddRef
  BY <1>4 DEF AddRef
<1>5. CASE Release
  BY <1>0, <1>5 DEF Release, Lives, PreparedInArray, Prepared, configVars
<1>6. CASE SetSampleRate
  BY <1>6 DEF SetSampleRate, Lives, PreparedInArray, Prepared, objectVars, channelVars
<1>7. ASSUME NEW c \in Requests, CreateBuffersStops(c)
      PROVE  Lives' /\ PreparedInArray'
  BY <1>7 DEF CreateBuffersStops, Lives, PreparedInArray, Prepared, objectVars, configVars
<1>8. ASSUME NEW c \in Requests, NEW size \in RequestedSizes, CreateBuffers(c, size)
      PROVE  Lives' /\ PreparedInArray'
  <2>1. ref > 0 /\ asio_driver_state = "Initialized"
    BY <1>8 DEF CreateBuffers, Claims
  <2>2. Prepared' \subseteq 0 .. allocated.inputs + allocated.outputs - 1
    BY <1>8, <2>1, PreparedLemma, RequestedSlots
  <2> QED
    BY <1>8, <2>1, <2>2 DEF CreateBuffers, Lives, PreparedInArray, configVars
<1>9. ASSUME NEW c \in Requests, NEW size \in RequestedSizes, CreateBuffersKeeps(c, size)
      PROVE  FALSE
  BY <1>9 DEF CreateBuffersKeeps
<1>10. CASE Start \/ Stop
  BY <1>10 DEF Start, Stop, Lives, PreparedInArray, Prepared, channelVars, configVars
<1>11. CASE DisposeBuffers
  <2>1. Prepared' = {}
    BY <1>11, PreparedLemma DEF DisposeBuffers
  <2> QED
    BY <1>11, <2>1 DEF DisposeBuffers, Lives, PreparedInArray, configVars
<1> QED
  BY <1>1, <1>2, <1>3, <1>4, <1>5, <1>6, <1>7, <1>8, <1>9, <1>10, <1>11 DEF Method

\* So do the process callback and the panel.
LEMMA ProtocolOthers ==
  ASSUME ProtocolInv, Process \/ PanelStep
  PROVE  /\ Lives' /\ PreparedInArray'
         /\ UNCHANGED <<ref, asio_driver_state, wine_buffers, buffer_size>>
<1> USE DEF ProtocolInv, Lives, PreparedInArray, Prepared
<1>1. CASE Process
  BY <1>1 DEF Process, ProcessSilent, ProcessRunning, objectVars, channelVars, configVars
<1>2. CASE ControlPanel \/ GuiClosed \/ PanelReturns
  BY <1>2 DEF ControlPanel, GuiClosed, PanelReturns, objectVars, channelVars, configVars
<1>3. CASE Confirm
  <2>1. PICK size, rate, number : GuiApplyConfig(size, rate, number)
                                  /\ size \in Sizes \cup {asio_current_buffersize}
    BY <1>3 DEF Confirm
  <2> QED
    BY <2>1 DEF GuiApplyConfig, objectVars, channelVars
<1> QED BY <1>1, <1>2, <1>3 DEF PanelStep

\* The state of such a driver as its host sees it, and its buffers.
HostState == IF ref = 0 \/ asio_driver_state = "raw" THEN "Loaded" ELSE asio_driver_state
HostBuffers == [s \in Prepared |-> buffer_size[s]]

\* A driver without buffers has none in the protocol either.
LEMMA NoBuffersLemma == Prepared = {} => HostBuffers = Protocol!NoBuffers
BY DEF HostBuffers, Protocol!NoBuffers

\* Steps that the host does not see.
LEMMA Unseen ==
  ASSUME UNCHANGED <<wine_buffers, buffer_size>>, HostState' = HostState
  PROVE  UNCHANGED Protocol!vars
<1>1. HostBuffers' = HostBuffers
  BY DEF HostBuffers, Prepared
<1> QED BY <1>1 DEF HostBuffers, HostState, Protocol!vars

\* Every method is one of the protocol, or the host does not see it.
LEMMA ProtocolStep ==
  ASSUME "reference" \notin Host, {"memory", "manager"} \cap Failures = {},
         ProtocolInv, Method
  PROVE  [Protocol!Next]_Protocol!vars
<1> USE DEF Protocol!Next, Protocol!Moves
<1>0. ref \in {0, 1}
  BY DEF ProtocolInv, BoundsInv, TypeOK, Lives
<1>1. CASE CreateInstance
  <2>1. Prepared = {} /\ Prepared' = {}
    BY <1>1 DEF CreateInstance, Prepared, ProtocolInv, PreparedInArray, Lives
  <2>2. HostBuffers' = HostBuffers
    BY <2>1 DEF HostBuffers
  <2>3. HostState = "Loaded" /\ HostState' = "Loaded"
    BY <1>1 DEF CreateInstance, HostState
  <2> QED BY <2>2, <2>3 DEF HostBuffers, HostState, Protocol!vars
<1>2. CASE InitDriver
  <2>1. Prepared = {} /\ Prepared' = {}
    BY <1>2 DEF InitDriver, InitPorts, Prepared, ProtocolInv, PreparedInArray
  <2>2. HostBuffers' = HostBuffers
    BY <2>1 DEF HostBuffers
  <2>3. HostState = "Loaded" /\ HostState' = "Initialized"
    BY <1>2 DEF InitDriver, HostState
  <2> QED BY <2>2, <2>3 DEF HostBuffers, HostState, Protocol!Open
<1>3. CASE InitFails
  <2>1. HostState' = HostState
    BY <1>3 DEF InitFails, HostState
  <2> QED BY <1>3, <2>1, Unseen DEF InitFails, channelVars
<1>4. CASE AddRef
  BY <1>4 DEF AddRef
<1>5. CASE Release
  <2>1. UNCHANGED <<wine_buffers, buffer_size, asio_driver_state>>
    BY <1>5 DEF Release
  <2>2. HostBuffers' = HostBuffers
    BY <2>1 DEF HostBuffers, Prepared
  <2>3. HostState = asio_driver_state /\ HostState' = "Loaded"
    BY <1>0, <1>5 DEF Release, HostState
  <2>4. CASE asio_driver_state = "Loaded"
    BY <2>1, <2>3, <2>4, Unseen
  <2>5. CASE asio_driver_state = "Initialized"
    BY <2>2, <2>3, <2>5 DEF HostBuffers, HostState, Protocol!Close
  <2> QED BY <1>5, <2>4, <2>5 DEF Release
<1>6. CASE SetSampleRate
  <2>1. HostState' = HostState
    BY <1>6 DEF SetSampleRate, HostState, objectVars
  <2> QED BY <1>6, <2>1, Unseen DEF SetSampleRate, channelVars
<1>7. ASSUME NEW c \in Requests, CreateBuffersStops(c)
      PROVE  [Protocol!Next]_Protocol!vars
  <2>1. HostState' = HostState
    BY <1>7 DEF CreateBuffersStops, HostState, objectVars
  <2> QED BY <1>7, <2>1, Unseen DEF CreateBuffersStops
<1>8. ASSUME NEW c \in Requests, NEW size \in RequestedSizes, CreateBuffers(c, size)
      PROVE  [Protocol!Next]_Protocol!vars
  <2>1. ref > 0 /\ HostState = "Initialized" /\ HostState' = "Prepared"
    BY <1>0, <1>8 DEF CreateBuffers, Claims, HostState
  <2>2. /\ Prepared' = SlotsOf(c)
        /\ SlotsOf(c) \in (SUBSET Slots) \ {{}}
        /\ size \in Sizes
        /\ \A s \in SlotsOf(c) : buffer_size'[s] = size
    BY <1>8, <2>1, PreparedLemma
  <2>3. HostBuffers' = [s \in SlotsOf(c) |-> size]
    BY <2>2 DEF HostBuffers
  <2> QED BY <2>1, <2>2, <2>3 DEF HostBuffers, HostState, Protocol!CreateBuffers
<1>9. ASSUME NEW c \in Requests, NEW size \in RequestedSizes, CreateBuffersKeeps(c, size)
      PROVE  FALSE
  BY <1>9 DEF CreateBuffersKeeps
<1>10. CASE Start
  <2>1. UNCHANGED <<wine_buffers, buffer_size>>
    BY <1>10 DEF Start, channelVars
  <2>2. HostBuffers' = HostBuffers
    BY <2>1 DEF HostBuffers, Prepared
  <2>3. HostState = "Prepared" /\ HostState' = "Running"
    BY <1>0, <1>10 DEF Start, HostState
  <2> QED BY <2>2, <2>3 DEF HostBuffers, HostState, Protocol!Start
<1>11. CASE Stop
  <2>1. UNCHANGED <<wine_buffers, buffer_size>>
    BY <1>11 DEF Stop, channelVars
  <2>2. HostBuffers' = HostBuffers
    BY <2>1 DEF HostBuffers, Prepared
  <2>3. HostState = "Running" /\ HostState' = "Prepared"
    BY <1>0, <1>11 DEF Stop, HostState
  <2> QED BY <2>2, <2>3 DEF HostBuffers, HostState, Protocol!Stop
<1>12. CASE DisposeBuffers
  <2>1. ref > 0 /\ HostState = "Prepared" /\ HostState' = "Initialized"
    BY <1>0, <1>12 DEF DisposeBuffers, HostState
  <2>2. Prepared' = {}
    BY <1>12, <2>1, PreparedLemma
  <2>3. HostBuffers' = Protocol!NoBuffers
    BY <2>2 DEF HostBuffers, Protocol!NoBuffers
  <2> QED BY <2>1, <2>3 DEF HostBuffers, HostState, Protocol!DisposeBuffers
<1> QED
  BY <1>1, <1>2, <1>3, <1>4, <1>5, <1>6, <1>7, <1>8, <1>9, <1>10, <1>11, <1>12 DEF Method

\* A driver starts with the invariant of the protocol.
LEMMA ProtocolInit ==
  ASSUME Init
  PROVE  ProtocolInv /\ Prepared = {}
<1>1. Prepared = {}
  BY DEF Init, Prepared
<1>2. BoundsInv
  BY InitTypes DEF Init, BoundsInv, ArrayMatches, HasFilter, AccessesInBounds
<1>3. Lives
  BY DEF Init, Lives
<1>4. PreparedInArray
  BY <1>1 DEF PreparedInArray
<1> QED BY <1>1, <1>2, <1>3, <1>4 DEF ProtocolInv

\* Every step keeps it.
LEMMA ProtocolInvStep ==
  ASSUME "channels" \notin Panel, "reference" \notin Host,
         {"memory", "manager"} \cap Failures = {}, ProtocolInv, [Next]_vars
  PROVE  ProtocolInv'
<1>1. CASE UNCHANGED vars
  BY <1>1 DEF ProtocolInv, BoundsInv, TypeOK, ArrayMatches, HasFilter, AccessesInBounds,
     Lives, PreparedInArray, Prepared, vars, objectVars, streamVars, channelVars,
     configVars, panelVars
<1>2. CASE Method
  BY <1>2, TypeMethod, BoundsMethod, ProtocolMethod DEF ProtocolInv, BoundsInv
<1>3. CASE Process \/ PanelStep
  BY <1>3, TypeOthers, BoundsOthers, ProtocolOthers DEF ProtocolInv, BoundsInv
<1> QED BY <1>1, <1>2, <1>3 DEF Next, Halted

\* The methods and the panel keep what a host relies on: buffers stay in place
\* and in size from CreateBuffers to DisposeBuffers, of which nothing remains
\* then, if the panel leaves the numbers of channels alone, the host takes no
\* second reference and CreateBuffers does not fail after its first buffer.
THEOREM ProtocolFollowed ==
  ASSUME "channels" \notin Panel, "reference" \notin Host,
         {"memory", "manager"} \cap Failures = {}
  PROVE  Spec => FollowsProtocol
<1>1. Init => ProtocolInv /\ Protocol!Init
  <2> SUFFICES ASSUME Init PROVE ProtocolInv /\ Protocol!Init
    OBVIOUS
  <2>1. HostState = "Loaded" /\ HostBuffers = Protocol!NoBuffers
    BY ProtocolInit, NoBuffersLemma DEF Init, HostState
  <2> QED
    BY <2>1, ProtocolInit DEF HostState, HostBuffers, Protocol!Init
<1>2. ASSUME ProtocolInv, [Next]_vars
      PROVE  ProtocolInv' /\ [Protocol!Next]_Protocol!vars
  <2>1. ProtocolInv'
    BY <1>2, ProtocolInvStep
  <2>2. CASE UNCHANGED vars
    <3>1. UNCHANGED <<wine_buffers, buffer_size>> /\ HostState' = HostState
      BY <2>2 DEF HostState, vars, objectVars, channelVars
    <3> QED BY <2>1, <3>1, Unseen
  <2>3. CASE Method
    BY <1>2, <2>1, <2>3, ProtocolStep
  <2>4. CASE Process \/ PanelStep
    <3>1. UNCHANGED <<ref, asio_driver_state, wine_buffers, buffer_size>>
      BY <1>2, <2>4, ProtocolOthers
    <3>2. HostState' = HostState
      BY <3>1 DEF HostState
    <3> QED BY <2>1, <3>1, <3>2, Unseen
  <2> QED BY <1>2, <2>2, <2>3, <2>4 DEF Next, Halted
<1> QED BY <1>1, <1>2, PTL DEF Spec, FollowsProtocol, Protocol!Spec

-----------------------------------------------------------------------------
(* A careful user and host: the panel leaves the channel numbers alone,    *)
(* the host takes no second reference, CreateBuffers does not fail once    *)
(* the filter is connected, and nobody sets a sample rate of 0.            *)

Careful ==
  /\ "channels" \notin Panel
  /\ "reference" \notin Host
  /\ {"paused", "memory", "manager"} \cap Failures = {}
  /\ 0 \notin Rates

\* A filter that calls back is that of a driver with buffers.
ConnectedInv ==
  pw_filter = "connected" => ref > 0 /\ asio_driver_state \in {"Prepared", "Running"}

\* A driver that is loaded has a rate to divide by.
RateInv == asio_driver_state # "raw" => asio_sample_rate # 0

\* Only channels with buffers hold sound, and those are active.
SoundInv ==
  /\ dirty \subseteq Prepared
  /\ \A s \in Prepared : active[s]

\* The channels with buffers are those the process callback goes through.
VisitedInv ==
  asio_driver_state \in {"Prepared", "Running"} => Prepared = InputsVisited \cup OutputsVisited

CarefulInv ==
  /\ ProtocolInv
  /\ ConnectedInv
  /\ RateInv
  /\ SoundInv
  /\ "sparse" \notin Host => VisitedInv
  /\ NoFault

\* A method of such a driver finds its array, a rate and a filter.
LEMMA CarefulMethodFault ==
  ASSUME Careful, CarefulInv, Method
  PROVE  fault' = "none"
<1> USE DEF CarefulInv, ProtocolInv, BoundsInv
<1>1. /\ Access(Configured) # "bounds"
      /\ \A c \in Requests : Access(SlotsOf(c)) \in {"none", "dangling", "bounds"}
      /\ \A c \in Requests : ClaimFault(c) # "bounds"
  BY LoopsLemma, TypesLemma
<1>2. ref > 0 /\ asio_driver_state \in {"Initialized", "Prepared", "Running"} =>
        input_channel = "live"
  BY DEF Lives, TypeOK
<1>3. input_channel = "live" => /\ Access(Configured) = "none"
                                /\ \A c \in Requests : Access(SlotsOf(c)) # "dangling"
  BY <1>1 DEF Access
<1>4. ASSUME NEW c \in Requests, Claims(c) PROVE ClaimFault(c) = "none"
  <2>1. ref > 0 /\ asio_driver_state = "Initialized"
    BY <1>4 DEF Claims
  <2>2. ConnectFault = "none"
    BY <2>1 DEF ConnectFault, RateInv
  <2> QED BY <1>1, <1>2, <1>3, <2>1, <2>2 DEF ClaimFault
<1>5. fault = "none"
  BY DEF NoFault
<1>6. CASE CreateInstance \/ InitDriver \/ InitFails \/ AddRef \/ SetSampleRate
  BY <1>5, <1>6 DEF CreateInstance, InitDriver, InitFails, AddRef, SetSampleRate
<1>7. CASE Release
  BY <1>2, <1>3, <1>5, <1>7 DEF Release
<1>8. ASSUME NEW c \in Requests,
             CreateBuffersStops(c) \/ \E size \in RequestedSizes :
               CreateBuffers(c, size) \/ CreateBuffersKeeps(c, size)
      PROVE  fault' = "none"
  <2>1. Claims(c) /\ fault' = ClaimFault(c)
    BY <1>8 DEF CreateBuffersStops, CreateBuffers, CreateBuffersKeeps
  <2> QED BY <1>4, <2>1
<1>9. CASE Start \/ Stop
  BY <1>2, <1>3, <1>9 DEF Start, Stop, ClearsAndSwitches, HasFilter
<1>10. CASE DisposeBuffers
  BY <1>2, <1>3, <1>10 DEF DisposeBuffers
<1> QED BY <1>6, <1>7, <1>8, <1>9, <1>10 DEF Method

\* So do the process callback, which is called only between CreateBuffers and
\* DisposeBuffers, and the panel.
LEMMA CarefulOthersFault ==
  ASSUME Careful, CarefulInv, Process \/ PanelStep
  PROVE  fault' = "none"
<1> USE DEF CarefulInv, ProtocolInv, BoundsInv
<1>1. fault = "none"
  BY DEF NoFault
<1>2. /\ Access(InputsVisited \cup OutputsVisited) # "bounds"
      /\ Access(OutputsVisited) # "bounds"
  BY LoopsLemma
<1>3. CASE ProcessSilent
  <2>1. input_channel = "live" /\ ref > 0
    BY <1>3 DEF ProcessSilent, ConnectedInv, Lives, TypeOK
  <2> QED BY <1>2, <1>3, <2>1 DEF ProcessSilent, Access, TypeOK
<1>4. ASSUME NEW duration \in Durations, ProcessRunning(duration)
      PROVE  fault' = "none"
  <2>1. input_channel = "live"
    BY <1>4 DEF ProcessRunning, Lives, TypeOK
  <2>2. Access(InputsVisited \cup OutputsVisited) = "none"
    BY <1>2, <2>1 DEF Access
  <2> QED BY <1>4, <2>2, CopyLemma DEF ProcessRunning
<1>5. CASE ControlPanel \/ GuiClosed \/ PanelReturns
  BY <1>1, <1>5 DEF ControlPanel, GuiClosed, PanelReturns
<1>6. CASE Confirm
  <2>1. PICK size, rate, number : GuiApplyConfig(size, rate, number)
    BY <1>6 DEF Confirm
  <2> QED BY <2>1 DEF GuiApplyConfig, ConnectFault, RateInv
<1> QED BY <1>3, <1>4, <1>5, <1>6 DEF Process, PanelStep

\* Only a driver with buffers has a connected filter, and none runs at rate 0.
LEMMA CarefulConnected ==
  ASSUME Careful, CarefulInv, Method \/ Process \/ PanelStep
  PROVE  ConnectedInv' /\ RateInv'
<1> USE DEF ConnectedInv, RateInv
<1>0. ConnectedInv /\ RateInv /\ TypeOK /\ Lives
  BY DEF CarefulInv, ProtocolInv, BoundsInv
<1>1. CASE CreateInstance \/ InitDriver \/ InitFails
  BY <1>0, <1>1 DEF CreateInstance, InitDriver, InitFails, Configure, streamVars
<1>2. CASE AddRef \/ Release \/ SetSampleRate
  BY <1>0, <1>2 DEF AddRef, Release, SetSampleRate, Careful, streamVars, configVars, objectVars
<1>3. ASSUME NEW c \in Requests, CreateBuffersStops(c)
      PROVE  ConnectedInv' /\ RateInv'
  BY <1>0, <1>3 DEF CreateBuffersStops, Claims, Careful, objectVars, configVars
<1>4. ASSUME NEW c \in Requests, NEW size \in RequestedSizes,
             CreateBuffers(c, size) \/ CreateBuffersKeeps(c, size)
      PROVE  ConnectedInv' /\ RateInv'
  <2>1. CreateBuffers(c, size)
    BY <1>4 DEF CreateBuffersKeeps, Careful
  <2> QED BY <1>0, <2>1 DEF CreateBuffers, Claims, configVars
<1>5. CASE Start \/ Stop \/ DisposeBuffers
  BY <1>0, <1>5 DEF Start, Stop, DisposeBuffers, streamVars, configVars
<1>6. CASE Process
  BY <1>0, <1>6 DEF Process, ProcessSilent, ProcessRunning, objectVars, streamVars, configVars
<1>7. CASE ControlPanel \/ GuiClosed \/ PanelReturns
  BY <1>0, <1>7 DEF ControlPanel, GuiClosed, PanelReturns, objectVars, streamVars, configVars
<1>8. CASE Confirm
  <2>1. PICK size, rate, number : /\ GuiApplyConfig(size, rate, number)
                                  /\ rate # 0 \/ rate = asio_sample_rate
    BY <1>8 DEF Confirm
  <2> QED BY <1>0, <2>1 DEF GuiApplyConfig, Reconnects, objectVars
<1> QED
  BY <1>1, <1>2, <1>3, <1>4, <1>5, <1>6, <1>7, <1>8 DEF Method, PanelStep

\* The buffers that Start and Stop zero are all that hold sound.
LEMMA SoundCleared ==
  ASSUME CarefulInv, ref > 0, asio_driver_state = "Prepared"
  PROVE  dirty \subseteq Cleared
<1>1. Prepared \subseteq Configured
  BY PreparedConfigured DEF CarefulInv
<1> QED BY <1>1 DEF CarefulInv, SoundInv, Cleared, Prepared

\* Sound gets into buffers only, and leaves with them.
LEMMA CarefulSound ==
  ASSUME Careful, CarefulInv, Method \/ Process \/ PanelStep
  PROVE  SoundInv'
<1> USE DEF SoundInv
<1>0. SoundInv /\ ProtocolInv /\ TypeOK /\ PreparedInArray
  BY DEF CarefulInv, ProtocolInv, BoundsInv
<1>1. CASE CreateInstance
  BY <1>1 DEF CreateInstance, Prepared
<1>2. CASE InitDriver
  <2>1. dirty' = {}
    BY <1>0, <1>2 DEF InitDriver, PreparedInArray
  <2> QED BY <1>2, <2>1 DEF InitDriver, InitPorts, Prepared
<1>3. CASE InitFails \/ AddRef \/ SetSampleRate
  BY <1>0, <1>3 DEF InitFails, AddRef, SetSampleRate, channelVars, Prepared
<1>4. CASE Release
  <2>1. Prepared = {} /\ Prepared' = {}
    BY <1>0, <1>4 DEF Release, Prepared, PreparedInArray
  <2> QED BY <1>0, <1>4, <2>1 DEF Release
<1>5. ASSUME NEW c \in Requests, CreateBuffersStops(c) PROVE SoundInv'
  <2>1. Prepared = {} /\ Prepared' = {}
    BY <1>0, <1>5 DEF CreateBuffersStops, Claims, Prepared, PreparedInArray
  <2> QED BY <1>0, <1>5, <2>1 DEF CreateBuffersStops
<1>6. ASSUME NEW c \in Requests, NEW size \in RequestedSizes,
             CreateBuffers(c, size) \/ CreateBuffersKeeps(c, size)
      PROVE  SoundInv'
  <2>1. CreateBuffers(c, size)
    BY <1>6 DEF CreateBuffersKeeps, Careful
  <2>2. Prepared' = SlotsOf(c) /\ SlotsOf(c) \subseteq Slots
    BY <1>0, <2>1, PreparedLemma DEF CreateBuffers, Claims
  <2>3. dirty' = {}
    BY <1>0, <2>1 DEF CreateBuffers, Claims, Allocates, PreparedInArray
  <2>4. \A s \in SlotsOf(c) : active'[s]
    BY <2>1, <2>2 DEF CreateBuffers, Claims
  <2> QED BY <2>2, <2>3, <2>4
<1>7. CASE Start \/ Stop
  BY <1>0, <1>7 DEF Start, Stop, ClearsAndSwitches, channelVars, Prepared
<1>8. CASE DisposeBuffers
  <2>1. Prepared \subseteq Configured /\ Prepared' = {}
    BY <1>0, <1>8, PreparedConfigured, PreparedLemma DEF DisposeBuffers
  <2> QED BY <1>0, <1>8, <2>1 DEF DisposeBuffers
<1>9. CASE ProcessSilent
  BY <1>0, <1>9 DEF ProcessSilent, channelVars, Prepared
<1>10. ASSUME NEW duration \in Durations, ProcessRunning(duration) PROVE SoundInv'
  BY <1>0, <1>10 DEF ProcessRunning, Copied, channelVars, Prepared
<1>11. CASE ControlPanel \/ GuiClosed \/ PanelReturns
  BY <1>0, <1>11 DEF ControlPanel, GuiClosed, PanelReturns, channelVars, Prepared
<1>12. CASE Confirm
  BY <1>0, <1>12 DEF Confirm, GuiApplyConfig, channelVars, Prepared
<1> QED
  BY <1>1, <1>2, <1>3, <1>4, <1>5, <1>6, <1>7, <1>8, <1>9, <1>10, <1>11, <1>12
     DEF Method, Process, PanelStep

\* A host that asks for the first channels asks for as many as it counts.
LEMMA FirstCounted ==
  ASSUME TypeOK, "sparse" \notin Host, NEW c \in Requests
  PROVE  /\ c.inputs = 0 .. Cardinality(c.inputs) - 1
         /\ c.outputs = 0 .. Cardinality(c.outputs) - 1
<1>1. wineasio_number.inputs \in Nat /\ wineasio_number.outputs \in Nat
  BY MethodsAssumption DEF TypeOK, Numbers, NoChannels
<1>2. PICK n \in [inputs : 0 .. wineasio_number.inputs,
                  outputs : 0 .. wineasio_number.outputs] : c = First(n)
  BY DEF Requests
<1>3. n.inputs \in Nat /\ n.outputs \in Nat
  BY <1>1
<1>4. c.inputs = 0 .. n.inputs - 1 /\ c.outputs = 0 .. n.outputs - 1
  BY <1>2 DEF First
<1>5. \A k \in Nat : Cardinality(0 .. k - 1) = k
  BY FS_Interval
<1> QED BY <1>3, <1>4, <1>5

\* The process callback's counts are those of the channels with buffers.
LEMMA CarefulVisited ==
  ASSUME Careful, CarefulInv, "sparse" \notin Host, Method \/ Process \/ PanelStep
  PROVE  VisitedInv'
<1> USE DEF VisitedInv
<1>0. VisitedInv /\ ProtocolInv /\ TypeOK
  BY DEF CarefulInv, ProtocolInv, BoundsInv
<1>1. CASE CreateInstance \/ InitDriver \/ InitFails
  BY <1>1 DEF CreateInstance, InitDriver, InitFails
<1>2. CASE AddRef \/ Release
  BY <1>2 DEF AddRef, Release, Careful
<1>3. ASSUME UNCHANGED <<allocated, asio_active, wine_buffers>>,
             asio_driver_state' = asio_driver_state \/ asio_driver_state \in {"Prepared", "Running"}
      PROVE  VisitedInv'
  BY <1>0, <1>3 DEF Prepared, InputsVisited, OutputsVisited, InputSlot, OutputSlot, First
<1>4. ASSUME NEW c \in Requests, CreateBuffersStops(c) PROVE VisitedInv'
  BY <1>4 DEF CreateBuffersStops, Claims, objectVars
<1>5. ASSUME NEW c \in Requests, NEW size \in RequestedSizes,
             CreateBuffers(c, size) \/ CreateBuffersKeeps(c, size)
      PROVE  VisitedInv'
  <2>1. CreateBuffers(c, size)
    BY <1>5 DEF CreateBuffersKeeps, Careful
  <2>2. Prepared' = SlotsOf(c)
    BY <1>0, <2>1, PreparedLemma DEF CreateBuffers, Claims
  <2>3. /\ asio_active'.inputs = Cardinality(c.inputs)
        /\ asio_active'.outputs = Cardinality(c.outputs)
        /\ allocated' = allocated
    BY <2>1 DEF CreateBuffers, Claims
  <2>4. First(asio_active').inputs = c.inputs /\ First(asio_active').outputs = c.outputs
    BY <1>0, <2>3, FirstCounted DEF First
  <2>5. /\ InputsVisited' = {InputSlot(i) : i \in c.inputs}
        /\ OutputsVisited' = {OutputSlot(i) : i \in c.outputs}
    BY <2>3, <2>4 DEF InputsVisited, OutputsVisited, InputSlot, OutputSlot
  <2> QED BY <2>2, <2>5 DEF SlotsOf
<1>6. CASE SetSampleRate \/ Start \/ Stop \/ Process
  BY <1>3, <1>6 DEF SetSampleRate, Start, Stop, Process, ProcessSilent, ProcessRunning,
     objectVars, channelVars
<1>7. CASE DisposeBuffers
  BY <1>7 DEF DisposeBuffers
<1>8. CASE PanelStep
  BY <1>3, <1>8 DEF PanelStep, ControlPanel, GuiClosed, PanelReturns, Confirm,
     GuiApplyConfig, objectVars, channelVars
<1> QED
  BY <1>1, <1>2, <1>4, <1>5, <1>6, <1>7, <1>8 DEF Method

\* With a careful user and host, CarefulInv is an invariant.
LEMMA CarefulInvariant ==
  ASSUME Careful
  PROVE  Spec => []CarefulInv
<1>1. ASSUME Init PROVE CarefulInv
  BY <1>1, ProtocolInit DEF Init, CarefulInv, ConnectedInv, RateInv, SoundInv, VisitedInv,
     NoFault
<1>2. ASSUME CarefulInv, [Next]_vars PROVE CarefulInv'
  <2>1. ProtocolInv'
    BY <1>2, ProtocolInvStep DEF CarefulInv, Careful
  <2>2. CASE UNCHANGED vars
    BY <1>2, <2>1, <2>2 DEF CarefulInv, ConnectedInv, RateInv, SoundInv, VisitedInv, NoFault,
       Prepared, InputsVisited, OutputsVisited, InputSlot, OutputSlot, First, vars,
       objectVars, streamVars, channelVars, configVars
  <2>3. CASE Method \/ Process \/ PanelStep
    BY <1>2, <2>1, <2>3, CarefulMethodFault, CarefulOthersFault, CarefulConnected,
       CarefulSound, CarefulVisited DEF CarefulInv, NoFault
  <2> QED BY <1>2, <2>2, <2>3 DEF Next, Halted
<1> QED BY <1>1, <1>2, PTL DEF Spec

\* Such a driver never touches a freed array, never divides by a rate of 0 and
\* never has a process callback after its release; whatever sizes the host
\* asks for, whatever size and rate the panel sets meanwhile, and although
\* every DisposeBuffers leaves the driver without a filter.
THEOREM NoFaultHappens ==
  ASSUME Careful
  PROVE  Spec => []NoFault
<1>1. CarefulInv => NoFault
  BY DEF CarefulInv
<1> QED BY <1>1, CarefulInvariant, PTL

\* Start leaves no sample of an earlier run: clear_audio_buffers, which goes by
\* the configured numbers of channels and by two flags of each, reaches every
\* buffer that may hold one, whichever channels the host has asked for.
THEOREM StartsWithSilence ==
  ASSUME Careful
  PROVE  Spec => StartsClean
<1>1. ASSUME CarefulInv, Start PROVE dirty' = {}
  BY <1>1, SoundCleared DEF Start, ClearsAndSwitches
<1>2. CarefulInv => [Start => dirty' = {}]_vars
  BY <1>1
<1> QED BY <1>2, CarefulInvariant, PTL DEF StartsClean

\* If the host asks for the first channels of each direction, the process
\* callback copies every channel with buffers of the configured size, though
\* it goes by two counts and not by the channels that were asked for.
THEOREM ChannelsAreServed ==
  ASSUME Careful, "sparse" \notin Host
  PROVE  Spec => []ChannelsServed
<1>1. ASSUME CarefulInv PROVE ChannelsServed
  BY <1>1 DEF CarefulInv, VisitedInv, SoundInv, ChannelsServed, Copied, Prepared
<1> QED BY <1>1, CarefulInvariant, PTL
=============================================================================
