---------------------------- MODULE DriverMethods ----------------------------
(***************************************************************************)
(* One driver object as its host sees it: the methods, called one at a     *)
(* time, the control panel that changes the configuration under a driver   *)
(* in any state, and the channels that a process cycle copies.             *)
(*                                                                         *)
(* Init allocates ONE array of IOChannel structures, the inputs and then   *)
(* the outputs, for the numbers of channels configured at that time.       *)
(* Every later loop runs over the numbers configured NOW, the process      *)
(* callback over the numbers of channels the host has asked for.  A slot   *)
(* is an index of that array, sizes are in samples of four bytes, and a    *)
(* process cycle, whose interleavings AudioStream models, is one step.     *)
(*                                                                         *)
(* Release and DisposeBuffers in a state that implies other methods first  *)
(* are the sequence of those methods.                                      *)
(***************************************************************************)
EXTENDS Integers, FiniteSets

CONSTANTS
  MaxChannels,  \* bound on the configured channels of each direction
  Sizes,        \* buffer sizes that are configured or asked for
  Durations,    \* samples in a cycle of PipeWire
  Rates,        \* sample rates that the host sets, and the panel but for 0
  FixedSize,    \* wineasio_fixed_buffersize
  Panel,        \* what the user changes in the panel
  Host,         \* liberties of the host
  Failures      \* what may fail

ASSUME MethodsAssumption ==
  /\ MaxChannels \in Nat \ {0}
  /\ Sizes \subseteq Nat \ {0}
  /\ Durations \subseteq Nat
  /\ Rates \subseteq Nat
  /\ FixedSize \in BOOLEAN
  /\ Panel \subseteq {"size", "rate", "channels"}
  /\ Host \subseteq {"sparse", "size", "reference"}
  /\ Failures \subseteq {"init", "connect", "paused", "memory", "manager"}

VARIABLES
  ref,                      \* references to the object; 0: there is none
  asio_driver_state,        \* "raw" before Init
  pw_filter,                \* "none", "present" or "connected"
  asio_callbacks,           \* the callback table is not NULL
  input_channel,            \* the array: "none", "live" or "freed"
  allocated,                \* the channels it was allocated for
  wineasio_number,          \* the channels that are configured
  asio_active,              \* asio_active_inputs and asio_active_outputs
  active, buffer_size, wine_buffers,  \* fields of the array
  dirty,                    \* the slots whose buffers are not all zero
  asio_current_buffersize,  \* wineasio_preferred_buffersize always has its value
  asio_sample_rate,
  gui,                      \* This->gui is not NULL
  panel,                    \* the panel: "closed", "open" or "decided"
  fault

objectVars  == <<ref, asio_driver_state, input_channel, allocated>>
streamVars  == <<pw_filter, asio_callbacks>>
channelVars == <<active, buffer_size, wine_buffers>>
configVars  == <<wineasio_number, asio_current_buffersize, asio_sample_rate>>
panelVars   == <<gui, panel>>
vars == <<objectVars, streamVars, channelVars, asio_active, dirty, configVars,
          panelVars, fault>>

Slots == 0 .. 2 * MaxChannels - 1
Numbers == [inputs : 1 .. MaxChannels, outputs : 1 .. MaxChannels]
NoChannels == [inputs |-> 0, outputs |-> 0]
DriverStates == {"raw", "Loaded", "Initialized", "Prepared", "Running"}
Faults == {"none", "bounds", "dangling", "overrun", "filter", "zero"}

Init ==
  /\ ref = 0
  /\ asio_driver_state = "raw"
  /\ pw_filter = "none"
  /\ asio_callbacks = FALSE
  /\ input_channel = "none"
  /\ allocated = NoChannels
  /\ wineasio_number = NoChannels
  /\ asio_active = NoChannels
  /\ active = [s \in Slots |-> FALSE]
  /\ buffer_size = [s \in Slots |-> 0]
  /\ wine_buffers = [s \in Slots |-> FALSE]
  /\ dirty = {}
  /\ asio_current_buffersize = 0
  /\ asio_sample_rate = 0
  /\ gui = FALSE
  /\ panel = "closed"
  /\ fault = "none"

TypeOK ==
  /\ ref \in 0 .. 2
  /\ asio_driver_state \in DriverStates
  /\ pw_filter \in {"none", "present", "connected"}
  /\ asio_callbacks \in BOOLEAN
  /\ input_channel \in {"none", "live", "freed"}
  /\ allocated \in Numbers \cup {NoChannels}
  /\ wineasio_number \in Numbers \cup {NoChannels}
  /\ asio_active \in [inputs : 0 .. MaxChannels, outputs : 0 .. MaxChannels]
  /\ active \in [Slots -> BOOLEAN]
  /\ buffer_size \in [Slots -> Sizes \cup {0}]
  /\ wine_buffers \in [Slots -> BOOLEAN]
  /\ dirty \subseteq Slots
  /\ asio_current_buffersize \in Sizes \cup {0}
  /\ asio_sample_rate \in Rates \cup {0}
  /\ gui \in BOOLEAN
  /\ panel \in {"closed", "open", "decided"}
  /\ fault \in Faults

-----------------------------------------------------------------------------
(* The array of channels.                                                  *)

\* What &This->input_channel[i] and &This->output_channel[i] are.
InputSlot(i)  == i
OutputSlot(i) == allocated.inputs + i

\* The slots of a set of inputs and a set of outputs.
SlotsOf(c) == {InputSlot(i) : i \in c.inputs} \cup {OutputSlot(i) : i \in c.outputs}
First(n) == [inputs |-> 0 .. n.inputs - 1, outputs |-> 0 .. n.outputs - 1]

\* The slots reached by the loops over the configured numbers of channels.
Configured == SlotsOf(First(wineasio_number))

\* What touching these slots does.
Access(S) ==
  IF S = {} THEN "none"
  ELSE IF input_channel # "live" THEN "dangling"
  ELSE IF S \subseteq 0 .. allocated.inputs + allocated.outputs - 1 THEN "none"
  ELSE "bounds"

Prepared == {s \in Slots : wine_buffers[s]}

\* Plausible slip: the loop over the inputs is missing.
OutputsCleared ==
  {s \in Configured \cap Slots : s >= allocated.inputs /\ active[s] /\ wine_buffers[s]}

\* clear_audio_buffers
Cleared == {s \in Configured \cap Slots : active[s] /\ wine_buffers[s]}

-----------------------------------------------------------------------------
(* The object and its configuration.                                       *)

\* WineASIOCreateInstance and configure_driver, which Init calls first, leave
\* nothing of an earlier object.  One at a time is enough for this module.
CreateInstance ==
  /\ ref = 0
  /\ pw_filter # "connected"
  /\ ref' = 1
  /\ asio_driver_state' = "raw"
  /\ pw_filter' = "none"
  /\ asio_callbacks' = FALSE
  /\ input_channel' = "none"
  /\ allocated' = NoChannels
  /\ wineasio_number' = NoChannels
  /\ asio_active' = NoChannels
  /\ active' = [s \in Slots |-> FALSE]
  /\ buffer_size' = [s \in Slots |-> 0]
  /\ wine_buffers' = [s \in Slots |-> FALSE]
  /\ dirty' = {}
  /\ asio_current_buffersize' = 0
  /\ asio_sample_rate' = 0
  /\ gui' = FALSE
  /\ UNCHANGED <<panel, fault>>

\* InitPorts sets every field of the structures but active.
InitPorts ==
  /\ input_channel' = "live"
  /\ allocated' = wineasio_number'
  /\ active' \in {f \in [Slots -> BOOLEAN] :
       \A s \in Slots : s >= wineasio_number'.inputs + wineasio_number'.outputs => ~f[s]}
  /\ buffer_size' = [s \in Slots |-> 0]
  /\ wine_buffers' = [s \in Slots |-> FALSE]

\* What configure_driver finds in the registry, the file and the environment.
Configure ==
  /\ wineasio_number' \in Numbers
  /\ asio_current_buffersize' \in Sizes
  /\ asio_sample_rate' \in Rates \ {0}

InitDriver ==
  /\ ref > 0
  /\ asio_driver_state \in {"raw", "Loaded"}
  /\ Configure
  /\ InitPorts
  /\ pw_filter' = "present"
  /\ gui' = FALSE
  /\ asio_driver_state' = "Initialized"
  /\ UNCHANGED <<ref, asio_callbacks, asio_active, dirty, panel, fault>>

\* There is no server, or no filter is made.
InitFails ==
  /\ ref > 0
  /\ asio_driver_state \in {"raw", "Loaded"}
  /\ "init" \in Failures
  /\ Configure
  /\ asio_driver_state' = "Loaded"
  /\ UNCHANGED <<ref, streamVars, input_channel, allocated, channelVars, asio_active,
                 dirty, panelVars, fault>>

\* QueryInterface or AddRef.
AddRef ==
  /\ ref = 1
  /\ "reference" \in Host
  /\ ref' = 2
  /\ UNCHANGED <<asio_driver_state, input_channel, allocated, streamVars, channelVars,
                 asio_active, dirty, configVars, panelVars, fault>>

\* In a driver that is Initialized, Release frees the array whatever the
\* number of references left.  It destroys no filter.
Release ==
  /\ ref > 0
  /\ panel = "closed"
  /\ asio_driver_state \in {"Loaded", "Initialized"}
  /\ ref' = ref - 1
  /\ IF asio_driver_state = "Initialized"
       THEN /\ fault' = Access(Configured)
            /\ active' = [s \in Slots |-> active[s] /\ s \notin Configured]
            /\ asio_active' = NoChannels
            /\ input_channel' = "freed"
       ELSE UNCHANGED <<fault, active, asio_active, input_channel>>
  /\ UNCHANGED <<asio_driver_state, allocated, streamVars, buffer_size, wine_buffers,
                 dirty, configVars, panelVars>>

\* Any rate is accepted.
SetSampleRate ==
  /\ ref > 0
  /\ panel = "closed"
  /\ asio_driver_state \in {"Initialized", "Prepared", "Running"}
  /\ asio_sample_rate' \in Rates
  /\ UNCHANGED <<objectVars, streamVars, channelVars, asio_active, dirty,
                 wineasio_number, asio_current_buffersize, panelVars, fault>>

-----------------------------------------------------------------------------
(* The buffers.                                                            *)

\* The channels that a host asks for are among those that GetChannels reports;
\* most hosts take the first ones.
Requests ==
  LET all == [inputs : SUBSET First(wineasio_number).inputs,
              outputs : SUBSET First(wineasio_number).outputs]
      first == {First(n) : n \in [inputs : 0 .. wineasio_number.inputs,
                                  outputs : 0 .. wineasio_number.outputs]}
  IN  {c \in IF "sparse" \in Host THEN all ELSE first :
         c.inputs # {} \/ c.outputs # {}}

\* The sizes that it asks for are those that GetBufferSize reports.
RequestedSizes ==
  IF FixedSize /\ "size" \notin Host THEN {asio_current_buffersize} ELSE Sizes

\* Plausible slip: the counts of an earlier attempt are not reset.
ClaimsAddingUp(c) ==
  /\ ref > 0
  /\ panel = "closed"
  /\ asio_driver_state = "Initialized"
  /\ asio_callbacks' = TRUE
  /\ asio_active' = [inputs |-> asio_active.inputs + Cardinality(c.inputs),
                     outputs |-> asio_active.outputs + Cardinality(c.outputs)]
  /\ active' = [s \in Slots |-> active[s] \/ s \in SlotsOf(c)]

\* Plausible slip: the outputs are not counted.
ClaimsInputsOnly(c) ==
  /\ ref > 0
  /\ panel = "closed"
  /\ asio_driver_state = "Initialized"
  /\ asio_callbacks' = TRUE
  /\ asio_active' = [inputs |-> Cardinality(c.inputs), outputs |-> 0]
  /\ active' = [s \in Slots |-> active[s] \/ s \in SlotsOf(c)]

\* The start of CreateBuffers.  The numbers of channels are not checked.
Claims(c) ==
  /\ ref > 0
  /\ panel = "closed"
  /\ asio_driver_state = "Initialized"
  /\ asio_callbacks' = TRUE
  /\ asio_active' = [inputs |-> Cardinality(c.inputs), outputs |-> Cardinality(c.outputs)]
  /\ active' = [s \in Slots |-> active[s] \/ s \in SlotsOf(c)]

\* The latency of the filter is computed with the rate as the divisor.
ConnectFault == IF asio_sample_rate = 0 THEN "zero" ELSE "none"

ClaimFault(c) ==
  IF Access(SlotsOf(c)) # "none" THEN Access(SlotsOf(c))
  ELSE IF pw_filter = "present" THEN ConnectFault
  ELSE "none"

\* The slots of S get buffers of that many samples.
Allocates(S, size) ==
  /\ buffer_size' = [s \in Slots |-> IF s \in S THEN size ELSE buffer_size[s]]
  /\ wine_buffers' = [s \in Slots |-> wine_buffers[s] \/ s \in S]
  /\ dirty' = dirty \ S

CreateBuffers(c, size) ==
  /\ Claims(c)
  /\ pw_filter # "none"
  /\ pw_filter' = "connected"
  /\ Allocates(SlotsOf(c), size)
  /\ fault' = ClaimFault(c)
  /\ asio_driver_state' = "Prepared"
  /\ UNCHANGED <<ref, input_channel, allocated, configVars, panelVars>>

\* Plausible slip: the result of the wait for the filter is ignored.
PreparesWithoutFilter(c) ==
  /\ Claims(c)
  /\ pw_filter = "none"
  /\ asio_driver_state' = "Prepared"
  /\ fault' = ClaimFault(c)
  /\ UNCHANGED <<ref, input_channel, allocated, pw_filter, buffer_size, wine_buffers,
                 dirty, configVars, panelVars>>

\* There is no filter to wait for, it does not connect, or it is not paused in
\* time.
CreateBuffersStops(c) ==
  /\ Claims(c)
  /\ \/ pw_filter = "none" /\ UNCHANGED pw_filter
     \/ pw_filter = "present" /\ "connect" \in Failures /\ UNCHANGED pw_filter
     \/ pw_filter # "none" /\ "paused" \in Failures /\ pw_filter' = "connected"
  /\ fault' = ClaimFault(c)
  /\ UNCHANGED <<objectVars, buffer_size, wine_buffers, dirty, configVars, panelVars>>

\* A buffer is not allocated, or the callback manager not made: what has been
\* allocated stays.
CreateBuffersKeeps(c, size) ==
  /\ Claims(c)
  /\ pw_filter # "none"
  /\ pw_filter' = "connected"
  /\ \E S \in SUBSET (SlotsOf(c) \cap Slots) :
       /\ IF S = SlotsOf(c) THEN "manager" \in Failures ELSE "memory" \in Failures
       /\ Allocates(S, size)
  /\ fault' = ClaimFault(c)
  /\ UNCHANGED <<objectVars, configVars, panelVars>>

\* clear_audio_buffers and pw_filter_set_active, in Start and in Stop.
ClearsAndSwitches ==
  /\ dirty' = dirty \ Cleared
  /\ fault' = IF pw_filter = "none" THEN "filter" ELSE Access(Configured)

Start ==
  /\ ref > 0
  /\ panel = "closed"
  /\ asio_driver_state = "Prepared"
  /\ asio_driver_state' = "Running"
  /\ ClearsAndSwitches
  /\ UNCHANGED <<ref, input_channel, allocated, streamVars, channelVars, asio_active,
                 configVars, panelVars>>

Stop ==
  /\ ref > 0
  /\ panel = "closed"
  /\ asio_driver_state = "Running"
  /\ asio_driver_state' = "Prepared"
  /\ ClearsAndSwitches
  /\ UNCHANGED <<ref, input_channel, allocated, streamVars, channelVars, asio_active,
                 configVars, panelVars>>

\* Plausible slips: only the inputs are freed; the filter is left connected.
DisposesInputs ==
  /\ ref > 0
  /\ panel = "closed"
  /\ asio_driver_state = "Prepared"
  /\ asio_driver_state' = "Initialized"
  /\ pw_filter' = "none"
  /\ asio_callbacks' = FALSE
  /\ active' = [s \in Slots |-> active[s] /\ s \notin Configured]
  /\ wine_buffers' = [s \in Slots |-> wine_buffers[s] /\ s >= allocated.inputs]
  /\ dirty' = dirty \ Configured
  /\ asio_active' = NoChannels
  /\ fault' = Access(Configured)
  /\ UNCHANGED <<ref, input_channel, allocated, buffer_size, configVars, panelVars>>

\* Only Init makes another filter.
DisposeBuffers ==
  /\ ref > 0
  /\ panel = "closed"
  /\ asio_driver_state = "Prepared"
  /\ asio_driver_state' = "Initialized"
  /\ pw_filter' = "none"
  /\ asio_callbacks' = FALSE
  /\ active' = [s \in Slots |-> active[s] /\ s \notin Configured]
  /\ wine_buffers' = [s \in Slots |-> wine_buffers[s] /\ s \notin Configured]
  /\ dirty' = dirty \ Configured
  /\ asio_active' = NoChannels
  /\ fault' = Access(Configured)
  /\ UNCHANGED <<ref, input_channel, allocated, buffer_size, configVars, panelVars>>

-----------------------------------------------------------------------------
(* The process callback.                                                   *)

ProcessSamples(duration) ==
  IF duration < asio_current_buffersize THEN duration ELSE asio_current_buffersize

\* How far a copy reads its source and, with the zeroes, writes its target.
InputCopy(duration) ==
  [read |-> ProcessSamples(duration), written |-> asio_current_buffersize]
OutputCopy(duration) ==
  [read |-> ProcessSamples(duration), written |-> duration]

\* The slots that the loops of the callback go through, and those they copy.
InputsVisited  == {InputSlot(i) : i \in First(asio_active).inputs}
OutputsVisited == {OutputSlot(i) : i \in First(asio_active).outputs}

\* Plausible slip: the size of the buffers is not looked at.
CopiedOfAnySize(visited) == {s \in visited \cap Slots : active[s] /\ wine_buffers[s]}

Copied(visited) ==
  {s \in visited \cap Slots : active[s] /\ wine_buffers[s]
                              /\ buffer_size[s] >= asio_current_buffersize}

Overruns(duration) ==
  \/ \E s \in Copied(InputsVisited) :
       InputCopy(duration).read > duration \/ InputCopy(duration).written > buffer_size[s]
  \/ \E s \in Copied(OutputsVisited) :
       OutputCopy(duration).read > buffer_size[s] \/ OutputCopy(duration).written > duration

\* A cycle of a running driver: inputs, the host, outputs.
ProcessRunning(duration) ==
  /\ pw_filter = "connected"
  /\ ref > 0
  /\ asio_driver_state = "Running"
  /\ asio_callbacks
  /\ fault' = IF Access(InputsVisited \cup OutputsVisited) # "none"
                THEN Access(InputsVisited \cup OutputsVisited)
              ELSE IF Overruns(duration) THEN "overrun" ELSE "none"
  /\ dirty' = dirty \cup Copied(InputsVisited) \cup {s \in Prepared : s >= allocated.inputs}
  /\ UNCHANGED <<objectVars, streamVars, channelVars, asio_active, configVars, panelVars>>

\* Any other cycle writes silence to the ports of the outputs; Release leaves
\* the filter of a driver without buffers connected to a freed object.
ProcessSilent ==
  /\ pw_filter = "connected"
  /\ ref = 0 \/ asio_driver_state # "Running" \/ ~asio_callbacks
  /\ fault' = IF ref = 0 THEN "dangling" ELSE Access(OutputsVisited)
  /\ UNCHANGED <<objectVars, streamVars, channelVars, asio_active, dirty, configVars,
                 panelVars>>

-----------------------------------------------------------------------------
(* The control panel.                                                      *)

\* ControlPanel: the dialog is modal, This->gui is set when it has returned.
ControlPanel ==
  /\ ref > 0
  /\ panel = "closed"
  /\ asio_driver_state \in {"Initialized", "Prepared", "Running"}
  /\ ~gui
  /\ panel' = "open"
  /\ UNCHANGED <<objectVars, streamVars, channelVars, asio_active, dirty, configVars,
                 gui, fault>>

\* pw_filter_disconnect and pw_filter_connect.
Reconnects ==
  \/ pw_filter' = "connected"
  \/ "connect" \in Failures /\ pw_filter' = "present"

\* GuiApplyConfig: the size, the rate and the numbers of channels, then GuiClosed.
GuiApplyConfig(size, rate, number) ==
  LET resized == /\ size # asio_current_buffersize
                 /\ asio_driver_state \in {"Prepared", "Running"}
      rerated == rate # asio_sample_rate
  IN
  /\ panel = "open"
  /\ panel' = "decided"
  /\ gui' = FALSE
  /\ asio_current_buffersize' = size
  /\ asio_sample_rate' = rate
  /\ wineasio_number' = number
  /\ IF pw_filter = "connected" /\ (resized \/ rerated) THEN Reconnects ELSE UNCHANGED pw_filter
  /\ fault' = IF pw_filter = "connected" /\ resized THEN ConnectFault ELSE "none"
  /\ UNCHANGED <<objectVars, asio_callbacks, channelVars, asio_active, dirty>>

\* The user confirms the panel, having changed what he may.
Confirm ==
  \E size \in IF "size" \in Panel THEN Sizes ELSE {asio_current_buffersize},
     rate \in IF "rate" \in Panel THEN Rates \ {0} ELSE {asio_sample_rate},
     number \in IF "channels" \in Panel THEN Numbers ELSE {wineasio_number} :
    GuiApplyConfig(size, rate, number)

\* The user cancels it: only GuiClosed, which finds no This->gui to destroy.
GuiClosed ==
  /\ panel = "open"
  /\ panel' = "decided"
  /\ gui' = FALSE
  /\ UNCHANGED <<objectVars, streamVars, channelVars, asio_active, dirty, configVars,
                 fault>>

\* pwasio_init_gui returns the dialog that has been closed.
PanelReturns ==
  /\ panel = "decided"
  /\ panel' = "closed"
  /\ gui' = TRUE
  /\ UNCHANGED <<objectVars, streamVars, channelVars, asio_active, dirty, configVars,
                 fault>>

-----------------------------------------------------------------------------
Method ==
  \/ CreateInstance \/ InitDriver \/ InitFails \/ AddRef \/ Release \/ SetSampleRate
  \/ \E c \in Requests :
       \/ CreateBuffersStops(c)
       \/ \E size \in RequestedSizes : CreateBuffers(c, size) \/ CreateBuffersKeeps(c, size)
  \/ Start \/ Stop \/ DisposeBuffers

Process == ProcessSilent \/ \E duration \in Durations : ProcessRunning(duration)

PanelStep == ControlPanel \/ Confirm \/ GuiClosed \/ PanelReturns

Halted == fault # "none" /\ UNCHANGED vars

Next == (fault = "none" /\ (Method \/ Process \/ PanelStep)) \/ Halted

Spec == Init /\ [][Next]_vars

-----------------------------------------------------------------------------
(* Properties.                                                             *)

\* None of the watched undefined behaviours happens: no access beyond or after
\* the array of channels, no copy beyond a buffer, no use of a NULL filter, no
\* division by a rate of 0.
NoFault == fault = "none"

\* Whatever fails and whatever the host does, and though the size may be
\* changed in the panel at any time: the loops of asio.c stay within the array
\* of channels, the copies of the process callback within the buffers, and
\* Start and Stop have a filter.
AccessesInBounds == fault \notin {"bounds", "overrun", "filter"}

\* Start leaves no sample of an earlier run in any buffer.
StartsClean == [][Start => dirty' = {}]_vars

\* A cycle of a running driver copies every channel the host has prepared whose
\* buffers are as large as the configured size.
ChannelsServed ==
  asio_driver_state = "Running" /\ asio_callbacks =>
    \A s \in Prepared :
      buffer_size[s] >= asio_current_buffersize =>
        s \in Copied(InputsVisited) \cup Copied(OutputsVisited)

Protocol == INSTANCE AsioProtocol WITH
  Channels <- Slots,
  state <- IF ref = 0 \/ asio_driver_state = "raw" THEN "Loaded" ELSE asio_driver_state,
  buffers <- [s \in Prepared |-> buffer_size[s]]

\* The methods and the panel keep what the host relies on.
FollowsProtocol == Protocol!Spec

-----------------------------------------------------------------------------
(* What the documentation and comments say and the code does not do.       *)

\* "Host must recreate buffers": an initialized driver can be prepared.
CanRecreate == asio_driver_state = "Initialized" => pw_filter # "none"
=============================================================================
