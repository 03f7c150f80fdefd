------------------------------- MODULE RtData -------------------------------
(***************************************************************************)
(* The way of the samples through RtAudio: a host asks what the devices    *)
(* can do, opens a stream for one direction or both, and in every cycle    *)
(* its callback's samples go to the device and those of the device to it.  *)
(*                                                                         *)
(* probeDeviceOpen and convertBuffer are in RtDevices, RtCoreAudio and     *)
(* RtConvert; here is openStream, and the part of each back end's          *)
(* callbackEvent that moves samples.  When callbackEvent runs at all is    *)
(* the matter of RtStream.                                                 *)
(***************************************************************************)
EXTENDS RtCoreAudio

CONSTANTS
  Systems,   \* set of [api, devices]
  Requests,  \* set of [OUTPUT, INPUT], each None or a request for one direction
  Rounds,    \* the samples of a cycle are told apart by its round
  None

ASSUME RoundsAssumption == Rounds \subseteq Nat

\* A request for one direction.  openStream has one rate, format and layout.
Requested ==
  [id : Nat, channels : Nat, firstChannel : Nat, rate : Nat, format : Formats, frames : Nat,
   nonInterleaved : BOOLEAN]

ASSUME RequestsAssumption ==
  /\ None \notin Requested
  /\ Requests \subseteq [Modes -> Requested \cup {None}]
  /\ \A q \in Requests : q.OUTPUT # None /\ q.INPUT # None =>
       /\ q.OUTPUT.rate = q.INPUT.rate
       /\ q.OUTPUT.format = q.INPUT.format
       /\ q.OUTPUT.nonInterleaved = q.INPUT.nonInterleaved

\* What every device of a back end is: one of ASIO has one type, which RtAudio
\* knows, one of ALSA takes interleaved buffers or others, one of OSS integers.
\* All but ASIO and OSS are asked for samples in the order of the host.
Plausible(api, d) ==
  /\ d.rates \subseteq Nat
  /\ d.swapped \in IF api \in {"ASIO", "OSS"} THEN BOOLEAN ELSE {FALSE}
  /\ d.sizes.min \in Nat /\ d.sizes.max \in Nat /\ d.sizes.min <= d.sizes.max
  /\ IF api = "CORE" THEN \A mode \in Modes : d.streams[mode] \in Seq(Nat \ {0})
     ELSE /\ d.outs \in Nat /\ d.ins \in Nat /\ d.least \in Nat
          /\ d.formats \subseteq Formats
          /\ d.sizes.prefer \in Nat
  /\ api = "ASIO" => \E f \in Formats \ {"SINT8"} : d.formats = {f}
  /\ api = "ALSA" => d.layouts \subseteq BOOLEAN /\ d.layouts # {}
  /\ api = "OSS" => d.formats \ Floats # {}

\* PulseAudio shows its server as one device, and JACK's server has one size.
ASSUME SystemsAssumption ==
  \A s \in Systems :
    /\ s.api \in {"ASIO", "JACK", "ALSA", "PULSE", "OSS", "CORE"}
    /\ \A n \in DOMAIN s.devices : Plausible(s.api, s.devices[n])
    /\ s.api = "PULSE" => DOMAIN s.devices = {1}
    /\ s.api = "JACK" => \A m, n \in DOMAIN s.devices :
                          s.devices[m].sizes.prefer = s.devices[n].sizes.prefer

VARIABLES
  system,        \* the back end and its devices
  told,          \* what getDeviceInfo has said of a device, or None
  asked,         \* the arguments of the last openStream
  phase,         \* "closed", "refused", "open"
  stream,        \* stream_
  deviceBuffer,  \* its samples
  round,         \* the samples of this cycle
  left,          \* directions that are still to be served in this cycle
  played,        \* what the device has got in this cycle, by frame and channel
  heard          \* what the callback gets at the start of the next one

vars == <<system, told, asked, phase, stream, deviceBuffer, round, left, played, heard>>

Api == system.api
Device(mode) == system.devices[stream.device[mode]]
Uses(mode) == stream.mode \in {mode, "DUPLEX"}
Streams(mode) == Device(mode).streams[mode]

\* The samples are converted in the one buffer of CoreAudio's stream itself.
InPlace(mode) == Api = "CORE" /\ stream.nStreams[mode] = 1

-----------------------------------------------------------------------------
(* What the samples are.                                                   *)

\* The samples of frame i of channel k: spread over the range of the format, and
\* different ones for different places.
Sample(f, i, k) ==
  LET j == (2 * i + k + round) % 4
  IN  Lowest(f) + j * ((Highest(f) - Lowest(f)) \div 3)

\* The user's buffer of the output, filled by the callback.
Meant ==
  LET frames == stream.bufferSize
      channels == stream.nUserChannels["OUTPUT"]
  IN  [p \in 0..(frames * channels - 1) |->
         IF stream.userInterleaved THEN Sample(stream.userFormat, p \div channels, p % channels)
         ELSE Sample(stream.userFormat, p % frames, p \div frames)]

\* What is handed to the device, or got from it: the device buffer or the user's.
Handed(mode) ==
  IF stream.doConvertBuffer[mode]
    THEN [format |-> stream.deviceFormat[mode], channels |-> stream.nDeviceChannels[mode]]
    ELSE [format |-> stream.userFormat, channels |-> stream.nUserChannels[mode]]

HandedSamples(mode) == stream.bufferSize * Handed(mode).channels

\* The bytes of a sample in the device: 24 bits lie in four for ALSA and OSS.
Slot(f) == IF f = "SINT24" /\ Api \in {"ALSA", "OSS"} THEN 4 ELSE formatBytes[f]

\* Frame i of channel c in a buffer as the device sees it.
DevicePlace(mode, i, c) ==
  IF stream.deviceInterleaved[mode] THEN i * stream.nDeviceChannels[mode] + c
  ELSE c * stream.bufferSize + i

Frames == 0..(stream.bufferSize - 1)
DeviceChannels(mode) == 0..(stream.nDeviceChannels[mode] - 1)
PlayedChannels == IF Api = "CORE" THEN 0..(Channels(Streams("OUTPUT")) - 1) ELSE DeviceChannels("OUTPUT")

\* JACK and PulseAudio are asked for samples in the order of the host.
Swaps(mode) == stream.doByteSwap[mode] /\ Api \notin {"JACK", "PULSE"}

InHostOrder(bytes, mode) ==
  IF Swaps(mode) THEN byteSwapBuffer(bytes, HandedSamples(mode), Handed(mode).format) ELSE bytes

\* The part of the device buffer that convertBuffer clears before an output.
ClearedSamples ==
  IF stream.mode = "DUPLEX" /\ ~InPlace("OUTPUT") /\ stream.nDeviceChannels["OUTPUT"] < stream.nDeviceChannels["INPUT"]
    THEN stream.bufferSize * stream.convertInfo["OUTPUT"].out.jump ELSE 0

\* A buffer has room for the channels of both sides and directions; that the code
\* makes it large enough for those it uses is said by AccessesFit.
Room(s) ==
  Max(UNION {{s.nDeviceChannels[m], s.channelOffset[m] + s.nUserChannels[m]} : m \in Modes})

Blank(s) == [p \in 0..(s.bufferSize * Room(s) - 1) |-> 0]

-----------------------------------------------------------------------------

Init ==
  /\ system \in Systems
  /\ told = [n \in DOMAIN system.devices |-> None]
  /\ asked = [OUTPUT |-> None, INPUT |-> None]
  /\ phase = "closed"
  /\ stream = Cleared
  /\ deviceBuffer = <<>>
  /\ round \in Rounds
  /\ left = {}
  /\ played = None
  /\ heard = None

GetDeviceInfo(n) ==
  /\ phase = "closed"
  /\ told' = [told EXCEPT ![n] = getDeviceInfo(Api, system.devices[n])]
  /\ UNCHANGED <<system, asked, phase, stream, deviceBuffer, round, left, played, heard>>

\* openStream: the output first, and the input in the size the output has got.
Probed(s, mode, r) ==
  IF r = None \/ s = Failure THEN s
  ELSE probeDeviceOpen(Api, system.devices[r.id], s, mode, r)

ProbedBoth(q) ==
  LET s == Probed(Cleared, "OUTPUT", q.OUTPUT)
  IN  IF s = Failure \/ q.INPUT = None THEN s
      ELSE Probed(s, "INPUT", [q.INPUT EXCEPT !.frames = IF s.mode = "OUTPUT" THEN s.bufferSize ELSE @])

\* The checks before any device is looked at.
Valid(q) ==
  /\ q.OUTPUT # None \/ q.INPUT # None
  /\ \A mode \in Modes : q[mode] # None => q[mode].channels > 0 /\ q[mode].id \in DOMAIN system.devices

\* A direction that fails closes what the other has set up; all is cleared when
\* the next stream is opened.
OpenStream(q) ==
  /\ phase = "closed"
  /\ \E s \in {IF Valid(q) THEN ProbedBoth(q) ELSE Failure} :
         /\ asked' = q
         /\ phase' = IF s = Failure THEN "refused" ELSE "open"
         /\ stream' = IF s = Failure THEN Cleared ELSE s
         /\ deviceBuffer' = IF s = Failure THEN <<>> ELSE Blank(s)
  /\ UNCHANGED <<system, told, round, left, played, heard>>

CloseStream ==
  /\ phase \in {"open", "refused"}
  /\ left = {}
  /\ phase' = "closed"
  /\ stream' = Cleared
  /\ asked' = [OUTPUT |-> None, INPUT |-> None]
  /\ deviceBuffer' = <<>>
  /\ played' = None
  /\ heard' = None
  /\ UNCHANGED <<system, told, round, left>>

\* The callback of the user fills the next buffer.
Callback ==
  /\ phase = "open"
  /\ left = {}
  /\ round' \in Rounds
  /\ left' = {mode \in Modes : Uses(mode)}
  /\ played' = None
  /\ heard' = None
  /\ UNCHANGED <<system, told, asked, phase, stream, deviceBuffer>>

\* The output goes first, but for ALSA.
OutputFirst == Api # "ALSA"

WriteOutput ==
  LET buffer ==
        IF stream.doConvertBuffer["OUTPUT"]
          THEN convertBuffer(IF InPlace("OUTPUT") THEN Blank(stream) ELSE deviceBuffer, Meant, stream.convertInfo["OUTPUT"],
                             stream.bufferSize, ClearedSamples)
          ELSE Meant
      sent == InHostOrder(Bytes(buffer, HandedSamples("OUTPUT"), Handed("OUTPUT").format), "OUTPUT")
      f == stream.deviceFormat["OUTPUT"]
  IN  /\ "OUTPUT" \in left
      /\ "INPUT" \in left => OutputFirst
      /\ left' = left \ {"OUTPUT"}
      /\ played' =
           IF Api = "CORE" THEN Spread(buffer, Streams("OUTPUT"), stream)
           ELSE [q \in Frames \X PlayedChannels |->
                   Decoded(sent, DevicePlace("OUTPUT", q[1], q[2]), f, Slot(f), Device("OUTPUT").swapped)]
      /\ deviceBuffer' =
           IF stream.doConvertBuffer["OUTPUT"] /\ ~InPlace("OUTPUT") THEN buffer ELSE deviceBuffer
      /\ UNCHANGED <<system, told, asked, phase, stream, round, heard>>

\* What the device records in channel c, counted from the first it has.
Recorded(i, c) == Sample(stream.deviceFormat["INPUT"], i, c + 1)

\* The bytes it gives for them.
RecordedBytes ==
  LET f == stream.deviceFormat["INPUT"]
      n == formatBytes[f]
      At(p) == CHOOSE q \in Frames \X DeviceChannels("INPUT") : DevicePlace("INPUT", q[1], q[2]) = p
      value == [p \in 0..(stream.bufferSize * stream.nDeviceChannels["INPUT"] - 1) |->
                  Recorded(At(p)[1], stream.channelOffset["INPUT"] + At(p)[2])]
  IN  [b \in 0..(stream.bufferSize * stream.nDeviceChannels["INPUT"] * Slot(f) - 1) |->
         LET at == b % Slot(f)
         IN  <<value[b \div Slot(f)], IF at < n /\ Device("INPUT").swapped THEN n - 1 - at ELSE at>>]

ReadInput ==
  LET bytes == InHostOrder(RecordedBytes, "INPUT")
      f == Handed("INPUT").format
      got == [p \in DOMAIN deviceBuffer |->
                IF p < HandedSamples("INPUT") THEN Decoded(bytes, p, f, formatBytes[f], FALSE)
                ELSE deviceBuffer[p]]
      \* what is there from the device, in the buffer it is left in
      there == IF Api # "CORE" THEN got
               ELSE Gathered(IF stream.doConvertBuffer["INPUT"] /\ ~InPlace("INPUT")
                               THEN deviceBuffer ELSE Blank(stream),
                             [q \in Frames \X (0..(Channels(Streams("INPUT")) - 1)) |-> Recorded(q[1], q[2])],
                             Streams("INPUT"), stream)
  IN  /\ "INPUT" \in left
      /\ "OUTPUT" \in left => ~OutputFirst
      /\ left' = left \ {"INPUT"}
      /\ IF stream.doConvertBuffer["INPUT"]
           THEN /\ deviceBuffer' = IF InPlace("INPUT") THEN deviceBuffer ELSE there
                /\ heard' = convertBuffer(Blank(stream), there, stream.convertInfo["INPUT"], stream.bufferSize, 0)
           ELSE heard' = there /\ UNCHANGED deviceBuffer
      /\ UNCHANGED <<system, told, asked, phase, stream, round, played>>

Next ==
  \/ \E n \in DOMAIN told : GetDeviceInfo(n)
  \/ \E q \in Requests : OpenStream(q)
  \/ Callback
  \/ WriteOutput
  \/ ReadInput
  \/ CloseStream

Spec == Init /\ [][Next]_vars

-----------------------------------------------------------------------------
(* Properties.                                                             *)

\* Types, and an open stream has the directions that were asked for.
TypeOK ==
  /\ system \in Systems
  /\ DOMAIN told = DOMAIN system.devices
  /\ phase \in {"closed", "refused", "open"}
  /\ phase = "open" <=> stream.mode \in Modes \cup {"DUPLEX"}
  /\ phase = "open" => \A mode \in Modes : Uses(mode) <=> asked[mode] # None
  /\ round \in Rounds
  /\ left \subseteq {mode \in Modes : Uses(mode)}

\* What the properties leave to the list of known gaps: 24 bits in four bytes or
\* exchanged, a device of OSS that is reopened with other channels, or that is
\* opened for an input of other frames than the output has (where less than a
\* fragment is asked for), and a stream of CoreAudio that has not the channels of
\* the first one.
Reopened ==
  /\ Api = "OSS" /\ stream.mode = "DUPLEX"
  /\ stream.device["OUTPUT"] = stream.device["INPUT"]
  /\ asked.OUTPUT.firstChannel # asked.INPUT.firstChannel

Resized ==
  /\ Api = "OSS" /\ stream.mode = "DUPLEX"
  /\ stream.bufferSize
       # OssBufferSize(asked.OUTPUT, stream.deviceFormat["OUTPUT"], stream.nDeviceChannels["OUTPUT"])

Gap(mode) ==
  \/ stream.deviceFormat[mode] = "SINT24" /\ (Swaps(mode) \/ Slot("SINT24") # formatBytes["SINT24"])
  \/ Reopened
  \/ Resized
  \/ Api = "CORE" /\ OtherStream(Streams(mode), stream, mode)

\* Two samples are the same to within a step of the coarser of their formats.
StepOf(f) == IF f \in Floats THEN 0 ELSE 2 * (Unit \div Full(formatBytes[f]))

Near(f, x, g, y) ==
  LET a == ToFloat(f, x)
      b == ToFloat(g, y)
      distance == IF a < b THEN b - a ELSE a - b
  IN  x # Garbled /\ y # Garbled /\ distance <= Max({StepOf(f), StepOf(g)})

\* The place of channel k of the user in its own buffer.
UserPlace(mode, i, k) ==
  IF stream.userInterleaved THEN i * stream.nUserChannels[mode] + k ELSE k * stream.bufferSize + i

UserChannels(mode) == 0..(stream.nUserChannels[mode] - 1)

\* What the input has left in the buffer that both directions share is not
\* cleared before the output.
KeepsInput ==
  /\ stream.mode = "DUPLEX" /\ stream.doConvertBuffer["INPUT"] /\ Api # "CORE"
  /\ ~(ClearedSamples > 0 /\ stream.deviceInterleaved["OUTPUT"])

OutputArrives ==
  LET first == IF Api = "CORE" THEN asked.OUTPUT.firstChannel
               ELSE asked.OUTPUT.firstChannel - stream.channelOffset["OUTPUT"]
  IN  /\ \A i \in Frames, k \in UserChannels("OUTPUT") :
            Near(stream.userFormat, Meant[UserPlace("OUTPUT", i, k)],
                 stream.deviceFormat["OUTPUT"], played[<<i, first + k>>])
      /\ \A i \in Frames, c \in PlayedChannels :
            c - first \notin UserChannels("OUTPUT") => KeepsInput \/ played[<<i, c>>] = 0

InputArrives ==
  \A i \in Frames, k \in UserChannels("INPUT") :
    Near(stream.deviceFormat["INPUT"], Recorded(i, asked.INPUT.firstChannel + k),
         stream.userFormat, heard[UserPlace("INPUT", i, k)])

\* Every sample of the callback is played in the channel of the device that the
\* host has asked for, in its frame and up to rounding in its value, every other
\* channel is silent, and the callback gets every recorded sample in the same
\* way, whatever the formats, the layouts and the byte orders of both sides are.
SamplesArrive ==
  /\ played # None /\ ~Gap("OUTPUT") => OutputArrives
  /\ heard # None /\ ~Gap("INPUT") => InputArrives

\* Samples also arrive at a device with the other byte order, in every format:
\* "The internal routines will automatically take care of any necessary
\* byte-swapping between the host format and the soundcard" (RtAudio.h:74).
SwappedArrive ==
  /\ played # None /\ Swaps("OUTPUT") => OutputArrives
  /\ heard # None /\ Swaps("INPUT") => InputArrives

\* The conversion stays inside the two buffers it is between.
ConversionFits(mode, deviceBytes) ==
  LET device == IF mode = "OUTPUT" THEN stream.convertInfo[mode].out ELSE stream.convertInfo[mode].in
      user == IF mode = "OUTPUT" THEN stream.convertInfo[mode].in ELSE stream.convertInfo[mode].out
  IN  /\ \A q \in Places(stream.convertInfo[mode], stream.bufferSize) :
           /\ (Position(device, q[1], q[2]) + 1) * formatBytes[device.format] <= deviceBytes
           /\ (Position(user, q[1], q[2]) + 1) * formatBytes[user.format] <= stream.userBytes[mode]
      /\ mode = "OUTPUT" => ClearedSamples * formatBytes[device.format] <= deviceBytes

HandedFits(mode) ==
  LET handedBytes == IF stream.doConvertBuffer[mode] THEN stream.deviceBytes ELSE stream.userBytes[mode]
  IN  /\ HandedSamples(mode) * formatBytes[Handed(mode).format] <= handedBytes
      /\ Cardinality(Frames \X DeviceChannels(mode)) * Slot(stream.deviceFormat[mode]) <= handedBytes

Fits(mode) ==
  IF Api = "CORE"
    THEN /\ StreamsFit(Streams(mode), stream, mode)
         /\ stream.doConvertBuffer[mode] => ConversionFits(mode, CoreDeviceBytes(Streams(mode), stream, mode))
    ELSE /\ HandedFits(mode)
         /\ stream.doConvertBuffer[mode] => ConversionFits(mode, stream.deviceBytes)

\* Conversion, byte swapping and the calls of the back end stay inside the user's
\* buffers and inside the one device buffer that both directions share, though
\* each direction only makes sure of its own needs when it is set up.
AccessesFit == \A mode \in Modes : Uses(mode) /\ ~Gap(mode) => Fits(mode)

\* What was asked for is within what getDeviceInfo had said: channels, rate, and
\* for both directions the channels it names for both.  Not covered: the first
\* channel of PulseAudio, directions of OSS with different numbers of channels, and
\* the numbers of the devices after a card of ALSA that cannot be opened.
Covered(mode) ==
  LET r == asked[mode]
  IN  r # None =>
        /\ r.channels > 0 /\ r.id \in DOMAIN told
        /\ told[r.id] # None /\ told[r.id].probed
        /\ r.channels + r.firstChannel <= told[r.id][mode]
        /\ r.rate \in told[r.id].sampleRates
        /\ ~system.devices[r.id].hidden
        /\ Api = "PULSE" => r.firstChannel = 0

CoveredBoth ==
  asked.OUTPUT # None /\ asked.INPUT # None =>
    /\ asked.OUTPUT.id = asked.INPUT.id
    /\ \A mode \in Modes : asked[mode].channels + asked[mode].firstChannel <= told[asked[mode].id].duplex
    /\ Api = "OSS" => asked.OUTPUT.channels = asked.INPUT.channels

\* A host may rely on what getDeviceInfo says: a stream with channels and a rate
\* that it has named is opened, in both directions with as many channels as it
\* has named for both, and a format it has named is not converted.
InfoIsTrue ==
  asked # [OUTPUT |-> None, INPUT |-> None] /\ Covered("OUTPUT") /\ Covered("INPUT") /\ CoveredBoth =>
    /\ phase = "open"
    /\ \A mode \in Modes :
         /\ asked[mode] # None
         /\ stream.userFormat \in told[asked[mode].id].nativeFormats
         /\ ~(Api = "OSS" /\ stream.userFormat \in Floats)
         => stream.deviceFormat[mode] = stream.userFormat
=============================================================================
