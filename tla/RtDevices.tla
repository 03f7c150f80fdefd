------------------------------ MODULE RtDevices ------------------------------
(***************************************************************************)
(* What the back ends of RtAudio make of a device: getDeviceInfo, which    *)
(* says what it can do, and probeDeviceOpen, which sets up one direction   *)
(* of a stream with it.  The back ends are ASIO, JACK, ALSA, PulseAudio    *)
(* and OSS; each has its own copy of the same steps.  CoreAudio is in      *)
(* RtCoreAudio.                                                            *)
(*                                                                         *)
(* A device is a record:                                                   *)
(*   outs, ins   channels of each direction                                *)
(*   least       the fewest channels it runs with (ALSA, OSS)              *)
(*   formats     sample formats it takes                                   *)
(*   swapped     its bytes are in the other order (ASIO, OSS)              *)
(*   layouts     whether it takes interleaved and other buffers (ALSA)     *)
(*   duplex      both directions at once (OSS)                             *)
(*   rates       sample rates it runs at; the first of JACK's is its own   *)
(*   sizes       [min, max, prefer, granularity] of its buffers            *)
(*   hidden      a card before it cannot be opened (ALSA)                  *)
(* What a device refuses for reasons of its own is not modelled here.      *)
(***************************************************************************)
EXTENDS RtConvert, FiniteSetsExt

CONSTANT LeastFragment  \* bytes of the smallest fragment of OSS, 16 in the code

ASSUME LeastFragmentAssumption == LeastFragment \in Nat \ {0}

SAMPLE_RATES ==
  {4000, 5512, 8000, 9600, 11025, 16000, 22050, 32000, 44100, 48000, 88200, 96000, 176400, 192000}

PulseRates == {8000, 16000, 22050, 32000, 44100, 48000, 96000}
PulseFormats == {"SINT16", "SINT32", "FLOAT32"}

\* The highest up to 48000, or the lowest above it.
Preferred(rates) ==
  LET usual == {r \in rates : r <= 48000}
  IN  IF rates = {} THEN 0 ELSE IF usual # {} THEN Max(usual) ELSE Min(rates)

-----------------------------------------------------------------------------
(* getDeviceInfo.                                                          *)

NoInfo == [probed |-> FALSE]

Info(outs, ins, formats, rates, preferred) ==
  [probed |-> TRUE, OUTPUT |-> outs, INPUT |-> ins,
   duplex |-> IF outs > 0 /\ ins > 0 THEN Lesser(outs, ins) ELSE 0,
   nativeFormats |-> formats, sampleRates |-> rates, preferredSampleRate |-> preferred]

AsioInfo(d) ==
  LET rates == d.rates \cap SAMPLE_RATES
  IN  Info(d.outs, d.ins, d.formats \ {"SINT8"}, rates, Preferred(rates))

\* JACK's ports are grouped by the client they are of.
JackInfo(d) ==
  LET server == CHOOSE r \in d.rates : TRUE
  IN  IF d.outs = 0 /\ d.ins = 0 THEN NoInfo
      ELSE Info(d.outs, d.ins, {"FLOAT32"}, {server}, server)

\* The rates and formats are those of the direction with more channels.
AlsaParameters(d) ==
  LET rates == d.rates \cap SAMPLE_RATES
  IN  IF rates = {} \/ d.formats = {} THEN NoInfo
      ELSE Info(d.outs, d.ins, d.formats, rates, Preferred(rates))

AlsaInfo(d) == IF d.outs = 0 /\ d.ins = 0 THEN NoInfo ELSE AlsaParameters(d)

PulseInfo(d) == Info(2, 2, PulseFormats, PulseRates, 48000)

OssInfo(d) ==
  LET rates == d.rates \cap SAMPLE_RATES
      both == Info(d.outs, d.ins, d.formats, rates, Preferred(rates))
  IN  IF d.formats = {} \/ rates = {} THEN NoInfo
      ELSE [both EXCEPT !.duplex = IF d.duplex THEN @ ELSE 0]

-----------------------------------------------------------------------------
(* A stream.  It is set up for one direction after the other.              *)

Modes == {"OUTPUT", "INPUT"}
Both(x) == [m \in Modes |-> x]

\* clearStreamInfo.  Sizes are in bytes; 0 is a buffer that is not there.
Cleared ==
  [mode |-> "UNINITIALIZED", bufferSize |-> 0, userFormat |-> "SINT8", userInterleaved |-> TRUE,
   device |-> Both(0), deviceFormat |-> Both("SINT8"), deviceInterleaved |-> Both(TRUE),
   doByteSwap |-> Both(FALSE), doConvertBuffer |-> Both(FALSE), nUserChannels |-> Both(0),
   nDeviceChannels |-> Both(0), channelOffset |-> Both(0), userBytes |-> Both(0),
   deviceBytes |-> 0, iStream |-> Both(1), nStreams |-> Both(1), convertInfo |-> Both([channels |-> 0])]

Failure == [mode |-> "FAILURE"]

\* A request r for one direction is a record of the device's id (from 1), channels,
\* firstChannel, rate, format, frames and nonInterleaved.

\* Plausible slip: the mode that is looked at is the new one.
IsSecondInput(s, mode) == mode = "INPUT" /\ s.mode = "INPUT"

\* The output of the stream is set up already.
IsDuplexInput(s, mode) == mode = "INPUT" /\ s.mode = "OUTPUT"

\* doConvertBuffer: the device and the user want the buffer to look different.
\* (The condition on the channels is not in ASIO and JACK, which have as many
\* on both sides; PulseAudio also converts a single channel, to the same effect.)
Converts(s, mode) ==
  \/ s.userFormat # s.deviceFormat[mode]
  \/ s.nUserChannels[mode] < s.nDeviceChannels[mode]
  \/ s.userInterleaved # s.deviceInterleaved[mode] /\ s.nUserChannels[mode] > 1

DeviceFrame(s, mode) == s.nDeviceChannels[mode] * formatBytes[s.deviceFormat[mode]]
UserFrame(s, mode) == s.nUserChannels[mode] * formatBytes[s.userFormat]

\* Plausible slip: the buffer of the output is kept for a wider input.
KeepsAnyBuffer(s, mode, atLeast) == IsDuplexInput(s, mode) /\ s.deviceBytes > 0

\* The one device buffer is kept for the input if a frame of the output is large
\* enough.
KeepsBuffer(s, mode, atLeast) ==
  /\ IsDuplexInput(s, mode)
  /\ s.deviceBytes > 0
  /\ DeviceFrame(s, mode) + atLeast <= DeviceFrame(s, "OUTPUT")

\* The buffers and the conversion, when everything else of s is set.  JACK
\* (atLeast = 1) also makes a new buffer for a frame of the same size.
Allocated(s, mode, firstChannel, atLeast) ==
  LET converts == Converts(s, mode)
      c == [s EXCEPT
              !.doConvertBuffer[mode] = converts,
              !.userBytes[mode] = UserFrame(s, mode) * s.bufferSize,
              !.deviceBytes =
                 IF ~converts \/ KeepsBuffer(s, mode, atLeast) THEN @
                 ELSE DeviceFrame(s, mode) * s.bufferSize,
              !.mode = IF IsDuplexInput(s, mode) THEN "DUPLEX" ELSE mode]
  IN  IF converts THEN [c EXCEPT !.convertInfo[mode] = setConvertInfo(c, mode, firstChannel)] ELSE c

\* What every back end sets from the request and from what it has chosen.
Chosen(s, mode, r, format, interleaved, channels, swap, offset, frames) ==
  [s EXCEPT !.device[mode] = r.id, !.userFormat = r.format,
            !.userInterleaved = ~r.nonInterleaved, !.deviceFormat[mode] = format,
            !.deviceInterleaved[mode] = interleaved, !.doByteSwap[mode] = swap,
            !.nUserChannels[mode] = r.channels, !.nDeviceChannels[mode] = channels,
            !.channelOffset[mode] = offset, !.bufferSize = frames]

ChannelsOf(d, mode) == IF mode = "OUTPUT" THEN d.outs ELSE d.ins

-----------------------------------------------------------------------------
(* ASIO: one driver, which has a type for all its channels.                *)

AsioFits(d, mode, r) ==
  /\ r.channels + r.firstChannel <= ChannelsOf(d, mode)
  /\ r.rate \in d.rates

AsioFormat(d) == CHOOSE f \in d.formats : TRUE

AsioAccepts(d, size) ==
  /\ size \in d.sizes.min..d.sizes.max
  /\ CASE d.sizes.granularity = 0  -> size = d.sizes.prefer
       [] d.sizes.granularity = -1 -> \E n \in 0..16 : size = 2 ^ n
       [] OTHER -> (size - d.sizes.min) % d.sizes.granularity = 0

PowersBetween(z) ==
  {2 ^ n : n \in {m \in 0..16 : 2 ^ (m + 1) > z.min /\ 2 ^ m <= z.max}}

\* The power of two that is closest to size, and of two the lower.
ClosestPower(size, z) ==
  LET Distance(p) == IF p > size THEN p - size ELSE size - p
  IN  CHOOSE p \in PowersBetween(z) :
        \A q \in PowersBetween(z) : Distance(p) < Distance(q) \/ (Distance(p) = Distance(q) /\ p <= q)

AsioBufferSize(size, z) ==
  IF size = 0 THEN z.prefer
  ELSE IF size < z.min THEN z.min
  ELSE IF size > z.max THEN z.max
  ELSE IF z.granularity = -1 THEN Lesser(z.max, Max({z.min, ClosestPower(size, z)}))
  ELSE IF z.granularity # 0 THEN ((size + z.granularity - 1) \div z.granularity) * z.granularity
  ELSE size

\* The size is that of the output, or the driver's own if it does not take it.
AsioOpen(d, s, mode, r) ==
  LET asked == IF IsDuplexInput(s, mode) THEN s.bufferSize ELSE AsioBufferSize(r.frames, d.sizes)
      size == IF AsioAccepts(d, asked) THEN asked ELSE d.sizes.prefer
      c == Chosen(s, mode, r, AsioFormat(d), FALSE, r.channels, d.swapped, r.firstChannel, size)
  IN  IF ~AsioFits(d, mode, r) \/ AsioFormat(d) = "SINT8"
         \/ (IsDuplexInput(s, mode) /\ s.device["OUTPUT"] # r.id)
        THEN Failure
        ELSE Allocated(c, mode, 0, 0)

-----------------------------------------------------------------------------
(* JACK: floats, a buffer for each port, the size and the rate of the server. *)

JackFits(d, mode, r) ==
  /\ r.channels + r.firstChannel <= ChannelsOf(d, mode)
  /\ r.rate = CHOOSE x \in d.rates : TRUE

JackOpen(d, s, mode, r) ==
  IF ~JackFits(d, mode, r) THEN Failure
  ELSE Allocated(Chosen(s, mode, r, "FLOAT32", FALSE, r.channels, FALSE, r.firstChannel, d.sizes.prefer),
                 mode, 0, 1)

-----------------------------------------------------------------------------
(* ALSA.                                                                   *)

\* The device's layout is the user's if it can be.
AlsaInterleaved(d, r) == IF ~r.nonInterleaved \in d.layouts THEN ~r.nonInterleaved ELSE r.nonInterleaved

AlsaOrder == <<"FLOAT64", "FLOAT32", "SINT32", "SINT24", "SINT16", "SINT8">>

FirstOf(order, formats) == order[Min({i \in DOMAIN order : order[i] \in formats})]

\* Plausible slip: the user's format is only one of those that are tried.
FirstFormat(d, r) == FirstOf(AlsaOrder, d.formats)

AlsaFormat(d, r) == IF r.format \in d.formats THEN r.format ELSE FirstOf(AlsaOrder, d.formats)

AtLeast(n, least) == IF n < least THEN least ELSE n

AlsaPeriod(d, r) == Lesser(d.sizes.max, AtLeast(r.frames, d.sizes.min))

\* The search for the device fails at a card that cannot be opened, which
\* getDeviceInfo passes over.
AlsaFinds(d) == ~d.hidden

\* The formats that are asked for are in the order of the host: nothing is swapped.
AlsaOpen(d, s, mode, r) ==
  LET c == Chosen(s, mode, r, AlsaFormat(d, r), AlsaInterleaved(d, r),
                  AtLeast(r.channels + r.firstChannel, d.least), FALSE, 0, AlsaPeriod(d, r))
  IN  IF \/ ~AlsaFinds(d)
         \/ d.layouts = {} \/ d.formats = {}
         \/ r.channels + r.firstChannel > ChannelsOf(d, mode)
         \/ IsDuplexInput(s, mode) /\ c.bufferSize # s.bufferSize
        THEN Failure
        ELSE Allocated(c, mode, r.firstChannel, 0)

-----------------------------------------------------------------------------
(* PulseAudio: one or two channels of the server.                          *)

PulseOpen(d, s, mode, r) ==
  LET format == IF r.format \in PulseFormats THEN r.format ELSE "FLOAT32"
      c == Chosen(s, mode, r, format, TRUE, r.channels, FALSE, 0, r.frames)
  IN  IF r.id # 1 \/ r.channels \notin {1, 2} \/ r.firstChannel # 0 \/ r.rate \notin PulseRates
        THEN Failure
        ELSE Allocated(c, mode, 0, 0)

-----------------------------------------------------------------------------
(* OSS.                                                                    *)

\* The same device once more: it is reopened for both directions.
Reopens(s, mode, r) == IsDuplexInput(s, mode) /\ s.device["OUTPUT"] = r.id

OssRefuses(d, s, mode, r) ==
  \/ ChannelsOf(d, mode) = 0
  \/ Reopens(s, mode, r) /\ (~d.duplex \/ s.nUserChannels["OUTPUT"] # r.channels)
  \/ r.channels + r.firstChannel > Max({d.outs, d.ins})

OssOrder == <<"SINT16", "SINT32", "SINT24", "SINT8">>

\* A float is never asked for, also of a device that takes it.
OssFormats(d) == d.formats \ Floats

OssFormat(d, r) ==
  IF r.format \in OssFormats(d) THEN r.format
  ELSE FirstOf(OssOrder, OssFormats(d))

OssBufferSize(r, format, channels) ==
  AtLeast(r.frames * formatBytes[format] * channels, LeastFragment) \div (formatBytes[format] * channels)

OssOpen(d, s, mode, r) ==
  LET channels == AtLeast(r.channels + r.firstChannel, d.least)
      format == OssFormat(d, r)
      c == Chosen(s, mode, r, format, TRUE, channels, d.swapped /\ format # "SINT8", 0,
                  OssBufferSize(r, format, channels))
      \* the output has now the frames of the input
      shared == [c EXCEPT !.deviceFormat["OUTPUT"] = format, !.nDeviceChannels["OUTPUT"] = channels]
  IN  IF OssRefuses(d, s, mode, r) \/ OssFormats(d) = {} THEN Failure
      ELSE Allocated(IF Reopens(s, mode, r) THEN shared ELSE c, mode, r.firstChannel, 0)
=============================================================================
