---------------------------- MODULE RtDataProofs ----------------------------
(***************************************************************************)
(* What holds of the streams of RtAudio for all devices, requests and      *)
(* sizes, and the proofs.                                                  *)
(*                                                                         *)
(* probeDeviceOpen is six programs that make the same record in their own  *)
(* ways.  For each back end there is a lemma on what the record is when    *)
(* it succeeds (SetUp, Buffered) and one that it does succeed for a        *)
(* request within what getDeviceInfo has said (Kept); from there on        *)
(* nothing depends on the back end.  The invariant RtInv says that an open *)
(* stream is what openStream makes of its arguments, and that what the     *)
(* host was told is what it would be told again.                           *)
(*                                                                         *)
(*   TypesAndDirections        a stream has the directions asked for       *)
(*   DevicesKeepTheirPromises  getDeviceInfo is true of probeDeviceOpen    *)
(*   AccessesStayInside        the conversion stays in the buffers         *)
(*                                                                         *)
(* The last one needs the sums over the streams of a device for CoreAudio, *)
(* which are recursive: there it is left to TLC.  What becomes of the      *)
(* samples is in RtSampleProofs.                                           *)
(***************************************************************************)
EXTENDS RtData, FiniteSetTheorems, TLAPS

-----------------------------------------------------------------------------
(* Streams as records.                                                     *)

\* The fields that a stream has once for each direction, and all of them.
Sided ==
  {"device", "deviceFormat", "deviceInterleaved", "doByteSwap", "doConvertBuffer", "nUserChannels",
   "nDeviceChannels", "channelOffset", "userBytes", "iStream", "nStreams", "convertInfo"}

Shaped(s) ==
  /\ DOMAIN s = Sided \cup {"mode", "bufferSize", "userFormat", "userInterleaved", "deviceBytes"}
  /\ \A f \in Sided : DOMAIN s[f] = Modes

\* t is s but for the direction mode and what both directions have in common.
Beside(s, t, mode) ==
  \A m \in Modes \ {mode} :
    /\ t.device[m] = s.device[m]
    /\ t.deviceFormat[m] = s.deviceFormat[m]
    /\ t.deviceInterleaved[m] = s.deviceInterleaved[m]
    /\ t.doConvertBuffer[m] = s.doConvertBuffer[m]
    /\ t.nUserChannels[m] = s.nUserChannels[m]
    /\ t.nDeviceChannels[m] = s.nDeviceChannels[m]
    /\ t.userBytes[m] = s.userBytes[m]
    /\ t.convertInfo[m] = s.convertInfo[m]

Joined(s, mode) == IF IsDuplexInput(s, mode) THEN "DUPLEX" ELSE mode

\* The sizes of the formats.
LEMMA FormatBytes ==
  /\ Formats = {"SINT8", "SINT16", "SINT24", "SINT32", "FLOAT32", "FLOAT64"}
  /\ \A f \in Formats : formatBytes[f] \in Nat \ {0}
<1>1. Formats = {"SINT8", "SINT16", "SINT24", "SINT32", "FLOAT32", "FLOAT64"}
  BY DEF Formats, formatBytes
<1>2. \A f \in Formats : formatBytes[f] \in Nat \ {0}
  BY <1>1 DEF formatBytes
<1> QED BY <1>1, <1>2

\* A stream that is not set up.
LEMMA ClearedLemma ==
  /\ Shaped(Cleared) /\ Cleared.mode = "UNINITIALIZED" /\ Cleared.bufferSize = 0
  /\ Cleared.deviceBytes = 0
BY DEF Shaped, Sided, Cleared, Both

\* What is set from the request and the choices for it.
LEMMA ChosenLemma ==
  ASSUME NEW s, Shaped(s), NEW mode \in Modes, NEW r, NEW format, NEW interleaved,
         NEW channels, NEW swap, NEW offset, NEW frames
  PROVE  LET c == Chosen(s, mode, r, format, interleaved, channels, swap, offset, frames)
         IN  /\ Shaped(c)
             /\ Beside(s, c, mode)
             /\ c.mode = s.mode /\ c.bufferSize = frames /\ c.userFormat = r.format
             /\ c.userInterleaved = ~r.nonInterleaved /\ c.deviceBytes = s.deviceBytes
             /\ c.device[mode] = r.id /\ c.deviceFormat[mode] = format
             /\ c.deviceInterleaved[mode] = interleaved
             /\ c.nUserChannels[mode] = r.channels /\ c.nDeviceChannels[mode] = channels
<1> DEFINE c == Chosen(s, mode, r, format, interleaved, channels, swap, offset, frames)
<1>1. DOMAIN c = DOMAIN s /\ \A f \in Sided : DOMAIN c[f] = Modes
  BY ZenonT(60) DEF Chosen, Shaped, Sided
<1>2. /\ c.mode = s.mode /\ c.bufferSize = frames /\ c.deviceBytes = s.deviceBytes
      /\ c.userFormat = r.format /\ c.userInterleaved = ~r.nonInterleaved
  BY DEF Chosen, Shaped, Sided
<1>3. \A m \in Modes :
        /\ c.device[m] = IF m = mode THEN r.id ELSE s.device[m]
        /\ c.deviceFormat[m] = IF m = mode THEN format ELSE s.deviceFormat[m]
        /\ c.deviceInterleaved[m] = IF m = mode THEN interleaved ELSE s.deviceInterleaved[m]
  BY DEF Chosen, Shaped, Sided
<1>4. \A m \in Modes :
        /\ c.nUserChannels[m] = IF m = mode THEN r.channels ELSE s.nUserChannels[m]
        /\ c.nDeviceChannels[m] = IF m = mode THEN channels ELSE s.nDeviceChannels[m]
  BY DEF Chosen, Shaped, Sided
<1>5. \A m \in Modes :
        /\ c.doConvertBuffer[m] = s.doConvertBuffer[m]
        /\ c.userBytes[m] = s.userBytes[m]
        /\ c.convertInfo[m] = s.convertInfo[m]
  BY DEF Chosen, Shaped, Sided
<1>6. Beside(s, c, mode)
  BY <1>3, <1>4, <1>5 DEF Beside
<1> QED BY <1>1, <1>2, <1>3, <1>4, <1>6 DEF Shaped

\* What the conversion is set up from.
LEMMA ConversionLemma ==
  ASSUME NEW s, NEW t, NEW mode \in Modes, NEW first,
         t.nUserChannels[mode] = s.nUserChannels[mode],
         t.nDeviceChannels[mode] = s.nDeviceChannels[mode],
         t.userInterleaved = s.userInterleaved, t.userFormat = s.userFormat,
         t.deviceInterleaved[mode] = s.deviceInterleaved[mode],
         t.deviceFormat[mode] = s.deviceFormat[mode], t.bufferSize = s.bufferSize
  PROVE  setConvertInfo(t, mode, first) = setConvertInfo(s, mode, first)
BY DEF setConvertInfo

\* The buffers, and all that is left as it was chosen.
LEMMA AllocatedLemma ==
  ASSUME NEW s, Shaped(s), NEW mode \in Modes, NEW first, NEW atLeast
  PROVE  LET a == Allocated(s, mode, first, atLeast)
         IN  /\ Shaped(a)
             /\ Beside(s, a, mode)
             /\ a.mode = Joined(s, mode) /\ a.bufferSize = s.bufferSize
             /\ a.userFormat = s.userFormat /\ a.userInterleaved = s.userInterleaved
             /\ a.device[mode] = s.device[mode] /\ a.deviceFormat[mode] = s.deviceFormat[mode]
             /\ a.deviceInterleaved[mode] = s.deviceInterleaved[mode]
             /\ a.nUserChannels[mode] = s.nUserChannels[mode]
             /\ a.nDeviceChannels[mode] = s.nDeviceChannels[mode]
             /\ a.doConvertBuffer[mode] = Converts(s, mode)
             /\ a.userBytes[mode] = UserFrame(s, mode) * s.bufferSize
             /\ a.deviceBytes = IF ~Converts(s, mode) \/ KeepsBuffer(s, mode, atLeast)
                                  THEN s.deviceBytes ELSE DeviceFrame(s, mode) * s.bufferSize
             /\ Converts(s, mode) => a.convertInfo[mode] = setConvertInfo(s, mode, first)
<1> DEFINE a == Allocated(s, mode, first, atLeast)
           converts == Converts(s, mode)
           user == UserFrame(s, mode) * s.bufferSize
           device == IF ~converts \/ KeepsBuffer(s, mode, atLeast) THEN s.deviceBytes
                     ELSE DeviceFrame(s, mode) * s.bufferSize
           c == [s EXCEPT !.doConvertBuffer[mode] = converts, !.userBytes[mode] = user,
                          !.deviceBytes = device, !.mode = Joined(s, mode)]
           d == [c EXCEPT !.convertInfo[mode] = setConvertInfo(c, mode, first)]
<1>1. a = IF converts THEN d ELSE c
  BY DEF Allocated, Joined
<1> HIDE DEF a, converts, user, device
<1>2. Shaped(c)
  BY DEF Shaped, Sided
<1>3. /\ c.mode = Joined(s, mode) /\ c.bufferSize = s.bufferSize /\ c.deviceBytes = device
      /\ c.userFormat = s.userFormat /\ c.userInterleaved = s.userInterleaved
      /\ c.device = s.device /\ c.deviceFormat = s.deviceFormat
      /\ c.deviceInterleaved = s.deviceInterleaved /\ c.nUserChannels = s.nUserChannels
      /\ c.nDeviceChannels = s.nDeviceChannels /\ c.convertInfo = s.convertInfo
  BY DEF Shaped, Sided
<1>4. /\ c.doConvertBuffer = [s.doConvertBuffer EXCEPT ![mode] = converts]
      /\ c.userBytes = [s.userBytes EXCEPT ![mode] = user]
  BY DEF Shaped, Sided
<1> HIDE DEF c
<1>5. setConvertInfo(c, mode, first) = setConvertInfo(s, mode, first)
  BY <1>3, ConversionLemma
<1>6. Shaped(d)
  BY <1>2 DEF Shaped, Sided
<1>7. \A f \in DOMAIN c \ {"convertInfo"} : d[f] = c[f]
  OBVIOUS
<1>8. d.convertInfo = [s.convertInfo EXCEPT ![mode] = setConvertInfo(s, mode, first)]
  BY <1>2, <1>3, <1>5 DEF Shaped, Sided
<1> HIDE DEF d
<1>9. \A f \in DOMAIN s \ {"convertInfo"} : a[f] = c[f]
  BY <1>1, <1>2, <1>7 DEF Shaped
<1>10. \A f \in Sided : DOMAIN s[f] = Modes
  BY DEF Shaped
<1>11. Shaped(a)
  BY <1>1, <1>2, <1>6
<1>12. /\ a.mode = c.mode /\ a.bufferSize = c.bufferSize /\ a.deviceBytes = c.deviceBytes
       /\ a.userFormat = c.userFormat /\ a.userInterleaved = c.userInterleaved
       /\ a.device = c.device /\ a.deviceFormat = c.deviceFormat
       /\ a.deviceInterleaved = c.deviceInterleaved /\ a.nUserChannels = c.nUserChannels
       /\ a.nDeviceChannels = c.nDeviceChannels /\ a.doConvertBuffer = c.doConvertBuffer
       /\ a.userBytes = c.userBytes
  BY <1>9 DEF Shaped, Sided
<1>13. a.convertInfo = IF converts THEN [s.convertInfo EXCEPT ![mode] = setConvertInfo(s, mode, first)]
                      ELSE s.convertInfo
  BY <1>1, <1>3, <1>8
<1>14. DOMAIN s.doConvertBuffer = Modes /\ DOMAIN s.userBytes = Modes /\ DOMAIN s.convertInfo = Modes
  BY <1>10 DEF Sided
<1>15. Beside(s, a, mode)
  BY <1>3, <1>4, <1>12, <1>13, <1>14 DEF Beside
<1>16. a.doConvertBuffer[mode] = converts /\ a.userBytes[mode] = user
  BY <1>4, <1>12, <1>14
<1>17. converts => a.convertInfo[mode] = setConvertInfo(s, mode, first)
  BY <1>13, <1>14
<1> QED BY <1>3, <1>11, <1>12, <1>15, <1>16, <1>17 DEF a, converts, user, device

-----------------------------------------------------------------------------
(* One direction.                                                          *)

\* t is s with one direction set up for the request r, in a format, a layout, and a
\* number of channels and frames of the device.
SetUp(s, t, mode, r, format, frames) ==
  /\ Shaped(t)
  /\ t.mode = Joined(s, mode)
  /\ t.bufferSize = frames
  /\ t.userFormat = r.format
  /\ t.userInterleaved = ~r.nonInterleaved
  /\ t.device[mode] = r.id
  /\ t.deviceFormat[mode] = format

\* With the channels that it has in the device and the buffers for them.
Buffered(s, t, mode, r, interleaved, channels, first, atLeast) ==
  /\ t.deviceInterleaved[mode] = interleaved
  /\ t.nUserChannels[mode] = r.channels
  /\ t.nDeviceChannels[mode] = channels
  /\ t.doConvertBuffer[mode] = Converts(t, mode)
  /\ t.userBytes[mode] = UserFrame(t, mode) * t.bufferSize
  /\ t.deviceBytes =
       IF \/ ~Converts(t, mode)
          \/ /\ IsDuplexInput(s, mode) /\ s.deviceBytes > 0
             /\ DeviceFrame(t, mode) + atLeast <= DeviceFrame(t, "OUTPUT")
         THEN s.deviceBytes
         ELSE DeviceFrame(t, mode) * t.bufferSize
  /\ Converts(t, mode) => t.convertInfo[mode] = setConvertInfo(t, mode, first)

\* Allocated completes what is set in c.
LEMMA BufferedLemma ==
  ASSUME NEW c, Shaped(c), NEW mode \in Modes, NEW r, NEW interleaved, NEW channels,
         NEW first, NEW atLeast,
         c.deviceInterleaved[mode] = interleaved, c.nUserChannels[mode] = r.channels,
         c.nDeviceChannels[mode] = channels,
         NEW s, s.mode = c.mode, s.deviceBytes = c.deviceBytes
  PROVE  LET t == Allocated(c, mode, first, atLeast)
         IN  Buffered(s, t, mode, r, interleaved, channels, first, atLeast) /\ Beside(c, t, mode)
<1> DEFINE t == Allocated(c, mode, first, atLeast)
<1>1. /\ Beside(c, t, mode)
      /\ t.bufferSize = c.bufferSize
      /\ t.userFormat = c.userFormat /\ t.userInterleaved = c.userInterleaved
      /\ t.deviceFormat[mode] = c.deviceFormat[mode]
      /\ t.deviceInterleaved[mode] = c.deviceInterleaved[mode]
      /\ t.nUserChannels[mode] = c.nUserChannels[mode]
      /\ t.nDeviceChannels[mode] = c.nDeviceChannels[mode]
      /\ t.doConvertBuffer[mode] = Converts(c, mode)
      /\ t.userBytes[mode] = UserFrame(c, mode) * c.bufferSize
      /\ t.deviceBytes = IF ~Converts(c, mode) \/ KeepsBuffer(c, mode, atLeast)
                         THEN c.deviceBytes ELSE DeviceFrame(c, mode) * c.bufferSize
      /\ Converts(c, mode) => t.convertInfo[mode] = setConvertInfo(c, mode, first)
  BY AllocatedLemma
<1> HIDE DEF t
<1>2. /\ \A m \in Modes : t.deviceFormat[m] = c.deviceFormat[m]
      /\ \A m \in Modes : t.nDeviceChannels[m] = c.nDeviceChannels[m]
  BY <1>1 DEF Beside
<1>3. /\ DeviceFrame(t, mode) = DeviceFrame(c, mode) /\ UserFrame(t, mode) = UserFrame(c, mode)
      /\ DeviceFrame(t, "OUTPUT") = DeviceFrame(c, "OUTPUT")
  BY <1>1, <1>2 DEF DeviceFrame, UserFrame, Modes
<1>4. Converts(t, mode) = Converts(c, mode)
  BY <1>1 DEF Converts
<1>5. KeepsBuffer(c, mode, atLeast) <=>
        /\ IsDuplexInput(s, mode) /\ s.deviceBytes > 0
        /\ DeviceFrame(t, mode) + atLeast <= DeviceFrame(t, "OUTPUT")
  BY <1>3 DEF KeepsBuffer, IsDuplexInput
<1>6. setConvertInfo(t, mode, first) = setConvertInfo(c, mode, first)
  BY <1>1, ConversionLemma
<1>7. t.deviceBytes =
        IF \/ ~Converts(t, mode)
           \/ /\ IsDuplexInput(s, mode) /\ s.deviceBytes > 0
              /\ DeviceFrame(t, mode) + atLeast <= DeviceFrame(t, "OUTPUT")
          THEN s.deviceBytes
          ELSE DeviceFrame(t, mode) * t.bufferSize
  BY <1>1, <1>3, <1>4, <1>5
<1> QED BY <1>1, <1>3, <1>4, <1>6, <1>7 DEF Buffered, t

\* What every back end but CoreAudio makes, from what it has chosen.
LEMMA SetUpLemma ==
  ASSUME NEW s, Shaped(s), NEW mode \in Modes, NEW r, NEW format, NEW interleaved,
         NEW channels, NEW swap, NEW offset, NEW frames, NEW first, NEW atLeast
  PROVE  LET c == Chosen(s, mode, r, format, interleaved, channels, swap, offset, frames)
             t == Allocated(c, mode, first, atLeast)
         IN  /\ SetUp(s, t, mode, r, format, frames)
             /\ Buffered(s, t, mode, r, interleaved, channels, first, atLeast)
             /\ Beside(s, t, mode)
<1> DEFINE c == Chosen(s, mode, r, format, interleaved, channels, swap, offset, frames)
           t == Allocated(c, mode, first, atLeast)
<1>1. /\ Shaped(c) /\ Beside(s, c, mode)
      /\ c.mode = s.mode /\ c.bufferSize = frames /\ c.userFormat = r.format
      /\ c.userInterleaved = ~r.nonInterleaved /\ c.deviceBytes = s.deviceBytes
      /\ c.device[mode] = r.id /\ c.deviceFormat[mode] = format
      /\ c.deviceInterleaved[mode] = interleaved
      /\ c.nUserChannels[mode] = r.channels /\ c.nDeviceChannels[mode] = channels
  BY ChosenLemma
<1> HIDE DEF c
<1>2. /\ Shaped(t) /\ t.mode = Joined(c, mode) /\ t.bufferSize = c.bufferSize
      /\ t.userFormat = c.userFormat /\ t.userInterleaved = c.userInterleaved
      /\ t.device[mode] = c.device[mode] /\ t.deviceFormat[mode] = c.deviceFormat[mode]
  BY <1>1, AllocatedLemma
<1>3. Buffered(s, t, mode, r, interleaved, channels, first, atLeast) /\ Beside(c, t, mode)
  BY <1>1, BufferedLemma
<1> HIDE DEF t
<1>4. Beside(s, t, mode)
  BY <1>1, <1>3 DEF Beside
<1>5. SetUp(s, t, mode, r, format, frames)
  BY <1>1, <1>2 DEF SetUp, Joined, IsDuplexInput
<1> QED BY <1>3, <1>4, <1>5 DEF c, t

-----------------------------------------------------------------------------
(* The back ends.                                                          *)

\* The frames that ASIO gives.
AsioFrames(d, s, mode, r) ==
  LET wanted == IF IsDuplexInput(s, mode) THEN s.bufferSize ELSE AsioBufferSize(r.frames, d.sizes)
  IN  IF AsioAccepts(d, wanted) THEN wanted ELSE d.sizes.prefer

\* A stream of ASIO has the driver's format, and both directions one driver.
LEMMA AsioLemma ==
  ASSUME NEW d, NEW s, Shaped(s), NEW mode \in Modes, NEW r, AsioOpen(d, s, mode, r) # Failure
  PROVE  LET t == AsioOpen(d, s, mode, r)
         IN  /\ SetUp(s, t, mode, r, AsioFormat(d), AsioFrames(d, s, mode, r))
             /\ Buffered(s, t, mode, r, FALSE, r.channels, 0, 0)
             /\ Beside(s, t, mode)
             /\ IsDuplexInput(s, mode) => s.device["OUTPUT"] = r.id
<1> DEFINE t == Allocated(Chosen(s, mode, r, AsioFormat(d), FALSE, r.channels, d.swapped,
                                 r.firstChannel, AsioFrames(d, s, mode, r)), mode, 0, 0)
<1>1. AsioOpen(d, s, mode, r) = t /\ (IsDuplexInput(s, mode) => s.device["OUTPUT"] = r.id)
  BY DEF AsioOpen, AsioFrames
<1>2. /\ SetUp(s, t, mode, r, AsioFormat(d), AsioFrames(d, s, mode, r))
      /\ Buffered(s, t, mode, r, FALSE, r.channels, 0, 0)
      /\ Beside(s, t, mode)
  BY SetUpLemma
<1> HIDE DEF t
<1> QED BY <1>1, <1>2

\* JACK's has floats and the server's frames.
LEMMA JackLemma ==
  ASSUME NEW d, NEW s, Shaped(s), NEW mode \in Modes, NEW r, JackOpen(d, s, mode, r) # Failure
  PROVE  LET t == JackOpen(d, s, mode, r)
         IN  /\ SetUp(s, t, mode, r, "FLOAT32", d.sizes.prefer)
             /\ Buffered(s, t, mode, r, FALSE, r.channels, 0, 1)
             /\ Beside(s, t, mode)
<1> DEFINE t == Allocated(Chosen(s, mode, r, "FLOAT32", FALSE, r.channels, FALSE, r.firstChannel,
                                 d.sizes.prefer), mode, 0, 1)
<1>1. JackOpen(d, s, mode, r) = t
  BY DEF JackOpen
<1>2. /\ SetUp(s, t, mode, r, "FLOAT32", d.sizes.prefer)
      /\ Buffered(s, t, mode, r, FALSE, r.channels, 0, 1)
      /\ Beside(s, t, mode)
  BY SetUpLemma
<1> HIDE DEF t
<1> QED BY <1>1, <1>2

\* ALSA's has the period of the device, which is that of the output.
LEMMA AlsaLemma ==
  ASSUME NEW d, NEW s, Shaped(s), NEW mode \in Modes, NEW r, AlsaOpen(d, s, mode, r) # Failure
  PROVE  LET t == AlsaOpen(d, s, mode, r)
         IN  /\ SetUp(s, t, mode, r, AlsaFormat(d, r), AlsaPeriod(d, r))
             /\ Buffered(s, t, mode, r, AlsaInterleaved(d, r), AtLeast(r.channels + r.firstChannel, d.least),
                         r.firstChannel, 0)
             /\ Beside(s, t, mode)
             /\ IsDuplexInput(s, mode) => t.bufferSize = s.bufferSize
             /\ d.formats # {}
<1> DEFINE c == Chosen(s, mode, r, AlsaFormat(d, r), AlsaInterleaved(d, r),
                       AtLeast(r.channels + r.firstChannel, d.least), FALSE, 0, AlsaPeriod(d, r))
           t == Allocated(c, mode, r.firstChannel, 0)
<1>1. /\ AlsaOpen(d, s, mode, r) = t /\ d.formats # {}
      /\ IsDuplexInput(s, mode) => c.bufferSize = s.bufferSize
  BY DEF AlsaOpen
<1>2. /\ SetUp(s, t, mode, r, AlsaFormat(d, r), AlsaPeriod(d, r))
      /\ Buffered(s, t, mode, r, AlsaInterleaved(d, r), AtLeast(r.channels + r.firstChannel, d.least),
                  r.firstChannel, 0)
      /\ Beside(s, t, mode)
  BY SetUpLemma
<1>3. t.bufferSize = c.bufferSize
  <2>1. Shaped(c)
    BY ChosenLemma, ZenonT(60)
  <2> HIDE DEF c
  <2> QED BY <2>1, AllocatedLemma
<1> HIDE DEF t, c
<1> QED BY <1>1, <1>2, <1>3

PulseFormat(r) == IF r.format \in PulseFormats THEN r.format ELSE "FLOAT32"

\* PulseAudio's has what was asked for, but for some formats.
LEMMA PulseLemma ==
  ASSUME NEW d, NEW s, Shaped(s), NEW mode \in Modes, NEW r, PulseOpen(d, s, mode, r) # Failure
  PROVE  LET t == PulseOpen(d, s, mode, r)
         IN  /\ SetUp(s, t, mode, r, PulseFormat(r), r.frames)
             /\ Buffered(s, t, mode, r, TRUE, r.channels, 0, 0)
             /\ Beside(s, t, mode)
<1> DEFINE t == Allocated(Chosen(s, mode, r, PulseFormat(r), TRUE, r.channels, FALSE, 0, r.frames),
                          mode, 0, 0)
<1>1. PulseOpen(d, s, mode, r) = t
  BY DEF PulseOpen, PulseFormat
<1>2. /\ SetUp(s, t, mode, r, PulseFormat(r), r.frames)
      /\ Buffered(s, t, mode, r, TRUE, r.channels, 0, 0)
      /\ Beside(s, t, mode)
  BY SetUpLemma
<1> HIDE DEF t
<1> QED BY <1>1, <1>2

OssChannels(d, r) == AtLeast(r.channels + r.firstChannel, d.least)
OssFrames(d, r) == OssBufferSize(r, OssFormat(d, r), OssChannels(d, r))

\* A device that is opened again has the format and the channels of the input for the
\* output, too.
Shares(s, t, format, channels) ==
  /\ s.deviceFormat["OUTPUT"] = format /\ s.nDeviceChannels["OUTPUT"] = channels => Beside(s, t, "INPUT")
  /\ t.deviceFormat["OUTPUT"] = format

\* How that comes about.
LEMMA SharedLemma ==
  ASSUME NEW s, Shaped(s), NEW r, NEW format, NEW interleaved, NEW channels, NEW swap,
         NEW offset, NEW frames, NEW first
  PROVE  LET c == Chosen(s, "INPUT", r, format, interleaved, channels, swap, offset, frames)
             shared == [c EXCEPT !.deviceFormat["OUTPUT"] = format, !.nDeviceChannels["OUTPUT"] = channels]
             t == Allocated(shared, "INPUT", first, 0)
         IN  /\ SetUp(s, t, "INPUT", r, format, frames)
             /\ Buffered(s, t, "INPUT", r, interleaved, channels, first, 0)
             /\ Shares(s, t, format, channels)
<1> DEFINE c == Chosen(s, "INPUT", r, format, interleaved, channels, swap, offset, frames)
           shared == [c EXCEPT !.deviceFormat["OUTPUT"] = format, !.nDeviceChannels["OUTPUT"] = channels]
           t == Allocated(shared, "INPUT", first, 0)
<1>1. "INPUT" \in Modes /\ "OUTPUT" \in Modes
  BY DEF Modes
<1>2. /\ Shaped(c) /\ Beside(s, c, "INPUT")
      /\ c.mode = s.mode /\ c.bufferSize = frames /\ c.userFormat = r.format
      /\ c.userInterleaved = ~r.nonInterleaved /\ c.deviceBytes = s.deviceBytes
      /\ c.device["INPUT"] = r.id /\ c.deviceFormat["INPUT"] = format
      /\ c.deviceInterleaved["INPUT"] = interleaved
      /\ c.nUserChannels["INPUT"] = r.channels /\ c.nDeviceChannels["INPUT"] = channels
  BY <1>1, ChosenLemma
<1> HIDE DEF c
<1>3. Shaped(shared)
  BY <1>2 DEF Shaped, Sided
<1>4. /\ shared.mode = c.mode /\ shared.bufferSize = c.bufferSize
      /\ shared.userFormat = c.userFormat /\ shared.userInterleaved = c.userInterleaved
      /\ shared.deviceBytes = c.deviceBytes /\ shared.device = c.device
      /\ shared.deviceInterleaved = c.deviceInterleaved
      /\ shared.nUserChannels = c.nUserChannels
      /\ shared.doConvertBuffer = c.doConvertBuffer /\ shared.userBytes = c.userBytes
      /\ shared.convertInfo = c.convertInfo
      /\ shared.deviceFormat = [c.deviceFormat EXCEPT !["OUTPUT"] = format]
      /\ shared.nDeviceChannels = [c.nDeviceChannels EXCEPT !["OUTPUT"] = channels]
  BY <1>2 DEF Shaped, Sided
<1> HIDE DEF shared
<1>5. DOMAIN c.deviceFormat = Modes /\ DOMAIN c.nDeviceChannels = Modes
  BY <1>2 DEF Shaped, Sided
<1>6. \A m \in Modes : shared.deviceFormat[m] = format /\ shared.nDeviceChannels[m] = channels
  BY <1>2, <1>4, <1>5 DEF Modes
<1>7. /\ Shaped(t) /\ t.mode = Joined(shared, "INPUT") /\ t.bufferSize = shared.bufferSize
      /\ t.userFormat = shared.userFormat /\ t.userInterleaved = shared.userInterleaved
      /\ t.device["INPUT"] = shared.device["INPUT"]
      /\ t.deviceFormat["INPUT"] = shared.deviceFormat["INPUT"]
  BY <1>1, <1>3, AllocatedLemma
<1>8. Buffered(s, t, "INPUT", r, interleaved, channels, first, 0) /\ Beside(shared, t, "INPUT")
  <2>1. /\ s.mode = shared.mode /\ s.deviceBytes = shared.deviceBytes
        /\ shared.deviceInterleaved["INPUT"] = interleaved
        /\ shared.nUserChannels["INPUT"] = r.channels
        /\ shared.nDeviceChannels["INPUT"] = channels
    BY <1>1, <1>2, <1>4, <1>6
  <2> QED BY <1>1, <1>3, <2>1, BufferedLemma
<1> HIDE DEF t
<1>9. SetUp(s, t, "INPUT", r, format, frames)
  BY <1>1, <1>2, <1>4, <1>6, <1>7 DEF SetUp, Joined, IsDuplexInput
<1>10. s.deviceFormat["OUTPUT"] = format /\ s.nDeviceChannels["OUTPUT"] = channels
         => Beside(s, t, "INPUT")
  BY <1>2, <1>4, <1>6, <1>8 DEF Beside, Modes
<1>11. t.deviceFormat["OUTPUT"] = format
  BY <1>1, <1>6, <1>8 DEF Beside
<1> QED BY <1>8, <1>9, <1>10, <1>11 DEF t, shared, c, Shares

\* OSS's has its own frames, and may change the output that is there.
LEMMA OssLemma ==
  ASSUME NEW d, NEW s, Shaped(s), NEW mode \in Modes, NEW r, OssOpen(d, s, mode, r) # Failure
  PROVE  LET t == OssOpen(d, s, mode, r)
         IN  /\ SetUp(s, t, mode, r, OssFormat(d, r), OssFrames(d, r))
             /\ Buffered(s, t, mode, r, TRUE, OssChannels(d, r), r.firstChannel, 0)
             /\ OssFormats(d) # {}
             /\ \/ Beside(s, t, mode)
                \/ /\ Reopens(s, mode, r)
                   /\ s.nUserChannels["OUTPUT"] = r.channels
                   /\ Shares(s, t, OssFormat(d, r), OssChannels(d, r))
<1> DEFINE C(m) == Chosen(s, m, r, OssFormat(d, r), TRUE, OssChannels(d, r),
                          d.swapped /\ OssFormat(d, r) # "SINT8", 0, OssFrames(d, r))
           S(m) == [C(m) EXCEPT !.deviceFormat["OUTPUT"] = OssFormat(d, r),
                                !.nDeviceChannels["OUTPUT"] = OssChannels(d, r)]
           T(m) == Allocated(S(m), m, r.firstChannel, 0)
           U(m) == Allocated(C(m), m, r.firstChannel, 0)
           refuses == OssRefuses(d, s, mode, r) \/ OssFormats(d) = {}
<1>1. OssOpen(d, s, mode, r) =
        IF refuses THEN Failure
        ELSE Allocated(IF Reopens(s, mode, r) THEN S(mode) ELSE C(mode), mode, r.firstChannel, 0)
  BY DEF OssOpen, OssChannels, OssFrames
<1>2. /\ SetUp(s, U(mode), mode, r, OssFormat(d, r), OssFrames(d, r))
      /\ Buffered(s, U(mode), mode, r, TRUE, OssChannels(d, r), r.firstChannel, 0)
      /\ Beside(s, U(mode), mode)
  BY SetUpLemma
<1>3. /\ SetUp(s, T("INPUT"), "INPUT", r, OssFormat(d, r), OssFrames(d, r))
      /\ Buffered(s, T("INPUT"), "INPUT", r, TRUE, OssChannels(d, r), r.firstChannel, 0)
      /\ Shares(s, T("INPUT"), OssFormat(d, r), OssChannels(d, r))
  BY SharedLemma
<1> HIDE DEF C, S
<1>4. ~refuses
  BY <1>1
<1>5. CASE ~Reopens(s, mode, r)
  <2>1. OssOpen(d, s, mode, r) = U(mode)
    BY <1>1, <1>4, <1>5
  <2> HIDE DEF U
  <2> QED BY <1>2, <1>4, <2>1
<1>6. CASE Reopens(s, mode, r)
  <2>1. OssOpen(d, s, mode, r) = T(mode)
    BY <1>1, <1>4, <1>6
  <2>2. mode = "INPUT"
    BY <1>6 DEF Reopens, IsDuplexInput
  <2>3. s.nUserChannels["OUTPUT"] = r.channels
    BY <1>4, <1>6 DEF OssRefuses
  <2> HIDE DEF T
  <2> QED BY <1>3, <1>4, <1>6, <2>1, <2>2, <2>3
<1> QED BY <1>5, <1>6

\* What CoreAudio sets before it makes buffers.
CoreSet(s, t, mode, r, frames) ==
  /\ Shaped(t) /\ t.mode = s.mode /\ t.bufferSize = frames /\ t.userFormat = r.format
  /\ t.userInterleaved = ~r.nonInterleaved /\ t.device[mode] = r.id
  /\ \A m \in Modes : t.deviceFormat[m] = IF m = mode THEN "FLOAT32" ELSE s.deviceFormat[m]

\* The streams of a device are two more fields.
LEMMA CoreChosenLemma ==
  ASSUME NEW s, Shaped(s), NEW mode \in Modes, NEW r, NEW interleaved, NEW channels, NEW swap,
         NEW offset, NEW frames, NEW first, NEW number
  PROVE  LET c == Chosen(s, mode, r, "FLOAT32", interleaved, channels, swap, offset, frames)
             t == [c EXCEPT !.iStream[mode] = first, !.nStreams[mode] = number]
         IN  CoreSet(s, t, mode, r, frames)
<1> DEFINE c == Chosen(s, mode, r, "FLOAT32", interleaved, channels, swap, offset, frames)
           t == [c EXCEPT !.iStream[mode] = first, !.nStreams[mode] = number]
<1>1. /\ Shaped(c) /\ Beside(s, c, mode)
      /\ c.mode = s.mode /\ c.bufferSize = frames /\ c.userFormat = r.format
      /\ c.userInterleaved = ~r.nonInterleaved
      /\ c.device[mode] = r.id /\ c.deviceFormat[mode] = "FLOAT32"
  BY ChosenLemma
<1> HIDE DEF c
<1>2. Shaped(t)
  BY <1>1 DEF Shaped, Sided
<1>3. /\ t.mode = c.mode /\ t.bufferSize = c.bufferSize /\ t.userFormat = c.userFormat
      /\ t.userInterleaved = c.userInterleaved /\ t.device = c.device
      /\ t.deviceFormat = c.deviceFormat
  BY <1>1 DEF Shaped, Sided
<1>4. \A m \in Modes : c.deviceFormat[m] = IF m = mode THEN "FLOAT32" ELSE s.deviceFormat[m]
  BY <1>1 DEF Beside
<1> HIDE DEF t
<1> QED BY <1>1, <1>2, <1>3, <1>4 DEF t, c, CoreSet

\* Its buffers change neither the size nor the formats.
LEMMA CoreAllocatedLemma ==
  ASSUME NEW s, Shaped(s), NEW mode \in Modes
  PROVE  LET a == CoreAllocated(s, mode)
         IN  /\ Shaped(a) /\ a.mode = Joined(s, mode) /\ a.bufferSize = s.bufferSize
             /\ a.userFormat = s.userFormat /\ a.userInterleaved = s.userInterleaved
             /\ a.device = s.device /\ a.deviceFormat = s.deviceFormat
<1> DEFINE a == CoreAllocated(s, mode)
           converts == CoreConverts(s, mode)
           several == s.nStreams[mode] > 1
           user == UserFrame(s, mode) * s.bufferSize
           device == IF ~converts \/ ~several \/ KeepsBuffer(s, mode, 0) THEN s.deviceBytes
                     ELSE DeviceFrame(s, mode) * s.bufferSize
           offset == IF several THEN 0 ELSE s.channelOffset[mode]
           c == [s EXCEPT !.doConvertBuffer[mode] = converts, !.userBytes[mode] = user,
                          !.deviceBytes = device, !.mode = Joined(s, mode)]
           d == [c EXCEPT !.convertInfo[mode] = setConvertInfo(c, mode, offset)]
<1>1. a = IF converts THEN d ELSE c
  BY DEF CoreAllocated, Joined
<1> HIDE DEF a, converts, user, device, several, offset
<1>2. Shaped(c)
  BY DEF Shaped, Sided
<1>3. /\ c.mode = Joined(s, mode) /\ c.bufferSize = s.bufferSize
      /\ c.userFormat = s.userFormat /\ c.userInterleaved = s.userInterleaved
      /\ c.device = s.device /\ c.deviceFormat = s.deviceFormat
  BY DEF Shaped, Sided
<1> HIDE DEF c
<1>4. Shaped(d)
  BY <1>2 DEF Shaped, Sided
<1>5. \A f \in DOMAIN c \ {"convertInfo"} : d[f] = c[f]
  OBVIOUS
<1> HIDE DEF d
<1>6. \A f \in DOMAIN s \ {"convertInfo"} : a[f] = c[f]
  BY <1>1, <1>2, <1>5 DEF Shaped
<1>7. /\ a.mode = c.mode /\ a.bufferSize = c.bufferSize
      /\ a.userFormat = c.userFormat /\ a.userInterleaved = c.userInterleaved
      /\ a.device = c.device /\ a.deviceFormat = c.deviceFormat
  BY <1>6 DEF Shaped, Sided
<1> QED BY <1>1, <1>2, <1>3, <1>4, <1>7 DEF a

CoreFrames(d, r) == Lesser(d.sizes.max, AtLeast(r.frames, d.sizes.min))

\* What CoreAudio chooses.
LEMMA CoreSetLemma ==
  ASSUME NEW d, NEW s, Shaped(s), NEW mode \in Modes, NEW r
  PROVE  CoreSet(s, CoreChosen(d, s, mode, r), mode, r, CoreFrames(d, r))
<1> DEFINE c == CoreChosen(d, s, mode, r)
           S == d.streams[mode]
           first == StreamOf(S, r.firstChannel)
           final == StreamOf(S, r.firstChannel + r.channels - 1)
           mono == first < final /\ \A n \in first..final : S[n] = 1
           layout == ~mono
           channels == IF first = final THEN S[1] ELSE r.channels
           offset == r.firstChannel - Before(S)[first]
           chosen == [Chosen(s, mode, r, "FLOAT32", layout, channels, FALSE, offset, CoreFrames(d, r))
                        EXCEPT !.iStream[mode] = first, !.nStreams[mode] = final - first + 1]
<1>1. c = chosen
  BY DEF CoreChosen, CoreFrames
<1> HIDE DEF layout, channels, offset, first, final
<1>2. CoreSet(s, chosen, mode, r, CoreFrames(d, r))
  BY CoreChosenLemma
<1> HIDE DEF chosen
<1> QED BY <1>1, <1>2

\* CoreAudio's has floats, and the frames of the output.
LEMMA CoreLemma ==
  ASSUME NEW d, NEW s, Shaped(s), NEW mode \in Modes, NEW r, CoreOpen(d, s, mode, r) # Failure
  PROVE  LET t == CoreOpen(d, s, mode, r)
         IN  /\ SetUp(s, t, mode, r, "FLOAT32", CoreFrames(d, r))
             /\ \A m \in Modes \ {mode} : t.deviceFormat[m] = s.deviceFormat[m]
             /\ IsDuplexInput(s, mode) => t.bufferSize = s.bufferSize
<1> DEFINE c == CoreChosen(d, s, mode, r)
           t == CoreAllocated(c, mode)
<1>1. /\ CoreOpen(d, s, mode, r) = t
      /\ IsDuplexInput(s, mode) => c.bufferSize = s.bufferSize
  BY DEF CoreOpen
<1>2. CoreSet(s, c, mode, r, CoreFrames(d, r))
  BY CoreSetLemma
<1> HIDE DEF c
<1>3. /\ Shaped(t) /\ t.mode = Joined(c, mode) /\ t.bufferSize = c.bufferSize
      /\ t.userFormat = c.userFormat /\ t.userInterleaved = c.userInterleaved
      /\ t.device = c.device /\ t.deviceFormat = c.deviceFormat
  BY <1>2, CoreAllocatedLemma DEF CoreSet
<1> HIDE DEF t
<1>4. SetUp(s, t, mode, r, "FLOAT32", CoreFrames(d, r))
  BY <1>2, <1>3 DEF CoreSet, SetUp, Joined, IsDuplexInput
<1> QED BY <1>1, <1>2, <1>3, <1>4 DEF CoreSet

-----------------------------------------------------------------------------
(* Numbers and formats.                                                    *)

\* The first of six, and what it is for.
LEMMA LeastOfSix ==
  ASSUME NEW S, S \subseteq 1..6, S # {}
  PROVE  Min(S) \in S
<1>1. \E m \in S : \A n \in S : m <= n
  <2> SUFFICES ASSUME \A m \in S : \E n \in S : n < m PROVE FALSE
    OBVIOUS
  <2>1. 1 \notin S
    OBVIOUS
  <2>2. 2 \notin S
    BY <2>1
  <2>3. 3 \notin S
    BY <2>1, <2>2
  <2>4. 4 \notin S
    BY <2>1, <2>2, <2>3
  <2>5. 5 \notin S /\ 6 \notin S
    BY <2>1, <2>2, <2>3, <2>4
  <2>6. PICK m \in S : TRUE
    OBVIOUS
  <2>7. m = 1 \/ m = 2 \/ m = 3 \/ m = 4 \/ m = 5 \/ m = 6
    OBVIOUS
  <2> QED BY <2>1, <2>2, <2>3, <2>4, <2>5, <2>6, <2>7
<1> QED BY <1>1 DEF Min

\* A format that is chosen from the device's is one of them.
LEMMA FirstOfLemma ==
  ASSUME NEW formats, formats # {}
  PROVE  /\ formats \subseteq Formats => FirstOf(AlsaOrder, formats) \in formats
         /\ formats \subseteq Formats \ Floats => FirstOf(OssOrder, formats) \in formats
<1>1. ASSUME formats \subseteq Formats
      PROVE  FirstOf(AlsaOrder, formats) \in formats
  <2> DEFINE S == {i \in DOMAIN AlsaOrder : AlsaOrder[i] \in formats}
  <2>1. /\ AlsaOrder[1] = "FLOAT64" /\ AlsaOrder[2] = "FLOAT32" /\ AlsaOrder[3] = "SINT32"
        /\ AlsaOrder[4] = "SINT24" /\ AlsaOrder[5] = "SINT16" /\ AlsaOrder[6] = "SINT8"
        /\ DOMAIN AlsaOrder = 1..6
    BY DEF AlsaOrder
  <2>2. S \subseteq 1..6
    BY <2>1
  <2>3. S # {}
    <3>1. PICK f \in formats : TRUE
      OBVIOUS
    <3>2. f \in {"SINT8", "SINT16", "SINT24", "SINT32", "FLOAT32", "FLOAT64"}
      BY <1>1, FormatBytes
    <3> QED BY <2>1, <3>2
  <2>4. Min(S) \in S
    BY <2>2, <2>3, LeastOfSix
  <2> QED BY <2>4 DEF FirstOf
<1>2. ASSUME formats \subseteq Formats \ Floats
      PROVE  FirstOf(OssOrder, formats) \in formats
  <2> DEFINE S == {i \in DOMAIN OssOrder : OssOrder[i] \in formats}
  <2>1. /\ OssOrder[1] = "SINT16" /\ OssOrder[2] = "SINT32" /\ OssOrder[3] = "SINT24"
        /\ OssOrder[4] = "SINT8" /\ DOMAIN OssOrder = 1..4
    BY DEF OssOrder
  <2>2. S \subseteq 1..6
    BY <2>1
  <2>3. S # {}
    <3>1. PICK f \in formats : TRUE
      OBVIOUS
    <3>2. f \in {"SINT8", "SINT16", "SINT24", "SINT32"}
      BY <1>2, FormatBytes DEF Floats
    <3> QED BY <2>1, <3>2
  <2>4. Min(S) \in S
    BY <2>2, <2>3, LeastOfSix
  <2> QED BY <2>4 DEF FirstOf
<1> QED BY <1>1, <1>2

\* The quotient of two numbers is one.
LEMMA Quotient ==
  ASSUME NEW x \in Nat, NEW y \in Nat \ {0}
  PROVE  x \div y \in Nat
OBVIOUS

\* And a product.
LEMMA Product ==
  ASSUME NEW x \in Nat, NEW y \in Nat
  PROVE  x * y \in Nat /\ (x # 0 /\ y # 0 => x * y # 0)
OBVIOUS

\* The formats and the frames that the back ends choose.
LEMMA AlsaFormatLemma ==
  ASSUME NEW d, Plausible("ALSA", d), d.formats # {}, NEW r, r.format \in Formats
  PROVE  AlsaFormat(d, r) \in Formats
BY FirstOfLemma DEF Plausible, AlsaFormat

\* An integer format for OSS.
LEMMA OssFormatLemma ==
  ASSUME NEW d, Plausible("OSS", d), OssFormats(d) # {}, NEW r
  PROVE  OssFormat(d, r) \in Formats /\ OssFormat(d, r) \in OssFormats(d)
<1>1. OssFormats(d) \subseteq Formats \ Floats
  BY DEF Plausible, OssFormats
<1> QED BY <1>1, FirstOfLemma DEF OssFormat

\* The one type of ASIO.
LEMMA AsioFormatLemma ==
  ASSUME NEW d, Plausible("ASIO", d)
  PROVE  AsioFormat(d) \in Formats \ {"SINT8"} /\ d.formats = {AsioFormat(d)}
BY DEF Plausible, AsioFormat

\* A number of frames that ASIO has taken for the output it takes for the input, too.
LEMMA AsioFramesLemma ==
  ASSUME NEW d, Plausible("ASIO", d), NEW s, NEW mode, NEW r
  PROVE  /\ AsioFrames(d, s, mode, r) \in Nat
         /\ \A size : AsioAccepts(d, size) \/ size = d.sizes.prefer
              => (IsDuplexInput(s, mode) /\ s.bufferSize = size => AsioFrames(d, s, mode, r) = size)
         /\ AsioAccepts(d, AsioFrames(d, s, mode, r)) \/ AsioFrames(d, s, mode, r) = d.sizes.prefer
<1>1. \A size : AsioAccepts(d, size) => size \in Nat
  BY DEF Plausible, AsioAccepts
<1> QED BY <1>1 DEF Plausible, AsioFrames

\* OSS opens the channels up to the last one that is asked for.
LEMMA OssFramesLemma ==
  ASSUME NEW d, Plausible("OSS", d), OssFormats(d) # {}, NEW r \in Requested, r.channels # 0
  PROVE  /\ OssChannels(d, r) \in Nat \ {0} /\ OssFrames(d, r) \in Nat
         /\ r.channels + r.firstChannel <= OssChannels(d, r)
<1>1. /\ OssChannels(d, r) \in Nat \ {0}
      /\ r.channels + r.firstChannel <= OssChannels(d, r)
  BY DEF Plausible, OssChannels, AtLeast, Requested
<1>2. formatBytes[OssFormat(d, r)] \in Nat \ {0}
  BY OssFormatLemma, FormatBytes
<1>3. r.frames \in Nat /\ LeastFragment \in Nat
  BY LeastFragmentAssumption DEF Requested
<1>4. formatBytes[OssFormat(d, r)] * OssChannels(d, r) \in Nat \ {0}
  BY <1>1, <1>2, Product
<1>5. r.frames * formatBytes[OssFormat(d, r)] * OssChannels(d, r) \in Nat
  BY <1>1, <1>2, <1>3, Product
<1>6. AtLeast(r.frames * formatBytes[OssFormat(d, r)] * OssChannels(d, r), LeastFragment) \in Nat
  BY <1>3, <1>5 DEF AtLeast
<1> QED BY <1>1, <1>4, <1>6, Quotient DEF OssFrames, OssBufferSize

-----------------------------------------------------------------------------
(* openStream.                                                             *)

\* probeDeviceOpen either fails or adds the direction to the stream.
Adds(s, t, mode, r) ==
  /\ Shaped(t)
  /\ t.mode = Joined(s, mode)
  /\ t.bufferSize \in Nat
  /\ t.userFormat = r.format
  /\ t.device[mode] = r.id

\* What every back end sets up is added.
LEMMA SetUpAdds ==
  ASSUME NEW s, NEW t, NEW mode, NEW r, NEW format, NEW frames \in Nat,
         SetUp(s, t, mode, r, format, frames)
  PROVE  Adds(s, t, mode, r)
BY DEF SetUp, Adds

\* Whatever the back end is.
LEMMA ProbeLemma ==
  ASSUME system \in Systems, NEW s, Shaped(s), NEW mode \in Modes, NEW r \in Requested,
         r.channels # 0, r.id \in DOMAIN system.devices,
         probeDeviceOpen(Api, system.devices[r.id], s, mode, r) # Failure
  PROVE  Adds(s, probeDeviceOpen(Api, system.devices[r.id], s, mode, r), mode, r)
<1> DEFINE d == system.devices[r.id]
           t == probeDeviceOpen(Api, d, s, mode, r)
<1>1. Plausible(Api, d) /\ Api \in {"ASIO", "JACK", "ALSA", "PULSE", "OSS", "CORE"}
  BY SystemsAssumption DEF Api
<1>2. r.frames \in Nat /\ r.format \in Formats
  BY DEF Requested
<1>3. t # Failure
  OBVIOUS
<1> SUFFICES Adds(s, t, mode, r)
  OBVIOUS
<1>4. /\ Api = "ASIO" => t = AsioOpen(d, s, mode, r)
      /\ Api = "JACK" => t = JackOpen(d, s, mode, r)
      /\ Api = "ALSA" => t = AlsaOpen(d, s, mode, r)
      /\ Api = "PULSE" => t = PulseOpen(d, s, mode, r)
      /\ Api = "OSS" => t = OssOpen(d, s, mode, r)
      /\ Api = "CORE" => t = CoreOpen(d, s, mode, r)
  BY DEF probeDeviceOpen
<1> HIDE DEF d, t
<1>5. CASE Api = "ASIO"
  <2>1. t = AsioOpen(d, s, mode, r)
    BY <1>4, <1>5
  <2>2. SetUp(s, t, mode, r, AsioFormat(d), AsioFrames(d, s, mode, r))
    BY <1>3, <2>1, AsioLemma
  <2>3. AsioFrames(d, s, mode, r) \in Nat
    BY <1>1, <1>5, AsioFramesLemma
  <2> QED BY <2>2, <2>3, SetUpAdds
<1>6. CASE Api = "JACK"
  <2>1. t = JackOpen(d, s, mode, r)
    BY <1>4, <1>6
  <2>2. SetUp(s, t, mode, r, "FLOAT32", d.sizes.prefer)
    BY <1>3, <2>1, JackLemma
  <2>3. d.sizes.prefer \in Nat
    BY <1>1, <1>6 DEF Plausible
  <2> QED BY <2>2, <2>3, SetUpAdds
<1>7. CASE Api = "ALSA"
  <2>1. t = AlsaOpen(d, s, mode, r)
    BY <1>4, <1>7
  <2>2. SetUp(s, t, mode, r, AlsaFormat(d, r), AlsaPeriod(d, r))
    BY <1>3, <2>1, AlsaLemma
  <2>3. AlsaPeriod(d, r) \in Nat
    BY <1>1, <1>2, <1>7 DEF Plausible, AlsaPeriod, Lesser, AtLeast
  <2> QED BY <2>2, <2>3, SetUpAdds
<1>8. CASE Api = "PULSE"
  <2>1. t = PulseOpen(d, s, mode, r)
    BY <1>4, <1>8
  <2>2. SetUp(s, t, mode, r, PulseFormat(r), r.frames)
    BY <1>3, <2>1, PulseLemma
  <2> QED BY <1>2, <2>2, SetUpAdds
<1>9. CASE Api = "OSS"
  <2>1. t = OssOpen(d, s, mode, r)
    BY <1>4, <1>9
  <2>2. SetUp(s, t, mode, r, OssFormat(d, r), OssFrames(d, r)) /\ OssFormats(d) # {}
    BY <1>3, <2>1, OssLemma
  <2>3. OssFrames(d, r) \in Nat
    BY <1>1, <1>9, <2>2, OssFramesLemma
  <2> QED BY <2>2, <2>3, SetUpAdds
<1>10. CASE Api = "CORE"
  <2>1. t = CoreOpen(d, s, mode, r)
    BY <1>4, <1>10
  <2>2. SetUp(s, t, mode, r, "FLOAT32", CoreFrames(d, r))
    BY <1>3, <2>1, CoreLemma
  <2>3. CoreFrames(d, r) \in Nat
    BY <1>1, <1>2, <1>10 DEF Plausible, CoreFrames, Lesser, AtLeast
  <2> QED BY <2>2, <2>3, SetUpAdds
<1> QED BY <1>1, <1>5, <1>6, <1>7, <1>8, <1>9, <1>10

\* The output of a request, and the request for its input, in the output's frames.
OutputOf(q) == probeDeviceOpen(Api, system.devices[q.OUTPUT.id], Cleared, "OUTPUT", q.OUTPUT)
InputOf(q, s) == [q.INPUT EXCEPT !.frames = s.bufferSize]

\* What openStream makes of the directions that are asked for.
LEMMA ProbedBothLemma ==
  ASSUME NEW q \in Requests
  PROVE  /\ q.INPUT = None /\ q.OUTPUT # None => ProbedBoth(q) = OutputOf(q)
         /\ q.OUTPUT = None /\ q.INPUT # None =>
              ProbedBoth(q) = probeDeviceOpen(Api, system.devices[q.INPUT.id], Cleared, "INPUT", q.INPUT)
         /\ q.OUTPUT # None /\ q.INPUT # None =>
              /\ OutputOf(q) = Failure => ProbedBoth(q) = Failure
              /\ OutputOf(q) # Failure /\ OutputOf(q).mode = "OUTPUT" /\ OutputOf(q).bufferSize \in Nat =>
                   /\ InputOf(q, OutputOf(q)) \in Requested
                   /\ ProbedBoth(q) = probeDeviceOpen(Api, system.devices[q.INPUT.id], OutputOf(q), "INPUT",
                                                      InputOf(q, OutputOf(q)))
<1>1. q.OUTPUT \in Requested \cup {None} /\ q.INPUT \in Requested \cup {None} /\ None \notin Requested
  BY RequestsAssumption DEF Modes
<1>2. Cleared # Failure /\ Cleared.mode # "OUTPUT"
  BY ClearedLemma DEF Failure
<1>3. ASSUME q.INPUT = None, q.OUTPUT # None
      PROVE  ProbedBoth(q) = OutputOf(q)
  BY <1>2, <1>3 DEF ProbedBoth, Probed, OutputOf
<1>4. ASSUME q.OUTPUT = None, q.INPUT # None
      PROVE  ProbedBoth(q) = probeDeviceOpen(Api, system.devices[q.INPUT.id], Cleared, "INPUT", q.INPUT)
  <2>1. q.INPUT \in Requested
    BY <1>1, <1>4
  <2>2. [q.INPUT EXCEPT !.frames = q.INPUT.frames] = q.INPUT
    BY <2>1 DEF Requested
  <2>3. Probed(Cleared, "OUTPUT", q.OUTPUT) = Cleared
    BY <1>4 DEF Probed
  <2>4. ProbedBoth(q) = Probed(Cleared, "INPUT", q.INPUT)
    BY <1>2, <1>4, <2>2, <2>3 DEF ProbedBoth
  <2> QED BY <1>2, <1>4, <2>4 DEF Probed
<1>5. ASSUME q.OUTPUT # None, q.INPUT # None
      PROVE  /\ OutputOf(q) = Failure => ProbedBoth(q) = Failure
             /\ OutputOf(q) # Failure /\ OutputOf(q).mode = "OUTPUT" /\ OutputOf(q).bufferSize \in Nat =>
                   /\ InputOf(q, OutputOf(q)) \in Requested
                   /\ ProbedBoth(q) = probeDeviceOpen(Api, system.devices[q.INPUT.id], OutputOf(q), "INPUT",
                                                      InputOf(q, OutputOf(q)))
  <2>1. Probed(Cleared, "OUTPUT", q.OUTPUT) = OutputOf(q)
    BY <1>2, <1>5 DEF Probed, OutputOf
  <2>2. ASSUME OutputOf(q) = Failure PROVE ProbedBoth(q) = Failure
    BY <2>1, <2>2 DEF ProbedBoth
  <2>3. ASSUME OutputOf(q) # Failure, OutputOf(q).mode = "OUTPUT", OutputOf(q).bufferSize \in Nat
        PROVE  /\ InputOf(q, OutputOf(q)) \in Requested
               /\ ProbedBoth(q) = probeDeviceOpen(Api, system.devices[q.INPUT.id], OutputOf(q), "INPUT",
                                                  InputOf(q, OutputOf(q)))
    <3>1. q.INPUT \in Requested
      BY <1>1, <1>5
    <3>2. InputOf(q, OutputOf(q)) \in Requested /\ InputOf(q, OutputOf(q)).id = q.INPUT.id
      BY <2>3, <3>1 DEF Requested, InputOf
    <3>3. ProbedBoth(q) = Probed(OutputOf(q), "INPUT", InputOf(q, OutputOf(q)))
      BY <1>5, <2>1, <2>3 DEF ProbedBoth, InputOf
    <3>4. InputOf(q, OutputOf(q)) # None
      BY <1>1, <3>2
    <3> QED BY <2>3, <3>2, <3>3, <3>4 DEF Probed
  <2> QED BY <2>2, <2>3
<1> QED BY <1>3, <1>4, <1>5

\* The arguments that openStream has looked at.
LEMMA ValidLemma ==
  ASSUME NEW q \in Requests, Valid(q)
  PROVE  /\ q.OUTPUT # None \/ q.INPUT # None
         /\ \A mode \in Modes : q[mode] # None =>
              q[mode] \in Requested /\ q[mode].channels # 0 /\ q[mode].id \in DOMAIN system.devices
<1>1. \A mode \in Modes : q[mode] \in Requested \cup {None}
  BY RequestsAssumption
<1>2. \A mode \in Modes : q[mode] # None => q[mode].channels > 0 /\ q[mode].id \in DOMAIN system.devices
  BY DEF Valid
<1>3. \A mode \in Modes : q[mode] # None => q[mode].channels # 0
  BY <1>1, <1>2 DEF Requested
<1> QED BY <1>1, <1>2, <1>3 DEF Valid

\* The mode of a stream for the directions that a request names.
ModeOf(q) == IF q.OUTPUT = None THEN "INPUT" ELSE IF q.INPUT = None THEN "OUTPUT" ELSE "DUPLEX"

\* A stream that is opened has the directions that were asked for.
LEMMA OpenedLemma ==
  ASSUME system \in Systems, NEW q \in Requests, Valid(q), ProbedBoth(q) # Failure
  PROVE  /\ Shaped(ProbedBoth(q)) /\ ProbedBoth(q).bufferSize \in Nat
         /\ ProbedBoth(q).mode = ModeOf(q)
         /\ \A mode \in Modes : q[mode] # None => ProbedBoth(q).userFormat = q[mode].format
<1> DEFINE t == ProbedBoth(q)
<1>1. /\ q.OUTPUT # None \/ q.INPUT # None
      /\ q.OUTPUT # None => /\ q.OUTPUT \in Requested /\ q.OUTPUT.channels # 0
                            /\ q.OUTPUT.id \in DOMAIN system.devices
      /\ q.INPUT # None => /\ q.INPUT \in Requested /\ q.INPUT.channels # 0
                           /\ q.INPUT.id \in DOMAIN system.devices
  BY ValidLemma DEF Modes
<1>2. Shaped(Cleared) /\ Joined(Cleared, "OUTPUT") = "OUTPUT" /\ Joined(Cleared, "INPUT") = "INPUT"
  BY ClearedLemma DEF Joined, IsDuplexInput
<1>3. ASSUME q.OUTPUT # None, OutputOf(q) # Failure
      PROVE  Adds(Cleared, OutputOf(q), "OUTPUT", q.OUTPUT)
  BY <1>1, <1>2, <1>3, ProbeLemma DEF OutputOf, Modes
<1>4. CASE q.OUTPUT = None
  <2>1. t = probeDeviceOpen(Api, system.devices[q.INPUT.id], Cleared, "INPUT", q.INPUT)
    BY <1>1, <1>4, ProbedBothLemma
  <2>2. Adds(Cleared, t, "INPUT", q.INPUT)
    BY <1>1, <1>2, <1>4, <2>1, ProbeLemma DEF Modes
  <2> HIDE DEF t
  <2> QED BY <1>1, <1>2, <1>4, <2>2 DEF t, Adds, ModeOf, Modes
<1>5. CASE q.OUTPUT # None /\ q.INPUT = None
  <2>1. t = OutputOf(q)
    BY <1>5, ProbedBothLemma
  <2>2. Adds(Cleared, t, "OUTPUT", q.OUTPUT)
    BY <1>3, <1>5, <2>1
  <2> HIDE DEF t
  <2> QED BY <1>1, <1>2, <1>5, <2>2 DEF t, Adds, ModeOf, Modes
<1>6. CASE q.OUTPUT # None /\ q.INPUT # None
  <2> DEFINE s == OutputOf(q)
             r == InputOf(q, s)
  <2>1. s # Failure
    BY <1>6, ProbedBothLemma
  <2>2. Adds(Cleared, s, "OUTPUT", q.OUTPUT)
    BY <1>3, <1>6, <2>1
  <2>3. Shaped(s) /\ s.mode = "OUTPUT" /\ s.bufferSize \in Nat
    BY <1>2, <2>2 DEF Adds
  <2>4. /\ r \in Requested
        /\ t = probeDeviceOpen(Api, system.devices[q.INPUT.id], s, "INPUT", r)
    BY <1>6, <2>1, <2>3, ProbedBothLemma
  <2>5. /\ r.id = q.INPUT.id /\ r.channels = q.INPUT.channels
        /\ r.format = q.INPUT.format /\ q.INPUT.format = q.OUTPUT.format
    BY <1>1, <1>6, RequestsAssumption DEF InputOf, Requested
  <2> HIDE DEF s, r
  <2>6. Adds(s, t, "INPUT", r)
    BY <1>1, <1>6, <2>3, <2>4, <2>5, ProbeLemma DEF Modes
  <2> HIDE DEF t
  <2> QED BY <1>6, <2>3, <2>5, <2>6 DEF t, Adds, ModeOf, Modes, Joined, IsDuplexInput
<1> QED BY <1>4, <1>5, <1>6

-----------------------------------------------------------------------------
(* The stream of a host.                                                   *)

NoRequest == [OUTPUT |-> None, INPUT |-> None]

\* getDeviceInfo is the same whenever it is called.
ToldInv ==
  /\ system \in Systems /\ round \in Rounds
  /\ DOMAIN told = DOMAIN system.devices
  /\ \A n \in DOMAIN system.devices : told[n] \in {None, getDeviceInfo(Api, system.devices[n])}

\* The stream is what openStream has made of the arguments.
StreamInv ==
  /\ phase \in {"closed", "refused", "open"}
  /\ phase = "closed" => asked = NoRequest /\ stream = Cleared /\ left = {}
  /\ phase = "refused" => /\ asked \in Requests /\ stream = Cleared /\ left = {}
                          /\ Valid(asked) => ProbedBoth(asked) = Failure
  /\ phase = "open" => /\ asked \in Requests /\ Valid(asked)
                       /\ stream = ProbedBoth(asked) /\ stream # Failure
                       /\ left \subseteq {mode \in Modes : Uses(mode)}

RtInv == ToldInv /\ StreamInv

\* It holds at first, and every step keeps it.
LEMMA RtInvInductive ==
  /\ Init => RtInv
  /\ RtInv /\ [Next]_vars => RtInv'
<1>1. ASSUME Init PROVE RtInv
  <2>1. DOMAIN told = DOMAIN system.devices /\ \A n \in DOMAIN system.devices : told[n] = None
    BY <1>1 DEF Init
  <2> QED BY <1>1, <2>1 DEF Init, RtInv, ToldInv, StreamInv, NoRequest
<1>2. ASSUME RtInv, [Next]_vars PROVE RtInv'
  <2>1. CASE UNCHANGED vars
    <3>1. Api' = Api /\ \A q : Valid(q)' = Valid(q) /\ ProbedBoth(q)' = ProbedBoth(q)
      BY <2>1 DEF vars, Api, Valid, ProbedBoth, Probed
    <3> QED BY <1>2, <2>1, <3>1 DEF RtInv, ToldInv, StreamInv, vars, Uses
  <2> SUFFICES ASSUME Next PROVE RtInv'
    BY <1>2, <2>1
  <2>2. /\ UNCHANGED system /\ Api' = Api
        /\ \A q : Valid(q)' = Valid(q) /\ ProbedBoth(q)' = ProbedBoth(q)
    <3>1. UNCHANGED system
      BY DEF Next, GetDeviceInfo, OpenStream, CloseStream, Callback, WriteOutput, ReadInput
    <3> QED BY <3>1 DEF Api, Valid, ProbedBoth, Probed
  <2>3. ToldInv'
    <3>1. CASE UNCHANGED <<told, round>>
      BY <1>2, <2>2, <3>1 DEF RtInv, ToldInv
    <3>2. ASSUME NEW n \in DOMAIN told, GetDeviceInfo(n) PROVE ToldInv'
      BY <1>2, <2>2, <3>2 DEF RtInv, ToldInv, GetDeviceInfo
    <3>3. CASE Callback
      BY <1>2, <2>2, <3>3 DEF RtInv, ToldInv, Callback
    <3> QED BY <3>1, <3>2, <3>3 DEF Next, OpenStream, CloseStream, WriteOutput, ReadInput
  <2>4. StreamInv'
    <3>1. ASSUME NEW n \in DOMAIN told, GetDeviceInfo(n) PROVE StreamInv'
      BY <1>2, <2>2, <3>1 DEF RtInv, StreamInv, GetDeviceInfo, Uses
    <3>2. ASSUME NEW q \in Requests, OpenStream(q) PROVE StreamInv'
      <4>1. /\ asked' = q /\ left' = {} /\ phase' \in {"refused", "open"}
            /\ phase' = "refused" => stream' = Cleared /\ (Valid(q) => ProbedBoth(q) = Failure)
            /\ phase' = "open" => Valid(q) /\ stream' = ProbedBoth(q) /\ stream' # Failure
        BY <1>2, <3>2 DEF OpenStream, RtInv, StreamInv
      <4> QED BY <2>2, <4>1 DEF StreamInv, Uses
    <3>3. CASE Callback
      BY <1>2, <2>2, <3>3 DEF RtInv, StreamInv, Callback, Uses
    <3>4. CASE WriteOutput
      BY <1>2, <2>2, <3>4 DEF RtInv, StreamInv, WriteOutput, Uses
    <3>5. CASE ReadInput
      BY <1>2, <2>2, <3>5 DEF RtInv, StreamInv, ReadInput, Uses
    <3>6. CASE CloseStream
      BY <1>2, <2>2, <3>6 DEF RtInv, StreamInv, CloseStream, Uses, NoRequest
    <3> QED BY <3>1, <3>2, <3>3, <3>4, <3>5, <3>6 DEF Next
  <2> QED BY <2>3, <2>4 DEF RtInv
<1> QED BY <1>1, <1>2

\* What is proved below of every state of RtInv holds always.
LEMMA RtInvariant == Spec => []RtInv
BY RtInvInductive, PTL DEF Spec

\* Types, and an open stream has the directions that were asked for: openStream
\* (RtAudio.cpp) never leaves a stream half set up, whichever direction fails.
THEOREM TypesAndDirections == Spec => []TypeOK
<1>1. ASSUME RtInv PROVE TypeOK
  <2>1. CASE phase # "open"
    <3>1. /\ stream.mode = "UNINITIALIZED" /\ left = {}
          /\ phase \in {"closed", "refused"}
      BY <1>1, <2>1, ClearedLemma DEF RtInv, StreamInv
    <3> QED BY <1>1, <2>1, <3>1 DEF RtInv, ToldInv, TypeOK, Modes
  <2>2. CASE phase = "open"
    <3>1. /\ asked \in Requests /\ Valid(asked) /\ stream = ProbedBoth(asked) /\ stream # Failure
          /\ left \subseteq {mode \in Modes : Uses(mode)}
      BY <1>1, <2>2 DEF RtInv, StreamInv
    <3>2. stream.mode = ModeOf(asked) /\ (asked.OUTPUT # None \/ asked.INPUT # None)
      BY <1>1, <3>1, OpenedLemma, ValidLemma DEF RtInv, ToldInv
    <3>3. \A mode \in Modes : Uses(mode) <=> asked[mode] # None
      BY <3>2 DEF Uses, ModeOf, Modes
    <3>4. stream.mode \in Modes \cup {"DUPLEX"}
      BY <3>2 DEF ModeOf, Modes
    <3> QED BY <1>1, <2>2, <3>1, <3>3, <3>4 DEF RtInv, ToldInv, TypeOK
  <2> QED BY <2>1, <2>2
<1> QED BY <1>1, RtInvariant, PTL

-----------------------------------------------------------------------------
(* What getDeviceInfo says.                                                *)

\* A request keeps to what has been said of the device.
Within(info, mode, r) ==
  /\ info.probed
  /\ r.channels + r.firstChannel <= info[mode]
  /\ r.rate \in info.sampleRates

\* The direction is set up, and a format that has been named is not converted, which
\* does not change it for the output that is there already.
Kept(api, s, t, mode, r, info) ==
  /\ t # Failure
  /\ r.format \in info.nativeFormats /\ ~(api = "OSS" /\ r.format \in Floats) =>
       /\ t.deviceFormat[mode] = r.format
       /\ mode = "INPUT" /\ s.deviceFormat["OUTPUT"] = r.format => t.deviceFormat["OUTPUT"] = r.format

\* No stream is taken for a failure.
LEMMA NotAFailure ==
  ASSUME NEW s, NEW t, NEW mode \in Modes, NEW r, NEW format, NEW frames,
         SetUp(s, t, mode, r, format, frames)
  PROVE  t # Failure
BY DEF SetUp, Joined, Modes, Failure

\* The format of the output stays what it is.
LEMMA StaysLemma ==
  ASSUME NEW s, NEW t, Beside(s, t, "INPUT")
  PROVE  t.deviceFormat["OUTPUT"] = s.deviceFormat["OUTPUT"]
BY DEF Beside, Modes

\* What a device is said to have.
LEMMA InfoLemma ==
  ASSUME NEW outs, NEW ins, NEW formats, NEW rates, NEW preferred, NEW mode \in Modes
  PROVE  /\ Info(outs, ins, formats, rates, preferred)[mode] = IF mode = "OUTPUT" THEN outs ELSE ins
         /\ Info(outs, ins, formats, rates, preferred).sampleRates = rates
         /\ Info(outs, ins, formats, rates, preferred).nativeFormats = formats
BY DEF Info, Modes

\* ASIO keeps what it has said.
LEMMA AsioKept ==
  ASSUME NEW d, Plausible("ASIO", d), NEW s, Shaped(s), NEW mode \in Modes, NEW r,
         Within(AsioInfo(d), mode, r), IsDuplexInput(s, mode) => s.device["OUTPUT"] = r.id
  PROVE  Kept("ASIO", s, AsioOpen(d, s, mode, r), mode, r, AsioInfo(d))
<1> DEFINE t == AsioOpen(d, s, mode, r)
           u == Allocated(Chosen(s, mode, r, AsioFormat(d), FALSE, r.channels, d.swapped,
                                 r.firstChannel, AsioFrames(d, s, mode, r)), mode, 0, 0)
<1>1. /\ AsioInfo(d)[mode] = ChannelsOf(d, mode)
      /\ AsioInfo(d).sampleRates = d.rates \cap SAMPLE_RATES
      /\ AsioInfo(d).nativeFormats = d.formats \ {"SINT8"}
  <2> DEFINE rates == d.rates \cap SAMPLE_RATES
             formats == d.formats \ {"SINT8"}
  <2>1. AsioInfo(d) = Info(d.outs, d.ins, formats, rates, Preferred(rates))
    BY DEF AsioInfo
  <2> SUFFICES /\ AsioInfo(d)[mode] = ChannelsOf(d, mode)
               /\ AsioInfo(d).sampleRates = rates
               /\ AsioInfo(d).nativeFormats = formats
    OBVIOUS
  <2> HIDE DEF rates, formats
  <2> QED BY <2>1, InfoLemma DEF ChannelsOf
<1>2. AsioFormat(d) # "SINT8" /\ d.formats = {AsioFormat(d)}
  BY AsioFormatLemma
<1>3. AsioFits(d, mode, r)
  BY <1>1 DEF Within, AsioFits
<1>4. t = u
  BY <1>2, <1>3 DEF AsioOpen, AsioFrames
<1>5. SetUp(s, u, mode, r, AsioFormat(d), AsioFrames(d, s, mode, r)) /\ Beside(s, u, mode)
  BY SetUpLemma
<1> HIDE DEF u, t
<1>6. t # Failure /\ t.deviceFormat[mode] = AsioFormat(d)
  BY <1>4, <1>5, NotAFailure DEF SetUp
<1>7. mode = "INPUT" => t.deviceFormat["OUTPUT"] = s.deviceFormat["OUTPUT"]
  BY <1>4, <1>5, StaysLemma
<1> SUFFICES Kept("ASIO", s, t, mode, r, AsioInfo(d))
  BY DEF t
<1> QED BY <1>1, <1>2, <1>6, <1>7 DEF Kept

\* So does JACK.
LEMMA JackKept ==
  ASSUME NEW d, NEW s, Shaped(s), NEW mode \in Modes, NEW r, Within(JackInfo(d), mode, r)
  PROVE  Kept("JACK", s, JackOpen(d, s, mode, r), mode, r, JackInfo(d))
<1> DEFINE t == JackOpen(d, s, mode, r)
           u == Allocated(Chosen(s, mode, r, "FLOAT32", FALSE, r.channels, FALSE, r.firstChannel,
                                 d.sizes.prefer), mode, 0, 1)
           server == CHOOSE x \in d.rates : TRUE
           rates == {server}
           formats == {"FLOAT32"}
<1>1. JackInfo(d) = Info(d.outs, d.ins, formats, rates, server)
  BY DEF JackInfo, Within, NoInfo
<1>2. /\ JackInfo(d)[mode] = ChannelsOf(d, mode)
      /\ JackInfo(d).sampleRates = {server}
      /\ JackInfo(d).nativeFormats = {"FLOAT32"}
  <2> SUFFICES /\ JackInfo(d)[mode] = ChannelsOf(d, mode)
               /\ JackInfo(d).sampleRates = rates
               /\ JackInfo(d).nativeFormats = formats
    OBVIOUS
  <2> HIDE DEF rates, formats, server
  <2> QED BY <1>1, InfoLemma DEF ChannelsOf
<1>3. JackFits(d, mode, r)
  BY <1>2 DEF Within, JackFits
<1>4. t = u
  BY <1>3 DEF JackOpen
<1>5. SetUp(s, u, mode, r, "FLOAT32", d.sizes.prefer) /\ Beside(s, u, mode)
  BY SetUpLemma
<1> HIDE DEF u, t
<1>6. t # Failure /\ t.deviceFormat[mode] = "FLOAT32"
  BY <1>4, <1>5, NotAFailure DEF SetUp
<1>7. mode = "INPUT" => t.deviceFormat["OUTPUT"] = s.deviceFormat["OUTPUT"]
  BY <1>4, <1>5, StaysLemma
<1> SUFFICES Kept("JACK", s, t, mode, r, JackInfo(d))
  BY DEF t
<1> QED BY <1>2, <1>6, <1>7 DEF Kept

\* A number of frames that is within the limits of the device is taken as it is.
LEMMA FramesWithin ==
  ASSUME NEW d, d.sizes.min \in Nat, d.sizes.max \in Nat, d.sizes.min <= d.sizes.max, NEW r,
         r.frames \in Nat
  PROVE  /\ d.sizes.min <= AlsaPeriod(d, r) /\ AlsaPeriod(d, r) <= d.sizes.max
         /\ CoreFrames(d, r) = AlsaPeriod(d, r)
         /\ d.sizes.min <= r.frames /\ r.frames <= d.sizes.max => AlsaPeriod(d, r) = r.frames
BY DEF AlsaPeriod, CoreFrames, Lesser, AtLeast

\* ALSA, if the input is asked for in the frames that the output has got.
LEMMA AlsaKept ==
  ASSUME NEW d, Plausible("ALSA", d), NEW s, Shaped(s), NEW mode \in Modes, NEW r \in Requested,
         Within(AlsaInfo(d), mode, r), ~d.hidden,
         IsDuplexInput(s, mode) => /\ r.frames = s.bufferSize
                                   /\ d.sizes.min <= r.frames /\ r.frames <= d.sizes.max
  PROVE  Kept("ALSA", s, AlsaOpen(d, s, mode, r), mode, r, AlsaInfo(d))
<1> DEFINE t == AlsaOpen(d, s, mode, r)
           c == Chosen(s, mode, r, AlsaFormat(d, r), AlsaInterleaved(d, r),
                       AtLeast(r.channels + r.firstChannel, d.least), FALSE, 0, AlsaPeriod(d, r))
           u == Allocated(c, mode, r.firstChannel, 0)
           rates == d.rates \cap SAMPLE_RATES
<1>1. AlsaInfo(d) = Info(d.outs, d.ins, d.formats, rates, Preferred(rates)) /\ d.formats # {}
  BY DEF AlsaInfo, AlsaParameters, Within, NoInfo
<1>2. /\ AlsaInfo(d)[mode] = ChannelsOf(d, mode)
      /\ AlsaInfo(d).nativeFormats = d.formats
  BY <1>1, InfoLemma DEF ChannelsOf
<1>3. d.layouts # {} /\ ~(r.channels + r.firstChannel > ChannelsOf(d, mode))
  <2>1. ChannelsOf(d, mode) \in Nat
    BY DEF Plausible, ChannelsOf
  <2>2. r.channels + r.firstChannel <= ChannelsOf(d, mode)
    BY <1>2 DEF Within
  <2>3. d.layouts # {}
    BY DEF Plausible
  <2>4. r.channels + r.firstChannel \in Nat
    BY DEF Requested
  <2> QED BY <2>1, <2>2, <2>3, <2>4
<1>4. c.bufferSize = AlsaPeriod(d, r)
  BY DEF Chosen, Shaped, Sided
<1>5. IsDuplexInput(s, mode) => c.bufferSize = s.bufferSize
  BY <1>4, FramesWithin DEF Plausible, Requested
<1>6. SetUp(s, u, mode, r, AlsaFormat(d, r), AlsaPeriod(d, r)) /\ Beside(s, u, mode)
  BY SetUpLemma
<1>7. t = u
  <2> HIDE DEF c
  <2> QED BY <1>1, <1>3, <1>5 DEF AlsaOpen, AlsaFinds, c
<1> HIDE DEF u, t
<1>8. t # Failure /\ t.deviceFormat[mode] = AlsaFormat(d, r)
  BY <1>6, <1>7, NotAFailure DEF SetUp
<1>9. mode = "INPUT" => t.deviceFormat["OUTPUT"] = s.deviceFormat["OUTPUT"]
  BY <1>6, <1>7, StaysLemma
<1> SUFFICES Kept("ALSA", s, t, mode, r, AlsaInfo(d))
  BY DEF t
<1> QED BY <1>2, <1>8, <1>9 DEF Kept, AlsaFormat

\* PulseAudio, from the first channel on.
LEMMA PulseKept ==
  ASSUME NEW d, NEW s, Shaped(s), NEW mode \in Modes, NEW r \in Requested, r.channels # 0,
         r.id = 1, r.firstChannel = 0, Within(PulseInfo(d), mode, r)
  PROVE  Kept("PULSE", s, PulseOpen(d, s, mode, r), mode, r, PulseInfo(d))
<1> DEFINE t == PulseOpen(d, s, mode, r)
           u == Allocated(Chosen(s, mode, r, PulseFormat(r), TRUE, r.channels, FALSE, 0, r.frames),
                          mode, 0, 0)
<1>1. /\ PulseInfo(d)[mode] = 2
      /\ PulseInfo(d).sampleRates = PulseRates
      /\ PulseInfo(d).nativeFormats = PulseFormats
  BY InfoLemma DEF PulseInfo
<1>2. r.channels \in {1, 2}
  <2>1. r.channels \in Nat /\ r.channels + 0 <= 2
    BY <1>1 DEF Within, Requested
  <2> QED BY <2>1
<1>3. t = u
  BY <1>1, <1>2 DEF PulseOpen, PulseFormat, Within
<1>4. SetUp(s, u, mode, r, PulseFormat(r), r.frames) /\ Beside(s, u, mode)
  BY SetUpLemma
<1> HIDE DEF u, t
<1>5. t # Failure /\ t.deviceFormat[mode] = PulseFormat(r)
  BY <1>3, <1>4, NotAFailure DEF SetUp
<1>6. mode = "INPUT" => t.deviceFormat["OUTPUT"] = s.deviceFormat["OUTPUT"]
  BY <1>3, <1>4, StaysLemma
<1> SUFFICES Kept("PULSE", s, t, mode, r, PulseInfo(d))
  BY DEF t
<1> QED BY <1>1, <1>5, <1>6 DEF Kept, PulseFormat

\* The greater of two numbers.
LEMMA MaxOfTwo ==
  ASSUME NEW x \in Nat, NEW y \in Nat
  PROVE  Max({x, y}) \in Nat /\ x <= Max({x, y}) /\ y <= Max({x, y})
<1>1. \E m \in {x, y} : \A n \in {x, y} : n <= m
  OBVIOUS
<1>2. PICK m \in {x, y} : \A n \in {x, y} : n <= m
  BY <1>1
<1>3. Max({x, y}) \in {x, y} /\ \A n \in {x, y} : n <= Max({x, y})
  BY <1>1 DEF Max
<1> QED BY <1>3

\* OSS, if the same device is asked for as many channels in both directions.
LEMMA OssKept ==
  ASSUME NEW d, Plausible("OSS", d), NEW s, Shaped(s), NEW mode \in Modes, NEW r \in Requested,
         r.channels # 0, Within(OssInfo(d), mode, r),
         IsDuplexInput(s, mode) => /\ s.nUserChannels["OUTPUT"] = r.channels
                                   /\ r.channels + r.firstChannel <= OssInfo(d).duplex
  PROVE  Kept("OSS", s, OssOpen(d, s, mode, r), mode, r, OssInfo(d))
<1> DEFINE t == OssOpen(d, s, mode, r)
           rates == d.rates \cap SAMPLE_RATES
           both == Info(d.outs, d.ins, d.formats, rates, Preferred(rates))
           duplex == IF d.duplex THEN both.duplex ELSE 0
           info == [both EXCEPT !.duplex = duplex]
<1>1. OssInfo(d) = info
  BY DEF OssInfo, Within, NoInfo
<1>2. /\ info[mode] = both[mode] /\ info.nativeFormats = both.nativeFormats
      /\ info.duplex = duplex
  BY DEF Info, Modes
<1>3. both[mode] = ChannelsOf(d, mode) /\ both.nativeFormats = d.formats
  <2> HIDE DEF rates
  <2> QED BY InfoLemma DEF ChannelsOf
<1> HIDE DEF info, both, duplex
<1>4. r.channels + r.firstChannel <= ChannelsOf(d, mode)
  BY <1>1, <1>2, <1>3 DEF Within
<1>5. r.channels \in Nat /\ r.firstChannel \in Nat /\ d.outs \in Nat /\ d.ins \in Nat
  BY DEF Requested, Plausible
<1>6. ChannelsOf(d, mode) # 0
  BY <1>4, <1>5 DEF ChannelsOf
<1>7. ~(r.channels + r.firstChannel > Max({d.outs, d.ins}))
  <2>1. /\ d.outs <= Max({d.outs, d.ins}) /\ d.ins <= Max({d.outs, d.ins})
        /\ Max({d.outs, d.ins}) \in Nat
    BY <1>5, MaxOfTwo
  <2> DEFINE most == Max({d.outs, d.ins})
  <2> HIDE DEF most
  <2>2. most \in Nat /\ d.outs <= most /\ d.ins <= most
    BY <2>1 DEF most
  <2>3. ~(r.channels + r.firstChannel > most)
    BY <1>4, <1>5, <2>2 DEF ChannelsOf
  <2> QED BY <2>3 DEF most
<1>8. ASSUME Reopens(s, mode, r) PROVE d.duplex /\ s.nUserChannels["OUTPUT"] = r.channels
  <2>1. IsDuplexInput(s, mode)
    BY <1>8 DEF Reopens
  <2>2. r.channels + r.firstChannel <= duplex
    BY <1>1, <1>2, <2>1
  <2>3. duplex # 0
    BY <1>5, <2>2
  <2> QED BY <2>1, <2>3 DEF duplex
<1>9. ~OssRefuses(d, s, mode, r)
  BY <1>6, <1>7, <1>8 DEF OssRefuses
<1>10. OssFormats(d) # {}
  BY DEF Plausible, OssFormats
<1>11. t # Failure
  <2> DEFINE C == Chosen(s, mode, r, OssFormat(d, r), TRUE, OssChannels(d, r),
                         d.swapped /\ OssFormat(d, r) # "SINT8", 0, OssFrames(d, r))
             S == [C EXCEPT !.deviceFormat["OUTPUT"] = OssFormat(d, r),
                            !.nDeviceChannels["OUTPUT"] = OssChannels(d, r)]
  <2>1. t = Allocated(IF Reopens(s, mode, r) THEN S ELSE C, mode, r.firstChannel, 0)
    BY <1>9, <1>10 DEF OssOpen, OssChannels, OssFrames
  <2>2. Shaped(C)
    BY ZenonT(60) DEF Chosen, Shaped, Sided
  <2> HIDE DEF C
  <2>3. Shaped(S)
    BY <2>2 DEF Shaped, Sided
  <2> DEFINE c == IF Reopens(s, mode, r) THEN S ELSE C
  <2>4. Shaped(c)
    BY <2>2, <2>3
  <2> HIDE DEF S, c, t
  <2>5. t.mode = Joined(c, mode)
    BY <2>1, <2>4, AllocatedLemma DEF c
  <2> QED BY <2>5 DEF Joined, Modes, Failure
<1>12. /\ SetUp(s, t, mode, r, OssFormat(d, r), OssFrames(d, r))
       /\ \/ Beside(s, t, mode)
          \/ Reopens(s, mode, r) /\ Shares(s, t, OssFormat(d, r), OssChannels(d, r))
  BY <1>11, OssLemma
<1> HIDE DEF t
<1>13. t.deviceFormat[mode] = OssFormat(d, r)
  BY <1>12 DEF SetUp
<1>14. mode = "INPUT" => t.deviceFormat["OUTPUT"] \in {s.deviceFormat["OUTPUT"], OssFormat(d, r)}
  BY <1>12, StaysLemma DEF Shares
<1>15. r.format \in d.formats /\ r.format \notin Floats => OssFormat(d, r) = r.format
  BY DEF OssFormat, OssFormats
<1> SUFFICES Kept("OSS", s, t, mode, r, OssInfo(d))
  BY DEF t
<1> QED BY <1>1, <1>2, <1>3, <1>11, <1>13, <1>14, <1>15 DEF Kept

\* CoreAudio, in the frames that the output has got.
LEMMA CoreKept ==
  ASSUME NEW d, Plausible("CORE", d), NEW s, Shaped(s), NEW mode \in Modes, NEW r \in Requested,
         Within(CoreInfo(d), mode, r),
         IsDuplexInput(s, mode) => /\ r.frames = s.bufferSize
                                   /\ d.sizes.min <= r.frames /\ r.frames <= d.sizes.max
  PROVE  Kept("CORE", s, CoreOpen(d, s, mode, r), mode, r, CoreInfo(d))
<1> DEFINE t == CoreOpen(d, s, mode, r)
           c == CoreChosen(d, s, mode, r)
           formats == {"FLOAT32"}
           outs == Channels(d.streams.OUTPUT)
           ins == Channels(d.streams.INPUT)
<1>1. CoreInfo(d) = Info(outs, ins, formats, d.rates, Preferred(d.rates))
  BY DEF CoreInfo, Within, NoInfo
<1>2. /\ CoreInfo(d)[mode] = Channels(d.streams[mode])
      /\ CoreInfo(d).sampleRates = d.rates
      /\ CoreInfo(d).nativeFormats = formats
  <2> SUFFICES /\ CoreInfo(d)[mode] = IF mode = "OUTPUT" THEN outs ELSE ins
               /\ CoreInfo(d).sampleRates = d.rates
               /\ CoreInfo(d).nativeFormats = formats
    BY DEF Modes
  <2> HIDE DEF formats, outs, ins
  <2> QED BY <1>1, InfoLemma
<1>3. CoreFits(d, mode, r) /\ r.rate \in d.rates
  BY <1>2 DEF Within, CoreFits
<1>4. CoreSet(s, c, mode, r, CoreFrames(d, r))
  BY CoreSetLemma
<1> HIDE DEF c
<1>5. IsDuplexInput(s, mode) => c.bufferSize = s.bufferSize
  BY <1>4, FramesWithin DEF Plausible, Requested, CoreSet
<1>6. t = CoreAllocated(c, mode)
  BY <1>3, <1>5 DEF CoreOpen, c
<1> HIDE DEF t
<1>7. t.mode = Joined(c, mode) /\ t.deviceFormat = c.deviceFormat
  BY <1>4, <1>6, CoreAllocatedLemma DEF CoreSet
<1>8. t # Failure
  BY <1>7 DEF Joined, Modes, Failure
<1> SUFFICES Kept("CORE", s, t, mode, r, CoreInfo(d))
  BY DEF t
<1> QED BY <1>2, <1>4, <1>7, <1>8 DEF Kept, CoreSet, Modes

\* An input that follows an output has its device, its frames and what OSS wants of both.
Follows(s, d, r, info) ==
  /\ s.device["OUTPUT"] = r.id
  /\ r.frames = s.bufferSize
  /\ Api \in {"ALSA", "CORE"} => d.sizes.min <= r.frames /\ r.frames <= d.sizes.max
  /\ Api = "OSS" => /\ s.nUserChannels["OUTPUT"] = r.channels
                    /\ r.channels + r.firstChannel <= info.duplex

\* Every back end keeps what it has said.
LEMMA KeptLemma ==
  ASSUME system \in Systems, NEW s, Shaped(s), NEW mode \in Modes, NEW r \in Requested,
         r.channels # 0, r.id \in DOMAIN system.devices, ~system.devices[r.id].hidden,
         Api = "PULSE" => r.firstChannel = 0,
         NEW info, info = getDeviceInfo(Api, system.devices[r.id]), Within(info, mode, r),
         IsDuplexInput(s, mode) => Follows(s, system.devices[r.id], r, info)
  PROVE  Kept(Api, s, probeDeviceOpen(Api, system.devices[r.id], s, mode, r), mode, r, info)
<1> DEFINE d == system.devices[r.id]
           t == probeDeviceOpen(Api, d, s, mode, r)
<1> SUFFICES Kept(Api, s, t, mode, r, info)
  OBVIOUS
<1>1. Plausible(Api, d) /\ Api \in {"ASIO", "JACK", "ALSA", "PULSE", "OSS", "CORE"}
  BY SystemsAssumption DEF Api
<1>2. Api = "PULSE" => r.id = 1
  BY SystemsAssumption DEF Api
<1>3. ~d.hidden /\ info = getDeviceInfo(Api, d) /\ (IsDuplexInput(s, mode) => Follows(s, d, r, info))
  OBVIOUS
<1>4. /\ Api = "ASIO" => t = AsioOpen(d, s, mode, r) /\ getDeviceInfo(Api, d) = AsioInfo(d)
      /\ Api = "JACK" => t = JackOpen(d, s, mode, r) /\ getDeviceInfo(Api, d) = JackInfo(d)
      /\ Api = "ALSA" => t = AlsaOpen(d, s, mode, r) /\ getDeviceInfo(Api, d) = AlsaInfo(d)
      /\ Api = "PULSE" => t = PulseOpen(d, s, mode, r) /\ getDeviceInfo(Api, d) = PulseInfo(d)
      /\ Api = "OSS" => t = OssOpen(d, s, mode, r) /\ getDeviceInfo(Api, d) = OssInfo(d)
      /\ Api = "CORE" => t = CoreOpen(d, s, mode, r) /\ getDeviceInfo(Api, d) = CoreInfo(d)
  BY DEF probeDeviceOpen, getDeviceInfo
<1> HIDE DEF d, t
<1>5. CASE Api = "ASIO"
  <2>1. t = AsioOpen(d, s, mode, r) /\ info = AsioInfo(d)
    BY <1>3, <1>4, <1>5
  <2> QED BY <1>1, <1>3, <1>5, <2>1, AsioKept DEF Follows
<1>6. CASE Api = "JACK"
  <2>1. t = JackOpen(d, s, mode, r) /\ info = JackInfo(d)
    BY <1>3, <1>4, <1>6
  <2> QED BY <1>6, <2>1, JackKept
<1>7. CASE Api = "ALSA"
  <2>1. t = AlsaOpen(d, s, mode, r) /\ info = AlsaInfo(d)
    BY <1>3, <1>4, <1>7
  <2>2. IsDuplexInput(s, mode) => /\ r.frames = s.bufferSize
                                  /\ d.sizes.min <= r.frames /\ r.frames <= d.sizes.max
    BY <1>3, <1>7 DEF Follows
  <2> QED BY <1>1, <1>3, <1>7, <2>1, <2>2, AlsaKept
<1>8. CASE Api = "PULSE"
  <2>1. t = PulseOpen(d, s, mode, r) /\ info = PulseInfo(d)
    BY <1>3, <1>4, <1>8
  <2> QED BY <1>2, <1>8, <2>1, PulseKept
<1>9. CASE Api = "OSS"
  <2>1. t = OssOpen(d, s, mode, r) /\ info = OssInfo(d)
    BY <1>3, <1>4, <1>9
  <2>2. IsDuplexInput(s, mode) => /\ s.nUserChannels["OUTPUT"] = r.channels
                                  /\ r.channels + r.firstChannel <= OssInfo(d).duplex
    BY <1>3, <1>9, <2>1 DEF Follows
  <2> QED BY <1>1, <1>9, <2>1, <2>2, OssKept
<1>10. CASE Api = "CORE"
  <2>1. t = CoreOpen(d, s, mode, r) /\ info = CoreInfo(d)
    BY <1>3, <1>4, <1>10
  <2>2. IsDuplexInput(s, mode) => /\ r.frames = s.bufferSize
                                  /\ d.sizes.min <= r.frames /\ r.frames <= d.sizes.max
    BY <1>3, <1>10 DEF Follows
  <2> QED BY <1>1, <1>10, <2>1, <2>2, CoreKept
<1> QED BY <1>1, <1>5, <1>6, <1>7, <1>8, <1>9, <1>10

\* What an output leaves for an input that follows it on the same device.
LEMMA OutputLemma ==
  ASSUME system \in Systems, NEW q \in Requests, q.OUTPUT # None, q.INPUT # None,
         q.OUTPUT.channels # 0, q.OUTPUT.id \in DOMAIN system.devices, OutputOf(q) # Failure,
         q.INPUT.id = q.OUTPUT.id, NEW info,
         Api = "OSS" => /\ q.OUTPUT.channels = q.INPUT.channels
                        /\ q.INPUT.channels + q.INPUT.firstChannel <= info.duplex
  PROVE  /\ Adds(Cleared, OutputOf(q), "OUTPUT", q.OUTPUT)
         /\ InputOf(q, OutputOf(q)) \in Requested
         /\ Follows(OutputOf(q), system.devices[q.INPUT.id], InputOf(q, OutputOf(q)), info)
<1> DEFINE d == system.devices[q.OUTPUT.id]
           t == OutputOf(q)
           r == InputOf(q, t)
<1>1. /\ q.OUTPUT \in Requested /\ q.INPUT \in Requested
      /\ "OUTPUT" \in Modes /\ Shaped(Cleared)
  BY RequestsAssumption, ClearedLemma DEF Modes
<1>2. t = probeDeviceOpen(Api, d, Cleared, "OUTPUT", q.OUTPUT) /\ t # Failure
  BY DEF OutputOf
<1>3. Plausible(Api, d)
  BY SystemsAssumption DEF Api
<1>4. d = system.devices[q.INPUT.id] /\ d = system.devices[q.OUTPUT.id]
  OBVIOUS
<1> HIDE DEF d, t
<1>5. Adds(Cleared, t, "OUTPUT", q.OUTPUT)
  BY <1>1, <1>2, <1>4, ProbeLemma
<1>6. t.device["OUTPUT"] = q.OUTPUT.id /\ t.bufferSize \in Nat
  BY <1>5 DEF Adds
<1>7. /\ r \in Requested /\ r.id = q.INPUT.id /\ r.frames = t.bufferSize
      /\ r.channels = q.INPUT.channels /\ r.firstChannel = q.INPUT.firstChannel
  BY <1>1, <1>6 DEF InputOf, Requested
<1> HIDE DEF r
<1>8. q.OUTPUT.frames \in Nat
  BY <1>1 DEF Requested
<1>9. Api \in {"ALSA", "CORE"} => d.sizes.min <= t.bufferSize /\ t.bufferSize <= d.sizes.max
  <2>1. ASSUME Api = "ALSA" PROVE t.bufferSize = AlsaPeriod(d, q.OUTPUT)
    <3>1. t = AlsaOpen(d, Cleared, "OUTPUT", q.OUTPUT)
      BY <1>2, <2>1 DEF probeDeviceOpen
    <3>2. SetUp(Cleared, t, "OUTPUT", q.OUTPUT, AlsaFormat(d, q.OUTPUT), AlsaPeriod(d, q.OUTPUT))
      BY <1>1, <1>2, <3>1, AlsaLemma
    <3> QED BY <3>2 DEF SetUp
  <2>2. ASSUME Api = "CORE" PROVE t.bufferSize = CoreFrames(d, q.OUTPUT)
    <3>1. t = CoreOpen(d, Cleared, "OUTPUT", q.OUTPUT)
      BY <1>2, <2>2 DEF probeDeviceOpen
    <3>2. SetUp(Cleared, t, "OUTPUT", q.OUTPUT, "FLOAT32", CoreFrames(d, q.OUTPUT))
      BY <1>1, <1>2, <3>1, CoreLemma
    <3> QED BY <3>2 DEF SetUp
  <2>3. d.sizes.min \in Nat /\ d.sizes.max \in Nat /\ d.sizes.min <= d.sizes.max
    BY <1>3 DEF Plausible
  <2> QED BY <1>8, <2>1, <2>2, <2>3, FramesWithin
<1>10. Api = "OSS" => t.nUserChannels["OUTPUT"] = q.OUTPUT.channels
  <2>1. ASSUME Api = "OSS" PROVE t.nUserChannels["OUTPUT"] = q.OUTPUT.channels
    <3>1. t = OssOpen(d, Cleared, "OUTPUT", q.OUTPUT)
      BY <1>2, <2>1 DEF probeDeviceOpen
    <3>2. Buffered(Cleared, t, "OUTPUT", q.OUTPUT, TRUE, OssChannels(d, q.OUTPUT), q.OUTPUT.firstChannel, 0)
      BY <1>1, <1>2, <3>1, OssLemma
    <3> QED BY <3>2 DEF Buffered
  <2> QED BY <2>1
<1>11. Follows(t, d, r, info)
  BY <1>6, <1>7, <1>9, <1>10 DEF Follows
<1> SUFFICES Adds(Cleared, t, "OUTPUT", q.OUTPUT) /\ r \in Requested /\ Follows(t, d, r, info)
  BY <1>4 DEF r, t
<1> QED BY <1>5, <1>7, <1>11

\* A format that needs no conversion.
Native(info, format) == format \in info.nativeFormats /\ ~(Api = "OSS" /\ format \in Floats)

\* What a host that keeps to what it was told may rely on.
LEMMA CoveredLemma ==
  ASSUME ToldInv, NEW mode \in Modes, asked \in Requests, asked[mode] # None, Covered(mode)
  PROVE  /\ asked[mode] \in Requested /\ asked[mode].channels # 0
         /\ asked[mode].channels > 0
         /\ asked[mode].id \in DOMAIN system.devices
         /\ ~system.devices[asked[mode].id].hidden
         /\ Api = "PULSE" => asked[mode].firstChannel = 0
         /\ told[asked[mode].id] = getDeviceInfo(Api, system.devices[asked[mode].id])
         /\ Within(told[asked[mode].id], mode, asked[mode])
<1>1. asked[mode] \in Requested
  BY RequestsAssumption
<1>2. asked[mode].channels > 0 /\ asked[mode].channels \in Nat
  BY <1>1 DEF Covered, Requested
<1>3. asked[mode].channels # 0
  BY <1>2
<1>4. Within(told[asked[mode].id], mode, asked[mode])
  BY DEF Covered, Within
<1>5. /\ asked[mode].id \in DOMAIN system.devices
      /\ ~system.devices[asked[mode].id].hidden
      /\ Api = "PULSE" => asked[mode].firstChannel = 0
      /\ told[asked[mode].id] # None
  BY DEF Covered, ToldInv
<1> QED BY <1>1, <1>2, <1>3, <1>4, <1>5 DEF ToldInv

\* What KeptLemma says of a single direction of a new stream.
LEMMA SingleLemma ==
  ASSUME ToldInv, NEW mode \in Modes, asked \in Requests, asked[mode] # None, Covered(mode)
  PROVE  Kept(Api, Cleared, probeDeviceOpen(Api, system.devices[asked[mode].id], Cleared, mode, asked[mode]),
              mode, asked[mode], told[asked[mode].id])
<1>1. Shaped(Cleared) /\ ~IsDuplexInput(Cleared, mode)
  BY ClearedLemma DEF IsDuplexInput
<1>2. system \in Systems
  BY DEF ToldInv
<1> QED BY <1>1, <1>2, CoveredLemma, KeptLemma

\* A stream that has been promised is opened, and with native formats.
LEMMA PromiseLemma ==
  ASSUME ToldInv, asked \in Requests, asked # NoRequest,
         Covered("OUTPUT"), Covered("INPUT"), CoveredBoth
  PROVE  /\ Valid(asked) /\ ProbedBoth(asked) # Failure
         /\ \A mode \in Modes :
              asked[mode] # None /\ Native(told[asked[mode].id], asked[mode].format)
                => ProbedBoth(asked).deviceFormat[mode] = asked[mode].format
<1> DEFINE t == ProbedBoth(asked)
<1>1. asked.OUTPUT # None \/ asked.INPUT # None
  <2>1. asked = [OUTPUT |-> asked.OUTPUT, INPUT |-> asked.INPUT]
    BY RequestsAssumption DEF Modes
  <2> QED BY <2>1 DEF NoRequest
<1>2. "OUTPUT" \in Modes /\ "INPUT" \in Modes /\ \A mode \in Modes : mode = "OUTPUT" \/ mode = "INPUT"
  BY DEF Modes
<1>3. Valid(asked)
  BY <1>1, <1>2, CoveredLemma DEF Valid
<1>4. CASE asked.OUTPUT = None
  <2>1. t = probeDeviceOpen(Api, system.devices[asked.INPUT.id], Cleared, "INPUT", asked.INPUT)
    BY <1>1, <1>4, ProbedBothLemma
  <2>2. Kept(Api, Cleared, t, "INPUT", asked.INPUT, told[asked.INPUT.id])
    BY <1>1, <1>2, <1>4, <2>1, SingleLemma
  <2> HIDE DEF t
  <2>3. t # Failure /\ \A mode \in Modes :
          asked[mode] # None /\ Native(told[asked[mode].id], asked[mode].format)
            => t.deviceFormat[mode] = asked[mode].format
    BY <1>2, <1>4, <2>2 DEF Kept, Native
  <2> QED BY <1>3, <2>3 DEF t
<1>5. CASE asked.OUTPUT # None /\ asked.INPUT = None
  <2>1. t = probeDeviceOpen(Api, system.devices[asked.OUTPUT.id], Cleared, "OUTPUT", asked.OUTPUT)
    BY <1>5, ProbedBothLemma DEF OutputOf
  <2>2. Kept(Api, Cleared, t, "OUTPUT", asked.OUTPUT, told[asked.OUTPUT.id])
    BY <1>2, <1>5, <2>1, SingleLemma
  <2> HIDE DEF t
  <2>3. t # Failure /\ \A mode \in Modes :
          asked[mode] # None /\ Native(told[asked[mode].id], asked[mode].format)
            => t.deviceFormat[mode] = asked[mode].format
    BY <1>2, <1>5, <2>2 DEF Kept, Native
  <2> QED BY <1>3, <2>3 DEF t
<1>6. CASE asked.OUTPUT # None /\ asked.INPUT # None
  <2> DEFINE s == OutputOf(asked)
             r == InputOf(asked, s)
             info == told[asked.INPUT.id]
  <2>1. Kept(Api, Cleared, s, "OUTPUT", asked.OUTPUT, told[asked.OUTPUT.id])
    BY <1>2, <1>6, SingleLemma DEF OutputOf
  <2>2. /\ asked.INPUT.id = asked.OUTPUT.id
        /\ asked.INPUT.channels + asked.INPUT.firstChannel <= info.duplex
        /\ Api = "OSS" => asked.OUTPUT.channels = asked.INPUT.channels
    BY <1>2, <1>6 DEF CoveredBoth
  <2>3. s # Failure
    BY <2>1 DEF Kept
  <2>4. /\ asked.OUTPUT.channels # 0 /\ asked.OUTPUT.id \in DOMAIN system.devices
        /\ system \in Systems
    BY <1>2, <1>6, CoveredLemma DEF ToldInv
  <2>5. /\ Adds(Cleared, s, "OUTPUT", asked.OUTPUT)
        /\ r \in Requested
        /\ Follows(s, system.devices[asked.INPUT.id], r, info)
    BY <1>6, <2>2, <2>3, <2>4, OutputLemma
  <2>6. Shaped(s) /\ s.mode = "OUTPUT" /\ s.bufferSize \in Nat
    BY <2>5, ClearedLemma DEF Adds, Joined, IsDuplexInput
  <2>7. t = probeDeviceOpen(Api, system.devices[asked.INPUT.id], s, "INPUT", r)
    BY <1>6, <2>3, <2>6, ProbedBothLemma
  <2>8. /\ asked.INPUT \in Requested /\ asked.INPUT.channels # 0
        /\ asked.INPUT.id \in DOMAIN system.devices
        /\ ~system.devices[asked.INPUT.id].hidden
        /\ Api = "PULSE" => asked.INPUT.firstChannel = 0
        /\ info = getDeviceInfo(Api, system.devices[asked.INPUT.id])
        /\ Within(info, "INPUT", asked.INPUT)
    BY <1>2, <1>6, CoveredLemma
  <2>9. /\ r.id = asked.INPUT.id /\ r.channels = asked.INPUT.channels
        /\ r.firstChannel = asked.INPUT.firstChannel
        /\ r.rate = asked.INPUT.rate /\ r.format = asked.INPUT.format
    BY <2>8 DEF InputOf, Requested
  <2>10. asked.OUTPUT.format = asked.INPUT.format
    BY <1>6, RequestsAssumption
  <2> HIDE DEF s, r, info
  <2>11. Within(info, "INPUT", r)
    BY <2>8, <2>9 DEF Within
  <2>12. Kept(Api, s, t, "INPUT", r, info)
    BY <1>2, <2>4, <2>5, <2>6, <2>7, <2>8, <2>9, <2>11, KeptLemma
  <2> HIDE DEF t
  <2>13. t # Failure
    BY <2>12 DEF Kept
  <2>14. Native(info, asked.INPUT.format) =>
           /\ s.deviceFormat["OUTPUT"] = asked.INPUT.format
           /\ t.deviceFormat["INPUT"] = asked.INPUT.format
           /\ t.deviceFormat["OUTPUT"] = asked.INPUT.format
    BY <2>1, <2>2, <2>9, <2>10, <2>12 DEF Kept, Native, info
  <2>15. \A mode \in Modes :
           asked[mode] # None /\ Native(told[asked[mode].id], asked[mode].format)
             => t.deviceFormat[mode] = asked[mode].format
    BY <1>2, <2>2, <2>10, <2>14 DEF info
  <2> QED BY <1>3, <2>13, <2>15 DEF t
<1> QED BY <1>4, <1>5, <1>6

\* A host may rely on getDeviceInfo of every back end: probeDeviceOpen accepts the
\* channels, the rate and the formats that were named, in one direction and in both.
THEOREM DevicesKeepTheirPromises == Spec => []InfoIsTrue
<1>1. ASSUME RtInv PROVE InfoIsTrue
  <2> SUFFICES ASSUME asked # NoRequest, Covered("OUTPUT"), Covered("INPUT"), CoveredBoth
               PROVE  /\ phase = "open"
                      /\ \A mode \in Modes :
                           asked[mode] # None /\ Native(told[asked[mode].id], stream.userFormat)
                             => stream.deviceFormat[mode] = stream.userFormat
    BY DEF InfoIsTrue, NoRequest, Native
  <2>1. asked \in Requests /\ ToldInv /\ system \in Systems
    BY <1>1 DEF RtInv, StreamInv, ToldInv
  <2>2. /\ Valid(asked) /\ ProbedBoth(asked) # Failure
        /\ \A mode \in Modes :
             asked[mode] # None /\ Native(told[asked[mode].id], asked[mode].format)
               => ProbedBoth(asked).deviceFormat[mode] = asked[mode].format
    BY <2>1, PromiseLemma
  <2>3. phase = "open" /\ stream = ProbedBoth(asked)
    BY <1>1, <2>2 DEF RtInv, StreamInv
  <2>4. \A mode \in Modes : asked[mode] # None => stream.userFormat = asked[mode].format
    BY <2>1, <2>2, <2>3, OpenedLemma
  <2> QED BY <2>2, <2>3, <2>4
<1> QED BY <1>1, RtInvariant, PTL

-----------------------------------------------------------------------------
(* The buffers of all back ends but CoreAudio.                             *)

\* Products grow with what is multiplied.
LEMMA ProductGrows ==
  ASSUME NEW x \in Nat, NEW y \in Nat, NEW z \in Nat, x <= y
  PROVE  x * z <= y * z
<1>1. PICK k \in Nat : y = x + k
  <2>1. y - x \in Nat /\ y = x + (y - x)
    OBVIOUS
  <2> QED BY <2>1
<1>2. y * z = x * z + k * z
  BY <1>1
<1>3. k * z \in Nat /\ x * z \in Nat
  BY Product
<1> QED BY <1>2, <1>3

\* Every place of an interleaved buffer, and of one with a part for each channel.
LEMMA PlaceLemma ==
  ASSUME NEW n \in Nat, NEW channels \in Nat \ {0}, NEW i \in 0..(n - 1), NEW c \in 0..(channels - 1)
  PROVE  /\ i * channels + c \in Nat /\ i * channels + c + 1 <= n * channels
         /\ i * 1 + c * n \in Nat /\ i * 1 + c * n + 1 <= n * channels
<1>1. /\ i \in Nat /\ c \in Nat /\ i + 1 \in Nat /\ c + 1 \in Nat
      /\ i + 1 <= n /\ c + 1 <= channels
  OBVIOUS
<1>2. (i + 1) * channels <= n * channels /\ (c + 1) * n <= channels * n
  BY <1>1, ProductGrows
<1>3. /\ (i + 1) * channels = i * channels + channels
      /\ (c + 1) * n = c * n + n /\ channels * n = n * channels
  BY <1>1
<1>4. i * channels \in Nat /\ c * n \in Nat /\ n * channels \in Nat
  BY <1>1, Product
<1> DEFINE A == i * channels
           B == c * n
           C == n * channels
<1>5. A + channels <= C /\ B + n <= C /\ A \in Nat /\ B \in Nat /\ C \in Nat
  BY <1>2, <1>3, <1>4
<1> HIDE DEF A, B, C
<1>6. /\ A + c \in Nat /\ A + c + 1 <= C
      /\ i * 1 + B \in Nat /\ i * 1 + B + 1 <= C
  BY <1>1, <1>5
<1> QED BY <1>6 DEF A, B, C

\* A direction whose buffers are large enough for it.
Fitting(t, mode) ==
  /\ t.bufferSize \in Nat
  /\ t.userFormat \in Formats /\ t.deviceFormat[mode] \in Formats
  /\ t.nUserChannels[mode] \in Nat \ {0} /\ t.nDeviceChannels[mode] \in Nat \ {0}
  /\ t.nUserChannels[mode] <= t.nDeviceChannels[mode]
  /\ t.doConvertBuffer[mode] = Converts(t, mode)
  /\ t.userBytes[mode] = UserFrame(t, mode) * t.bufferSize
  /\ t.deviceBytes \in Nat
  /\ Converts(t, mode) =>
       /\ DeviceFrame(t, mode) * t.bufferSize <= t.deviceBytes
       /\ \E first \in Nat : /\ t.nUserChannels[mode] + first <= t.nDeviceChannels[mode]
                             /\ t.convertInfo[mode] = setConvertInfo(t, mode, first)

\* The sizes of its buffers in samples.
LEMMA SizesLemma ==
  ASSUME NEW t, NEW mode, Fitting(t, mode)
  PROVE  /\ t.bufferSize * t.nUserChannels[mode] \in Nat
         /\ t.bufferSize * t.nDeviceChannels[mode] \in Nat
         /\ t.userBytes[mode] = t.bufferSize * t.nUserChannels[mode] * formatBytes[t.userFormat]
         /\ DeviceFrame(t, mode) * t.bufferSize
              = t.bufferSize * t.nDeviceChannels[mode] * formatBytes[t.deviceFormat[mode]]
         /\ t.userBytes[mode] \in Nat
<1> DEFINE n == t.bufferSize
           u == t.nUserChannels[mode]
           c == t.nDeviceChannels[mode]
           x == formatBytes[t.userFormat]
           y == formatBytes[t.deviceFormat[mode]]
<1>1. n \in Nat /\ u \in Nat /\ c \in Nat /\ x \in Nat /\ y \in Nat
  BY FormatBytes DEF Fitting
<1>2. /\ t.userBytes[mode] = u * x * n /\ DeviceFrame(t, mode) = c * y
  BY DEF Fitting, UserFrame, DeviceFrame
<1> HIDE DEF n, u, c, x, y
<1>3. u * x * n = n * u * x /\ c * y * n = n * c * y
  BY <1>1
<1>4. n * u \in Nat /\ n * c \in Nat /\ n * u * x \in Nat
  BY <1>1, Product
<1> QED BY <1>2, <1>3, <1>4 DEF n, u, c, x, y

\* A position on one side of the conversion lies in that side's buffer.
LEMMA PositionLemma ==
  ASSUME NEW n \in Nat, NEW channels \in Nat \ {0}, NEW used \in Nat, NEW first \in Nat,
         used + first <= channels, NEW interleaved, NEW format, NEW bytes \in Nat,
         NEW side, side.jump = Jump(interleaved, channels),
         NEW i \in 0..(n - 1), NEW k \in 0..(used - 1),
         side.at[k] = Offset(interleaved, first, k, n)
  PROVE  /\ (Position(side, i, k) + 1) * bytes \in Nat
         /\ (Position(side, i, k) + 1) * bytes <= n * channels * bytes
<1>1. k \in Nat /\ first + k \in 0..(channels - 1)
  OBVIOUS
<1> DEFINE c == first + k
<1>2. /\ i * channels + c \in Nat /\ i * channels + c + 1 <= n * channels
      /\ i * 1 + c * n \in Nat /\ i * 1 + c * n + 1 <= n * channels
  BY <1>1, PlaceLemma
<1>3. Position(side, i, k) = IF interleaved THEN i * channels + c ELSE i * 1 + c * n
  BY DEF Position, Jump, Offset
<1> DEFINE p == Position(side, i, k)
           size == n * channels
<1>4. p \in Nat /\ p + 1 <= size
  BY <1>2, <1>3
<1>5. size \in Nat
  BY Product
<1> HIDE DEF p, size
<1>6. (p + 1) * bytes <= size * bytes
  BY <1>4, <1>5, ProductGrows
<1>7. (p + 1) * bytes \in Nat
  <2>1. p + 1 \in Nat
    BY <1>4
  <2> QED BY <2>1, Product
<1> QED BY <1>6, <1>7 DEF p, size

\* The places of a direction in the device.
LEMMA PlacesOfDevice ==
  ASSUME NEW n \in Nat, NEW channels \in Nat
  PROVE  Cardinality((0..(n - 1)) \X (0..(channels - 1))) = n * channels
<1>1. IsFiniteSet(0..(n - 1)) /\ Cardinality(0..(n - 1)) = n
  <2>1. IsFiniteSet(0..(n - 1)) /\ Cardinality(0..(n - 1)) = IF 0 > n - 1 THEN 0 ELSE (n - 1) - 0 + 1
    BY FS_Interval
  <2> QED BY <2>1
<1>2. IsFiniteSet(0..(channels - 1)) /\ Cardinality(0..(channels - 1)) = channels
  <2>1. /\ IsFiniteSet(0..(channels - 1))
        /\ Cardinality(0..(channels - 1)) = IF 0 > channels - 1 THEN 0 ELSE (channels - 1) - 0 + 1
    BY FS_Interval
  <2> QED BY <2>1
<1>3. Cardinality((0..(n - 1)) \X (0..(channels - 1)))
        = Cardinality(0..(n - 1)) * Cardinality(0..(channels - 1))
  <2>1. IsFiniteSet(0..(n - 1)) /\ IsFiniteSet(0..(channels - 1))
    BY <1>1, <1>2
  <2> HIDE <1>1, <1>2
  <2> QED BY <2>1, FS_Product
<1> QED BY <1>1, <1>2, <1>3

\* What is handed over fits, if a sample lies in its own bytes.
LEMMA HandedLemma ==
  ASSUME NEW mode \in Modes, Fitting(stream, mode),
         Slot(stream.deviceFormat[mode]) = formatBytes[stream.deviceFormat[mode]]
  PROVE  HandedFits(mode)
<1> DEFINE n == stream.bufferSize
           u == stream.nUserChannels[mode]
           c == stream.nDeviceChannels[mode]
           x == formatBytes[stream.userFormat]
           y == formatBytes[stream.deviceFormat[mode]]
<1>1. /\ n * u \in Nat /\ n * c \in Nat
      /\ stream.userBytes[mode] = n * u * x
      /\ DeviceFrame(stream, mode) * n = n * c * y
      /\ stream.userBytes[mode] \in Nat
  BY SizesLemma
<1>2. Cardinality(Frames \X DeviceChannels(mode)) = n * c
  BY PlacesOfDevice DEF Fitting, Frames, DeviceChannels
<1>3. CASE stream.doConvertBuffer[mode]
  <2>1. n * c * y <= stream.deviceBytes
    BY <1>1, <1>3 DEF Fitting
  <2>2. HandedSamples(mode) * formatBytes[Handed(mode).format] = n * c * y
    BY <1>3 DEF HandedSamples, Handed
  <2> QED BY <1>2, <1>3, <2>1, <2>2 DEF HandedFits
<1>4. CASE ~stream.doConvertBuffer[mode]
  <2>1. ~Converts(stream, mode) /\ u \in Nat /\ c \in Nat /\ u <= c
    BY <1>4 DEF Fitting
  <2>2. x = y /\ u = c
    BY <2>1 DEF Converts
  <2>3. HandedSamples(mode) * formatBytes[Handed(mode).format] = n * u * x
    BY <1>4 DEF HandedSamples, Handed
  <2>4. n * u * x <= stream.userBytes[mode]
    BY <1>1
  <2>5. n * c * y <= stream.userBytes[mode]
    BY <2>2, <2>4
  <2> QED BY <1>2, <1>4, <2>3, <2>4, <2>5 DEF HandedFits
<1> QED BY <1>3, <1>4

\* The conversion fits.
LEMMA ConversionFitsLemma ==
  ASSUME NEW mode \in Modes, Fitting(stream, mode), stream.doConvertBuffer[mode]
  PROVE  ConversionFits(mode, stream.deviceBytes)
<1> DEFINE n == stream.bufferSize
           u == stream.nUserChannels[mode]
           c == stream.nDeviceChannels[mode]
           x == formatBytes[stream.userFormat]
           y == formatBytes[stream.deviceFormat[mode]]
           info == stream.convertInfo[mode]
           device == IF mode = "OUTPUT" THEN info.out ELSE info.in
           user == IF mode = "OUTPUT" THEN info.in ELSE info.out
<1>1. /\ n * u \in Nat /\ n * c \in Nat
      /\ stream.userBytes[mode] = n * u * x
      /\ DeviceFrame(stream, mode) * n = n * c * y
  BY SizesLemma
<1>2. /\ n \in Nat /\ u \in Nat \ {0} /\ c \in Nat \ {0} /\ u <= c
      /\ x \in Nat /\ y \in Nat
      /\ n * c * y <= stream.deviceBytes /\ stream.deviceBytes \in Nat
  BY <1>1, FormatBytes DEF Fitting
<1>3. PICK first \in Nat : /\ u + first <= c
                           /\ info = setConvertInfo(stream, mode, first)
  BY DEF Fitting
<1>4. info.channels = u
  BY <1>2, <1>3 DEF setConvertInfo, Lesser
<1>5. /\ device.jump = Jump(stream.deviceInterleaved[mode], c)
      /\ device.format = stream.deviceFormat[mode]
      /\ \A k \in 0..(c - 1) : device.at[k] = Offset(stream.deviceInterleaved[mode], first, k, n)
  BY <1>3 DEF setConvertInfo, Modes
<1>6. /\ user.jump = Jump(stream.userInterleaved, u)
      /\ user.format = stream.userFormat
      /\ \A k \in 0..(u - 1) : user.at[k] = Offset(stream.userInterleaved, 0, k, n)
  BY <1>3 DEF setConvertInfo, Modes
<1> HIDE DEF info, device, user, n, u, c, x, y
<1>7. ASSUME NEW i \in 0..(n - 1), NEW k \in 0..(u - 1)
      PROVE  /\ (Position(device, i, k) + 1) * y <= stream.deviceBytes
             /\ (Position(user, i, k) + 1) * x <= stream.userBytes[mode]
  <2>1. k \in 0..(c - 1)
    BY <1>2
  <2>2. (Position(device, i, k) + 1) * y \in Nat /\ (Position(device, i, k) + 1) * y <= n * c * y
    BY <1>2, <1>3, <1>5, <2>1, PositionLemma
  <2>3. (Position(user, i, k) + 1) * x <= n * u * x
    <3>1. u + 0 <= u /\ u \in Nat /\ 0 \in Nat
      BY <1>2
    <3> QED BY <1>2, <1>6, <3>1, PositionLemma
  <2>4. n * c * y \in Nat
    BY <1>1, <1>2, Product DEF n, c
  <2>5. (Position(device, i, k) + 1) * y <= stream.deviceBytes
    <3> DEFINE p == (Position(device, i, k) + 1) * y
               m == n * c * y
    <3>1. p \in Nat /\ m \in Nat /\ p <= m /\ m <= stream.deviceBytes /\ stream.deviceBytes \in Nat
      BY <1>2, <2>2, <2>4
    <3> HIDE DEF p, m
    <3>2. p <= stream.deviceBytes
      BY <3>1
    <3> QED BY <3>2 DEF p
  <2> QED BY <1>1, <2>3, <2>5 DEF n, u, x
<1>8. ASSUME mode = "OUTPUT" PROVE ClearedSamples * y \in Nat /\ ClearedSamples * y <= n * c * y
  <2>1. device.jump \in Nat /\ device.jump <= c
    BY <1>2, <1>5 DEF Jump
  <2>2. ClearedSamples = 0 \/ ClearedSamples = n * device.jump
    BY <1>8 DEF ClearedSamples, device, info, n
  <2>3. n * device.jump \in Nat /\ n * device.jump <= n * c
    <3>1. device.jump * n <= c * n
      BY <1>2, <2>1, ProductGrows
    <3>2. device.jump * n = n * device.jump /\ c * n = n * c /\ n * device.jump \in Nat
      BY <1>2, <2>1, Product
    <3> QED BY <3>1, <3>2
  <2>4. ClearedSamples \in Nat /\ ClearedSamples <= n * c /\ n * c \in Nat
    BY <1>1, <2>2, <2>3 DEF n, c
  <2> QED BY <1>2, <2>4, ProductGrows, Product
<1>9. /\ formatBytes[device.format] = y /\ formatBytes[user.format] = x
      /\ info.channels = u
  BY <1>4, <1>5, <1>6 DEF x, y
<1>10. \A q \in Places(info, n) :
         /\ (Position(device, q[1], q[2]) + 1) * formatBytes[device.format] <= stream.deviceBytes
         /\ (Position(user, q[1], q[2]) + 1) * formatBytes[user.format] <= stream.userBytes[mode]
  <2> TAKE q \in Places(info, n)
  <2>1. q[1] \in 0..(n - 1) /\ q[2] \in 0..(u - 1)
    BY <1>9 DEF Places
  <2> QED BY <1>7, <1>9, <2>1
<1>11. mode = "OUTPUT" => ClearedSamples * formatBytes[device.format] <= stream.deviceBytes
  <2> SUFFICES ASSUME mode = "OUTPUT" PROVE ClearedSamples * y <= stream.deviceBytes
    BY <1>9
  <2> DEFINE m == n * c * y
             p == ClearedSamples * y
  <2>1. p \in Nat /\ p <= m
    BY <1>8
  <2>2. m <= stream.deviceBytes /\ stream.deviceBytes \in Nat /\ m \in Nat
    <3>1. n * c * y \in Nat
      BY <1>1, <1>2, Product DEF n, c
    <3> QED BY <1>2, <3>1
  <2> HIDE DEF m, p
  <2>3. p <= stream.deviceBytes
    BY <2>1, <2>2
  <2> QED BY <2>3 DEF p
<1> SUFFICES /\ \A q \in Places(info, n) :
                  /\ (Position(device, q[1], q[2]) + 1) * formatBytes[device.format] <= stream.deviceBytes
                  /\ (Position(user, q[1], q[2]) + 1) * formatBytes[user.format] <= stream.userBytes[mode]
             /\ mode = "OUTPUT" => ClearedSamples * formatBytes[device.format] <= stream.deviceBytes
  BY DEF ConversionFits, info, device, user, n
<1> QED BY <1>10, <1>11

\* The first channel of the device that is converted.
Leads(t, mode, first) ==
  /\ t.nUserChannels[mode] + first <= t.nDeviceChannels[mode]
  /\ t.convertInfo[mode] = setConvertInfo(t, mode, first)

\* What a back end leaves of the one device buffer, that was s's.
Provides(s, t, mode, atLeast) ==
  t.deviceBytes =
    IF \/ ~Converts(t, mode)
       \/ /\ IsDuplexInput(s, mode) /\ s.deviceBytes > 0
          /\ DeviceFrame(t, mode) + atLeast <= DeviceFrame(t, "OUTPUT")
      THEN s.deviceBytes
      ELSE DeviceFrame(t, mode) * t.bufferSize

\* A direction that is set up for r, but for the size of the device buffer.
Placed(t, mode, r) ==
  /\ t.bufferSize \in Nat
  /\ t.userFormat = r.format /\ t.userInterleaved = ~r.nonInterleaved
  /\ t.userFormat \in Formats /\ t.deviceFormat[mode] \in Formats
  /\ t.nUserChannels[mode] \in Nat \ {0} /\ t.nDeviceChannels[mode] \in Nat \ {0}
  /\ t.nUserChannels[mode] <= t.nDeviceChannels[mode]
  /\ t.doConvertBuffer[mode] = Converts(t, mode)
  /\ t.userBytes[mode] = UserFrame(t, mode) * t.bufferSize
  /\ Converts(t, mode) => \E first \in Nat : Leads(t, mode, first)

\* Both, for what the lemmas on the back ends say.
LEMMA PlacedLemma ==
  ASSUME NEW s, NEW t, NEW mode \in Modes, NEW r \in Requested, r.channels # 0,
         NEW format \in Formats, NEW frames \in Nat, NEW interleaved, NEW channels \in Nat \ {0},
         NEW first \in Nat, NEW atLeast, r.channels + first <= channels,
         SetUp(s, t, mode, r, format, frames),
         Buffered(s, t, mode, r, interleaved, channels, first, atLeast)
  PROVE  Placed(t, mode, r) /\ Provides(s, t, mode, atLeast)
<1>1. r.format \in Formats /\ r.channels \in Nat \ {0}
  BY DEF Requested
<1>2. /\ t.bufferSize \in Nat /\ t.userFormat = r.format /\ t.userInterleaved = ~r.nonInterleaved
      /\ t.userFormat \in Formats /\ t.deviceFormat[mode] \in Formats
  BY <1>1 DEF SetUp
<1>3. /\ t.nUserChannels[mode] \in Nat \ {0} /\ t.nDeviceChannels[mode] \in Nat \ {0}
      /\ t.nUserChannels[mode] + first <= t.nDeviceChannels[mode]
      /\ t.nUserChannels[mode] <= t.nDeviceChannels[mode]
  <2>1. t.nUserChannels[mode] = r.channels /\ t.nDeviceChannels[mode] = channels
    BY DEF Buffered
  <2>2. r.channels <= channels
    BY <1>1
  <2> QED BY <1>1, <2>1, <2>2
<1>4. Converts(t, mode) => Leads(t, mode, first)
  BY <1>3 DEF Buffered, Leads
<1>5. /\ t.doConvertBuffer[mode] = Converts(t, mode)
      /\ t.userBytes[mode] = UserFrame(t, mode) * t.bufferSize
      /\ Provides(s, t, mode, atLeast)
  BY DEF Buffered, Provides
<1> QED BY <1>2, <1>3, <1>4, <1>5 DEF Placed

\* Every back end but CoreAudio places what it sets up.
LEMMA PlacesLemma ==
  ASSUME system \in Systems, Api # "CORE", NEW s, Shaped(s), NEW mode \in Modes, NEW r \in Requested,
         r.channels # 0, r.id \in DOMAIN system.devices,
         probeDeviceOpen(Api, system.devices[r.id], s, mode, r) # Failure
  PROVE  LET t == probeDeviceOpen(Api, system.devices[r.id], s, mode, r)
         IN  Placed(t, mode, r) /\ \E atLeast \in {0, 1} : Provides(s, t, mode, atLeast)
<1> DEFINE d == system.devices[r.id]
           t == probeDeviceOpen(Api, d, s, mode, r)
<1>1. Plausible(Api, d) /\ Api \in {"ASIO", "JACK", "ALSA", "PULSE", "OSS"}
  BY SystemsAssumption DEF Api
<1>2. /\ r.frames \in Nat /\ r.format \in Formats /\ r.channels \in Nat \ {0} /\ r.firstChannel \in Nat
      /\ r.channels + 0 <= r.channels /\ 0 \in Nat
  <2>1. r.frames \in Nat /\ r.format \in Formats /\ r.channels \in Nat \ {0} /\ r.firstChannel \in Nat
    BY DEF Requested
  <2> QED BY <2>1
<1>3. t # Failure
  OBVIOUS
<1> SUFFICES Placed(t, mode, r) /\ \E atLeast \in {0, 1} : Provides(s, t, mode, atLeast)
  OBVIOUS
<1>4. /\ Api = "ASIO" => t = AsioOpen(d, s, mode, r)
      /\ Api = "JACK" => t = JackOpen(d, s, mode, r)
      /\ Api = "ALSA" => t = AlsaOpen(d, s, mode, r)
      /\ Api = "PULSE" => t = PulseOpen(d, s, mode, r)
      /\ Api = "OSS" => t = OssOpen(d, s, mode, r)
  BY DEF probeDeviceOpen
<1>5. "FLOAT32" \in Formats
  BY FormatBytes
<1> HIDE DEF d, t
<1>6. CASE Api = "ASIO"
  <2> DEFINE no == FALSE
             frames == AsioFrames(d, s, mode, r)
  <2>1. t = AsioOpen(d, s, mode, r)
    BY <1>4, <1>6
  <2>2. /\ SetUp(s, t, mode, r, AsioFormat(d), frames)
        /\ Buffered(s, t, mode, r, no, r.channels, 0, 0)
    BY <1>3, <2>1, AsioLemma
  <2>3. frames \in Nat /\ AsioFormat(d) \in Formats
    BY <1>1, <1>6, AsioFramesLemma, AsioFormatLemma
  <2> HIDE DEF no, frames
  <2> QED BY <1>2, <2>2, <2>3, PlacedLemma
<1>7. CASE Api = "JACK"
  <2> DEFINE no == FALSE
  <2>1. t = JackOpen(d, s, mode, r)
    BY <1>4, <1>7
  <2>2. /\ SetUp(s, t, mode, r, "FLOAT32", d.sizes.prefer)
        /\ Buffered(s, t, mode, r, no, r.channels, 0, 1)
    BY <1>3, <2>1, JackLemma
  <2>3. d.sizes.prefer \in Nat
    BY <1>1, <1>7 DEF Plausible
  <2> HIDE DEF no
  <2> QED BY <1>2, <1>5, <2>2, <2>3, PlacedLemma
<1>8. CASE Api = "ALSA"
  <2> DEFINE channels == AtLeast(r.channels + r.firstChannel, d.least)
             split == AlsaInterleaved(d, r)
  <2>1. t = AlsaOpen(d, s, mode, r)
    BY <1>4, <1>8
  <2>2. /\ SetUp(s, t, mode, r, AlsaFormat(d, r), AlsaPeriod(d, r))
        /\ Buffered(s, t, mode, r, split, channels, r.firstChannel, 0)
        /\ d.formats # {}
    BY <1>3, <2>1, AlsaLemma
  <2>3. AlsaPeriod(d, r) \in Nat /\ channels \in Nat \ {0} /\ r.channels + r.firstChannel <= channels
    BY <1>1, <1>2, <1>8 DEF Plausible, AlsaPeriod, Lesser, AtLeast
  <2>4. AlsaFormat(d, r) \in Formats
    BY <1>1, <1>2, <1>8, <2>2, AlsaFormatLemma
  <2> HIDE DEF channels, split
  <2> QED BY <1>2, <2>2, <2>3, <2>4, PlacedLemma
<1>9. CASE Api = "PULSE"
  <2> DEFINE yes == TRUE
  <2>1. t = PulseOpen(d, s, mode, r)
    BY <1>4, <1>9
  <2>2. /\ SetUp(s, t, mode, r, PulseFormat(r), r.frames)
        /\ Buffered(s, t, mode, r, yes, r.channels, 0, 0)
    BY <1>3, <2>1, PulseLemma
  <2>3. PulseFormat(r) \in Formats
    BY <1>2, <1>5 DEF PulseFormat
  <2> HIDE DEF yes
  <2> QED BY <1>2, <2>2, <2>3, PlacedLemma
<1>10. CASE Api = "OSS"
  <2> DEFINE yes == TRUE
  <2>1. t = OssOpen(d, s, mode, r)
    BY <1>4, <1>10
  <2>2. /\ SetUp(s, t, mode, r, OssFormat(d, r), OssFrames(d, r)) /\ OssFormats(d) # {}
        /\ Buffered(s, t, mode, r, yes, OssChannels(d, r), r.firstChannel, 0)
    BY <1>3, <2>1, OssLemma
  <2>3. /\ OssChannels(d, r) \in Nat \ {0} /\ OssFrames(d, r) \in Nat
        /\ r.channels + r.firstChannel <= OssChannels(d, r)
        /\ OssFormat(d, r) \in Formats
    BY <1>1, <1>10, <2>2, OssFramesLemma, OssFormatLemma
  <2> HIDE DEF yes
  <2> QED BY <1>2, <2>2, <2>3, PlacedLemma
<1> QED BY <1>1, <1>6, <1>7, <1>8, <1>9, <1>10

\* A buffer that was made for one direction.
MadeFor(t, mode) ==
  t.deviceBytes = IF Converts(t, mode) THEN DeviceFrame(t, mode) * t.bufferSize ELSE 0

\* The first direction has the buffers it needs.
LEMMA AloneLemma ==
  ASSUME NEW s, NEW t, NEW mode \in Modes, NEW r, NEW atLeast,
         s.deviceBytes = 0, ~IsDuplexInput(s, mode),
         Placed(t, mode, r), Provides(s, t, mode, atLeast)
  PROVE  Fitting(t, mode) /\ MadeFor(t, mode)
<1>1. MadeFor(t, mode)
  BY DEF Provides, MadeFor
<1> DEFINE size == DeviceFrame(t, mode) * t.bufferSize
<1>2. size \in Nat
  <2>1. formatBytes[t.deviceFormat[mode]] \in Nat /\ t.nDeviceChannels[mode] \in Nat /\ t.bufferSize \in Nat
    BY FormatBytes DEF Placed
  <2>2. DeviceFrame(t, mode) \in Nat
    BY <2>1, Product DEF DeviceFrame
  <2> QED BY <2>1, <2>2, Product
<1>3. t.deviceBytes = IF Converts(t, mode) THEN size ELSE 0
  BY <1>1 DEF MadeFor
<1> HIDE DEF size
<1>4. t.deviceBytes \in Nat /\ (Converts(t, mode) => size <= t.deviceBytes)
  BY <1>2, <1>3
<1> QED BY <1>1, <1>4 DEF Placed, Fitting, Leads, size

\* And after the second one both have.
LEMMA TogetherLemma ==
  ASSUME NEW s, NEW t, NEW r, NEW atLeast \in {0, 1},
         s.mode = "OUTPUT", Fitting(s, "OUTPUT"), MadeFor(s, "OUTPUT"),
         Placed(t, "INPUT", r), Provides(s, t, "INPUT", atLeast), Beside(s, t, "INPUT"),
         t.bufferSize = s.bufferSize, t.userFormat = s.userFormat,
         t.userInterleaved = s.userInterleaved
  PROVE  \A mode \in Modes : Fitting(t, mode)
<1> DEFINE n == t.bufferSize
           in == DeviceFrame(t, "INPUT")
           out == DeviceFrame(t, "OUTPUT")
<1>1. /\ t.deviceFormat["OUTPUT"] = s.deviceFormat["OUTPUT"]
      /\ t.deviceInterleaved["OUTPUT"] = s.deviceInterleaved["OUTPUT"]
      /\ t.doConvertBuffer["OUTPUT"] = s.doConvertBuffer["OUTPUT"]
      /\ t.nUserChannels["OUTPUT"] = s.nUserChannels["OUTPUT"]
      /\ t.nDeviceChannels["OUTPUT"] = s.nDeviceChannels["OUTPUT"]
      /\ t.userBytes["OUTPUT"] = s.userBytes["OUTPUT"]
      /\ t.convertInfo["OUTPUT"] = s.convertInfo["OUTPUT"]
  BY DEF Beside, Modes
<1>2. /\ Converts(t, "OUTPUT") = Converts(s, "OUTPUT")
      /\ DeviceFrame(s, "OUTPUT") = out /\ UserFrame(t, "OUTPUT") = UserFrame(s, "OUTPUT")
  BY <1>1 DEF Converts, DeviceFrame, UserFrame
<1>3. IsDuplexInput(s, "INPUT")
  BY DEF IsDuplexInput
<1>4. n \in Nat /\ in \in Nat /\ out \in Nat /\ in * n \in Nat /\ out * n \in Nat
  <2>1. /\ n \in Nat
        /\ formatBytes[t.deviceFormat["INPUT"]] \in Nat /\ t.nDeviceChannels["INPUT"] \in Nat
        /\ formatBytes[t.deviceFormat["OUTPUT"]] \in Nat /\ t.nDeviceChannels["OUTPUT"] \in Nat
    BY <1>1, FormatBytes DEF Placed, Fitting
  <2>2. in \in Nat /\ out \in Nat
    BY <2>1, Product DEF DeviceFrame
  <2> QED BY <2>1, <2>2, Product
<1>5. s.deviceBytes = IF Converts(t, "OUTPUT") THEN out * n ELSE 0
  BY <1>2 DEF MadeFor
<1>6. t.deviceBytes = IF ~Converts(t, "INPUT") \/ (s.deviceBytes > 0 /\ in + atLeast <= out)
                        THEN s.deviceBytes ELSE in * n
  BY <1>3 DEF Provides
<1>7. in <= out => in * n <= out * n
  BY <1>4, ProductGrows
<1>8. out <= in => out * n <= in * n
  BY <1>4, ProductGrows
<1> DEFINE I == in * n
           O == out * n
<1>9. /\ I \in Nat /\ O \in Nat /\ in \in Nat /\ out \in Nat
      /\ in <= out => I <= O
      /\ out <= in => O <= I
      /\ s.deviceBytes = IF Converts(t, "OUTPUT") THEN O ELSE 0
      /\ t.deviceBytes = IF ~Converts(t, "INPUT") \/ (s.deviceBytes > 0 /\ in + atLeast <= out)
                           THEN s.deviceBytes ELSE I
  BY <1>4, <1>5, <1>6, <1>7, <1>8
<1> HIDE DEF I, O, in, out
<1>10. s.deviceBytes \in Nat /\ t.deviceBytes \in Nat
  BY <1>9
<1>11. Converts(t, "INPUT") => I <= t.deviceBytes
  <2>1. CASE s.deviceBytes > 0 /\ in + atLeast <= out
    <3>1. in <= out /\ s.deviceBytes = O
      BY <1>9, <2>1
    <3> QED BY <1>9, <2>1, <3>1
  <2>2. CASE ~(s.deviceBytes > 0 /\ in + atLeast <= out)
    BY <1>9, <2>2
  <2> QED BY <2>1, <2>2
<1>12. Converts(t, "OUTPUT") => O <= t.deviceBytes
  <2>1. CASE s.deviceBytes = 0
    BY <1>9, <1>10, <2>1
  <2>2. CASE s.deviceBytes # 0 /\ in + atLeast <= out
    <3>1. s.deviceBytes > 0
      BY <1>10, <2>2
    <3> QED BY <1>9, <2>2, <3>1
  <2>3. CASE s.deviceBytes # 0 /\ ~(in + atLeast <= out)
    <3>1. out <= in
      BY <1>9, <2>3
    <3> QED BY <1>9, <2>3, <3>1
  <2> QED BY <2>1, <2>2, <2>3
<1>13. Fitting(t, "INPUT")
  <2>1. Converts(t, "INPUT") => DeviceFrame(t, "INPUT") * t.bufferSize <= t.deviceBytes
    BY <1>11 DEF I, in
  <2> QED BY <1>10, <2>1 DEF Placed, Fitting, Leads
<1>14. Fitting(t, "OUTPUT")
  <2>1. \A first : setConvertInfo(t, "OUTPUT", first) = setConvertInfo(s, "OUTPUT", first)
    BY <1>1, ConversionLemma DEF Modes
  <2>2. Converts(t, "OUTPUT") => DeviceFrame(t, "OUTPUT") * t.bufferSize <= t.deviceBytes
    BY <1>12 DEF O, out
  <2>3. Converts(t, "OUTPUT") =>
          \E first \in Nat : /\ t.nUserChannels["OUTPUT"] + first <= t.nDeviceChannels["OUTPUT"]
                             /\ t.convertInfo["OUTPUT"] = setConvertInfo(t, "OUTPUT", first)
    BY <1>1, <1>2, <2>1 DEF Fitting
  <2>4. /\ t.bufferSize \in Nat /\ t.userFormat \in Formats /\ t.deviceFormat["OUTPUT"] \in Formats
        /\ t.nUserChannels["OUTPUT"] \in Nat \ {0} /\ t.nDeviceChannels["OUTPUT"] \in Nat \ {0}
        /\ t.nUserChannels["OUTPUT"] <= t.nDeviceChannels["OUTPUT"]
    BY <1>1 DEF Fitting
  <2>5. /\ t.doConvertBuffer["OUTPUT"] = Converts(t, "OUTPUT")
        /\ t.userBytes["OUTPUT"] = UserFrame(t, "OUTPUT") * t.bufferSize
    BY <1>1, <1>2 DEF Fitting
  <2> QED BY <1>10, <2>2, <2>3, <2>4, <2>5 DEF Fitting
<1> QED BY <1>13, <1>14 DEF Modes

\* Nothing else is needed of a stream that has no known gap.
LEMMA FitsLemma ==
  ASSUME NEW mode \in Modes, Api # "CORE", Fitting(stream, mode), ~Gap(mode)
  PROVE  Fits(mode)
<1>1. Slot(stream.deviceFormat[mode]) = formatBytes[stream.deviceFormat[mode]]
  BY DEF Gap, Slot
<1>2. HandedFits(mode)
  BY <1>1, HandedLemma
<1>3. stream.doConvertBuffer[mode] => ConversionFits(mode, stream.deviceBytes)
  BY ConversionFitsLemma
<1> QED BY <1>2, <1>3 DEF Fits

\* What becomes of the output in OSS.
LEMMA OssBeside ==
  ASSUME NEW d, NEW s, Shaped(s), NEW mode \in Modes, NEW r, NEW t,
         t = OssOpen(d, s, mode, r), t # Failure
  PROVE  \/ Beside(s, t, mode)
         \/ /\ Reopens(s, mode, r) /\ s.nUserChannels["OUTPUT"] = r.channels
            /\ Shares(s, t, OssFormat(d, r), OssChannels(d, r))
BY OssLemma

\* And in ALSA.
LEMMA AlsaBeside ==
  ASSUME NEW d, NEW s, Shaped(s), NEW mode \in Modes, NEW r, NEW t,
         t = AlsaOpen(d, s, mode, r), t # Failure
  PROVE  /\ Beside(s, t, mode)
         /\ IsDuplexInput(s, mode) => t.bufferSize = s.bufferSize
BY AlsaLemma

\* An output of OSS that its input neither reopens with other channels nor resizes.
OssUnchanged(q, t) ==
  /\ q.OUTPUT.id = q.INPUT.id => q.OUTPUT.firstChannel = q.INPUT.firstChannel
  /\ t.bufferSize = OssBufferSize(q.OUTPUT, t.deviceFormat["OUTPUT"], t.nDeviceChannels["OUTPUT"])

\* The input leaves the output as it is: no back end gives both directions different
\* frames.
LEMMA OutputStays ==
  ASSUME system \in Systems, Api # "CORE", NEW s, NEW t, NEW r \in Requested, NEW q \in Requests,
         q.OUTPUT # None, q.INPUT # None,
         q.OUTPUT.id \in DOMAIN system.devices, q.INPUT.id \in DOMAIN system.devices,
         q.OUTPUT.channels # 0,
         s = probeDeviceOpen(Api, system.devices[q.OUTPUT.id], Cleared, "OUTPUT", q.OUTPUT), s # Failure,
         Shaped(s), s.mode = "OUTPUT", s.device["OUTPUT"] = q.OUTPUT.id,
         r.id = q.INPUT.id, r.channels = q.INPUT.channels, r.firstChannel = q.INPUT.firstChannel,
         r.format = q.INPUT.format, r.frames = s.bufferSize,
         t = probeDeviceOpen(Api, system.devices[q.INPUT.id], s, "INPUT", r), t # Failure,
         Api = "OSS" => OssUnchanged(q, t)
  PROVE  Beside(s, t, "INPUT") /\ t.bufferSize = s.bufferSize
<1> DEFINE d == system.devices[q.OUTPUT.id]
           e == system.devices[q.INPUT.id]
<1>1. /\ Plausible(Api, d) /\ Plausible(Api, e)
      /\ Api \in {"ASIO", "JACK", "ALSA", "PULSE", "OSS"}
      /\ Api = "JACK" => d.sizes.prefer = e.sizes.prefer
  BY SystemsAssumption DEF Api
<1>2. /\ "OUTPUT" \in Modes /\ "INPUT" \in Modes /\ Shaped(Cleared)
      /\ IsDuplexInput(s, "INPUT") /\ q.OUTPUT \in Requested
      /\ q.OUTPUT.format = q.INPUT.format
  BY ClearedLemma, RequestsAssumption DEF Modes, IsDuplexInput
<1>3. q.OUTPUT.id = q.INPUT.id => d = e
  OBVIOUS
<1>4. /\ s = probeDeviceOpen(Api, d, Cleared, "OUTPUT", q.OUTPUT)
      /\ t = probeDeviceOpen(Api, e, s, "INPUT", r)
  OBVIOUS
<1> HIDE DEF d, e
<1>5. /\ Api = "ASIO" => s = AsioOpen(d, Cleared, "OUTPUT", q.OUTPUT) /\ t = AsioOpen(e, s, "INPUT", r)
      /\ Api = "JACK" => s = JackOpen(d, Cleared, "OUTPUT", q.OUTPUT) /\ t = JackOpen(e, s, "INPUT", r)
      /\ Api = "ALSA" => s = AlsaOpen(d, Cleared, "OUTPUT", q.OUTPUT) /\ t = AlsaOpen(e, s, "INPUT", r)
      /\ Api = "PULSE" => s = PulseOpen(d, Cleared, "OUTPUT", q.OUTPUT) /\ t = PulseOpen(e, s, "INPUT", r)
      /\ Api = "OSS" => s = OssOpen(d, Cleared, "OUTPUT", q.OUTPUT) /\ t = OssOpen(e, s, "INPUT", r)
  BY <1>4 DEF probeDeviceOpen
<1>6. CASE Api = "ASIO"
  <2>1. /\ SetUp(s, t, "INPUT", r, AsioFormat(e), AsioFrames(e, s, "INPUT", r))
        /\ Beside(s, t, "INPUT") /\ s.device["OUTPUT"] = r.id
    <3>1. t = AsioOpen(e, s, "INPUT", r) /\ AsioOpen(e, s, "INPUT", r) # Failure
      BY <1>5, <1>6
    <3> QED BY <1>2, <3>1, AsioLemma, ZenonT(60)
  <2>2. d = e
    BY <1>3, <2>1
  <2>3. s.bufferSize = AsioFrames(d, Cleared, "OUTPUT", q.OUTPUT)
    <3>1. /\ s = AsioOpen(d, Cleared, "OUTPUT", q.OUTPUT)
          /\ AsioOpen(d, Cleared, "OUTPUT", q.OUTPUT) # Failure
      BY <1>5, <1>6
    <3>2. SetUp(Cleared, s, "OUTPUT", q.OUTPUT, AsioFormat(d), AsioFrames(d, Cleared, "OUTPUT", q.OUTPUT))
      BY <1>2, <3>1, AsioLemma
    <3> QED BY <3>2 DEF SetUp
  <2>4. AsioAccepts(d, s.bufferSize) \/ s.bufferSize = d.sizes.prefer
    BY <1>1, <1>6, <2>3, AsioFramesLemma
  <2>5. AsioFrames(d, s, "INPUT", r) = s.bufferSize
    BY <1>1, <1>2, <1>6, <2>4, AsioFramesLemma
  <2>6. t.bufferSize = AsioFrames(e, s, "INPUT", r)
    BY <2>1 DEF SetUp
  <2> QED BY <2>1, <2>2, <2>5, <2>6
<1>7. CASE Api = "JACK"
  <2>1. /\ SetUp(Cleared, s, "OUTPUT", q.OUTPUT, "FLOAT32", d.sizes.prefer)
        /\ SetUp(s, t, "INPUT", r, "FLOAT32", e.sizes.prefer)
        /\ Beside(s, t, "INPUT")
    BY <1>2, <1>5, <1>7, JackLemma
  <2> QED BY <1>1, <1>7, <2>1 DEF SetUp
<1>8. CASE Api = "ALSA"
  <2>1. t = AlsaOpen(e, s, "INPUT", r)
    BY <1>5, <1>8
  <2> QED BY <1>2, <2>1, AlsaBeside
<1>9. CASE Api = "PULSE"
  <2>1. SetUp(s, t, "INPUT", r, PulseFormat(r), r.frames) /\ Beside(s, t, "INPUT")
    BY <1>2, <1>5, <1>9, PulseLemma
  <2> QED BY <2>1 DEF SetUp
<1>10. CASE Api = "OSS"
  <2> DEFINE channels == OssChannels(d, q.OUTPUT)
             format == OssFormat(d, q.OUTPUT)
             yes == TRUE
  <2>1. /\ SetUp(Cleared, s, "OUTPUT", q.OUTPUT, format, OssFrames(d, q.OUTPUT))
        /\ Buffered(Cleared, s, "OUTPUT", q.OUTPUT, yes, channels, q.OUTPUT.firstChannel, 0)
    <3>1. /\ s = OssOpen(d, Cleared, "OUTPUT", q.OUTPUT)
          /\ OssOpen(d, Cleared, "OUTPUT", q.OUTPUT) # Failure
      BY <1>5, <1>10
    <3> QED BY <1>2, <3>1, OssLemma, ZenonT(60)
  <2>2. \/ Beside(s, t, "INPUT")
        \/ /\ Reopens(s, "INPUT", r) /\ s.nUserChannels["OUTPUT"] = r.channels
           /\ Shares(s, t, OssFormat(e, r), OssChannels(e, r))
    <3>1. t = OssOpen(e, s, "INPUT", r) /\ OssOpen(e, s, "INPUT", r) # Failure
      BY <1>5, <1>10
    <3> QED BY <1>2, <3>1, OssBeside
  <2>3. /\ s.bufferSize = OssFrames(d, q.OUTPUT) /\ s.deviceFormat["OUTPUT"] = format
        /\ s.nDeviceChannels["OUTPUT"] = channels /\ s.nUserChannels["OUTPUT"] = q.OUTPUT.channels
    BY <2>1 DEF SetUp, Buffered
  <2>4. ASSUME Reopens(s, "INPUT", r), s.nUserChannels["OUTPUT"] = r.channels
        PROVE  OssFormat(e, r) = format /\ OssChannels(e, r) = channels
    <3>1. d = e /\ q.OUTPUT.firstChannel = r.firstChannel
      BY <1>3, <1>10, <2>4 DEF Reopens, OssUnchanged
    <3>2. q.OUTPUT.channels = r.channels /\ q.OUTPUT.format = r.format
      BY <1>2, <2>3, <2>4
    <3> QED BY <3>1, <3>2 DEF OssFormat, OssChannels
  <2>5. Beside(s, t, "INPUT")
    <3> HIDE DEF format, channels
    <3> QED BY <2>2, <2>3, <2>4 DEF Shares
  <2>6. t.deviceFormat["OUTPUT"] = format /\ t.nDeviceChannels["OUTPUT"] = channels
    BY <1>2, <2>3, <2>5 DEF Beside, Modes
  <2>7. t.bufferSize = OssFrames(d, q.OUTPUT)
    BY <1>10, <2>6 DEF OssUnchanged, OssFrames
  <2> QED BY <2>3, <2>5, <2>7
<1> QED BY <1>1, <1>6, <1>7, <1>8, <1>9, <1>10

\* The device of the output is not changed by any input of OSS.
LEMMA OssDevice ==
  ASSUME NEW d, NEW s, Shaped(s), NEW r, OssOpen(d, s, "INPUT", r) # Failure
  PROVE  OssOpen(d, s, "INPUT", r).device["OUTPUT"] = s.device["OUTPUT"]
<1> DEFINE C == Chosen(s, "INPUT", r, OssFormat(d, r), TRUE, OssChannels(d, r),
                       d.swapped /\ OssFormat(d, r) # "SINT8", 0, OssFrames(d, r))
           S == [C EXCEPT !.deviceFormat["OUTPUT"] = OssFormat(d, r),
                          !.nDeviceChannels["OUTPUT"] = OssChannels(d, r)]
           c == IF Reopens(s, "INPUT", r) THEN S ELSE C
<1>1. OssOpen(d, s, "INPUT", r) = Allocated(c, "INPUT", r.firstChannel, 0)
  BY DEF OssOpen, OssChannels, OssFrames
<1>2. Shaped(C) /\ C.device["OUTPUT"] = s.device["OUTPUT"]
  BY ZenonT(60) DEF Chosen, Shaped, Sided, Modes
<1> HIDE DEF C
<1>3. Shaped(S) /\ S.device = C.device
  BY <1>2 DEF Shaped, Sided
<1> HIDE DEF S
<1>4. Shaped(c) /\ c.device["OUTPUT"] = s.device["OUTPUT"]
  BY <1>2, <1>3
<1> HIDE DEF c
<1>5. Beside(c, Allocated(c, "INPUT", r.firstChannel, 0), "INPUT")
  BY <1>4, AllocatedLemma DEF Modes
<1> QED BY <1>1, <1>4, <1>5 DEF Beside, Modes

\* What openStream has looked at.
LEMMA AskedLemma ==
  ASSUME RtInv, phase = "open"
  PROVE  /\ system \in Systems /\ asked \in Requests /\ Valid(asked)
         /\ stream = ProbedBoth(asked) /\ stream # Failure /\ stream.mode = ModeOf(asked)
         /\ asked.OUTPUT # None \/ asked.INPUT # None
         /\ asked.OUTPUT # None => /\ asked.OUTPUT \in Requested /\ asked.OUTPUT.channels # 0
                                   /\ asked.OUTPUT.id \in DOMAIN system.devices
         /\ asked.INPUT # None => /\ asked.INPUT \in Requested /\ asked.INPUT.channels # 0
                                  /\ asked.INPUT.id \in DOMAIN system.devices
<1>1. /\ system \in Systems /\ asked \in Requests /\ Valid(asked)
      /\ stream = ProbedBoth(asked) /\ stream # Failure
  BY DEF RtInv, ToldInv, StreamInv
<1>2. stream.mode = ModeOf(asked)
  BY <1>1, OpenedLemma
<1> QED BY <1>1, <1>2, ValidLemma DEF Modes

\* The output of a stream, when it was set up and nothing else.
LEMMA OutputFits ==
  ASSUME RtInv, phase = "open", Api # "CORE", asked.OUTPUT # None,
         NEW s, s = OutputOf(asked), s # Failure
  PROVE  /\ s = probeDeviceOpen(Api, system.devices[asked.OUTPUT.id], Cleared, "OUTPUT", asked.OUTPUT)
         /\ Placed(s, "OUTPUT", asked.OUTPUT) /\ Fitting(s, "OUTPUT") /\ MadeFor(s, "OUTPUT")
         /\ Shaped(s) /\ s.mode = "OUTPUT" /\ s.bufferSize \in Nat
         /\ s.device["OUTPUT"] = asked.OUTPUT.id
<1>1. /\ Shaped(Cleared) /\ Cleared.deviceBytes = 0 /\ "OUTPUT" \in Modes
      /\ ~IsDuplexInput(Cleared, "OUTPUT") /\ Joined(Cleared, "OUTPUT") = "OUTPUT"
  BY ClearedLemma DEF IsDuplexInput, Joined, Modes
<1>2. s = probeDeviceOpen(Api, system.devices[asked.OUTPUT.id], Cleared, "OUTPUT", asked.OUTPUT)
  BY DEF OutputOf
<1>3. /\ Placed(s, "OUTPUT", asked.OUTPUT)
      /\ \E atLeast \in {0, 1} : Provides(Cleared, s, "OUTPUT", atLeast)
  BY <1>1, <1>2, AskedLemma, PlacesLemma
<1>4. Adds(Cleared, s, "OUTPUT", asked.OUTPUT)
  BY <1>1, <1>2, AskedLemma, ProbeLemma
<1>5. Fitting(s, "OUTPUT") /\ MadeFor(s, "OUTPUT")
  BY <1>1, <1>3, AloneLemma
<1> QED BY <1>1, <1>2, <1>3, <1>4, <1>5 DEF Adds

\* The input that is added to it leaves it as it is.
LEMMA DuplexLemma ==
  ASSUME RtInv, phase = "open", Api # "CORE", ~Reopened, ~Resized,
         asked.OUTPUT # None, asked.INPUT # None,
         NEW s, s = OutputOf(asked), NEW r, r = InputOf(asked, s)
  PROVE  /\ s # Failure /\ Shaped(s) /\ s.mode = "OUTPUT"
         /\ r \in Requested /\ r.id = asked.INPUT.id /\ r.channels = asked.INPUT.channels
         /\ r.firstChannel = asked.INPUT.firstChannel /\ r.format = asked.INPUT.format
         /\ r.frames = s.bufferSize /\ r.nonInterleaved = asked.INPUT.nonInterleaved
         /\ stream = probeDeviceOpen(Api, system.devices[asked.INPUT.id], s, "INPUT", r)
         /\ Beside(s, stream, "INPUT") /\ stream.bufferSize = s.bufferSize
         /\ stream.mode = "DUPLEX" /\ stream.device["INPUT"] = asked.INPUT.id
<1>1. s # Failure
  BY AskedLemma, ProbedBothLemma
<1>2. /\ Shaped(s) /\ s.mode = "OUTPUT" /\ s.bufferSize \in Nat /\ s.device["OUTPUT"] = asked.OUTPUT.id
      /\ s = probeDeviceOpen(Api, system.devices[asked.OUTPUT.id], Cleared, "OUTPUT", asked.OUTPUT)
  BY <1>1, OutputFits
<1>3. /\ r \in Requested
      /\ stream = probeDeviceOpen(Api, system.devices[asked.INPUT.id], s, "INPUT", r)
  BY <1>1, <1>2, AskedLemma, ProbedBothLemma
<1>4. /\ r.id = asked.INPUT.id /\ r.channels = asked.INPUT.channels
      /\ r.firstChannel = asked.INPUT.firstChannel /\ r.format = asked.INPUT.format
      /\ r.frames = s.bufferSize /\ r.nonInterleaved = asked.INPUT.nonInterleaved
  BY AskedLemma DEF InputOf, Requested
<1>5. "INPUT" \in Modes
  BY DEF Modes
<1>6. Adds(s, stream, "INPUT", r)
  BY <1>2, <1>3, <1>4, <1>5, AskedLemma, ProbeLemma
<1>7. stream.mode = "DUPLEX" /\ stream.device["INPUT"] = asked.INPUT.id
  BY <1>4, <1>6, AskedLemma DEF ModeOf, Adds
<1>8. Api = "OSS" => OssUnchanged(asked, stream)
  <2> SUFFICES ASSUME Api = "OSS" PROVE OssUnchanged(asked, stream)
    OBVIOUS
  <2>1. ASSUME asked.OUTPUT.id = asked.INPUT.id
        PROVE  asked.OUTPUT.firstChannel = asked.INPUT.firstChannel
    <3>1. stream = OssOpen(system.devices[asked.INPUT.id], s, "INPUT", r)
      BY <1>3 DEF probeDeviceOpen
    <3>2. stream.device["OUTPUT"] = asked.OUTPUT.id
      BY <1>2, <3>1, AskedLemma, OssDevice
    <3> QED BY <1>7, <2>1, <3>2 DEF Reopened
  <2> QED BY <1>7, <2>1 DEF Resized, OssUnchanged
<1>9. Beside(s, stream, "INPUT") /\ stream.bufferSize = s.bufferSize
  BY <1>1, <1>2, <1>3, <1>4, <1>8, AskedLemma, OutputStays
<1> QED BY <1>1, <1>2, <1>3, <1>4, <1>7, <1>9

\* The buffers of an open stream, whatever it was opened for.
LEMMA OpenFits ==
  ASSUME RtInv, phase = "open", Api # "CORE", ~Reopened, ~Resized, NEW mode \in Modes, Uses(mode)
  PROVE  Fitting(stream, mode)
<1>1. /\ Shaped(Cleared) /\ Cleared.deviceBytes = 0 /\ ~IsDuplexInput(Cleared, "INPUT")
      /\ "OUTPUT" \in Modes /\ "INPUT" \in Modes
  BY ClearedLemma DEF IsDuplexInput, Modes
<1>2. CASE asked.OUTPUT = None
  <2>1. stream = probeDeviceOpen(Api, system.devices[asked.INPUT.id], Cleared, "INPUT", asked.INPUT)
    BY <1>2, AskedLemma, ProbedBothLemma
  <2>2. /\ Placed(stream, "INPUT", asked.INPUT)
        /\ \E atLeast \in {0, 1} : Provides(Cleared, stream, "INPUT", atLeast)
    BY <1>1, <1>2, <2>1, AskedLemma, PlacesLemma
  <2>3. Fitting(stream, "INPUT")
    BY <1>1, <2>2, AloneLemma
  <2>4. mode = "INPUT"
    BY <1>2, AskedLemma DEF Uses, ModeOf, Modes
  <2> QED BY <2>3, <2>4
<1>3. CASE asked.OUTPUT # None /\ asked.INPUT = None
  <2>1. stream = OutputOf(asked)
    BY <1>3, AskedLemma, ProbedBothLemma
  <2>2. Fitting(stream, "OUTPUT")
    BY <1>3, <2>1, AskedLemma, OutputFits
  <2>3. mode = "OUTPUT"
    BY <1>3, AskedLemma DEF Uses, ModeOf, Modes
  <2> QED BY <2>2, <2>3
<1>4. CASE asked.OUTPUT # None /\ asked.INPUT # None
  <2> DEFINE s == OutputOf(asked)
             r == InputOf(asked, s)
  <2>1. /\ s # Failure /\ Shaped(s) /\ s.mode = "OUTPUT"
        /\ r \in Requested /\ r.id = asked.INPUT.id /\ r.channels = asked.INPUT.channels
        /\ r.format = asked.INPUT.format /\ r.nonInterleaved = asked.INPUT.nonInterleaved
        /\ stream = probeDeviceOpen(Api, system.devices[asked.INPUT.id], s, "INPUT", r)
        /\ Beside(s, stream, "INPUT") /\ stream.bufferSize = s.bufferSize
    BY <1>4, DuplexLemma
  <2>2. Placed(s, "OUTPUT", asked.OUTPUT) /\ Fitting(s, "OUTPUT") /\ MadeFor(s, "OUTPUT")
    BY <1>4, <2>1, OutputFits
  <2> HIDE DEF s, r
  <2>3. /\ Placed(stream, "INPUT", r)
        /\ \E atLeast \in {0, 1} : Provides(s, stream, "INPUT", atLeast)
    BY <1>1, <1>4, <2>1, AskedLemma, PlacesLemma
  <2>4. stream.userFormat = s.userFormat /\ stream.userInterleaved = s.userInterleaved
    <3>1. /\ asked.OUTPUT.format = asked.INPUT.format
          /\ asked.OUTPUT.nonInterleaved = asked.INPUT.nonInterleaved
      BY <1>4, AskedLemma, RequestsAssumption
    <3> QED BY <2>1, <2>2, <2>3, <3>1 DEF Placed
  <2>5. \A m \in Modes : Fitting(stream, m)
    BY <2>1, <2>2, <2>3, <2>4, TogetherLemma
  <2> QED BY <2>5
<1> QED BY <1>2, <1>3, <1>4

\* Conversion and the calls of ASIO, JACK, ALSA, PulseAudio and OSS stay inside the
\* buffers that probeDeviceOpen makes, one direction after the other, for any number of
\* frames and channels.
THEOREM AccessesStayInside == Spec => [](Api # "CORE" => AccessesFit)
<1>1. ASSUME RtInv PROVE Api # "CORE" => AccessesFit
  <2> SUFFICES ASSUME Api # "CORE", NEW mode \in Modes, Uses(mode), ~Gap(mode)
               PROVE  Fits(mode)
    BY DEF AccessesFit
  <2>1. phase = "open"
    BY <1>1, ClearedLemma DEF RtInv, StreamInv, Uses, Modes
  <2>2. ~Reopened /\ ~Resized
    BY DEF Gap
  <2> QED BY <1>1, <2>1, <2>2, OpenFits, FitsLemma
<1> QED BY <1>1, RtInvariant, PTL
=============================================================================
