---------------------------- MODULE RtCoreAudio ----------------------------
(***************************************************************************)
(* CoreAudio, the one back end of RtAudio whose devices have several       *)
(* streams.  A stream has a buffer of its own, in which the samples of its *)
(* channels are interleaved; the channels of a request lie in one stream   *)
(* or in consecutive ones.                                                 *)
(*                                                                         *)
(* A device has one field more than in RtDevices:                          *)
(*   streams     for each mode, the channels of its streams                *)
(* and a stream_ two: iStream, nStreams.                                   *)
(***************************************************************************)
EXTENDS RtDevices, Functions

\* The channels of the streams before stream n.
Before(S) == [n \in 1..(Len(S) + 1) |-> SumFunctionOnSet(S, 1..(n - 1))]

Channels(S) == Before(S)[Len(S) + 1]

\* The stream that channel c of the device is in.
StreamOf(S, c) == CHOOSE n \in DOMAIN S : Before(S)[n] <= c /\ c < Before(S)[n + 1]

\* The rates of a device are single ones; ranges are not modelled.
CoreInfo(d) ==
  IF d.rates = {} THEN NoInfo
  ELSE Info(Channels(d.streams.OUTPUT), Channels(d.streams.INPUT), {"FLOAT32"}, d.rates, Preferred(d.rates))

-----------------------------------------------------------------------------
(* probeDeviceOpen.                                                        *)

\* One stream, or consecutive ones, from that of the first channel on.
CoreChosen(d, s, mode, r) ==
  LET S == d.streams[mode]
      first == StreamOf(S, r.firstChannel)
      last == StreamOf(S, r.firstChannel + r.channels - 1)
      mono == first < last /\ \A n \in first..last : S[n] = 1
      frames == Lesser(d.sizes.max, AtLeast(r.frames, d.sizes.min))
      \* the format that is asked for is that of the first stream
      channels == IF first = last THEN S[1] ELSE r.channels
      c == Chosen(s, mode, r, "FLOAT32", ~mono, channels, FALSE, r.firstChannel - Before(S)[first], frames)
  IN  [c EXCEPT !.iStream[mode] = first, !.nStreams[mode] = last - first + 1]

CoreConverts(s, mode) ==
  \/ s.userFormat # s.deviceFormat[mode]
  \/ s.nUserChannels[mode] < s.nDeviceChannels[mode]
  \/ /\ s.userInterleaved # s.deviceInterleaved[mode]
     /\ s.nUserChannels[mode] > 1
     /\ s.nStreams[mode] = 1 \/ s.userInterleaved

\* The buffers of the streams are converted to and from directly where there is
\* one, and through the device buffer where there are several.
CoreAllocated(s, mode) ==
  LET converts == CoreConverts(s, mode)
      several == s.nStreams[mode] > 1
      c == [s EXCEPT
              !.doConvertBuffer[mode] = converts,
              !.userBytes[mode] = UserFrame(s, mode) * s.bufferSize,
              !.deviceBytes =
                 IF ~converts \/ ~several \/ KeepsBuffer(s, mode, 0) THEN @
                 ELSE DeviceFrame(s, mode) * s.bufferSize,
              !.mode = IF IsDuplexInput(s, mode) THEN "DUPLEX" ELSE mode]
      offset == IF several THEN 0 ELSE s.channelOffset[mode]
  IN  IF converts THEN [c EXCEPT !.convertInfo[mode] = setConvertInfo(c, mode, offset)] ELSE c

CoreFits(d, mode, r) == r.channels + r.firstChannel <= Channels(d.streams[mode])

\* Both directions need the same size; the rate is set, and waited for, and so is the
\* format of the streams, which is not modelled.
CoreOpen(d, s, mode, r) ==
  IF ~CoreFits(d, mode, r) \/ r.rate \notin d.rates THEN Failure
  ELSE LET c == CoreChosen(d, s, mode, r)
       IN  IF IsDuplexInput(s, mode) /\ c.bufferSize # s.bufferSize THEN Failure
           ELSE CoreAllocated(c, mode)

-----------------------------------------------------------------------------
(* The several streams of one mode of s, in a device with the streams S.   *)

Used(s, mode) == s.iStream[mode]..(s.iStream[mode] + s.nStreams[mode] - 1)

Skipped(s, mode, n) == IF n = s.iStream[mode] THEN s.channelOffset[mode] ELSE 0

\* Channels of the request before those in stream n.
TakenBefore(S, s, mode, n) ==
  IF n = s.iStream[mode] THEN 0
  ELSE Before(S)[n] - Before(S)[s.iStream[mode]] - s.channelOffset[mode]

ChannelsLeft(S, s, mode, n) == s.nUserChannels[mode] - TakenBefore(S, s, mode, n)

Served(S, s, mode, n) == Lesser(S[n] - Skipped(s, mode, n), ChannelsLeft(S, s, mode, n))

\* Plausible slip: the channels at the end of the last stream are not skipped.
OnlyFirstSkipped(S, s, mode, n) == Skipped(s, mode, n)

\* Channels that are passed over from one frame to the next.
Unserved(S, s, mode, n) ==
  LET free == S[n] - Skipped(s, mode, n)
      unused == free - ChannelsLeft(S, s, mode, n)
  IN  IF unused > 0 THEN unused ELSE Skipped(s, mode, n)

\* Sample j of frame i of stream n: in the stream's buffer ...
StreamPlace(S, s, mode, n, i, j) ==
  Skipped(s, mode, n) + i * (Served(S, s, mode, n) + Unserved(S, s, mode, n)) + j

\* ... and in the device buffer, or the user's if nothing is converted.
BufferPlace(S, s, mode, n, i, j) ==
  LET k == TakenBefore(S, s, mode, n) + j
  IN  IF s.deviceInterleaved[mode] /\ (s.doConvertBuffer[mode] \/ s.userInterleaved)
        THEN i * s.nUserChannels[mode] + k ELSE k * s.bufferSize + i

StreamSamples(S, s, mode) ==
  {q \in Used(s, mode) \X (0..(s.bufferSize - 1)) \X (0..(s.nUserChannels[mode] - 1)) :
     q[3] < Served(S, s, mode, q[1])}

ReadAt(buffer, p) == IF p \in DOMAIN buffer THEN buffer[p] ELSE Garbled

\* What place p of the buffer of stream n holds after the output, the streams being
\* silent before.
InStream(buffer, S, s, n, p) ==
  LET At == {q \in StreamSamples(S, s, "OUTPUT") :
               q[1] = n /\ StreamPlace(S, s, "OUTPUT", n, q[2], q[3]) = p}
      q == CHOOSE q \in At : TRUE
  IN  IF s.nStreams["OUTPUT"] = 1
        THEN IF n = s.iStream["OUTPUT"] THEN ReadAt(buffer, p) ELSE 0
        ELSE IF At = {} THEN 0 ELSE ReadAt(buffer, BufferPlace(S, s, "OUTPUT", n, q[2], q[3]))

\* What the device plays: its channel c is in a stream of its own.
Spread(buffer, S, s) ==
  [q \in (0..(s.bufferSize - 1)) \X (0..(Channels(S) - 1)) |->
     LET n == StreamOf(S, q[2])
     IN  InStream(buffer, S, s, n, q[1] * S[n] + q[2] - Before(S)[n])]

\* What the input makes of a buffer, recorded[i, c] being frame i of the device's
\* channel c.
Gathered(buffer, recorded, S, s) ==
  LET only == s.iStream["INPUT"]
      InBuffer(n, p) == ReadAt(recorded, <<p \div S[n], Before(S)[n] + (p % S[n])>>)
      At(p) == {q \in StreamSamples(S, s, "INPUT") : BufferPlace(S, s, "INPUT", q[1], q[2], q[3]) = p}
  IN  [p \in DOMAIN buffer |->
         IF s.nStreams["INPUT"] = 1
           THEN IF p < s.bufferSize * S[only] THEN InBuffer(only, p) ELSE buffer[p]
         ELSE IF At(p) = {} THEN buffer[p]
         ELSE LET q == CHOOSE q \in At(p) : TRUE
              IN  InBuffer(q[1], StreamPlace(S, s, "INPUT", q[1], q[2], q[3]))]

\* Everything the streams are used for lies in their buffers and in the other one.
StreamsFit(S, s, mode) ==
  IF s.nStreams[mode] = 1
    THEN s.doConvertBuffer[mode] \/ s.bufferSize * S[s.iStream[mode]] * 4 <= s.userBytes[mode]
    ELSE \A q \in StreamSamples(S, s, mode) :
           /\ StreamPlace(S, s, mode, q[1], q[2], q[3]) < s.bufferSize * S[q[1]]
           /\ (BufferPlace(S, s, mode, q[1], q[2], q[3]) + 1) * 4
                <= IF s.doConvertBuffer[mode] THEN s.deviceBytes ELSE s.userBytes[mode]

\* The bytes that the conversion has on the side of the device.
CoreDeviceBytes(S, s, mode) ==
  IF s.nStreams[mode] = 1 THEN s.bufferSize * S[s.iStream[mode]] * 4 ELSE s.deviceBytes

\* The format that was asked for is not that of the stream that is used.
OtherStream(S, s, mode) == s.nStreams[mode] = 1 /\ S[s.iStream[mode]] # S[1]

-----------------------------------------------------------------------------
(* The devices of all back ends.                                           *)

getDeviceInfo(api, d) ==
  CASE api = "ASIO"  -> AsioInfo(d)
    [] api = "JACK"  -> JackInfo(d)
    [] api = "ALSA"  -> AlsaInfo(d)
    [] api = "PULSE" -> PulseInfo(d)
    [] api = "OSS"   -> OssInfo(d)
    [] api = "CORE"  -> CoreInfo(d)

probeDeviceOpen(api, d, s, mode, r) ==
  CASE api = "ASIO"  -> AsioOpen(d, s, mode, r)
    [] api = "JACK"  -> JackOpen(d, s, mode, r)
    [] api = "ALSA"  -> AlsaOpen(d, s, mode, r)
    [] api = "PULSE" -> PulseOpen(d, s, mode, r)
    [] api = "OSS"   -> OssOpen(d, s, mode, r)
    [] api = "CORE"  -> CoreOpen(d, s, mode, r)
=============================================================================
