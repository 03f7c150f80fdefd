------------------------------ MODULE RtConvert ------------------------------
(***************************************************************************)
(* The sample formats of RtAudio and what convertBuffer, setConvertInfo    *)
(* and byteSwapBuffer do with them, as operators on buffers.  A buffer is  *)
(* a function from positions (from 0) to samples.                          *)
(*                                                                         *)
(* An integer sample is a two's complement number of the width of its      *)
(* format.  A float is an integer multiple of 1/Unit, which expresses      *)
(* every value that comes from an integer sample exactly: the rounding of  *)
(* the floats themselves is not modelled.                                  *)
(***************************************************************************)
EXTENDS Integers, Sequences

CONSTANT ByteBits  \* bits of a byte: 8 in the code, fewer keep TLC's numbers small

ASSUME ByteBitsAssumption == ByteBits \in Nat \ {0}

formatBytes ==
  [SINT8 |-> 1, SINT16 |-> 2, SINT24 |-> 3, SINT32 |-> 4, FLOAT32 |-> 4, FLOAT64 |-> 8]

Formats == DOMAIN formatBytes
Floats == {"FLOAT32", "FLOAT64"}
Widths == {1, 2, 3, 4}

\* 2^n - 1 for an integer format of n bits: the range -1.0 to 1.0 in half steps.
Full(bytes) == 2 ^ (ByteBits * bytes) - 1
Unit == Full(1) * Full(2) * Full(3) * Full(4)

Lowest(f) == IF f \in Floats THEN -Unit ELSE -(2 ^ (ByteBits * formatBytes[f] - 1))
Highest(f) == IF f \in Floats THEN Unit ELSE 2 ^ (ByteBits * formatBytes[f] - 1) - 1

-----------------------------------------------------------------------------
(* One sample.                                                             *)

\* (x + 0.5) * scale
ToFloat(from, x) ==
  IF from \in Floats THEN x ELSE (2 * x + 1) * (Unit \div Full(formatBytes[from]))

\* (int) (x * scale - 0.5), which rounds towards zero.
FromFloat(bytes, x) ==
  LET n == x * Full(bytes) - Unit
  IN  IF n >= 0 THEN n \div (2 * Unit) ELSE -((-n) \div (2 * Unit))

\* x << 8, 16 or 24
Widened(x, bytes) == x * 2 ^ (ByteBits * bytes)

\* x >> 8, 16 or 24
Narrowed(x, bytes) == x \div 2 ^ (ByteBits * bytes)

ToInteger(to, from, x) ==
  LET n == formatBytes[to]
      m == formatBytes[from]
  IN  IF from \in Floats THEN FromFloat(n, x)
      ELSE IF m <= n THEN Widened(x, n - m) ELSE Narrowed(x, m - n)

Garbled == 2 * Unit + 1  \* what no sample is

Converted(to, from, x) ==
  IF x = Garbled THEN x ELSE IF to \in Floats THEN ToFloat(from, x) ELSE ToInteger(to, from, x)

-----------------------------------------------------------------------------
(* Buffers.                                                                *)

Lesser(a, b) == IF a < b THEN a ELSE b

\* Plausible slip: the first channel of a device with a buffer per channel is
\* counted in samples.
OffsetInSamples(interleaved, first, k, frames) ==
  IF interleaved THEN first + k ELSE first + k * frames

\* Where channel k begins, and how far it is to its next sample.
Offset(interleaved, first, k, frames) ==
  IF interleaved THEN first + k ELSE (first + k) * frames
Jump(interleaved, channels) == IF interleaved THEN channels ELSE 1

\* The user's side and the device's side of a stream s in one mode.
setConvertInfo(s, mode, firstChannel) ==
  LET user == [jump |-> Jump(s.userInterleaved, s.nUserChannels[mode]),
               format |-> s.userFormat,
               at |-> [k \in 0..(s.nUserChannels[mode] - 1) |->
                         Offset(s.userInterleaved, 0, k, s.bufferSize)]]
      device == [jump |-> Jump(s.deviceInterleaved[mode], s.nDeviceChannels[mode]),
                 format |-> s.deviceFormat[mode],
                 at |-> [k \in 0..(s.nDeviceChannels[mode] - 1) |->
                           Offset(s.deviceInterleaved[mode], firstChannel, k, s.bufferSize)]]
  IN  [channels |-> Lesser(s.nUserChannels[mode], s.nDeviceChannels[mode]),
       in |-> IF mode = "INPUT" THEN device ELSE user,
       out |-> IF mode = "INPUT" THEN user ELSE device]

\* The positions of frame i of the channels, on one side.
Position(side, i, k) == i * side.jump + side.at[k]
Places(info, frames) == (0..(frames - 1)) \X (0..(info.channels - 1))

\* The first `cleared' positions of out are set to 0, the converted ones to what
\* is in the other buffer, and nothing else is written.
convertBuffer(out, in, info, frames, cleared) ==
  LET Source(p) == {q \in Places(info, frames) : Position(info.out, q[1], q[2]) = p}
      written == {Position(info.out, q[1], q[2]) : q \in Places(info, frames)}
  IN  [p \in DOMAIN out |->
         IF p \in written
           THEN LET q == CHOOSE r \in Source(p) : TRUE
                    x == Position(info.in, q[1], q[2])
                IN  Converted(info.out.format, info.in.format, in[x])
           ELSE IF p < cleared THEN 0 ELSE out[p]]

-----------------------------------------------------------------------------
(* Bytes: byte b of a sample v is <<v, b>>, b = 0 being the lowest.        *)

Bytes(buffer, samples, f) ==
  LET n == formatBytes[f]
  IN  [p \in 0..(samples * n - 1) |-> <<buffer[p \div n], p % n>>]

\* Three bytes of a 24 bit sample are exchanged, but the next sample is looked
\* for two bytes on.
Stride(f) == IF f = "SINT24" THEN 2 ELSE formatBytes[f]

\* n bytes from p on, in reverse
Turned(bytes, p, n) ==
  [q \in DOMAIN bytes |-> IF q \in p..(p + n - 1) THEN bytes[2 * p + n - 1 - q] ELSE bytes[q]]

byteSwapBuffer(bytes, samples, f) ==
  LET swapped[i \in 0..samples] ==
        IF i = 0 THEN bytes ELSE Turned(swapped[i - 1], (i - 1) * Stride(f), formatBytes[f])
  IN  swapped[samples]

\* What sample p of the bytes is for one who expects its bytes in `slot' bytes
\* each, the highest of them first or last.
Decoded(bytes, p, f, slot, highestFirst) ==
  LET n == formatBytes[f]
      At(b) == p * slot + (IF highestFirst THEN n - 1 - b ELSE b)
  IN  IF At(0) \notin DOMAIN bytes THEN Garbled
      ELSE LET v == bytes[At(0)][1]
           IN  IF \A b \in 0..(n - 1) : At(b) \in DOMAIN bytes /\ bytes[At(b)] = <<v, b>>
                 THEN v ELSE Garbled

=============================================================================
