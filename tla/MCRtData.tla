------------------------------ MODULE MCRtData ------------------------------
(* Devices and requests for TLC.                                            *)
EXTENDS RtData

CONSTANT Apis

\* A device of two channels out and three in, unless something else is said.
Plain ==
  [outs |-> 2, ins |-> 3, least |-> 1, formats |-> {"SINT16"}, swapped |-> FALSE,
   layouts |-> {TRUE}, duplex |-> TRUE, rates |-> {44100}, hidden |-> FALSE,
   sizes |-> [min |-> 2, max |-> 4, prefer |-> 2, granularity |-> 0]]

Formatted(fs) == [Plain EXCEPT !.formats = fs]

Swapped(d) == [d EXCEPT !.swapped = TRUE]

AsioDevices ==
  {Formatted({f}) : f \in {"SINT24", "SINT32", "FLOAT32"}}
  \cup {Swapped(Formatted({f})) : f \in {"SINT16", "SINT24", "FLOAT64"}}
  \cup {[Plain EXCEPT !.sizes = [min |-> 1, max |-> 3, prefer |-> 2, granularity |-> g]] : g \in {-1, 2}}

AlsaDevices ==
  {[Formatted(fs) EXCEPT !.least = least, !.layouts = layouts] :
     fs \in {{"SINT8", "SINT32"}, {"FLOAT64", "SINT24"}}, least \in {1, 3}, layouts \in {{TRUE}, {FALSE}, {TRUE, FALSE}}}
  \cup {[Plain EXCEPT !.hidden = TRUE]}

OssDevices ==
  {Swapped([Formatted(fs) EXCEPT !.least = least]) :
     fs \in {{"SINT16", "FLOAT32"}, {"SINT8"}, {"SINT24", "SINT32"}}, least \in {1, 3}}
  \cup {Plain}

\* A device of CoreAudio has the channels of its streams.
Streaming(outs, ins) ==
  [streams |-> [OUTPUT |-> outs, INPUT |-> ins], rates |-> {44100}, hidden |-> FALSE, swapped |-> FALSE,
   sizes |-> [min |-> 2, max |-> 4]]

CoreDevices ==
  {Streaming(<<2, 2>>, <<1, 2>>), Streaming(<<1, 1, 1>>, <<3>>), Streaming(<<3>>, <<1, 1, 1>>),
   Streaming(<<1, 3>>, <<2, 1>>)}

\* The second device differs in its channels, its formats and what it refuses.
Other(api) ==
  CASE api = "ALSA" -> [Formatted({"SINT16"}) EXCEPT !.outs = 3]
    [] api = "OSS"  -> [Formatted({"SINT16"}) EXCEPT !.duplex = FALSE, !.outs = 3]
    [] api = "CORE" -> [Streaming(<<2>>, <<1>>) EXCEPT !.rates = {48000}]
    [] OTHER        -> [Formatted({"FLOAT32"}) EXCEPT !.ins = 0, !.rates = {48000}]

DevicesOf(api) ==
  CASE api = "ASIO" -> AsioDevices
    [] api = "ALSA" -> AlsaDevices
    [] api = "OSS"  -> OssDevices
    [] api = "CORE" -> CoreDevices
    [] OTHER        -> {Plain}

MCSystems ==
  UNION {{[api |-> api, devices |-> IF api = "PULSE" THEN <<d>> ELSE <<d, Other(api)>>] :
            d \in DevicesOf(api)} : api \in Apis}

\* id, channels and first channel of one direction
Directions == {None} \cup ({1} \X {1, 2} \X {0, 1}) \cup {<<2, 2, 0>>, <<1, 0, 0>>, <<3, 1, 0>>}

\* Both directions have the rate, the format and the layout of the stream.  A
\* single frame may be less than a fragment of OSS.
MCRequests ==
  {LET Of(d) == IF d = None THEN None
                ELSE [id |-> d[1], channels |-> d[2], firstChannel |-> d[3], rate |-> 44100,
                      format |-> f[1], frames |-> f[2], nonInterleaved |-> split]
   IN  [OUTPUT |-> Of(o), INPUT |-> Of(i)] :
     o \in Directions, i \in Directions, f \in (Formats \X {2}) \cup {<<"SINT16", 1>>}, split \in BOOLEAN}
=============================================================================
