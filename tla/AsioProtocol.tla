---------------------------- MODULE AsioProtocol ----------------------------
(***************************************************************************)
(* What the ASIO host of a driver relies on: the states that asio.c names, *)
(* the channel buffers that exist in each of them, and that buffers stay   *)
(* as they were made, in place and in size, until they are disposed of.    *)
(***************************************************************************)
CONSTANTS
  Channels,   \* channels that may have buffers
  Sizes       \* sizes of buffers

VARIABLES
  state,      \* "Loaded", "Initialized", "Prepared" or "Running"
  buffers     \* the size of the buffers of each channel that has some

vars == <<state, buffers>>

NoBuffers == <<>>

Init == state = "Loaded" /\ buffers = NoBuffers

Moves(from, to) == state = from /\ state' = to

Open  == Moves("Loaded", "Initialized") /\ UNCHANGED buffers
Start == Moves("Prepared", "Running") /\ UNCHANGED buffers
Stop  == Moves("Running", "Prepared") /\ UNCHANGED buffers
Close == Moves("Initialized", "Loaded") /\ UNCHANGED buffers

CreateBuffers ==
  /\ Moves("Initialized", "Prepared")
  /\ \E C \in (SUBSET Channels) \ {{}}, size \in Sizes : buffers' = [c \in C |-> size]

DisposeBuffers == Moves("Prepared", "Initialized") /\ buffers' = NoBuffers

Next == Open \/ CreateBuffers \/ Start \/ Stop \/ DisposeBuffers \/ Close

Spec == Init /\ [][Next]_vars
=============================================================================
