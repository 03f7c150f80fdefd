------------------------------ MODULE MCServer ------------------------------
(* Values of the constants of Server for TLC.                               *)
EXTENDS Server, TLC

CONSTANTS t1, t2

\* A size out of range, a value of another type, and nothing else.
MCRegistries ==
  {[n \in RegistryNames |->
     CASE n = "buffer" -> 9 [] n = "inputs" -> Malformed [] OTHER -> Missing]}

MCUserFiles == {Missing, Malformed}
MCSystemFiles == {Missing, [buffer |-> 256, inputs |-> 2]}

MCEnvironments ==
  {[home |-> TRUE, PWASIO |-> <<>>, PIPEWIREASIO |-> <<>>],
   [home |-> FALSE, PWASIO |-> [inputs |-> -1, buffer |-> 64], PIPEWIREASIO |-> [rate |-> 96000]]}

MCEdits ==
  {[inputs |-> 0, buffer |-> 512, connect |-> FALSE], [inputs |-> 4, buffer |-> 1000, connect |-> TRUE]}

\* The threads are interchangeable, and nothing that is checked here is liveness.
Symmetry == Permutations(Threads)
=============================================================================
