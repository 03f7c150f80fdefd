---------------------------- MODULE Registration ----------------------------
(***************************************************************************)
(* DllRegisterServer and DllUnregisterServer: a sequence of writes to the  *)
(* registry of the machine, or of deletions, that ends at the first one    *)
(* that fails.  Nothing is taken back.  The process that makes them may be *)
(* killed between two of them.                                             *)
(***************************************************************************)
EXTENDS Integers, Sequences

VARIABLES
  keys,       \* the keys and values that exist
  registrar,  \* "idle", "registering" or "unregistering"
  step,       \* the step it is at
  reported    \* what the last call has returned: "none" while there is no result

regVars == <<keys, registrar, step, reported>>

(* register_coclasses, register_interfaces with its empty list, and         *)
(* register_driver.                                                         *)
RegisterSteps ==
  <<"CLSID", "class", "class name", "InProcServer32", "server path", "ThreadingModel",
    "Interface", "ASIO", "ASIO class", "ASIO description">>

RegisterStepsCount == Len(RegisterSteps)

Keys == {RegisterSteps[i] : i \in 1..RegisterStepsCount}

\* Plausible slip: the entry of the ASIO drivers stays.
ClassDeletions ==
  <<{"InProcServer32", "server path", "ThreadingModel"}, {"class", "class name"}>>

(* unregister_coclasses deletes the class with what is below it, the        *)
(* subkeys first; register_interfaces' key stays, as CLSID does.            *)
Deletions ==
  <<{"InProcServer32", "server path", "ThreadingModel"}, {"class", "class name"},
    {"ASIO", "ASIO class", "ASIO description"}>>

RegInit ==
  /\ keys = {}
  /\ registrar = "idle"
  /\ step = 1
  /\ reported = "none"

RegTypeOK ==
  /\ keys \subseteq Keys
  /\ registrar \in {"idle", "registering", "unregistering"}
  /\ step \in 1..(RegisterStepsCount + 1)
  /\ reported \in {"none", "registered", "unregistered", "failed"}

\* What COM needs to load the driver, and a host to offer it.
Loadable == {"class", "InProcServer32", "server path"} \subseteq keys
Listed == {"ASIO", "ASIO class"} \subseteq keys

Starts(what) ==
  /\ registrar = "idle"
  /\ registrar' = what
  /\ reported' = "none"
  /\ UNCHANGED <<keys, step>>

Ends(result) == registrar' = "idle" /\ step' = 1 /\ reported' = result

DllRegisterServer == Starts("registering")
DllUnregisterServer == Starts("unregistering")

\* Creates a key or sets a value, which may exist.
RegisterStep ==
  /\ registrar = "registering"
  /\ step <= RegisterStepsCount
  /\ keys' = keys \cup {RegisterSteps[step]}
  /\ step' = step + 1
  /\ UNCHANGED <<registrar, reported>>

RegisterEnds ==
  /\ registrar = "registering"
  /\ step > RegisterStepsCount
  /\ Ends("registered")
  /\ UNCHANGED keys

\* Deletes a key with its values; one that is not there counts as deleted.
UnregisterStep ==
  /\ registrar = "unregistering"
  /\ step <= Len(Deletions)
  /\ keys' = keys \ Deletions[step]
  /\ step' = step + 1
  /\ UNCHANGED <<registrar, reported>>

UnregisterEnds ==
  /\ registrar = "unregistering"
  /\ step > Len(Deletions)
  /\ Ends("unregistered")
  /\ UNCHANGED keys

\* A call to the registry fails.  register_driver returns the error code of
\* the registry itself, which SUCCEEDED takes for success; the caller sees a
\* result that is not S_OK.
StepFails ==
  /\ registrar # "idle"
  /\ Ends("failed")
  /\ UNCHANGED keys

Killed ==
  /\ registrar # "idle"
  /\ Ends("none")
  /\ UNCHANGED keys

Register ==
  DllRegisterServer \/ DllUnregisterServer \/ RegisterStep \/ RegisterEnds
    \/ UnregisterStep \/ UnregisterEnds \/ StepFails \/ Killed

(* S_OK is true: after DllRegisterServer the driver can be listed and       *)
(* loaded whatever earlier calls have left behind, and after                *)
(* DllUnregisterServer it can be neither.                                   *)
ReportIsTrue ==
  /\ reported = "registered" => Loadable /\ Listed
  /\ reported = "unregistered" => ~Loadable /\ keys \subseteq {"CLSID", "Interface"}
=============================================================================
