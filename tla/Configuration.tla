--------------------------- MODULE Configuration ---------------------------
(***************************************************************************)
(* Where the settings of a driver come from and where the panel puts them. *)
(*                                                                         *)
(* Init reads the registry, which it completes with defaults; the first    *)
(* configuration file that can be loaded overrides the registry, and the   *)
(* environment overrides both.  The dialog writes the user's file when it  *)
(* is confirmed, and then the driver writes the registry.                  *)
(*                                                                         *)
(* Settings are functions on names of settings; a file or an environment   *)
(* is a function on the names that it gives.                               *)
(***************************************************************************)
EXTENDS Integers, Sequences

CONSTANTS
  Registries,    \* what the registry may hold at first
  UserFiles,     \* what the user's and
  SystemFiles,   \* the system's file may be at first
  Environments,  \* the environments a process may run in
  Edits,         \* the changes that the user may make in the panel
  Missing,       \* no such registry value, or no such file
  Malformed      \* a value of another type, or a file with letters for a number

Names == {"inputs", "outputs", "buffer", "rate", "connect", "fixed"}
RegistryNames == Names \ {"rate"}
FileNames == Names \ {"fixed"}

VARIABLES
  registry,     \* registry[n]: a value, Missing or Malformed
  user_file,    \* ~/.config/pipewine/pipewine.conf
  system_file,  \* /etc/pipewine/pipewine.conf
  environment   \* [home: it names a home directory, PWASIO, PIPEWIREASIO]

configVars == <<registry, user_file, system_file, environment>>

ConfigInit ==
  /\ registry \in Registries
  /\ user_file \in UserFiles
  /\ system_file \in SystemFiles
  /\ environment \in Environments

Override(f, g) == [n \in DOMAIN f |-> IF n \in DOMAIN g THEN g[n] ELSE f[n]]

-----------------------------------------------------------------------------
(* Loading.                                                                *)

Defaults ==
  [inputs |-> 16, outputs |-> 16, buffer |-> 1024, rate |-> 48000,
   connect |-> TRUE, fixed |-> TRUE]

\* pw_asio_init_default_config
FileDefaults ==
  [inputs |-> 16, outputs |-> 16, buffer |-> 1024, rate |-> 44100, connect |-> TRUE]

\* What is given is never what stands for a value that is not there or not one.
GivesValues(f) == \A n \in DOMAIN f : f[n] \notin {Missing, Malformed}

ASSUME ConfigAssumption ==
  /\ GivesValues(Defaults) /\ GivesValues(FileDefaults)
  /\ \A file \in (UserFiles \cup SystemFiles) \ {Missing, Malformed} : GivesValues(file)
  /\ \A e \in Environments : GivesValues(e.PWASIO) /\ GivesValues(e.PIPEWIREASIO)
  /\ \A edit \in Edits : GivesValues(edit)

InRange(size) == size \in 16..8192
PowersOfTwo == {2^n : n \in 4..13}
Rates == {8000, 11025, 16000, 22050, 32000, 44100, 48000, 88200, 96000, 176400, 192000}

\* The file with what it leaves out, under the environment.
FileSettings(file) == Override(Override(FileDefaults, file), environment.PIPEWIREASIO)

\* pw_asio_load_config returns 0.
Loads(file) ==
  /\ file \notin {Missing, Malformed}
  /\ LET args == FileSettings(file)
     IN  /\ args.rate \in Rates
         /\ args.buffer \in PowersOfTwo
         /\ args.inputs # 0 \/ args.outputs # 0

\* The files in the order in which they are tried.
Files == IF environment.home THEN <<user_file, system_file>> ELSE <<system_file>>

\* std::stoi throws in Init, and nothing catches: the process ends.
InitAborts ==
  \E i \in DOMAIN Files :
    Files[i] = Malformed /\ \A j \in 1..(i - 1) : ~Loads(Files[j])

FromRegistry ==
  [n \in Names |->
    IF n \in RegistryNames /\ registry[n] \notin {Missing, Malformed}
      THEN registry[n] ELSE Defaults[n]]

\* What the driver takes from a file that loads.
Usable(n, value) == n \in {"inputs", "outputs"} => value \in 1..64

FromFile(settings, file) ==
  LET args == FileSettings(file)
  IN  [n \in Names |-> IF n \in FileNames /\ Usable(n, args[n]) THEN args[n] ELSE settings[n]]

FromFiles(settings) ==
  IF \E i \in DOMAIN Files : Loads(Files[i])
    THEN LET i == CHOOSE i \in DOMAIN Files : Loads(Files[i]) /\ \A j \in 1..(i - 1) : ~Loads(Files[j])
         IN  FromFile(settings, Files[i])
    ELSE settings

WithUsableSize(settings) ==
  IF InRange(settings.buffer) THEN settings ELSE [settings EXCEPT !.buffer = Defaults.buffer]

\* What configure_driver gives the driver.
Configured == WithUsableSize(Override(FromFiles(FromRegistry), environment.PWASIO))

\* Plausible slip: only what was missing.
CompletedAlone == [n \in {m \in RegistryNames : registry[m] = Missing} |-> Defaults[n]]

\* What it leaves in the registry.
Completed == [n \in RegistryNames |-> IF registry[n] = Missing THEN Defaults[n] ELSE registry[n]]

-----------------------------------------------------------------------------
(* Saving.                                                                 *)

\* The dialog writes the settings of the panel to the user's file.
Saved(settings) == [n \in FileNames |-> settings[n]]

\* The order in which store_config writes.
StoreOrder == <<"inputs", "outputs", "buffer", "fixed", "connect">>

\* Plausible slip: the loop ends before the last value.
StoredButLast(settings, k) ==
  [n \in RegistryNames |->
    IF \E i \in 1..k : StoreOrder[i] = n /\ n # "connect" THEN settings[n] ELSE registry[n]]

\* The registry after the first k writes.
Stored(settings, k) ==
  [n \in RegistryNames |->
    IF \E i \in 1..k : StoreOrder[i] = n THEN settings[n] ELSE registry[n]]

=============================================================================
