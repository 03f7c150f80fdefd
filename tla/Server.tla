------------------------------- MODULE Server -------------------------------
(***************************************************************************)
(* The driver as something that is installed, loaded, set up and used by   *)
(* one process after another: the registration that lets hosts load it     *)
(* (Registration), the module in a process (ComServer) and the settings    *)
(* that outlive the process (Configuration).                               *)
(*                                                                         *)
(* A process may be killed at any point, also between two writes of its    *)
(* settings.  The next one may run in another environment.                 *)
(***************************************************************************)
EXTENDS ComServer, Registration, Configuration

CONSTANT MayBeKilled  \* processes may end without releasing anything

ASSUME ServerAssumption == MayBeKilled \in BOOLEAN

VARIABLES
  settings,  \* settings[t]: those of t's driver, or NoSettings before Init
  panel,     \* the panel that was confirmed: whose it is, what it says, how far it is
  last       \* what the last completed confirmation says, and if the user's file has it

serverVars == <<settings, panel, last>>
vars == <<comVars, regVars, configVars, serverVars>>

NoSettings == [none |-> TRUE]
Closed == [at |-> "closed"]
Nothing == [known |-> FALSE]

Init ==
  /\ ComInit /\ RegInit /\ ConfigInit
  /\ settings = [t \in Threads |-> NoSettings]
  /\ panel = Closed
  /\ last = Nothing

TypeOK ==
  /\ ComTypeOK /\ RegTypeOK
  /\ DOMAIN registry = RegistryNames
  /\ \A t \in Threads : settings[t] # NoSettings => DOMAIN settings[t] = Names
  /\ panel.at \in {"closed", "saving", "applying"}

\* The bound of the model: registering goes on while no process has the module
\* and no panel has been confirmed.
RegisterAlone ==
  /\ ~loaded
  /\ strays = {}
  /\ ~last.known
  /\ Register
  /\ UNCHANGED <<comVars, configVars, serverVars>>

\* The calls of ComServer that leave settings and registration alone.  A
\* thread whose panel is open is in ControlPanel.
InPanel(t) == panel.at # "closed" /\ panel.thread = t

ComStep(t) ==
  /\ ~InPanel(t)
  /\ \/ (loaded \/ (Listed /\ Loadable /\ registrar = "idle")) /\ DllGetClassObject(t)
     \/ CF_Release(t) \/ CreateInstance(t) \/ CreateCounts(t) \/ AddRef(t)
     \/ Release(t) \/ ReleaseFactory(t)
  /\ UNCHANGED <<regVars, configVars, serverVars>>

ObjectFreed(t) ==
  /\ ReleaseFrees(t)
  /\ settings' = [settings EXCEPT ![t] = NoSettings]
  /\ UNCHANGED <<regVars, configVars, panel, last>>

Unloaded ==
  /\ Unload
  /\ UNCHANGED <<regVars, configVars, serverVars>>

\* Init with configure_driver.
InitDriver(t) ==
  /\ ~InitAborts
  /\ InitObject(t)
  /\ settings' = [settings EXCEPT ![t] = Configured]
  /\ registry' = Completed
  /\ UNCHANGED <<regVars, user_file, system_file, environment, panel, last>>

-----------------------------------------------------------------------------
(* The panel.                                                              *)

\* GuiLoadConfig: the dialog shows what the driver has, whatever it has found
\* in the files itself.
Shown(t) == [n \in FileNames |-> settings[t][n]]

\* The dialog is accepted after some of the fields have been changed.
Confirm(t) ==
  /\ Idle(t)
  /\ object[t] = "open" /\ ref[t] > 0
  /\ panel = Closed
  /\ \E e \in Edits :
       panel' = [at |-> "saving", thread |-> t, choice |-> Override(Shown(t), e), saved |-> FALSE]
  /\ last' = Nothing
  /\ UNCHANGED <<comVars, regVars, configVars, settings>>

\* saveConfiguration is the first of the two slots.
SaveConfiguration ==
  /\ panel.at = "saving"
  /\ environment.home
  /\ user_file' = Saved(panel.choice)
  /\ panel' = [panel EXCEPT !.at = "applying", !.saved = TRUE]
  /\ UNCHANGED <<comVars, regVars, registry, system_file, environment, settings, last>>

\* No home directory, or the file cannot be written.
SaveConfigurationFails ==
  /\ panel.at = "saving"
  /\ panel' = [panel EXCEPT !.at = "applying"]
  /\ UNCHANGED <<comVars, regVars, configVars, settings, last>>

Applied == Override(settings[panel.thread], panel.choice)

\* GuiApplyConfig: the settings of the driver, then the registry.
GuiApplyConfig ==
  /\ panel.at = "applying"
  /\ settings' = [settings EXCEPT ![panel.thread] = Applied]
  /\ registry' = Stored(Applied, Len(StoreOrder))
  /\ last' = [known |-> TRUE, settings |-> Applied, saved |-> panel.saved]
  /\ panel' = Closed
  /\ UNCHANGED <<comVars, regVars, user_file, system_file, environment>>

-----------------------------------------------------------------------------
(* The end of a process.                                                   *)

ProcessEnds ==
  /\ loaded' = FALSE
  /\ cf_ref' = 1
  /\ factory' = [t \in Threads |-> FALSE]
  /\ ref' = [t \in Threads |-> 0]
  /\ object' = [t \in Threads |-> "none"]
  /\ at' = [t \in Threads |-> "host"]
  /\ strays' = {}
  /\ settings' = [t \in Threads |-> NoSettings]
  /\ panel' = Closed
  /\ environment' \in Environments
  /\ UNCHANGED <<regVars, user_file, system_file>>

Exits ==
  /\ strays # {} \/ loaded
  /\ MayBeKilled \/ (\A t \in Threads : object[t] = "none" /\ ~factory[t])
  /\ ProcessEnds
  /\ UNCHANGED <<registry, last>>

\* Init meets a file with letters for a number.
InitAbortsProcess ==
  /\ InitAborts
  /\ \E t \in Threads : Idle(t) /\ object[t] = "created"
  /\ ProcessEnds
  /\ registry' = Completed
  /\ UNCHANGED last

\* Killed after k of the writes of store_config.
KilledStoring ==
  /\ MayBeKilled
  /\ panel.at = "applying"
  /\ ProcessEnds
  /\ \E k \in 1..(Len(StoreOrder) - 1) : registry' = Stored(Applied, k)
  /\ UNCHANGED last
-----------------------------------------------------------------------------
Host(t) == ComStep(t) \/ ObjectFreed(t) \/ InitDriver(t) \/ Confirm(t)

Next ==
  \/ RegisterAlone
  \/ \E t \in Threads : Host(t)
  \/ Unloaded
  \/ SaveConfiguration \/ SaveConfigurationFails \/ GuiApplyConfig
  \/ Exits \/ InitAbortsProcess \/ KilledStoring

Spec == Init /\ [][Next]_vars

-----------------------------------------------------------------------------
Opens(t) == object[t] = "created" /\ object'[t] = "open"
NoOverrides == DOMAIN environment.PWASIO = {} /\ DOMAIN environment.PIPEWIREASIO = {}

(* What was confirmed in the panel is what the next Init finds, in whatever *)
(* process: all of it if the user's file was written and is one that loads, *)
(* and what the registry holds of it if no file loads.  A process that was  *)
(* killed in between, or a variable of the environment, leaves it open, and *)
(* so does a system file that loads where the user's does not.              *)
ConfirmedIsRead ==
  [][\A t \in Threads : Opens(t) /\ last.known /\ NoOverrides =>
       /\ last.saved /\ environment.home /\ Loads(user_file)
            => settings'[t] = last.settings
       /\ ~Loads(user_file) /\ ~Loads(system_file)
            => \A n \in RegistryNames : settings'[t][n] = WithUsableSize(last.settings)[n]]_vars
=============================================================================
