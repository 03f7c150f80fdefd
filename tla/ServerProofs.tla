---------------------------- MODULE ServerProofs ----------------------------
(***************************************************************************)
(* Three things that hold of the installed driver however often it is      *)
(* registered, loaded, used, killed and set up: the one count that COM     *)
(* looks at before it unloads the module is exact although every call      *)
(* changes it in a step of its own, so that nobody who holds something of  *)
(* the module loses it; a registration that reports success is one; and    *)
(* the settings that were confirmed last are those that the next process   *)
(* reads.                                                                  *)
(***************************************************************************)
EXTENDS Server, FiniteSetTheorems, TLAPS

Factories == {t \in Threads : factory[t]}
CountedThreads == {t \in Threads : Counted(t)}

\* A thread that creates an object still holds the factory, which counts for it
\* until the object is counted itself.
CallInv ==
  \A t \in Threads :
    /\ at[t] = "creating" => object[t] = "created" /\ factory[t]
    /\ at[t] \in {"releasing", "freeing"} => object[t] = "open"

ComInv == ComTypeOK /\ CallInv /\ CountIsExact /\ HeldIsLoaded

-----------------------------------------------------------------------------
(* Counting.                                                               *)

LEMMA SetsAreFinite == IsFiniteSet(Factories) /\ IsFiniteSet(CountedThreads)
BY ComAssumption, FS_Subset DEF Factories, CountedThreads

\* One more.
LEMMA OneMore ==
  ASSUME NEW S, IsFiniteSet(S), NEW T, NEW t, t \notin S, T = S \cup {t}
  PROVE  IsFiniteSet(T) /\ Cardinality(T) = Cardinality(S) + 1 /\ Cardinality(S) \in Nat
BY FS_AddElement, FS_CardinalityType

\* One less.
LEMMA OneLess ==
  ASSUME NEW S, IsFiniteSet(S), NEW T, NEW t \in S, T = S \ {t}
  PROVE  IsFiniteSet(T) /\ Cardinality(T) = Cardinality(S) - 1 /\ Cardinality(S) \in Nat
BY FS_RemoveElement, FS_CardinalityType

\* CountIsExact in the words of this module.
LEMMA CountLemma ==
  CountIsExact <=> cf_ref = 1 + Cardinality(Factories) + Cardinality(CountedThreads)
BY DEF CountIsExact, Factories, CountedThreads

LEMMA SizesAreNumbers ==
  Cardinality(Factories) \in Nat /\ Cardinality(CountedThreads) \in Nat
BY SetsAreFinite, FS_CardinalityType

-----------------------------------------------------------------------------
(* The calls of one host thread.                                           *)

LEMMA GetClassObjectStep ==
  ASSUME ComInv, NEW t \in Threads, DllGetClassObject(t)
  PROVE  ComInv'
<1>1. Factories' = Factories \cup {t} /\ t \notin Factories /\ CountedThreads' = CountedThreads
  BY DEF ComInv, ComTypeOK, DllGetClassObject, Factories, CountedThreads, Counted
<1>2. Cardinality(Factories') = Cardinality(Factories) + 1
  BY <1>1, SetsAreFinite, OneMore
<1>3. CountIsExact'
  BY <1>1, <1>2, SizesAreNumbers DEF ComInv, CountIsExact, DllGetClassObject, Factories, CountedThreads
<1>4. ComTypeOK' /\ CallInv' /\ HeldIsLoaded'
  BY DEF ComInv, ComTypeOK, CallInv, HeldIsLoaded, DllGetClassObject, Idle
<1> QED BY <1>3, <1>4 DEF ComInv

LEMMA FactoryReleaseStep ==
  ASSUME ComInv, NEW t \in Threads, CF_Release(t)
  PROVE  ComInv'
<1>1. Factories' = Factories \ {t} /\ t \in Factories /\ CountedThreads' = CountedThreads
  BY DEF ComInv, ComTypeOK, CF_Release, Factories, CountedThreads, Counted
<1>2. Cardinality(Factories') = Cardinality(Factories) - 1
  BY <1>1, SetsAreFinite, OneLess
<1>3. CountIsExact'
  BY <1>1, <1>2, SizesAreNumbers DEF ComInv, CountIsExact, CF_Release, Factories, CountedThreads
<1>4. ComTypeOK' /\ CallInv' /\ HeldIsLoaded'
  BY DEF ComInv, ComTypeOK, CallInv, HeldIsLoaded, CF_Release, Idle
<1> QED BY <1>3, <1>4 DEF ComInv

\* The steps that count an object, or stop counting it.
LEMMA CreateCountsStep ==
  ASSUME ComInv, NEW t \in Threads, CreateCounts(t)
  PROVE  ComInv'
<1>1. CountedThreads' = CountedThreads \cup {t} /\ t \notin CountedThreads /\ Factories' = Factories
  BY DEF ComInv, ComTypeOK, CallInv, CreateCounts, Goes, Factories, CountedThreads, Counted
<1>2. Cardinality(CountedThreads') = Cardinality(CountedThreads) + 1
  BY <1>1, SetsAreFinite, OneMore
<1>3. CountIsExact'
  BY <1>1, <1>2, SizesAreNumbers DEF ComInv, CountIsExact, CreateCounts, Factories, CountedThreads
<1>4. ComTypeOK' /\ CallInv' /\ HeldIsLoaded'
  BY DEF ComInv, ComTypeOK, CallInv, HeldIsLoaded, CreateCounts, Goes
<1> QED BY <1>3, <1>4 DEF ComInv

LEMMA ReleaseFactoryStep ==
  ASSUME ComInv, NEW t \in Threads, ReleaseFactory(t)
  PROVE  ComInv'
<1>1. CountedThreads' = CountedThreads \ {t} /\ t \in CountedThreads /\ Factories' = Factories
  BY DEF ComInv, ComTypeOK, CallInv, ReleaseFactory, Goes, Factories, CountedThreads, Counted
<1>2. Cardinality(CountedThreads') = Cardinality(CountedThreads) - 1
  BY <1>1, SetsAreFinite, OneLess
<1>3. CountIsExact'
  BY <1>1, <1>2, SizesAreNumbers DEF ComInv, CountIsExact, ReleaseFactory, Factories, CountedThreads
<1>4. ComTypeOK' /\ CallInv' /\ HeldIsLoaded'
  BY DEF ComInv, ComTypeOK, CallInv, HeldIsLoaded, ReleaseFactory, Goes
<1> QED BY <1>3, <1>4 DEF ComInv

\* All others leave the count and what it counts alone.
LEMMA UncountedStep ==
  ASSUME ComInv, NEW t \in Threads,
         \/ CreateInstance(t) \/ AddRef(t) \/ InitObject(t) \/ Release(t) \/ ReleaseFrees(t)
  PROVE  ComInv'
<1>1. CountedThreads' = CountedThreads /\ Factories' = Factories /\ cf_ref' = cf_ref
  BY DEF ComInv, ComTypeOK, CallInv, CreateInstance, AddRef, InitObject, Release, ReleaseFrees,
         Idle, Goes, Factories, CountedThreads, Counted
<1>2. CountIsExact'
  BY <1>1 DEF ComInv, CountIsExact, Factories, CountedThreads
<1>3. ComTypeOK'
  BY ComAssumption DEF ComInv, ComTypeOK, CreateInstance, AddRef, InitObject, Release, ReleaseFrees, Goes
<1>4. CallInv' /\ HeldIsLoaded'
  BY DEF ComInv, ComTypeOK, CallInv, HeldIsLoaded, CreateInstance, AddRef, InitObject, Release,
         ReleaseFrees, Idle, Goes
<1> QED BY <1>2, <1>3, <1>4 DEF ComInv

\* A count of 1 leaves nobody who holds anything.
LEMMA UnloadStep ==
  ASSUME ComInv, Unload
  PROVE  ComInv'
<1>1. Cardinality(Factories) = 0 /\ Cardinality(CountedThreads) = 0
  BY CountLemma, SizesAreNumbers DEF ComInv, Unload, CanUnloadNow
<1>2. Factories = {} /\ CountedThreads = {}
  BY <1>1, SetsAreFinite, FS_EmptySet
<1>3. \A t \in Threads : ~factory[t] /\ (object[t] # "none" => at[t] = "freeing")
  BY <1>2 DEF ComInv, CallInv, Factories, CountedThreads, Counted
<1>4. UNCHANGED <<cf_ref, factory, ref, object, at, strays>> /\ loaded' = FALSE
  BY DEF Unload
<1>5. ComTypeOK' /\ CallInv' /\ CountIsExact'
  BY <1>4 DEF ComInv, ComTypeOK, CallInv, CountIsExact, Counted
<1>6. HeldIsLoaded'
  BY <1>3, <1>4 DEF HeldIsLoaded
<1> QED BY <1>5, <1>6 DEF ComInv

\* A process without the module.
LEMMA FirstProcess == ASSUME ComInit PROVE ComInv
<1>1. Factories = {} /\ CountedThreads = {}
  BY DEF ComInit, Factories, CountedThreads, Counted
<1>2. CountIsExact
  BY <1>1, FS_EmptySet, CountLemma DEF ComInit
<1>3. 0 \in 0..MaxRefs
  BY ComAssumption
<1>4. ComTypeOK
  <2>1. ref \in [Threads -> 0..MaxRefs]
    BY <1>3 DEF ComInit
  <2>2. factory \in [Threads -> BOOLEAN]
    BY Zenon DEF ComInit
  <2>3. /\ object \in [Threads -> {"none", "created", "open"}]
        /\ at \in [Threads -> {"host", "creating", "releasing", "freeing"}]
    BY DEF ComInit
  <2>4. loaded \in BOOLEAN /\ strays \subseteq Threads
    BY Zenon DEF ComInit
  <2>5. cf_ref \in Int
    BY DEF ComInit
  <2> QED BY <2>1, <2>2, <2>3, <2>4, <2>5 DEF ComTypeOK
<1>5. CallInv /\ HeldIsLoaded
  BY DEF ComInit, CallInv, HeldIsLoaded
<1> QED BY <1>2, <1>4, <1>5 DEF ComInv

LEMMA ProcessEndsStep == ASSUME ProcessEnds PROVE ComInv'
<1>1. Factories' = {} /\ CountedThreads' = {}
  BY DEF ProcessEnds, Factories, CountedThreads, Counted
<1>2. CountIsExact'
  BY <1>1, FS_EmptySet DEF ProcessEnds, CountIsExact, Factories, CountedThreads
<1>3. 0 \in 0..MaxRefs
  BY ComAssumption
<1>4. ComTypeOK'
  <2>1. (ref \in [Threads -> 0..MaxRefs])'
    BY <1>3 DEF ProcessEnds
  <2>2. (factory \in [Threads -> BOOLEAN])'
    BY Zenon DEF ProcessEnds
  <2>3. /\ (object \in [Threads -> {"none", "created", "open"}])'
        /\ (at \in [Threads -> {"host", "creating", "releasing", "freeing"}])'
    BY DEF ProcessEnds
  <2>4. (loaded \in BOOLEAN /\ strays \subseteq Threads)'
    BY Zenon DEF ProcessEnds
  <2>5. (cf_ref \in Int)'
    BY DEF ProcessEnds
  <2> QED BY <2>1, <2>2, <2>3, <2>4, <2>5 DEF ComTypeOK
<1>5. CallInv' /\ HeldIsLoaded'
  BY DEF ProcessEnds, CallInv, HeldIsLoaded
<1> QED BY <1>2, <1>4, <1>5 DEF ComInv

LEMMA ComUnchanged == ASSUME ComInv, UNCHANGED comVars PROVE ComInv'
BY DEF ComInv, comVars, ComTypeOK, CallInv, CountIsExact, Counted, HeldIsLoaded

-----------------------------------------------------------------------------
(* The registration.                                                       *)

\* What a registrar has written, or deleted, so far.
Written == {RegisterSteps[i] : i \in 1..(step - 1)}

RegInv ==
  /\ keys \subseteq Keys
  /\ registrar \in {"idle", "registering", "unregistering"}
  /\ step \in Nat \ {0}
  /\ registrar # "idle" => reported = "none"
  /\ registrar = "idle" => step = 1
  /\ registrar = "registering" => step <= 11 /\ Written \subseteq keys
  /\ registrar = "unregistering" =>
       step <= 4 /\ \A i \in 1..(step - 1) : keys \cap Deletions[i] = {}
  /\ ReportIsTrue

LEMMA RegisterStepsLemma ==
  /\ RegisterStepsCount = 10
  /\ \A i \in 1..10 : RegisterSteps[i] \in Keys
<1>1. RegisterStepsCount = 10
  BY DEF RegisterStepsCount, RegisterSteps
<1> QED BY <1>1 DEF Keys

LEMMA KeysLemma ==
  /\ {"class", "InProcServer32", "server path", "ASIO", "ASIO class"} \subseteq Keys
  /\ Keys \subseteq {"CLSID", "class", "class name", "InProcServer32", "server path", "ThreadingModel",
                     "Interface", "ASIO", "ASIO class", "ASIO description"}
<1>1. Keys = {RegisterSteps[i] : i \in 1..10}
  BY RegisterStepsLemma DEF Keys
<1>2. /\ RegisterSteps[1] = "CLSID" /\ RegisterSteps[2] = "class" /\ RegisterSteps[3] = "class name"
      /\ RegisterSteps[4] = "InProcServer32" /\ RegisterSteps[5] = "server path"
      /\ RegisterSteps[6] = "ThreadingModel" /\ RegisterSteps[7] = "Interface"
      /\ RegisterSteps[8] = "ASIO" /\ RegisterSteps[9] = "ASIO class"
      /\ RegisterSteps[10] = "ASIO description"
  BY DEF RegisterSteps
<1>3. {"class", "InProcServer32", "server path", "ASIO", "ASIO class"} \subseteq Keys
  <2>1. /\ RegisterSteps[2] \in Keys /\ RegisterSteps[4] \in Keys /\ RegisterSteps[5] \in Keys
        /\ RegisterSteps[8] \in Keys /\ RegisterSteps[9] \in Keys
    BY RegisterStepsLemma
  <2> QED BY <1>2, <2>1
<1>4. ASSUME NEW k \in Keys
      PROVE  k \in {"CLSID", "class", "class name", "InProcServer32", "server path", "ThreadingModel",
                   "Interface", "ASIO", "ASIO class", "ASIO description"}
  <2>1. PICK i \in 1..10 : k = RegisterSteps[i]
    BY <1>1
  <2>2. \/ i = 1 \/ i = 2 \/ i = 3 \/ i = 4 \/ i = 5 \/ i = 6 \/ i = 7 \/ i = 8 \/ i = 9 \/ i = 10
    OBVIOUS
  <2> QED BY <1>2, <2>1, <2>2
<1> QED BY <1>3, <1>4

\* All steps of a registration are made.
LEMMA RegisteredLemma ==
  ASSUME RegInv, registrar = "registering", step > RegisterStepsCount
  PROVE  Loadable /\ Listed
<1>1. step = 11 /\ Written \subseteq keys
  BY RegisterStepsLemma DEF RegInv
<1>2. Written = Keys
  BY <1>1, RegisterStepsLemma DEF Written, Keys
<1> QED BY <1>1, <1>2, KeysLemma DEF Loadable, Listed

\* All steps of an unregistration are made.
LEMMA UnregisteredLemma ==
  ASSUME RegInv, registrar = "unregistering", step > Len(Deletions)
  PROVE  ~Loadable /\ keys \subseteq {"CLSID", "Interface"}
<1>1. Len(Deletions) = 3
  BY DEF Deletions
<1>2. \A i \in 1..3 : keys \cap Deletions[i] = {}
  BY <1>1 DEF RegInv
<1>3. keys \cap Deletions[1] = {} /\ keys \cap Deletions[2] = {} /\ keys \cap Deletions[3] = {}
  BY <1>2
<1>4. keys \subseteq Keys
  BY DEF RegInv
<1>5. /\ Deletions[1] = {"InProcServer32", "server path", "ThreadingModel"}
      /\ Deletions[2] = {"class", "class name"}
      /\ Deletions[3] = {"ASIO", "ASIO class", "ASIO description"}
  BY DEF Deletions
<1> QED BY <1>3, <1>4, <1>5, KeysLemma DEF Loadable

LEMMA RegisterStepLemma ==
  ASSUME RegInv, Register
  PROVE  RegInv'
<1>1. CASE DllRegisterServer \/ DllUnregisterServer
  BY <1>1 DEF DllRegisterServer, DllUnregisterServer, Starts, RegInv, ReportIsTrue, Written
<1>2. CASE RegisterStep
  <2>1. step \in 1..10 /\ RegisterSteps[step] \in Keys
    BY <1>2, RegisterStepsLemma DEF RegisterStep, RegInv
  <2>2. Written' \subseteq keys'
    BY <1>2 DEF RegisterStep, RegInv, Written
  <2> QED BY <1>2, <2>1, <2>2 DEF RegisterStep, RegInv, ReportIsTrue
<1>3. CASE RegisterEnds
  <2>1. Loadable /\ Listed /\ UNCHANGED keys
    BY <1>3, RegisteredLemma DEF RegisterEnds
  <2>2. Loadable' /\ Listed'
    BY <2>1 DEF Loadable, Listed
  <2> QED BY <1>3, <2>2 DEF RegisterEnds, Ends, RegInv, ReportIsTrue
<1>4. CASE UnregisterStep
  <2>1. Len(Deletions) = 3
    BY DEF Deletions
  <2>2. \A i \in 1..(step' - 1) : keys' \cap Deletions[i] = {}
    BY <1>4 DEF UnregisterStep, RegInv
  <2> QED BY <1>4, <2>1, <2>2 DEF UnregisterStep, RegInv, ReportIsTrue
<1>5. CASE UnregisterEnds
  <2>1. ~Loadable /\ keys \subseteq {"CLSID", "Interface"} /\ UNCHANGED keys
    BY <1>5, UnregisteredLemma DEF UnregisterEnds
  <2>2. ~Loadable' /\ keys' \subseteq {"CLSID", "Interface"}
    BY <2>1 DEF Loadable
  <2> QED BY <1>5, <2>2 DEF UnregisterEnds, Ends, RegInv, ReportIsTrue
<1>6. CASE StepFails \/ Killed
  BY <1>6 DEF StepFails, Killed, Ends, RegInv, ReportIsTrue
<1> QED BY <1>1, <1>2, <1>3, <1>4, <1>5, <1>6 DEF Register

LEMMA RegUnchanged == ASSUME RegInv, UNCHANGED regVars PROVE RegInv'
BY DEF RegInv, regVars, Written, ReportIsTrue, Loadable, Listed

-----------------------------------------------------------------------------
(* The specification.                                                      *)

\* The inductive invariant: the counts of the module and the keys.
ServerInv == ComInv /\ RegInv

LEMMA ServerInit == Init => ServerInv
<1>1. RegInit => RegInv
  BY DEF RegInit, RegInv, ReportIsTrue, Keys
<1> QED BY <1>1, FirstProcess DEF Init, ServerInv

LEMMA ServerStep == ASSUME ServerInv, [Next]_vars PROVE ServerInv'
<1> USE DEF ServerInv
<1>1. CASE RegisterAlone
  BY <1>1, RegisterStepLemma, ComUnchanged DEF RegisterAlone
<1>2. ASSUME NEW t \in Threads, Host(t) PROVE ServerInv'
  <2>1. CASE ComStep(t)
    BY <2>1, RegUnchanged, GetClassObjectStep, FactoryReleaseStep, CreateCountsStep, ReleaseFactoryStep,
       UncountedStep DEF ComStep
  <2>2. CASE ObjectFreed(t)
    BY <2>2, RegUnchanged, UncountedStep DEF ObjectFreed
  <2>3. CASE InitDriver(t)
    BY <2>3, RegUnchanged, UncountedStep DEF InitDriver
  <2>4. CASE Confirm(t)
    BY <2>4, RegUnchanged, ComUnchanged DEF Confirm
  <2> QED BY <1>2, <2>1, <2>2, <2>3, <2>4 DEF Host
<1>3. CASE Unloaded
  BY <1>3, UnloadStep, RegUnchanged DEF Unloaded
<1>4. CASE SaveConfiguration \/ SaveConfigurationFails \/ GuiApplyConfig
  BY <1>4, ComUnchanged, RegUnchanged DEF SaveConfiguration, SaveConfigurationFails, GuiApplyConfig
<1>5. CASE Exits \/ InitAbortsProcess \/ KilledStoring
  <2>1. ProcessEnds
    BY <1>5 DEF Exits, InitAbortsProcess, KilledStoring
  <2> QED BY <2>1, ProcessEndsStep, RegUnchanged DEF ProcessEnds
<1>6. CASE UNCHANGED vars
  BY <1>6, ComUnchanged, RegUnchanged DEF vars
<1> QED BY <1>1, <1>2, <1>3, <1>4, <1>5, <1>6 DEF Next

(* The invariant of the installed driver: the types of the counts, the      *)
(* exact count of WINEASIO_CF, what is held, and the keys that a call under *)
(* way has written or deleted.                                              *)
THEOREM ServerInvariant == Spec => []ServerInv
BY ServerInit, ServerStep, PTL DEF Spec

(* DllCanUnloadNow is never S_OK while a host thread has a pointer to the   *)
(* factory or to an object or creates one, for any number of threads and    *)
(* references, with processes that are killed at any point.                 *)
THEOREM NobodyIsUnloaded == Spec => []HeldIsLoaded
<1>1. ServerInv => HeldIsLoaded
  BY DEF ServerInv, ComInv
<1> QED BY <1>1, ServerInvariant, PTL

(* A registration that returns S_OK has left a driver that can be listed    *)
(* and loaded, an unregistration one that cannot, whatever earlier calls    *)
(* that failed or were killed have left behind.                             *)
THEOREM ReportsAreTrue == Spec => []ReportIsTrue
<1>1. ServerInv => ReportIsTrue
  BY DEF ServerInv, RegInv
<1> QED BY <1>1, ServerInvariant, PTL

-----------------------------------------------------------------------------
(* The settings that outlive a process.                                    *)

\* Settings of a driver: a value for every name.
Settled(s) == s = [n \in Names |-> s[n]] /\ GivesValues(s)

FileOK(file) == file \in {Missing, Malformed} \/ GivesValues(file)

\* What configure_driver reads.
ConfigInv == FileOK(user_file) /\ FileOK(system_file) /\ environment \in Environments

\* Every driver that is open has settings, and a panel that is not closed
\* belongs to such a driver and has a value for every field.
PanelInv ==
  /\ DOMAIN settings = Threads
  /\ \A t \in Threads : object[t] = "open" => Settled(settings[t])
  /\ panel # Closed =>
       /\ panel.at # "closed"
       /\ panel.thread \in Threads /\ object[panel.thread] = "open" /\ at[panel.thread] = "host"
       /\ DOMAIN panel.choice = FileNames /\ GivesValues(panel.choice)

\* A confirmation leaves the registry with all of the driver's settings and, if
\* the dialog could write it, the user's file with those that it shows; until
\* the next confirmation begins.
ReadInv ==
  /\ panel # Closed /\ panel.saved => user_file = Saved(panel.choice)
  /\ last.known =>
       /\ panel = Closed
       /\ Settled(last.settings)
       /\ \A n \in RegistryNames : registry[n] = last.settings[n]
       /\ last.saved => user_file = Saved(last.settings)

SettingsInv == ConfigInv /\ PanelInv /\ ReadInv

\* The names that one settings function has and the other gives.
LEMMA OverrideGives ==
  ASSUME NEW f, NEW g, GivesValues(f), GivesValues(g)
  PROVE  DOMAIN Override(f, g) = DOMAIN f /\ GivesValues(Override(f, g))
BY DEF Override, GivesValues

\* What gives nothing overrides nothing.
LEMMA OverrideNothing ==
  ASSUME NEW f, f = [n \in DOMAIN f |-> f[n]], NEW g, DOMAIN g = {}
  PROVE  Override(f, g) = f
BY DEF Override

\* The names that the defaults have.
LEMMA DefaultNames ==
  /\ DOMAIN Defaults = Names /\ DOMAIN FileDefaults = FileNames
  /\ FileNames \subseteq Names /\ RegistryNames \subseteq Names
  /\ Names \ FileNames \subseteq RegistryNames
<1>1. DOMAIN Defaults = Names
  BY DEF Defaults, Names
<1>2. DOMAIN FileDefaults = FileNames
  BY DEF FileDefaults, FileNames, Names
<1> QED BY <1>1, <1>2 DEF Names, FileNames, RegistryNames

\* A file completed with the defaults and the environment.
LEMMA FileSettingsGive ==
  ASSUME environment \in Environments, NEW file, GivesValues(file)
  PROVE  DOMAIN FileSettings(file) = FileNames /\ GivesValues(FileSettings(file))
<1>1. GivesValues(FileDefaults) /\ GivesValues(environment.PIPEWIREASIO)
  BY ConfigAssumption
<1>2. /\ DOMAIN Override(FileDefaults, file) = FileNames
      /\ GivesValues(Override(FileDefaults, file))
  BY <1>1, OverrideGives, DefaultNames
<1> QED BY <1>1, <1>2, OverrideGives DEF FileSettings

\* The registry completed with the defaults.
LEMMA FromRegistrySettled == Settled(FromRegistry)
BY ConfigAssumption, DefaultNames DEF Settled, FromRegistry, GivesValues

\* Settings under a file.
LEMMA FromFileSettled ==
  ASSUME environment \in Environments, NEW s, Settled(s), NEW file, GivesValues(file)
  PROVE  Settled(FromFile(s, file))
<1>1. DOMAIN FileSettings(file) = FileNames /\ GivesValues(FileSettings(file))
  BY FileSettingsGive
<1>2. DOMAIN s = Names /\ GivesValues(s)
  BY DEF Settled
<1> QED BY <1>1, <1>2 DEF Settled, FromFile, GivesValues

\* The files, with and without a home directory.
LEMMA FilesLemma ==
  /\ environment.home => DOMAIN Files = 1..2 /\ Files[1] = user_file /\ Files[2] = system_file
  /\ ~environment.home => DOMAIN Files = 1..1 /\ Files[1] = system_file
BY DEF Files

\* The first file that loads is the user's if that one does.
LEMMA UserFileIsFirst ==
  ASSUME environment.home, Loads(user_file), NEW s
  PROVE  FromFiles(s) = FromFile(s, user_file)
<1> DEFINE First(i) == Loads(Files[i]) /\ \A j \in 1..(i - 1) : ~Loads(Files[j])
<1>1. 1 \in DOMAIN Files /\ Loads(Files[1]) /\ DOMAIN Files = 1..2 /\ Files[1] = user_file
  BY FilesLemma
<1>2. First(1)
  BY <1>1
<1>3. \A i \in DOMAIN Files : First(i) => i = 1
  BY <1>1
<1>4. (CHOOSE i \in DOMAIN Files : First(i)) = 1
  BY <1>1, <1>2, <1>3
<1> QED BY <1>1, <1>4 DEF FromFiles

\* Settings under the files.
LEMMA FromFilesSettled ==
  ASSUME ConfigInv, NEW s, Settled(s)
  PROVE  Settled(FromFiles(s))
<1> DEFINE First(i) == Loads(Files[i]) /\ \A j \in 1..(i - 1) : ~Loads(Files[j])
<1>1. CASE \E i \in DOMAIN Files : Loads(Files[i])
  <2>1. \E i \in DOMAIN Files : First(i)
    <3>1. CASE environment.home
      BY <1>1, <3>1, FilesLemma
    <3>2. CASE ~environment.home
      BY <1>1, <3>2, FilesLemma
    <3> QED BY <3>1, <3>2
  <2>2. PICK i \in DOMAIN Files : Loads(Files[i]) /\ FromFiles(s) = FromFile(s, Files[i])
    BY <1>1, <2>1 DEF FromFiles
  <2>3. Files[i] \in {user_file, system_file}
    BY FilesLemma
  <2>4. GivesValues(Files[i])
    BY <2>2, <2>3 DEF ConfigInv, FileOK, Loads
  <2> QED BY <2>2, <2>4, FromFileSettled DEF ConfigInv
<1>2. CASE ~\E i \in DOMAIN Files : Loads(Files[i])
  BY <1>2 DEF FromFiles
<1> QED BY <1>1, <1>2

\* A size that the driver takes.
LEMMA WithUsableSizeSettled ==
  ASSUME NEW s, Settled(s)
  PROVE  Settled(WithUsableSize(s))
<1>1. Defaults.buffer = Defaults["buffer"] /\ Defaults["buffer"] \notin {Missing, Malformed}
  BY ConfigAssumption, DefaultNames DEF GivesValues, Names
<1> QED BY <1>1 DEF Settled, WithUsableSize, GivesValues

\* Init leaves the driver with a value for every name.
LEMMA ConfiguredSettled ==
  ASSUME ConfigInv
  PROVE  Settled(Configured)
<1>1. Settled(FromFiles(FromRegistry))
  BY FromRegistrySettled, FromFilesSettled
<1>2. GivesValues(environment.PWASIO)
  BY ConfigAssumption DEF ConfigInv
<1>3. Settled(Override(FromFiles(FromRegistry), environment.PWASIO))
  BY <1>1, <1>2 DEF Settled, Override, GivesValues
<1> QED BY <1>3, WithUsableSizeSettled DEF Configured

\* The sizes that a file may give are sizes that the driver takes.
LEMMA PowersInRange == \A size \in PowersOfTwo : InRange(size)
BY DEF PowersOfTwo, InRange

\* A size in range is left alone.
LEMMA UsableSizeKept ==
  ASSUME NEW s, InRange(s.buffer)
  PROVE  WithUsableSize(s) = s
BY DEF WithUsableSize

\* The user's file has the fields that were confirmed and the registry all of
\* the settings: together they give back what was confirmed.
LEMMA SavedIsRead ==
  ASSUME ReadInv, last.known, last.saved, NoOverrides, environment.home, Loads(user_file)
  PROVE  Configured = last.settings
<1> DEFINE s == last.settings
<1>1. /\ s = [n \in Names |-> s[n]] /\ GivesValues(s) /\ user_file = Saved(s)
      /\ \A n \in RegistryNames : registry[n] = s[n]
  BY DEF ReadInv, Settled
<1>2. DOMAIN s = Names
  BY <1>1
<1>3. user_file = [n \in FileNames |-> s[n]]
  BY <1>1 DEF Saved
<1>4. Override(FileDefaults, user_file) = user_file
  BY <1>3, DefaultNames DEF Override
<1>5. FileSettings(user_file) = user_file
  BY <1>3, <1>4, OverrideNothing DEF FileSettings, NoOverrides
<1>6. \A n \in RegistryNames : FromRegistry[n] = s[n]
  BY <1>1, <1>2, DefaultNames DEF FromRegistry, GivesValues
<1>7. FromFile(FromRegistry, user_file) = s
  <2>1. \A n \in FileNames : ~Usable(n, s[n]) => n \in RegistryNames
    BY DEF Usable, RegistryNames, Names
  <2>2. ASSUME NEW n \in Names
        PROVE  FromFile(FromRegistry, user_file)[n] = s[n]
    BY <1>3, <1>5, <1>6, <2>1, DefaultNames DEF FromFile
  <2>3. FromFile(FromRegistry, user_file) = [n \in Names |-> FromFile(FromRegistry, user_file)[n]]
    BY DEF FromFile
  <2> QED BY <1>1, <2>2, <2>3
<1>8. FromFiles(FromRegistry) = s
  BY <1>7, UserFileIsFirst
<1>9. Override(s, environment.PWASIO) = s
  BY <1>1, <1>2, OverrideNothing DEF NoOverrides
<1>10. InRange(s.buffer)
  <2>1. user_file.buffer \in PowersOfTwo
    BY <1>5 DEF Loads
  <2>2. user_file["buffer"] = s["buffer"]
    BY <1>3 DEF FileNames, Names
  <2> QED BY <2>1, <2>2, PowersInRange
<1> QED BY <1>8, <1>9, <1>10, UsableSizeKept DEF Configured

\* Without a file that loads, the registry gives what it has.
LEMMA StoredIsRead ==
  ASSUME ReadInv, last.known, NoOverrides, ~Loads(user_file), ~Loads(system_file)
  PROVE  \A n \in RegistryNames : Configured[n] = WithUsableSize(last.settings)[n]
<1> DEFINE s == last.settings
           r == FromRegistry
<1>1. /\ s = [n \in Names |-> s[n]] /\ GivesValues(s)
      /\ \A n \in RegistryNames : registry[n] = s[n]
  BY DEF ReadInv, Settled
<1>2. DOMAIN s = Names
  BY <1>1
<1>3. \A n \in RegistryNames : r[n] = s[n]
  BY <1>1, <1>2, DefaultNames DEF FromRegistry, GivesValues
<1>4. FromFiles(r) = r
  BY FilesLemma DEF FromFiles
<1>5. r = [n \in DOMAIN r |-> r[n]] /\ DOMAIN r = Names
  BY FromRegistrySettled DEF Settled
<1>6. Override(r, environment.PWASIO) = r
  BY <1>5, OverrideNothing DEF NoOverrides
<1>7. Configured = WithUsableSize(r)
  BY <1>4, <1>6 DEF Configured
<1>8. r["buffer"] = s["buffer"]
  BY <1>3 DEF RegistryNames, Names
<1> QED BY <1>1, <1>2, <1>3, <1>5, <1>7, <1>8, DefaultNames DEF WithUsableSize

LEMMA SettingsInit == Init => SettingsInv
<1> SUFFICES ASSUME Init PROVE SettingsInv
  OBVIOUS
<1>1. ConfigInv
  BY ConfigAssumption DEF Init, ConfigInit, ConfigInv, FileOK
<1>2. PanelInv
  BY DEF Init, ComInit, PanelInv
<1>3. ReadInv
  <2>1. ~last.known
    BY DEF Init, Nothing
  <2> QED BY <2>1 DEF Init, ReadInv
<1> QED BY <1>1, <1>2, <1>3 DEF SettingsInv

\* A step that leaves the settings and where they come from alone may close an
\* object, but not one whose panel is open.
LEMMA SettingsKept ==
  ASSUME SettingsInv, UNCHANGED <<configVars, serverVars>>,
         \A t \in Threads : object'[t] = "open" => object[t] = "open",
         panel # Closed => /\ object'[panel.thread] = object[panel.thread]
                           /\ at'[panel.thread] = at[panel.thread]
  PROVE  SettingsInv'
<1>1. UNCHANGED <<registry, user_file, system_file, environment, settings, panel, last>>
  BY DEF configVars, serverVars
<1>2. ConfigInv'
  BY <1>1 DEF SettingsInv, ConfigInv, FileOK, GivesValues
<1>3. PanelInv'
  BY <1>1 DEF SettingsInv, PanelInv, Settled, GivesValues, Closed
<1>4. ReadInv'
  BY <1>1 DEF SettingsInv, ReadInv, Settled, GivesValues, Closed, Saved
<1> QED BY <1>2, <1>3, <1>4 DEF SettingsInv

\* The calls of a host whose panel is closed.
LEMMA SettingsComStep ==
  ASSUME ComInv, SettingsInv, NEW t \in Threads, ComStep(t)
  PROVE  SettingsInv'
<1>1. panel # Closed => panel.thread # t /\ panel.thread \in Threads
  BY DEF ComStep, InPanel, SettingsInv, PanelInv
<1>2. \A u \in Threads : object'[u] = "open" => object[u] = "open"
  BY DEF ComStep, ComInv, ComTypeOK, DllGetClassObject, CF_Release, CreateInstance, CreateCounts,
         AddRef, Release, ReleaseFactory
<1>3. \A u \in Threads \ {t} : object'[u] = object[u] /\ at'[u] = at[u]
  BY DEF ComStep, ComInv, ComTypeOK, DllGetClassObject, CF_Release, CreateInstance, CreateCounts,
         AddRef, Release, ReleaseFactory, Goes
<1> QED BY <1>1, <1>2, <1>3, SettingsKept DEF ComStep

\* The object whose settings go is not one that is open.
LEMMA SettingsFreed ==
  ASSUME ComInv, SettingsInv, NEW t \in Threads, ObjectFreed(t)
  PROVE  SettingsInv'
<1>1. /\ object' = [object EXCEPT ![t] = "none"] /\ at' = [at EXCEPT ![t] = "host"]
      /\ settings' = [settings EXCEPT ![t] = NoSettings] /\ at[t] = "freeing"
      /\ UNCHANGED <<registry, user_file, system_file, environment, panel, last>>
  BY DEF ObjectFreed, ReleaseFrees, Goes, configVars
<1>2. DOMAIN object = Threads /\ DOMAIN at = Threads
  BY DEF ComInv, ComTypeOK
<1>3. ConfigInv'
  BY <1>1 DEF SettingsInv, ConfigInv, FileOK, GivesValues
<1>4. ReadInv'
  BY <1>1 DEF SettingsInv, ReadInv, Settled, GivesValues, Closed, Saved
<1>5. PanelInv'
  <2>1. ASSUME NEW u \in Threads, object'[u] = "open"
        PROVE  Settled(settings[u])' 
    <3>1. u # t /\ object[u] = "open"
      BY <1>1, <1>2, <2>1
    <3>2. settings'[u] = settings[u]
      BY <1>1, <3>1 DEF SettingsInv, PanelInv
    <3> QED BY <3>1, <3>2 DEF SettingsInv, PanelInv, Settled, GivesValues
  <2>2. DOMAIN settings' = Threads
    BY <1>1 DEF SettingsInv, PanelInv
  <2>3. panel # Closed => panel.thread # t
    BY <1>1 DEF SettingsInv, PanelInv
  <2> QED BY <1>1, <1>2, <2>1, <2>2, <2>3 DEF SettingsInv, PanelInv, GivesValues, Closed
<1> QED BY <1>3, <1>4, <1>5 DEF SettingsInv

\* Init completes a registry, but not one that a confirmation has written.
LEMMA CompletedKept ==
  ASSUME ReadInv, last.known
  PROVE  \A n \in RegistryNames : Completed[n] = last.settings[n]
<1>1. \A n \in RegistryNames : registry[n] = last.settings[n] /\ last.settings[n] # Missing
  BY DefaultNames DEF ReadInv, Settled, GivesValues
<1> QED BY <1>1 DEF Completed

LEMMA SettingsOfInit ==
  ASSUME ComInv, SettingsInv, NEW t \in Threads, InitDriver(t)
  PROVE  SettingsInv'
<1>1. /\ object' = [object EXCEPT ![t] = "open"] /\ at' = at /\ object[t] = "created"
      /\ settings' = [settings EXCEPT ![t] = Configured] /\ registry' = Completed
      /\ UNCHANGED <<user_file, system_file, environment, panel, last>>
  BY DEF InitDriver, InitObject
<1>2. DOMAIN object = Threads
  BY DEF ComInv, ComTypeOK
<1>3. ConfigInv'
  BY <1>1 DEF SettingsInv, ConfigInv, FileOK, GivesValues
<1>4. ReadInv'
  <2>1. last.known => \A n \in RegistryNames : registry'[n] = last.settings[n]
    BY <1>1, CompletedKept DEF SettingsInv
  <2> QED BY <1>1, <2>1 DEF SettingsInv, ReadInv, Settled, GivesValues, Closed, Saved
<1>5. PanelInv'
  <2>1. DOMAIN settings' = Threads /\ settings'[t] = Configured
    BY <1>1 DEF SettingsInv, PanelInv
  <2>2. ASSUME NEW u \in Threads, object'[u] = "open"
        PROVE  Settled(settings[u])'
    <3>1. CASE u = t
      BY <2>1, <3>1, ConfiguredSettled DEF SettingsInv, Settled, GivesValues
    <3>2. CASE u # t
      <4>1. object[u] = "open" /\ settings'[u] = settings[u]
        BY <1>1, <1>2, <2>2, <3>2 DEF SettingsInv, PanelInv
      <4> QED BY <4>1 DEF SettingsInv, PanelInv, Settled, GivesValues
    <3> QED BY <3>1, <3>2
  <2> QED BY <1>1, <1>2, <2>1, <2>2 DEF SettingsInv, PanelInv, GivesValues, Closed
<1> QED BY <1>3, <1>4, <1>5 DEF SettingsInv

\* The dialog opens with the settings of the driver, as it was changed.
LEMMA SettingsConfirmed ==
  ASSUME SettingsInv, NEW t \in Threads, Confirm(t)
  PROVE  SettingsInv'
<1>1. PICK e \in Edits :
        panel' = [at |-> "saving", thread |-> t, choice |-> Override(Shown(t), e), saved |-> FALSE]
  BY DEF Confirm
<1>2. /\ object[t] = "open" /\ at[t] = "host" /\ ~last'.known
      /\ UNCHANGED <<object, at, registry, user_file, system_file, environment, settings>>
  BY DEF Confirm, Idle, comVars, configVars, Nothing
<1>3. Settled(settings[t])
  BY <1>2 DEF SettingsInv, PanelInv
<1>4. DOMAIN Shown(t) = FileNames /\ GivesValues(Shown(t))
  BY <1>3, DefaultNames DEF Shown, Settled, GivesValues
<1>5. DOMAIN Override(Shown(t), e) = FileNames /\ GivesValues(Override(Shown(t), e))
  BY <1>4, ConfigAssumption, OverrideGives
<1>6. /\ panel'.at = "saving" /\ panel'.thread = t /\ ~panel'.saved
      /\ panel'.choice = Override(Shown(t), e)
  BY <1>1
<1>7. ConfigInv'
  BY <1>2 DEF SettingsInv, ConfigInv, FileOK, GivesValues
<1>8. PanelInv'
  BY <1>2, <1>5, <1>6 DEF SettingsInv, PanelInv, Settled, GivesValues
<1>9. ReadInv'
  BY <1>2, <1>6 DEF ReadInv
<1> QED BY <1>7, <1>8, <1>9 DEF SettingsInv

LEMMA SettingsSaved ==
  ASSUME SettingsInv, SaveConfiguration \/ SaveConfigurationFails
  PROVE  SettingsInv'
<1>1. /\ panel.at = "saving" /\ panel # Closed
      /\ UNCHANGED <<object, at, registry, system_file, environment, settings, last>>
  BY DEF SaveConfiguration, SaveConfigurationFails, comVars, configVars, Closed
<1>2. ~last.known
  BY <1>1 DEF SettingsInv, ReadInv
<1>3. DOMAIN panel.choice = FileNames /\ GivesValues(panel.choice)
  BY <1>1 DEF SettingsInv, PanelInv
<1>4. CASE SaveConfiguration
  <2>1. /\ panel' = [panel EXCEPT !.at = "applying", !.saved = TRUE]
        /\ user_file' = Saved(panel.choice)
    BY <1>4 DEF SaveConfiguration
  <2>2. panel'.thread = panel.thread /\ panel'.choice = panel.choice /\ panel'.at # "closed"
    BY <1>1, <2>1 DEF SettingsInv, PanelInv
  <2>3. GivesValues(user_file')
    BY <1>3, <2>1 DEF Saved, GivesValues
  <2>4. ConfigInv'
    BY <1>1, <2>3 DEF SettingsInv, ConfigInv, FileOK, GivesValues
  <2>5. PanelInv'
    BY <1>1, <2>2 DEF SettingsInv, PanelInv, Settled, GivesValues, Closed
  <2>6. ReadInv'
    BY <1>1, <1>2, <2>1, <2>2 DEF SettingsInv, ReadInv, Saved
  <2> QED BY <2>4, <2>5, <2>6 DEF SettingsInv
<1>5. CASE SaveConfigurationFails
  <2>1. panel' = [panel EXCEPT !.at = "applying"] /\ UNCHANGED user_file
    BY <1>5 DEF SaveConfigurationFails, configVars
  <2>2. /\ panel'.thread = panel.thread /\ panel'.choice = panel.choice /\ panel'.saved = panel.saved
        /\ panel'.at # "closed"
    BY <1>1, <2>1 DEF SettingsInv, PanelInv
  <2>3. ConfigInv'
    BY <1>1, <2>1 DEF SettingsInv, ConfigInv, FileOK, GivesValues
  <2>4. PanelInv'
    BY <1>1, <2>2 DEF SettingsInv, PanelInv, Settled, GivesValues, Closed
  <2>5. ReadInv'
    BY <1>1, <1>2, <2>1, <2>2 DEF SettingsInv, ReadInv, Saved
  <2> QED BY <2>3, <2>4, <2>5 DEF SettingsInv
<1> QED BY <1>4, <1>5

\* All that the panel says is in the driver's settings,
LEMMA AppliedLemma ==
  ASSUME SettingsInv, panel # Closed
  PROVE  Settled(Applied) /\ \A n \in FileNames : Applied[n] = panel.choice[n]
<1>1. /\ Settled(settings[panel.thread])
      /\ DOMAIN panel.choice = FileNames /\ GivesValues(panel.choice)
  BY DEF SettingsInv, PanelInv
<1>2. DOMAIN settings[panel.thread] = Names
  BY <1>1 DEF Settled
<1> QED BY <1>1, <1>2, DefaultNames DEF Applied, Override, Settled, GivesValues

\* and all of these in the registry once the last value is written.
LEMMA StoredLemma ==
  ASSUME NEW s
  PROVE  \A n \in RegistryNames : Stored(s, Len(StoreOrder))[n] = s[n]
<1>1. Len(StoreOrder) = 5
  BY DEF StoreOrder
<1>2. ASSUME NEW n \in RegistryNames
      PROVE  \E i \in 1..5 : StoreOrder[i] = n
  <2>1. n \in {"inputs", "outputs", "buffer", "connect", "fixed"}
    BY DEF RegistryNames, Names
  <2>2. /\ StoreOrder[1] = "inputs" /\ StoreOrder[2] = "outputs" /\ StoreOrder[3] = "buffer"
        /\ StoreOrder[4] = "fixed" /\ StoreOrder[5] = "connect"
    BY DEF StoreOrder
  <2>3. 1 \in 1..5 /\ 2 \in 1..5 /\ 3 \in 1..5 /\ 4 \in 1..5 /\ 5 \in 1..5
    OBVIOUS
  <2> QED BY <2>1, <2>2, <2>3
<1> QED BY <1>1, <1>2 DEF Stored

LEMMA SettingsApplied ==
  ASSUME SettingsInv, GuiApplyConfig
  PROVE  SettingsInv'
<1>1. /\ panel # Closed /\ panel' = Closed
      /\ settings' = [settings EXCEPT ![panel.thread] = Applied]
      /\ registry' = Stored(Applied, Len(StoreOrder))
      /\ last' = [known |-> TRUE, settings |-> Applied, saved |-> panel.saved]
      /\ UNCHANGED <<object, at, user_file, system_file, environment>>
  BY DEF GuiApplyConfig, comVars, Closed
<1>2. Settled(Applied) /\ \A n \in FileNames : Applied[n] = panel.choice[n]
  BY <1>1, AppliedLemma
<1>3. ConfigInv'
  BY <1>1 DEF SettingsInv, ConfigInv, FileOK, GivesValues
<1>4. PanelInv'
  <2>1. DOMAIN settings' = Threads
    BY <1>1 DEF SettingsInv, PanelInv
  <2>2. ASSUME NEW t \in Threads, object[t] = "open"
        PROVE  Settled(settings'[t])
    <3>1. CASE t = panel.thread
      BY <1>1, <1>2, <3>1 DEF SettingsInv, PanelInv
    <3>2. CASE t # panel.thread
      BY <1>1, <2>2, <3>2 DEF SettingsInv, PanelInv
    <3> QED BY <3>1, <3>2
  <2> QED BY <1>1, <2>1, <2>2 DEF PanelInv, Settled, GivesValues
<1>5. ReadInv'
  <2>1. Saved(panel.choice) = Saved(Applied)
    BY <1>2 DEF Saved
  <2>2. panel.saved => user_file' = Saved(Applied)
    BY <1>1, <2>1 DEF SettingsInv, ReadInv
  <2>3. last'.settings = Applied /\ last'.saved = panel.saved
    BY <1>1
  <2>4. \A n \in RegistryNames : registry'[n] = Applied[n]
    BY <1>1, StoredLemma
  <2> QED BY <1>1, <1>2, <2>2, <2>3, <2>4 DEF ReadInv, Settled, GivesValues, Saved
<1> QED BY <1>3, <1>4, <1>5 DEF SettingsInv

\* A process that ends takes its objects and its panel with it.  One that ends
\* while it writes the registry has not confirmed anything yet.
LEMMA SettingsEnd ==
  ASSUME SettingsInv, Exits \/ InitAbortsProcess \/ KilledStoring
  PROVE  SettingsInv'
<1>1. /\ ProcessEnds /\ UNCHANGED last
      /\ last.known => registry' = registry \/ registry' = Completed
  <2>1. CASE Exits
    BY <2>1 DEF Exits
  <2>2. CASE InitAbortsProcess
    BY <2>2 DEF InitAbortsProcess
  <2>3. CASE KilledStoring
    <3>1. panel # Closed
      BY <2>3 DEF KilledStoring, Closed
    <3> QED BY <2>3, <3>1 DEF KilledStoring, SettingsInv, ReadInv
  <2> QED BY <2>1, <2>2, <2>3
<1>2. /\ object' = [t \in Threads |-> "none"] /\ settings' = [t \in Threads |-> NoSettings]
      /\ panel' = Closed /\ environment' \in Environments /\ UNCHANGED <<user_file, system_file>>
  BY <1>1 DEF ProcessEnds
<1>3. ConfigInv'
  BY <1>2 DEF SettingsInv, ConfigInv, FileOK, GivesValues
<1>4. PanelInv'
  BY <1>2 DEF PanelInv
<1>5. ReadInv'
  <2>1. last.known => \A n \in RegistryNames : registry'[n] = last.settings[n]
    BY <1>1, CompletedKept DEF SettingsInv, ReadInv
  <2> QED BY <1>1, <1>2, <2>1 DEF SettingsInv, ReadInv, Settled, GivesValues, Saved
<1> QED BY <1>3, <1>4, <1>5 DEF SettingsInv

LEMMA SettingsStep ==
  ASSUME ComInv, SettingsInv, [Next]_vars
  PROVE  SettingsInv'
<1>1. CASE RegisterAlone
  BY <1>1, SettingsKept DEF RegisterAlone, comVars
<1>2. ASSUME NEW t \in Threads, Host(t) PROVE SettingsInv'
  BY <1>2, SettingsComStep, SettingsFreed, SettingsOfInit, SettingsConfirmed DEF Host
<1>3. CASE Unloaded
  BY <1>3, SettingsKept DEF Unloaded, Unload
<1>4. CASE SaveConfiguration \/ SaveConfigurationFails \/ GuiApplyConfig
  BY <1>4, SettingsSaved, SettingsApplied
<1>5. CASE Exits \/ InitAbortsProcess \/ KilledStoring
  BY <1>5, SettingsEnd
<1>6. CASE UNCHANGED vars
  BY <1>6, SettingsKept DEF vars, comVars
<1> QED BY <1>1, <1>2, <1>3, <1>4, <1>5, <1>6 DEF Next

\* Only Init opens an object.
LEMMA OpensLemma ==
  ASSUME ComInv, PanelInv, [Next]_vars, NEW t \in Threads, Opens(t)
  PROVE  settings'[t] = Configured
<1> USE DEF Opens
<1>1. CASE RegisterAlone \/ Unloaded \/ UNCHANGED vars
  BY <1>1 DEF RegisterAlone, Unloaded, Unload, vars, comVars
<1>2. ASSUME NEW u \in Threads, Host(u) PROVE settings'[t] = Configured
  <2>1. CASE ComStep(u)
    BY <2>1 DEF ComInv, ComTypeOK, ComStep, DllGetClassObject, CF_Release, CreateInstance,
                CreateCounts, AddRef, Release, ReleaseFactory
  <2>2. CASE ObjectFreed(u)
    BY <2>2 DEF ComInv, ComTypeOK, ObjectFreed, ReleaseFrees
  <2>3. CASE InitDriver(u)
    <3>1. t = u
      BY <2>3 DEF ComInv, ComTypeOK, InitDriver, InitObject
    <3> QED BY <2>3, <3>1 DEF InitDriver, PanelInv
  <2>4. CASE Confirm(u)
    BY <2>4 DEF Confirm, comVars
  <2> QED BY <1>2, <2>1, <2>2, <2>3, <2>4 DEF Host
<1>3. CASE SaveConfiguration \/ SaveConfigurationFails \/ GuiApplyConfig
  BY <1>3 DEF SaveConfiguration, SaveConfigurationFails, GuiApplyConfig, comVars
<1>4. CASE Exits \/ InitAbortsProcess \/ KilledStoring
  BY <1>4 DEF Exits, InitAbortsProcess, KilledStoring, ProcessEnds
<1> QED BY <1>1, <1>2, <1>3, <1>4 DEF Next

\* Every open driver has a full set of settings, a panel belongs to an open
\* driver, and what was confirmed last is in the registry and, if it could be
\* written, in the user's file: whatever the files, the registry and the
\* environments hold, and wherever processes are killed.
THEOREM SettingsInvariant == Spec => []SettingsInv
<1>1. ServerInv /\ SettingsInv /\ [Next]_vars => SettingsInv'
  BY SettingsStep DEF ServerInv
<1> QED BY <1>1, SettingsInit, ServerInvariant, PTL DEF Spec

\* What was confirmed in the panel is what the next Init reads, through
\* pw_config_load and configure_driver, unless an override comes between.
THEOREM ConfirmationsAreRead == Spec => ConfirmedIsRead
<1> DEFINE Read ==
      \A t \in Threads : Opens(t) /\ last.known /\ NoOverrides =>
        /\ last.saved /\ environment.home /\ Loads(user_file) => settings'[t] = last.settings
        /\ ~Loads(user_file) /\ ~Loads(system_file)
             => \A n \in RegistryNames : settings'[t][n] = WithUsableSize(last.settings)[n]
<1>1. ServerInv /\ SettingsInv /\ [Next]_vars => [Read]_vars
  <2> SUFFICES ASSUME ServerInv, SettingsInv, [Next]_vars PROVE Read
    OBVIOUS
  <2>1. ComInv /\ PanelInv /\ ReadInv
    BY DEF ServerInv, SettingsInv
  <2>2. ASSUME NEW t \in Threads, Opens(t), last.known, NoOverrides
        PROVE  /\ last.saved /\ environment.home /\ Loads(user_file) => settings'[t] = last.settings
               /\ ~Loads(user_file) /\ ~Loads(system_file)
                    => \A n \in RegistryNames : settings'[t][n] = WithUsableSize(last.settings)[n]
    <3>1. settings'[t] = Configured
      BY <2>1, <2>2, OpensLemma
    <3>2. last.saved /\ environment.home /\ Loads(user_file) => Configured = last.settings
      BY <2>1, <2>2, SavedIsRead
    <3>3. ~Loads(user_file) /\ ~Loads(system_file)
            => \A n \in RegistryNames : Configured[n] = WithUsableSize(last.settings)[n]
      BY <2>1, <2>2, StoredIsRead
    <3> QED BY <3>1, <3>2, <3>3
  <2> QED BY <2>2
<1> QED BY <1>1, ServerInvariant, SettingsInvariant, PTL DEF Spec, ConfirmedIsRead
=============================================================================
