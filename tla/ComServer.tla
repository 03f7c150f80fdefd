------------------------------ MODULE ComServer ------------------------------
(***************************************************************************)
(* The module as a COM server: the static class factory, whose reference   *)
(* count also counts the driver objects, the objects themselves, and the   *)
(* question whether the module may be unloaded.                            *)
(*                                                                         *)
(* Host threads own what they have created (the class is "Apartment"), but *)
(* they share the factory.  A call that changes two counts is two steps.   *)
(***************************************************************************)
EXTENDS Integers, FiniteSets

CONSTANTS
  Threads,  \* host threads; each has at most one driver object
  MaxRefs   \* references that a host takes of one object, the bound of the model

ASSUME ComAssumption == IsFiniteSet(Threads) /\ MaxRefs \in Nat \ {0}

VARIABLES
  loaded,   \* the module is in the process
  cf_ref,   \* WINEASIO_CF.ref
  factory,  \* factory[t]: t has a pointer to the class factory
  ref,      \* ref[t]: the count of t's object
  object,   \* object[t]: "none", "created", or "open" after Init
  at,       \* at[t]: where t is in a call
  strays    \* threads of PipeWire that nobody ends: there is one for each Init

comVars == <<loaded, cf_ref, factory, ref, object, at, strays>>

ComInit ==
  /\ loaded = FALSE
  /\ cf_ref = 1
  /\ factory = [t \in Threads |-> FALSE]
  /\ ref = [t \in Threads |-> 0]
  /\ object = [t \in Threads |-> "none"]
  /\ at = [t \in Threads |-> "host"]
  /\ strays = {}

ComTypeOK ==
  /\ loaded \in BOOLEAN
  /\ cf_ref \in Int
  /\ factory \in [Threads -> BOOLEAN]
  /\ ref \in [Threads -> 0..MaxRefs]
  /\ object \in [Threads -> {"none", "created", "open"}]
  /\ at \in [Threads -> {"host", "creating", "releasing", "freeing"}]
  /\ strays \subseteq Threads

Idle(t) == at[t] = "host"
Goes(t, to) == at' = [at EXCEPT ![t] = to]

\* CoGetClassObject loads the module and calls DllGetClassObject.
DllGetClassObject(t) ==
  /\ Idle(t)
  /\ ~factory[t]
  /\ loaded' = TRUE
  /\ cf_ref' = cf_ref + 1
  /\ factory' = [factory EXCEPT ![t] = TRUE]
  /\ UNCHANGED <<ref, object, at, strays>>

CF_Release(t) ==
  /\ Idle(t)
  /\ factory[t]
  /\ cf_ref' = cf_ref - 1
  /\ factory' = [factory EXCEPT ![t] = FALSE]
  /\ UNCHANGED <<loaded, ref, object, at, strays>>

\* WineASIOCreateInstance allocates the object and
CreateInstance(t) ==
  /\ Idle(t)
  /\ factory[t]
  /\ object[t] = "none"
  /\ object' = [object EXCEPT ![t] = "created"]
  /\ ref' = [ref EXCEPT ![t] = 1]
  /\ Goes(t, "creating")
  /\ UNCHANGED <<loaded, cf_ref, factory, strays>>

\* Plausible slip: the object is not counted.
CreateUncounted(t) ==
  /\ at[t] = "creating"
  /\ Goes(t, "host")
  /\ UNCHANGED <<loaded, cf_ref, factory, ref, object, strays>>

\* counts it.
CreateCounts(t) ==
  /\ at[t] = "creating"
  /\ cf_ref' = cf_ref + 1
  /\ Goes(t, "host")
  /\ UNCHANGED <<loaded, factory, ref, object, strays>>

\* QueryInterface for the class of the driver, and AddRef.
AddRef(t) ==
  /\ Idle(t)
  /\ ref[t] \in 1..(MaxRefs - 1)
  /\ ref' = [ref EXCEPT ![t] = @ + 1]
  /\ UNCHANGED <<loaded, cf_ref, factory, object, at, strays>>

\* Init creates a helper with a loop thread, and no method destroys a helper.
InitObject(t) ==
  /\ Idle(t)
  /\ object[t] = "created"
  /\ object' = [object EXCEPT ![t] = "open"]
  /\ strays' = strays \cup {t}
  /\ UNCHANGED <<loaded, cf_ref, factory, ref, at>>

\* Release of an object whose Init has run.
Release(t) ==
  /\ Idle(t)
  /\ object[t] = "open"
  /\ ref[t] > 0
  /\ ref' = [ref EXCEPT ![t] = @ - 1]
  /\ Goes(t, IF ref[t] = 1 THEN "releasing" ELSE "host")
  /\ UNCHANGED <<loaded, cf_ref, factory, object, strays>>

\* Plausible slip: the factory keeps the reference of the object.
ReleaseKeepsFactory(t) ==
  /\ at[t] = "releasing"
  /\ Goes(t, "freeing")
  /\ UNCHANGED <<loaded, cf_ref, factory, ref, object, strays>>

ReleaseFactory(t) ==
  /\ at[t] = "releasing"
  /\ cf_ref' = cf_ref - 1
  /\ Goes(t, "freeing")
  /\ UNCHANGED <<loaded, factory, ref, object, strays>>

ReleaseFrees(t) ==
  /\ at[t] = "freeing"
  /\ object' = [object EXCEPT ![t] = "none"]
  /\ Goes(t, "host")
  /\ UNCHANGED <<loaded, cf_ref, factory, ref, strays>>

CanUnloadNow == cf_ref = 1

\* COM unloads a module that says it can be.  A thread that is about to free
\* its object, and the threads of PipeWire, still run code of the module.
Unload ==
  /\ loaded
  /\ CanUnloadNow
  /\ loaded' = FALSE
  /\ UNCHANGED <<cf_ref, factory, ref, object, at, strays>>

Com(t) ==
  \/ DllGetClassObject(t) \/ CF_Release(t)
  \/ CreateInstance(t) \/ CreateCounts(t)
  \/ AddRef(t) \/ InitObject(t)
  \/ Release(t) \/ ReleaseFactory(t) \/ ReleaseFrees(t)

Counted(t) == object[t] # "none" /\ at[t] \notin {"creating", "freeing"}

(* The count of the factory is exact: 1 for itself, 1 for each pointer to   *)
(* it and 1 for each object, from before its creator has it until its last  *)
(* Release is about to free it.                                             *)
CountIsExact ==
  cf_ref = 1 + Cardinality({t \in Threads : factory[t]})
             + Cardinality({t \in Threads : Counted(t)})

(* The module is never unloaded under a host that has a pointer to the      *)
(* factory or to an object, or is creating one.                             *)
HeldIsLoaded ==
  \A t \in Threads :
    factory[t] \/ (object[t] # "none" /\ at[t] # "freeing") => loaded
=============================================================================
