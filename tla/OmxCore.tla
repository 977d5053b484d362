------------------------------ MODULE OmxCore ------------------------------
(* The OpenMAX core of domx (OMX_Core.c): the libraries and the components it *)
(* has loaded, one slot each, under a mutex that lives from the first         *)
(* OMX_Init() to the last OMX_Deinit().  A client gets one component at a     *)
(* time.  The table of names (STATIC_TABLE) is constant once it is built.     *)
EXTENDS Naturals, FiniteSets

CONSTANTS
  CoreClients,    \* the threads that use the core
  CoreSlots,      \* 1 .. MAXCOMP
  CoreFaults      \* how often loading or starting a component may fail

VARIABLES
  count,          \* OMX_Init() less OMX_Deinit()
  coreInitMutex,  \* holder of pCoreInitMutex
  coreMutex,      \* holder of mutex, or "destroyed"
  pModules,       \* slot -> is a library loaded
  pComponents,    \* slot -> the client whose component it is
  coreTable,      \* the table of component names
  corePc,         \* client -> where it is
  coreFaults,     \* failures so far
  lost            \* slots that a failed OMX_GetHandle() has left occupied

coreVars == <<count, coreInitMutex, coreMutex, pModules, pComponents, coreTable,
              corePc, coreFaults, lost>>

None == "none"

Init ==
  /\ count = 0 /\ coreInitMutex = None /\ coreMutex = "destroyed"
  /\ pModules = [i \in CoreSlots |-> FALSE]
  /\ pComponents = [i \in CoreSlots |-> None]
  /\ coreTable = "none"
  /\ corePc = [t \in CoreClients |-> "out"]
  /\ coreFaults = 0 /\ lost = {}

At(t, from, to) == corePc[t] = from /\ corePc' = [corePc EXCEPT ![t] = to]

(* OMX_Init(): the first one makes the mutex, then the table, all of it with  *)
(* pCoreInitMutex held.                                                       *)
OMX_Init(t) ==
  /\ At(t, "out", "init") /\ coreInitMutex = None /\ coreInitMutex' = t
  /\ count' = count + 1
  /\ IF count = 0 THEN coreMutex' = None /\ coreTable' = "building"
                  ELSE UNCHANGED <<coreMutex, coreTable>>
  /\ UNCHANGED <<pModules, pComponents, coreFaults, lost>>

OMX_BuildComponentTable(t) ==
  /\ At(t, "init", "in") /\ coreInitMutex' = None /\ coreTable' = "built"
  /\ UNCHANGED <<count, coreMutex, pModules, pComponents, coreFaults, lost>>

(* The queries of the table check count and take no lock.                     *)
TableReaders == {t \in CoreClients : count > 0 /\ corePc[t] \notin {"out", "init", "deinit"}}

Lock(t) == coreMutex = None /\ coreMutex' = t
Unlock  == coreMutex' = None

(* OMX_GetHandle() looks for a free slot under the mutex.                     *)
GetHandleLock(t) ==
  /\ At(t, "in", "get") /\ Lock(t)
  /\ UNCHANGED <<count, coreInitMutex, pModules, pComponents, coreTable, coreFaults, lost>>

FreeSlots == {i \in CoreSlots : ~pModules[i]}
FirstSlot == CHOOSE i \in FreeSlots : \A j \in FreeSlots : i <= j

NoSlotLeft(t) ==
  /\ At(t, "get", "in") /\ FreeSlots = {} /\ Unlock
  /\ UNCHANGED <<count, coreInitMutex, pModules, pComponents, coreTable, coreFaults, lost>>

Fail == coreFaults < CoreFaults /\ coreFaults' = coreFaults + 1

(* dlopen() fails: nothing is kept.                                           *)
LoadFails(t) ==
  /\ At(t, "get", "in") /\ FreeSlots # {} /\ Fail /\ Unlock
  /\ UNCHANGED <<count, coreInitMutex, pModules, pComponents, coreTable, lost>>

(* dlsym() fails or OMX_ComponentInit() does: the library stays in its slot,  *)
(* closed or not; SetCallbacks() fails: so does the component.                *)
StartFails(t, component) ==
  /\ At(t, "get", "in") /\ FreeSlots # {} /\ Fail /\ Unlock
  /\ pModules' = [pModules EXCEPT ![FirstSlot] = TRUE]
  /\ pComponents' = [pComponents EXCEPT ![FirstSlot] = component]
  /\ lost' = lost \cup {FirstSlot}
  /\ UNCHANGED <<count, coreInitMutex, coreTable>>

(* Mutant: the component is not noted in its slot.                            *)
TakeSlotUnnoticed(t) ==
  /\ pModules' = [pModules EXCEPT ![FirstSlot] = TRUE]
  /\ pComponents' = pComponents

TakeSlot(t) ==
  /\ pModules' = [pModules EXCEPT ![FirstSlot] = TRUE]
  /\ pComponents' = [pComponents EXCEPT ![FirstSlot] = t]

GetHandle(t) ==
  /\ At(t, "get", "loaded") /\ FreeSlots # {} /\ TakeSlot(t) /\ Unlock
  /\ UNCHANGED <<count, coreInitMutex, coreTable, coreFaults, lost>>

OMX_GetHandle(t) ==
  \/ GetHandleLock(t) \/ NoSlotLeft(t) \/ LoadFails(t) \/ GetHandle(t)
  \/ StartFails(t, None) \/ StartFails(t, "stray")

(* OMX_FreeHandle(): an error of ComponentDeInit() is only logged.            *)
FreeHandleLock(t) ==
  /\ At(t, "loaded", "free") /\ Lock(t)
  /\ UNCHANGED <<count, coreInitMutex, pModules, pComponents, coreTable, coreFaults, lost>>

FreeHandle(t) ==
  /\ At(t, "free", "in") /\ Unlock
  /\ \E i \in CoreSlots :
       /\ pComponents[i] = t
       /\ pModules' = [pModules EXCEPT ![i] = FALSE]
       /\ pComponents' = [pComponents EXCEPT ![i] = None]
  /\ UNCHANGED <<count, coreInitMutex, coreTable, coreFaults, lost>>

(* OMX_Deinit() counts, and waits for the mutex with pCoreInitMutex held; the *)
(* last one destroys it.                                                      *)
OMX_Deinit(t) ==
  /\ At(t, "in", "deinit") /\ coreInitMutex = None
  /\ coreInitMutex' = t /\ count' = count - 1
  /\ UNCHANGED <<coreMutex, pModules, pComponents, coreTable, coreFaults, lost>>

DestroyLast == IF count = 0 THEN "destroyed" ELSE None

DeinitMutex(t) ==
  /\ At(t, "deinit", "out") /\ coreMutex = None
  /\ coreMutex' = DestroyLast /\ coreInitMutex' = None
  /\ UNCHANGED <<count, pModules, pComponents, coreTable, coreFaults, lost>>

Step(t) ==
  \/ OMX_BuildComponentTable(t)
  \/ GetHandle(t) \/ NoSlotLeft(t) \/ FreeHandleLock(t) \/ FreeHandle(t)
  \/ DeinitMutex(t) \/ LoadFails(t) \/ StartFails(t, None)

Next ==
  \E t \in CoreClients :
    \/ OMX_Init(t) \/ OMX_BuildComponentTable(t) \/ OMX_GetHandle(t)
    \/ FreeHandleLock(t) \/ FreeHandle(t)
    \/ OMX_Deinit(t) \/ DeinitMutex(t)

Spec == Init /\ [][Next]_coreVars /\ \A t \in CoreClients : WF_coreVars(Step(t))
-----------------------------------------------------------------------------
TypeOK ==
  /\ count \in 0 .. Cardinality(CoreClients)
  /\ coreInitMutex \in CoreClients \cup {None}
  /\ coreTable \in {"none", "building", "built"}
  /\ coreMutex \in CoreClients \cup {None, "destroyed"}
  /\ pModules \in [CoreSlots -> BOOLEAN]
  /\ pComponents \in [CoreSlots -> CoreClients \cup {None, "stray"}]
  /\ corePc \in [CoreClients -> {"out", "init", "in", "get", "loaded", "free", "deinit"}]
  /\ coreFaults \in 0 .. CoreFaults /\ lost \subseteq CoreSlots

(* Nobody uses the mutex or the table before the first OMX_Init() or after the last        *)
(* OMX_Deinit(), although count and the mutex change under another lock.      *)
MutexAlive ==
  /\ coreMutex = "destroyed" <=> count = 0 /\ coreInitMutex = None
  /\ \A t \in CoreClients : corePc[t] \in {"get", "free"} <=> coreMutex = t
  /\ TableReaders # {} => coreTable = "built"

(* Every component a client holds has one slot, no other client's, with its   *)
(* library; every other occupied slot was lost by an OMX_GetHandle() that     *)
(* failed.                                                                    *)
SlotsMatchComponents ==
  /\ \A t \in CoreClients :
       Cardinality({i \in CoreSlots : pComponents[i] = t})
         = IF corePc[t] \in {"loaded", "free"} THEN 1 ELSE 0
  /\ \A i \in CoreSlots : pModules[i] <=> (pComponents[i] \in CoreClients \/ i \in lost)

(* A client that has asked for a component or gives one back gets an answer.  *)
CoreAsked(t) == corePc[t] \in {"get", "free"}
CoreAnswered(t) == corePc[t] \in {"in", "loaded"}
CoreAnswers == \A t \in CoreClients : CoreAsked(t) ~> CoreAnswered(t)
=============================================================================
