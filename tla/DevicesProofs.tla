-------------------------- MODULE DevicesProofs --------------------------
(* Proofs about the components round the camera adapter.                      *)
EXTENDS MCDevices, Sequences, FiniteSetTheorems, FunctionTheorems, WellFoundedInduction, TLAPS

(* An instance has a copy of what its module extends.                         *)
LEMMA CoreCardinality == ASSUME NEW S PROVE Core!Cardinality(S) = Cardinality(S)
BY DEF Core!Cardinality, Cardinality

-----------------------------------------------------------------------------
(* OMX core                                                                  *)


CoreConstants ==
  /\ IsFiniteSet(CoreClients) /\ CoreClients \cap {Core!None, "destroyed", "stray"} = {}
  /\ CoreSlots \subseteq Nat /\ CoreFaults \in Nat

Pcs == {"out", "init", "in", "get", "loaded", "free", "deinit"}

(* The types, without the bound of count.                                     *)
CoreTypes ==
  /\ coreInitMutex \in CoreClients \cup {Core!None} /\ coreMutex \in CoreClients \cup {Core!None, "destroyed"}
  /\ coreTable \in {"none", "building", "built"}
  /\ pModules \in [CoreSlots -> BOOLEAN] /\ pComponents \in [CoreSlots -> CoreClients \cup {Core!None, "stray"}]
  /\ corePc \in [CoreClients -> Pcs] /\ coreFaults \in 0 .. CoreFaults /\ lost \subseteq CoreSlots

(* count is the number of clients that have the core.                         *)
Users == {t \in CoreClients : corePc[t] \notin {"out", "deinit"}}
CountsUsers == count = Cardinality(Users)

InitMutexHeld == \A t \in CoreClients : corePc[t] \in {"init", "deinit"} <=> coreInitMutex = t

Holds(t) == corePc[t] \in {"loaded", "free"}
Mine(t) == {i \in CoreSlots : pComponents[i] = t}
OneSlotEach ==
  /\ \A t \in CoreClients : Holds(t) => \E i \in CoreSlots : Mine(t) = {i}
  /\ \A t \in CoreClients : ~Holds(t) => Mine(t) = {}
  /\ \A i \in CoreSlots : pModules[i] <=> (pComponents[i] \in CoreClients \/ i \in lost)
  /\ \A i \in lost : pComponents[i] \notin CoreClients

Locks == InitMutexHeld /\ Core!MutexAlive
CoreInv == CoreTypes /\ CountsUsers /\ Locks /\ OneSlotEach
-----------------------------------------------------------------------------
(* The first free slot is a free slot.                                        *)
LEMMA FirstIsFree == ASSUME CoreConstants, Core!FreeSlots # {} PROVE Core!FirstSlot \in Core!FreeSlots
<1> DEFINE Less == {ss \in Nat \X Nat : ss[1] < ss[2]}
<1>1. IsWellFoundedOn(Less, Nat)
  BY NatLessThanWellFounded DEF OpToRel
<1>2. Core!FreeSlots \subseteq Nat
  BY DEF CoreConstants, Core!FreeSlots
<1>3. PICK x \in Core!FreeSlots : \A y \in Core!FreeSlots : ~(<<y, x>> \in Less)
  <2> HIDE DEF Less
  <2> QED  BY <1>1, <1>2, WFMin
<1>4. ASSUME NEW y \in Core!FreeSlots PROVE x <= y
  <2>1. x \in Nat /\ y \in Nat
    BY <1>2
  <2>2. ~(y < x)
    BY <1>3, <2>1
  <2> QED
    BY <2>1, <2>2
<1> QED
  BY <1>4 DEF Core!FirstSlot

(* A client that uses the core is counted.                                    *)
LEMMA UsersCounted ==
  ASSUME CoreConstants, CountsUsers
  PROVE  /\ IsFiniteSet(Users) /\ count \in 0 .. Cardinality(CoreClients)
         /\ count = 0 <=> Users = {}
<1>1. IsFiniteSet(Users) /\ Cardinality(Users) \in Nat /\ Cardinality(CoreClients) \in Nat
      /\ Cardinality(Users) <= Cardinality(CoreClients)
  BY FS_Subset, FS_CardinalityType DEF CoreConstants, Users
<1> QED
  BY <1>1, FS_EmptySet DEF CountsUsers

LEMMA CoreInvInit == CoreConstants /\ Core!Init => CoreInv
<1> SUFFICES ASSUME CoreConstants, Core!Init PROVE CoreInv
  OBVIOUS
<1>1. CoreTypes
  BY DEF CoreConstants, Core!Init, CoreTypes, Pcs
<1>2. CountsUsers
  <2>1. Users = {}
    BY DEF Core!Init, Users
  <2> QED
    BY <2>1, FS_EmptySet DEF Core!Init, CountsUsers
<1>3. Locks
  BY DEF CoreConstants, Core!Init, Locks, InitMutexHeld, Core!MutexAlive, Core!TableReaders
<1>4. OneSlotEach
  BY DEF CoreConstants, Core!Init, OneSlotEach, Holds, Mine, Core!None
<1> QED
  BY <1>1, <1>2, <1>3, <1>4 DEF CoreInv
-----------------------------------------------------------------------------
(* The two ends of a client's use of the core.                                *)
LEMMA InitStep == ASSUME CoreConstants, CoreInv, NEW t \in CoreClients, Core!OMX_Init(t) PROVE CoreInv'
<1>1. /\ corePc[t] = "out" /\ corePc' = [corePc EXCEPT ![t] = "init"] /\ coreInitMutex = Core!None /\ coreInitMutex' = t
      /\ count' = count + 1 /\ UNCHANGED <<pModules, pComponents, coreFaults, lost>>
      /\ IF count = 0 THEN coreMutex' = Core!None /\ coreTable' = "building" ELSE UNCHANGED <<coreMutex, coreTable>>
  BY DEF Core!OMX_Init, Core!At
<1>2. Users' = Users \cup {t} /\ t \notin Users
  BY <1>1 DEF Users, CoreInv, CoreTypes
<1>3. count \in Nat /\ (count = 0 <=> Users = {}) /\ IsFiniteSet(Users)
  BY UsersCounted DEF CoreInv
<1>4. CoreTypes'
  BY <1>1 DEF CoreInv, CoreTypes, Pcs
<1>5. CountsUsers'
  BY <1>1, <1>2, <1>3, FS_AddElement DEF CoreInv, CountsUsers
<1>6. InitMutexHeld'
  BY <1>1 DEF CoreInv, CoreTypes, Locks, InitMutexHeld, CoreConstants
<1>7. Core!MutexAlive'
  <2>1. (coreMutex = "destroyed" <=> count = 0 /\ coreInitMutex = Core!None)'
    BY <1>1, <1>3 DEF CoreInv, Locks, Core!MutexAlive, CoreConstants, Core!None
  <2>2. \A s \in CoreClients : (corePc[s] \in {"get", "free"} <=> coreMutex = s)'
    <3> SUFFICES ASSUME NEW s \in CoreClients PROVE (corePc[s] \in {"get", "free"} <=> coreMutex = s)'
      OBVIOUS
    <3>1. corePc'[s] = IF s = t THEN "init" ELSE corePc[s]
      BY <1>1 DEF CoreInv, CoreTypes
    <3>2. corePc[s] \in {"get", "free"} <=> coreMutex = s
      BY DEF CoreInv, Locks, Core!MutexAlive
    <3>3. CASE count = 0
      <4>1. corePc[s] \notin {"get", "free"} /\ coreMutex' = Core!None /\ s # Core!None
        BY <1>1, <1>3, <3>3 DEF Users, CoreConstants
      <4> QED
        BY <3>1, <4>1
    <3>4. CASE count # 0
      BY <1>1, <3>1, <3>2, <3>4
    <3> QED
      BY <3>3, <3>4
  <2>3. (Core!TableReaders # {} => coreTable = "built")'
    BY <1>1, <1>3 DEF CoreInv, CoreTypes, Locks, Core!MutexAlive, Core!TableReaders, Users
  <2> QED
    BY <2>1, <2>2, <2>3 DEF Core!MutexAlive
<1>8. OneSlotEach'
  BY <1>1 DEF CoreInv, CoreTypes, OneSlotEach, Holds, Mine
<1> QED
  BY <1>4, <1>5, <1>6, <1>7, <1>8 DEF CoreInv, Locks

LEMMA DeinitStep == ASSUME CoreConstants, CoreInv, NEW t \in CoreClients, Core!OMX_Deinit(t) PROVE CoreInv'
<1>1. /\ corePc[t] = "in" /\ corePc' = [corePc EXCEPT ![t] = "deinit"] /\ coreInitMutex = Core!None /\ coreInitMutex' = t
      /\ count' = count - 1 /\ UNCHANGED <<coreMutex, pModules, pComponents, coreTable, coreFaults, lost>>
  BY DEF Core!OMX_Deinit, Core!At
<1>2. Users' = Users \ {t} /\ t \in Users
  BY <1>1 DEF Users, CoreInv, CoreTypes
<1>3. count \in Nat /\ count # 0 /\ IsFiniteSet(Users)
  BY <1>2, UsersCounted DEF CoreInv
<1>4. CoreTypes'
  BY <1>1 DEF CoreInv, CoreTypes, Pcs
<1>5. CountsUsers'
  BY <1>1, <1>2, <1>3, FS_RemoveElement DEF CoreInv, CountsUsers
<1>6. InitMutexHeld'
  BY <1>1 DEF CoreInv, CoreTypes, Locks, InitMutexHeld, CoreConstants
<1>7. Core!MutexAlive'
  <2>1. coreMutex # "destroyed" /\ t # Core!None
    BY <1>3 DEF CoreInv, Locks, Core!MutexAlive, CoreConstants
  <2>2. Core!TableReaders' \subseteq Core!TableReaders
    BY <1>1, <1>3 DEF Core!TableReaders, CoreInv, CoreTypes
  <2> QED
    BY <1>1, <2>1, <2>2 DEF CoreInv, CoreTypes, Locks, Core!MutexAlive
<1>8. OneSlotEach'
  BY <1>1 DEF CoreInv, CoreTypes, OneSlotEach, Holds, Mine
<1> QED
  BY <1>4, <1>5, <1>6, <1>7, <1>8 DEF CoreInv, Locks

LEMMA EndSteps ==
  ASSUME CoreConstants, CoreInv, NEW t \in CoreClients, Core!OMX_BuildComponentTable(t) \/ Core!DeinitMutex(t) PROVE CoreInv'
<1>1. UNCHANGED <<count, pModules, pComponents, coreFaults, lost>>
  BY DEF Core!OMX_BuildComponentTable, Core!DeinitMutex
<1>2. coreInitMutex = t /\ coreInitMutex' = Core!None /\ t # Core!None
  <2>1. corePc[t] \in {"init", "deinit"}
    BY DEF Core!OMX_BuildComponentTable, Core!DeinitMutex, Core!At
  <2> QED
    BY <2>1 DEF Core!OMX_BuildComponentTable, Core!DeinitMutex, CoreInv, Locks, InitMutexHeld, CoreConstants
<1>3. \/ /\ corePc[t] = "init" /\ corePc' = [corePc EXCEPT ![t] = "in"] /\ coreTable' = "built" /\ UNCHANGED coreMutex
      \/ /\ corePc[t] = "deinit" /\ corePc' = [corePc EXCEPT ![t] = "out"] /\ coreMutex = Core!None
         /\ coreMutex' = (IF count = 0 THEN "destroyed" ELSE Core!None) /\ UNCHANGED coreTable
  BY DEF Core!OMX_BuildComponentTable, Core!DeinitMutex, Core!At, Core!DestroyLast
<1>4. Users' = Users
  BY <1>3 DEF Users, CoreInv, CoreTypes
<1>5. CoreTypes' /\ CountsUsers'
  BY <1>1, <1>2, <1>3, <1>4 DEF CoreInv, CoreTypes, Pcs, CountsUsers
<1>6. InitMutexHeld'
  BY <1>2, <1>3 DEF CoreInv, CoreTypes, Locks, InitMutexHeld, CoreConstants
<1>7. Core!MutexAlive'
  <2>1. CASE corePc[t] = "init"
    <3>1. count # 0
      BY <2>1, UsersCounted DEF CoreInv, Users
    <3> QED
      BY <1>1, <1>2, <1>3, <2>1, <3>1 DEF CoreInv, CoreTypes, Locks, Core!MutexAlive
  <2>2. CASE corePc[t] = "deinit"
    <3>1. (coreMutex = "destroyed" <=> count = 0 /\ coreInitMutex = Core!None)'
      BY <1>1, <1>2, <1>3, <2>2 DEF Core!None
    <3>2. \A s \in CoreClients : (corePc[s] \in {"get", "free"} <=> coreMutex = s)'
      BY <1>3, <2>2 DEF CoreInv, CoreTypes, Locks, Core!MutexAlive, CoreConstants
    <3>3. (Core!TableReaders # {} => coreTable = "built")'
      BY <1>1, <1>3, <2>2 DEF CoreInv, CoreTypes, Locks, Core!MutexAlive, Core!TableReaders
    <3> QED
      BY <3>1, <3>2, <3>3 DEF Core!MutexAlive
  <2> QED
    BY <1>3, <2>1, <2>2
<1>8. OneSlotEach'
  BY <1>1, <1>3 DEF CoreInv, CoreTypes, OneSlotEach, Holds, Mine
<1> QED
  BY <1>5, <1>6, <1>7, <1>8 DEF CoreInv, Locks
-----------------------------------------------------------------------------
(* Between them a client takes the mutex, and lets it go: what that does to   *)
(* the locks and the count, whatever happens to the slots.                    *)
Taking(t) ==
  /\ coreMutex = Core!None /\ coreMutex' = t
  /\ \/ Core!At(t, "in", "get") \/ Core!At(t, "loaded", "free")
LettingGo(t) ==
  /\ coreMutex' = Core!None
  /\ \/ Core!At(t, "get", "in") \/ Core!At(t, "get", "loaded") \/ Core!At(t, "free", "in")

LEMMA Inside ==
  ASSUME CoreConstants, CoreInv, NEW t \in CoreClients, Taking(t) \/ LettingGo(t),
         UNCHANGED <<count, coreInitMutex, coreTable>>
  PROVE  /\ coreMutex' \in CoreClients \cup {Core!None, "destroyed"} /\ corePc' \in [CoreClients -> Pcs]
         /\ CountsUsers' /\ Locks'
<1>1. PICK to \in {"in", "get", "loaded", "free"} :
        /\ corePc' = [corePc EXCEPT ![t] = to]
        /\ Taking(t) => to \in {"get", "free"} /\ corePc[t] \in {"in", "loaded"}
        /\ LettingGo(t) => to \in {"in", "loaded"} /\ corePc[t] \in {"get", "free"}
  BY DEF Taking, LettingGo, Core!At
<1>2. corePc' \in [CoreClients -> Pcs] /\ coreMutex' \in CoreClients \cup {Core!None}
  BY <1>1 DEF CoreInv, CoreTypes, Pcs, Taking, LettingGo
<1>3. corePc[t] \notin {"out", "init", "deinit"} /\ t \in Users
  BY <1>1 DEF Users
<1>4. Users' = Users /\ Core!TableReaders' = Core!TableReaders
  BY <1>1, <1>3 DEF Users, Core!TableReaders, CoreInv, CoreTypes
<1>5. count # 0
  BY <1>3, UsersCounted DEF CoreInv
<1>6. InitMutexHeld'
  BY <1>1, <1>3 DEF CoreInv, CoreTypes, Locks, InitMutexHeld
<1>7. Core!MutexAlive'
  <2>1. (coreMutex = "destroyed" <=> count = 0 /\ coreInitMutex = Core!None)'
    BY <1>2, <1>5 DEF CoreConstants, Core!None
  <2>2. \A s \in CoreClients : (corePc[s] \in {"get", "free"} <=> coreMutex = s)'
    <3> SUFFICES ASSUME NEW s \in CoreClients PROVE (corePc[s] \in {"get", "free"} <=> coreMutex = s)'
      OBVIOUS
    <3>1. corePc'[s] = IF s = t THEN to ELSE corePc[s]
      BY <1>1 DEF CoreInv, CoreTypes
    <3>2. /\ corePc[s] \in {"get", "free"} <=> coreMutex = s
          /\ corePc[t] \in {"get", "free"} <=> coreMutex = t
          /\ s # Core!None
      BY DEF CoreInv, Locks, Core!MutexAlive, CoreConstants
    <3>3. CASE Taking(t)
      BY <1>1, <3>1, <3>2, <3>3 DEF Taking
    <3>4. CASE LettingGo(t)
      BY <1>1, <3>1, <3>2, <3>4 DEF LettingGo
    <3> QED
      BY <3>3, <3>4
  <2>3. (Core!TableReaders # {} => coreTable = "built")'
    BY <1>4 DEF CoreInv, Locks, Core!MutexAlive
  <2> QED
    BY <2>1, <2>2, <2>3 DEF Core!MutexAlive
<1> QED
  BY <1>2, <1>4, <1>6, <1>7 DEF CoreInv, CountsUsers, Locks

(* The steps that leave the slots alone.                                      *)
LEMMA KeepingSteps ==
  ASSUME CoreConstants, CoreInv, NEW t \in CoreClients,
         Core!GetHandleLock(t) \/ Core!FreeHandleLock(t) \/ Core!NoSlotLeft(t) \/ Core!LoadFails(t)
  PROVE  CoreInv'
<1>1. UNCHANGED <<count, coreInitMutex, coreTable, pModules, pComponents, lost>> /\ (Taking(t) \/ LettingGo(t))
  BY DEF Core!GetHandleLock, Core!FreeHandleLock, Core!NoSlotLeft, Core!LoadFails, Taking, LettingGo,
         Core!Lock, Core!Unlock
<1>2. coreFaults' \in 0 .. CoreFaults
  BY DEF Core!GetHandleLock, Core!FreeHandleLock, Core!NoSlotLeft, Core!LoadFails, Core!Fail, CoreInv,
         CoreTypes, CoreConstants
<1>3. CoreTypes' /\ CountsUsers' /\ Locks'
  BY <1>1, <1>2, Inside DEF CoreInv, CoreTypes
<1>4. \A s \in CoreClients : Holds(s)' <=> Holds(s)
  BY DEF Core!GetHandleLock, Core!FreeHandleLock, Core!NoSlotLeft, Core!LoadFails, Core!At, Holds, CoreInv,
         CoreTypes
<1>5. OneSlotEach'
  BY <1>1, <1>4 DEF CoreInv, OneSlotEach, Mine
<1> QED
  BY <1>3, <1>5 DEF CoreInv

(* A library is loaded into a free slot, for the client or in vain.           *)
LEMMA TakingSteps ==
  ASSUME CoreConstants, CoreInv, NEW t \in CoreClients,
         Core!GetHandle(t) \/ Core!StartFails(t, Core!None) \/ Core!StartFails(t, "stray")
  PROVE  CoreInv'
<1> DEFINE i == Core!FirstSlot
<1>1. i \in CoreSlots /\ ~pModules[i]
  <2>1. Core!FreeSlots # {}
    BY DEF Core!GetHandle, Core!StartFails
  <2> QED
    BY <2>1, FirstIsFree DEF Core!FreeSlots
<1>2. pComponents[i] \notin CoreClients /\ i \notin lost
  BY <1>1 DEF CoreInv, OneSlotEach
<1>3. UNCHANGED <<count, coreInitMutex, coreTable>> /\ LettingGo(t)
  BY DEF Core!GetHandle, Core!StartFails, LettingGo, Core!Unlock
<1>4. coreFaults' \in 0 .. CoreFaults
  BY DEF Core!GetHandle, Core!StartFails, Core!Fail, CoreInv, CoreTypes, CoreConstants
<1>5. \/ /\ corePc[t] = "get" /\ corePc' = [corePc EXCEPT ![t] = "loaded"] /\ lost' = lost
         /\ pModules' = [pModules EXCEPT ![i] = TRUE] /\ pComponents' = [pComponents EXCEPT ![i] = t]
      \/ \E c \in {Core!None, "stray"} :
           /\ corePc[t] = "get" /\ corePc' = [corePc EXCEPT ![t] = "in"] /\ lost' = lost \cup {i}
           /\ pModules' = [pModules EXCEPT ![i] = TRUE] /\ pComponents' = [pComponents EXCEPT ![i] = c]
  BY DEF Core!GetHandle, Core!StartFails, Core!TakeSlot, Core!At
<1> HIDE DEF i
<1>6. CoreTypes' /\ CountsUsers' /\ Locks'
  <2>1. pModules' \in [CoreSlots -> BOOLEAN] /\ pComponents' \in [CoreSlots -> CoreClients \cup {Core!None, "stray"}]
        /\ lost' \subseteq CoreSlots
    BY <1>1, <1>5 DEF CoreInv, CoreTypes
  <2> QED
    BY <1>3, <1>4, <2>1, Inside DEF CoreInv, CoreTypes
<1>7. \A j \in CoreSlots \ {i} : pModules'[j] = pModules[j] /\ pComponents'[j] = pComponents[j]
  BY <1>5 DEF CoreInv, CoreTypes
<1>8. OneSlotEach'
  <2>1. \A s \in CoreClients \ {t} : Mine(s)' = Mine(s) /\ Holds(s)' = Holds(s)
    <3> SUFFICES ASSUME NEW s \in CoreClients \ {t} PROVE Mine(s)' = Mine(s) /\ Holds(s)' = Holds(s)
      OBVIOUS
    <3>1. pComponents'[i] # s /\ pComponents[i] # s
      BY <1>1, <1>2, <1>5 DEF CoreInv, CoreTypes, CoreConstants
    <3>2. corePc'[s] = corePc[s]
      BY <1>5 DEF CoreInv, CoreTypes
    <3> QED
      BY <1>1, <1>7, <3>1, <3>2 DEF Mine, Holds
  <2>2. Mine(t) = {}
    BY <1>5 DEF CoreInv, OneSlotEach, Holds
  <2>3. IF Holds(t)' THEN Mine(t)' = {i} ELSE Mine(t)' = {}
    <3>1. CASE pComponents' = [pComponents EXCEPT ![i] = t] /\ corePc' = [corePc EXCEPT ![t] = "loaded"]
      BY <1>1, <2>2, <3>1 DEF Mine, Holds, CoreInv, CoreTypes
    <3>2. ASSUME NEW c \in {Core!None, "stray"}, pComponents' = [pComponents EXCEPT ![i] = c],
                 corePc' = [corePc EXCEPT ![t] = "in"]
          PROVE  ~Holds(t)' /\ Mine(t)' = {}
      BY <1>1, <2>2, <3>2 DEF Mine, Holds, CoreInv, CoreTypes, CoreConstants
    <3> QED
      BY <1>5, <3>1, <3>2 DEF Holds, CoreInv, CoreTypes
  <2>4. \A s \in CoreClients : (Holds(s)' => \E j \in CoreSlots : Mine(s)' = {j}) /\ (~Holds(s)' => Mine(s)' = {})
    BY <1>1, <2>1, <2>3 DEF CoreInv, OneSlotEach
  <2>5. \A j \in CoreSlots : (pModules[j] <=> (pComponents[j] \in CoreClients \/ j \in lost))'
    <3>1. pModules'[i] = TRUE /\ (pComponents'[i] = t \/ i \in lost')
      BY <1>1, <1>5 DEF CoreInv, CoreTypes
    <3>2. \A j \in CoreSlots \ {i} : j \in lost' <=> j \in lost
      BY <1>5
    <3> QED
      BY <1>7, <3>1, <3>2 DEF CoreInv, OneSlotEach
  <2>6. \A j \in lost' : pComponents'[j] \notin CoreClients
    <3>1. i \in lost' => pComponents'[i] \notin CoreClients
      BY <1>1, <1>2, <1>5 DEF CoreInv, CoreTypes, CoreConstants
    <3>2. \A j \in lost' \ {i} : j \in lost
      BY <1>5
    <3>3. \A j \in lost : j \in CoreSlots /\ pComponents[j] \notin CoreClients
      BY DEF CoreInv, CoreTypes, OneSlotEach
    <3> QED
      BY <1>7, <3>1, <3>2, <3>3
  <2> QED
    BY <2>4, <2>5, <2>6 DEF OneSlotEach
<1> QED
  BY <1>6, <1>8 DEF CoreInv

LEMMA FreeStep == ASSUME CoreConstants, CoreInv, NEW t \in CoreClients, Core!FreeHandle(t) PROVE CoreInv'
<1>1. PICK i \in CoreSlots :
        /\ pComponents[i] = t /\ pModules' = [pModules EXCEPT ![i] = FALSE]
        /\ pComponents' = [pComponents EXCEPT ![i] = Core!None]
  BY DEF Core!FreeHandle
<1>2. /\ corePc[t] = "free" /\ corePc' = [corePc EXCEPT ![t] = "in"] /\ LettingGo(t)
      /\ UNCHANGED <<count, coreInitMutex, coreTable, coreFaults, lost>>
  BY DEF Core!FreeHandle, Core!At, LettingGo, Core!Unlock
<1>3. CoreTypes' /\ CountsUsers' /\ Locks'
  <2>1. pModules' \in [CoreSlots -> BOOLEAN] /\ pComponents' \in [CoreSlots -> CoreClients \cup {Core!None, "stray"}]
    BY <1>1 DEF CoreInv, CoreTypes
  <2> QED
    BY <1>2, <2>1, Inside DEF CoreInv, CoreTypes
<1>4. Core!None \notin CoreClients /\ Mine(t) = {i} /\ i \notin lost
  <2>1. \E j \in CoreSlots : Mine(t) = {j}
    BY <1>2 DEF CoreInv, OneSlotEach, Holds
  <2>2. i \in Mine(t)
    BY <1>1 DEF Mine
  <2> QED
    BY <1>1, <2>1, <2>2 DEF CoreInv, OneSlotEach, CoreConstants
<1>5. \A j \in CoreSlots : /\ pModules'[j] = IF j = i THEN FALSE ELSE pModules[j]
                           /\ pComponents'[j] = IF j = i THEN Core!None ELSE pComponents[j]
  BY <1>1 DEF CoreInv, CoreTypes
<1>6. OneSlotEach'
  <2>1. \A s \in CoreClients : Mine(s)' = Mine(s) \ {i}
    BY <1>4, <1>5 DEF Mine
  <2>2. \A s \in CoreClients \ {t} : Mine(s)' = Mine(s) /\ Holds(s)' = Holds(s)
    BY <1>1, <1>2, <2>1 DEF Mine, Holds, CoreInv, CoreTypes
  <2>3. ~Holds(t)' /\ Mine(t)' = {}
    BY <1>2, <1>4, <2>1 DEF Holds, CoreInv, CoreTypes
  <2>4. \A j \in CoreSlots : (pModules[j] <=> (pComponents[j] \in CoreClients \/ j \in lost))'
    BY <1>2, <1>4, <1>5 DEF CoreInv, OneSlotEach
  <2>5. \A j \in lost' : pComponents'[j] \notin CoreClients
    <3> SUFFICES ASSUME NEW j \in lost' PROVE pComponents'[j] \notin CoreClients
      OBVIOUS
    <3>1. j \in CoreSlots /\ j # i /\ pComponents[j] \notin CoreClients
      BY <1>2, <1>4 DEF CoreInv, CoreTypes, OneSlotEach
    <3> QED
      BY <1>5, <3>1
  <2> QED
    BY <2>2, <2>3, <2>4, <2>5 DEF CoreInv, OneSlotEach
<1> QED
  BY <1>3, <1>6 DEF CoreInv

LEMMA CoreInvStep == CoreConstants /\ CoreInv /\ [Core!Next]_Core!coreVars => CoreInv'
<1> SUFFICES ASSUME CoreConstants, CoreInv, [Core!Next]_Core!coreVars PROVE CoreInv'
  OBVIOUS
<1>1. CASE UNCHANGED Core!coreVars
  BY <1>1 DEF Core!coreVars, CoreInv, CoreTypes, CountsUsers, Users, Locks, InitMutexHeld, Core!MutexAlive,
              Core!TableReaders, OneSlotEach,
              Holds, Mine
<1>2. CASE Core!Next
  BY <1>2, InitStep, DeinitStep, EndSteps, KeepingSteps, TakingSteps, FreeStep DEF Core!Next, Core!OMX_GetHandle
<1> QED
  BY <1>1, <1>2

LEMMA CoreInvariance == ASSUME CoreConstants PROVE Core!Spec => []CoreInv
<1>1. Core!Init => CoreInv
  BY CoreInvInit
<1>2. CoreInv /\ [Core!Next]_Core!coreVars => CoreInv'
  BY CoreInvStep
<1> QED
  BY <1>1, <1>2, PTL DEF Core!Spec

(* The mutex and the table live exactly as long as a client may use them.     *)
THEOREM CoreMutex == ASSUME CoreConstants PROVE Core!Spec => [](Core!TypeOK /\ Core!MutexAlive)
<1>1. CoreInv => Core!TypeOK /\ Core!MutexAlive
  BY UsersCounted, CoreCardinality DEF CoreInv, CoreTypes, Core!TypeOK, Locks, Pcs
<1> QED
  BY <1>1, CoreInvariance, PTL

(* A client that holds a component has one slot of its own, and what is       *)
(* occupied otherwise was lost when a component could not be started.         *)
THEOREM CoreSlotsMatch == ASSUME CoreConstants PROVE Core!Spec => []Core!SlotsMatchComponents
<1>1. CoreInv => Core!SlotsMatchComponents
  <2> SUFFICES ASSUME CoreInv PROVE Core!SlotsMatchComponents
    OBVIOUS
  <2>1. ASSUME NEW t \in CoreClients
        PROVE  Cardinality(Mine(t)) = IF corePc[t] \in {"loaded", "free"} THEN 1 ELSE 0
    <3>1. CASE Holds(t)
      <4>1. PICK i \in CoreSlots : Mine(t) = {i}
        BY <2>1, <3>1 DEF CoreInv, OneSlotEach
      <4> QED
        BY <3>1, <4>1, FS_Singleton DEF Holds
    <3>2. CASE ~Holds(t)
      <4>1. Mine(t) = {}
        BY <2>1, <3>2 DEF CoreInv, OneSlotEach
      <4> QED
        BY <3>2, <4>1, FS_EmptySet DEF Holds
    <3> QED
      BY <3>1, <3>2
  <2> QED
    BY <2>1, CoreCardinality DEF CoreInv, OneSlotEach, Core!SlotsMatchComponents, Mine
<1> QED
  BY <1>1, CoreInvariance, PTL

-----------------------------------------------------------------------------
(* The decoder proxy                                                         *)


DecoderFlags == IsLoadedState \in BOOLEAN /\ commandFailed \in BOOLEAN

(* Until a command has failed the stride is due in the loaded state, where    *)
(* the flag says so, and is set in every other while the port is enabled.     *)
StrideDue ==
  ~commandFailed =>
    /\ decoderState = "loaded" => IsLoadedState
    /\ (decoderState # "loaded" /\ outputPort = "enabled") => stride = "page"

DecoderInv == Decoder!TypeOK /\ DecoderFlags /\ Decoder!LockedWhileDecoding /\ StrideDue

LEMMA DecoderInvInit == Decoder!Init => DecoderInv
<1> SUFFICES ASSUME Decoder!Init PROVE DecoderInv
  OBVIOUS
<1>1. Decoder!TypeOK
  BY DEF Decoder!Init, Decoder!OMX_ProxyViddecInit, Decoder!TypeOK
<1>2. Decoder!LockedWhileDecoding
  BY DEF Decoder!Init, Decoder!LockedWhileDecoding
<1>3. DecoderFlags /\ StrideDue
  BY DEF Decoder!Init, Decoder!OMX_ProxyViddecInit, DecoderFlags, StrideDue
<1> QED
  BY <1>1, <1>2, <1>3 DEF DecoderInv

(* The actions that leave the buffers alone.                                  *)
LEMMA PortSteps ==
  ASSUME DecoderInv, Decoder!SetParameter \/ Decoder!ToIdle \/ Decoder!ToLoaded \/ Decoder!PortEnable \/ Decoder!PortDisable \/ Decoder!EventHandler
  PROVE  DecoderInv'
<1> USE DEF DecoderInv, Decoder!TypeOK, DecoderFlags, Decoder!LockedWhileDecoding, StrideDue, Decoder!port, Decoder!states, Decoder!buffers, Decoder!Fault
<1>1. CASE Decoder!SetParameter
  BY <1>1 DEF Decoder!SetParameter
<1>2. CASE Decoder!ToIdle
  <2>1. UNCHANGED <<outputPort, Decoder!buffers>>
    BY <1>2 DEF Decoder!ToIdle
  <2>2. CASE IsLoadedState
    BY <1>2, <2>1, <2>2 DEF Decoder!ToIdle, Decoder!SetStrideAndPadding
  <2>3. CASE ~IsLoadedState
    BY <1>2, <2>1, <2>3 DEF Decoder!ToIdle
  <2> QED
    BY <2>2, <2>3
<1>3. CASE Decoder!ToLoaded
  BY <1>3 DEF Decoder!ToLoaded
<1>4. CASE Decoder!PortEnable
  BY <1>4 DEF Decoder!PortEnable, Decoder!SetStrideAndPadding
<1>5. CASE Decoder!PortDisable
  BY <1>5 DEF Decoder!PortDisable
<1>6. CASE Decoder!EventHandler
  BY <1>6 DEF Decoder!EventHandler
<1> QED
  BY <1>1, <1>2, <1>3, <1>4, <1>5, <1>6

(* The actions that move one buffer.                                          *)
LEMMA BufferSteps ==
  ASSUME DecoderInv, NEW b \in OutputBuffers, Decoder!FillThisBuffer(b) \/ Decoder!Answers(b)
  PROVE  DecoderInv'
<1> USE DEF Decoder!port, Decoder!states, Decoder!buffers, Decoder!Fault
<1>1. UNCHANGED <<Decoder!states, Decoder!port>>
  BY DEF Decoder!FillThisBuffer, Decoder!Answers, Decoder!Decoded, Decoder!Unlock, Decoder!FillBufferDone
<1>2. DecoderFlags' /\ StrideDue' /\ (Decoder!TypeOK => (decoderState \in {"loaded", "toIdle", "idle", "toLoaded"})')
  BY <1>1 DEF DecoderInv, Decoder!TypeOK, DecoderFlags, StrideDue
<1>3. Decoder!TypeOK' /\ Decoder!LockedWhileDecoding'
  <2> USE DEF DecoderInv, Decoder!TypeOK, Decoder!LockedWhileDecoding
  <2>1. CASE Decoder!FillThisBuffer(b)
    BY <1>1, <2>1 DEF Decoder!FillThisBuffer
  <2>2. CASE Decoder!Decoded(b)
    BY <1>1, <2>2 DEF Decoder!Decoded
  <2>3. CASE Decoder!Unlock(b)
    BY <1>1, <2>3 DEF Decoder!Unlock
  <2>4. CASE Decoder!FillBufferDone(b)
    BY <1>1, <2>4 DEF Decoder!FillBufferDone
  <2> QED
    BY <2>1, <2>2, <2>3, <2>4 DEF Decoder!Answers
<1> QED
  BY <1>2, <1>3 DEF DecoderInv

LEMMA DecoderInvStep == DecoderInv /\ [Decoder!Next]_Decoder!decoderVars => DecoderInv'
<1> SUFFICES ASSUME DecoderInv, [Decoder!Next]_Decoder!decoderVars PROVE DecoderInv'
  OBVIOUS
<1>1. CASE UNCHANGED Decoder!decoderVars
  BY <1>1 DEF Decoder!decoderVars, DecoderInv, Decoder!TypeOK, DecoderFlags, Decoder!LockedWhileDecoding,
              StrideDue
<1>2. CASE \E b \in OutputBuffers : Decoder!FillThisBuffer(b) \/ Decoder!Answers(b)
  BY <1>2, BufferSteps
<1>3. CASE Decoder!SetParameter \/ Decoder!ToIdle \/ Decoder!ToLoaded \/ Decoder!PortEnable \/ Decoder!PortDisable \/ Decoder!EventHandler
  BY <1>3, PortSteps
<1> QED
  BY <1>1, <1>2, <1>3 DEF Decoder!Next, Decoder!Client

LEMMA DecoderInvariance == Decoder!Spec => []DecoderInv
BY DecoderInvInit, DecoderInvStep, PTL DEF Decoder!Spec

(* A buffer is locked exactly while the decoder or the callback has it, or    *)
(* when the proxy could not send it.                                          *)
THEOREM DecoderLocks == Decoder!Spec => [](Decoder!TypeOK /\ Decoder!LockedWhileDecoding)
<1>1. DecoderInv => Decoder!TypeOK /\ Decoder!LockedWhileDecoding
  BY DEF DecoderInv
<1> QED
  BY <1>1, DecoderInvariance, PTL

(* The decoder runs with the stride of 2D buffers, unless a command failed.   *)
THEOREM DecoderStride == Decoder!Spec => []Decoder!StrideOfBuffers
<1>1. DecoderInv => Decoder!StrideOfBuffers
  BY DEF DecoderInv, StrideDue, Decoder!StrideOfBuffers
<1> QED
  BY <1>1, DecoderInvariance, PTL
-----------------------------------------------------------------------------
(* The display                                                               *)

DisplayConstants ==
  /\ IsFiniteSet(DisplayBufs) /\ Display!None \notin DisplayBufs
  /\ MinUndequeued \in 0 .. Cardinality(DisplayBufs) /\ DisplayFaults \in Nat

(* The types, without the bound of the queue.                                 *)
DisplayTypes ==
  /\ mANativeWindow \in BOOLEAN /\ abandoned \in BOOLEAN /\ mBuffers \in {"none", "fresh", "shown"}
  /\ leftover \in BOOLEAN /\ fetching \in BOOLEAN /\ displayCrashed \in BOOLEAN
  /\ mDisplayEnabled \in BOOLEAN /\ subscribed \in BOOLEAN /\ mPaused \in BOOLEAN /\ raced \in BOOLEAN
  /\ mDisplayState \in {"INIT", "STARTED", "STOPPED", "EXITED"}
  /\ mDisplayQ \in Nat /\ windowFaults \in 0 .. DisplayFaults
  /\ displayMsgQ \in {Display!None, "DISPLAY_START", "DISPLAY_STOP", "DISPLAY_EXIT"}
  /\ inWindow \in [DisplayBufs -> {Display!None, "queued", "free"}]
  /\ withAdapter \subseteq DisplayBufs /\ atCamera \subseteq DisplayBufs
  /\ mFramesType \in [DisplayBufs -> Display!Types \cup {Display!None}]
  /\ posting \in {<<>>} \cup (DisplayBufs \X BOOLEAN)
  /\ returning \in DisplayBufs \cup {Display!None}
  /\ halPc \in {"idle", "enable", "cancel", "destroy", "exit", "gone"}

(* How far a command of CameraHal's thread is with the display thread.        *)
Commanded ==
  /\ halPc \in {"idle", "gone"} => displayMsgQ = Display!None
  /\ halPc = "enable" => IF displayMsgQ = Display!None THEN mDisplayState = "STARTED"
                         ELSE displayMsgQ = "DISPLAY_START" /\ mDisplayState \in {"INIT", "STOPPED"}
  /\ halPc \in {"cancel", "destroy"} => IF displayMsgQ = Display!None THEN mDisplayState = "STOPPED"
                                        ELSE displayMsgQ = "DISPLAY_STOP" /\ mDisplayState = "STARTED"
  /\ halPc = "exit" => IF displayMsgQ = Display!None THEN mDisplayState = "EXITED"
                       ELSE displayMsgQ = "DISPLAY_EXIT" /\ mDisplayState \in {"INIT", "STOPPED"}
  /\ halPc = "gone" => mDisplayState = "EXITED"
  /\ halPc = "idle" => IF mDisplayEnabled THEN mDisplayState = "STARTED" /\ subscribed
                       ELSE mDisplayState \in {"INIT", "STOPPED"}

(* Frames and messages are on their way only while the display runs.          *)
Running ==
  /\ subscribed => mDisplayEnabled /\ halPc = "idle"
  /\ mDisplayEnabled => mBuffers = "shown" /\ halPc \in {"idle", "cancel", "destroy"}
  /\ halPc = "enable" => mBuffers = "fresh" /\ ~mDisplayEnabled
  /\ halPc \in {"cancel", "destroy"} => mDisplayEnabled
  /\ posting # <<>> => subscribed
  /\ mDisplayQ > 0 \/ fetching => mDisplayEnabled /\ mDisplayState = "STARTED"

(* A buffer that the camera adapter has, or that is being posted, or that a   *)
(* message stands for, is one of the buffers.                                 *)
InPost == IF posting = <<>> THEN 0 ELSE 1
InFetch == IF fetching THEN 1 ELSE 0
FewMessages == Cardinality(atCamera) + InPost + mDisplayQ + InFetch <= Cardinality(DisplayBufs)

(* The map of the adapter's frames is right for new buffers, and while they   *)
(* are shown.                                                                 *)
Mapped ==
  /\ mBuffers = "fresh" \/ mDisplayEnabled => /\ atCamera \cup Display!Posting \subseteq withAdapter
                                            /\ \A b \in withAdapter : inWindow[b] = Display!None
  /\ posting # <<>> => posting[1] \notin atCamera

(* While nothing has failed, the map has all the buffers the window gave, and *)
(* the messages stand for those that the window has and is to give.           *)
WindowFed ==
  windowFaults = 0 =>
    /\ ~abandoned /\ ~leftover /\ (mDisplayEnabled \/ mBuffers = "fresh" => mANativeWindow)
    /\ mBuffers = "none" => withAdapter = {}
    /\ mBuffers # "none" /\ mANativeWindow => Display!Dequeued = withAdapter
    /\ mBuffers = "fresh" => Cardinality(withAdapter) = Cardinality(DisplayBufs) - MinUndequeued
    /\ mDisplayEnabled /\ mDisplayState = "STARTED" =>
         mDisplayQ + InFetch + Cardinality(withAdapter) = Cardinality(DisplayBufs) - MinUndequeued

DisplayInv == DisplayTypes /\ Commanded /\ Running /\ FewMessages /\ Mapped /\ WindowFed
-----------------------------------------------------------------------------
LEMMA DisplayCardinality == ASSUME NEW S PROVE Display!Cardinality(S) = Cardinality(S)
BY DEF Display!Cardinality, Cardinality

(* The sets of buffers are finite.                                            *)
LEMMA DisplaySets ==
  ASSUME DisplayConstants
  PROVE  /\ Cardinality(DisplayBufs) \in Nat
         /\ \A S \in SUBSET DisplayBufs : /\ IsFiniteSet(S) /\ Cardinality(S) \in Nat /\ (Cardinality(S) = 0 <=> S = {})
                                          /\ Cardinality(S) <= Cardinality(DisplayBufs)
         /\ \A S \in SUBSET DisplayBufs, b \in DisplayBufs :
              /\ Cardinality(S \cup {b}) = IF b \in S THEN Cardinality(S) ELSE Cardinality(S) + 1
              /\ Cardinality(S \ {b}) = IF b \in S THEN Cardinality(S) - 1 ELSE Cardinality(S)
         /\ Cardinality({}) = 0
<1>1. Cardinality(DisplayBufs) \in Nat
  BY FS_CardinalityType DEF DisplayConstants
<1>2. \A S \in SUBSET DisplayBufs : IsFiniteSet(S) /\ Cardinality(S) \in Nat /\ Cardinality(S) <= Cardinality(DisplayBufs)
  BY FS_Subset, FS_CardinalityType DEF DisplayConstants
<1>3. \A S \in SUBSET DisplayBufs, b \in DisplayBufs :
        /\ Cardinality(S \cup {b}) = IF b \in S THEN Cardinality(S) ELSE Cardinality(S) + 1
        /\ Cardinality(S \ {b}) = IF b \in S THEN Cardinality(S) - 1 ELSE Cardinality(S)
  BY <1>2, FS_AddElement, FS_RemoveElement
<1> QED
  BY <1>1, <1>2, <1>3, FS_EmptySet

(* As many buffers are cancelled as the window keeps.                         *)
LEMMA CancelledAreFew ==
  ASSUME DisplayConstants
  PROVE  /\ Display!Cancelled \subseteq DisplayBufs
         /\ Cardinality(DisplayBufs \ Display!Cancelled) = Cardinality(DisplayBufs) - MinUndequeued
<1> DEFINE Enough == {n \in Nat : n >= MinUndequeued /\ \E S \in SUBSET DisplayBufs : Cardinality(S) = n}
           Less == {ss \in Nat \X Nat : ss[1] < ss[2]}
<1>1. Cardinality(DisplayBufs) \in Enough
  BY DisplaySets DEF DisplayConstants
<1>2. IsWellFoundedOn(Less, Nat)
  BY NatLessThanWellFounded DEF OpToRel
<1>3. PICK n \in Enough : \A m \in Enough : ~(<<m, n>> \in Less)
  <2> HIDE DEF Less
  <2>1. Enough \subseteq Nat /\ Enough # {}
    BY <1>1
  <2> QED
    BY <1>2, <2>1, WFMin
<1>4. PICK S \in SUBSET DisplayBufs : Cardinality(S) = n
  OBVIOUS
<1>5. n = MinUndequeued
  <2> SUFFICES ASSUME n > MinUndequeued PROVE FALSE
    BY DEF DisplayConstants
  <2>1. S # {}
    BY <1>4, DisplaySets DEF DisplayConstants
  <2>2. PICK b \in S : TRUE
    BY <2>1
  <2>3. Cardinality(S \ {b}) = n - 1
    BY <1>4, <2>2, DisplaySets
  <2>4. n - 1 \in Enough
    BY <2>3 DEF DisplayConstants
  <2>5. <<n - 1, n>> \in Less
    BY <2>4
  <2> QED
    BY <1>3, <2>4, <2>5
<1>6. Display!Cancelled \in SUBSET DisplayBufs /\ Cardinality(Display!Cancelled) = MinUndequeued
  BY <1>4, <1>5, DisplayCardinality DEF Display!Cancelled
<1>7. DisplayBufs \cap Display!Cancelled = Display!Cancelled
  BY <1>6
<1> QED
  BY <1>6, <1>7, FS_Difference DEF DisplayConstants

LEMMA DisplayInvInit == DisplayConstants /\ Display!Init => DisplayInv
<1> SUFFICES ASSUME DisplayConstants, Display!Init PROVE DisplayInv
  OBVIOUS
<1> USE DEF Display!Init
<1>1. DisplayTypes
  <2>1. inWindow \in [DisplayBufs -> {Display!None, "queued", "free"}]
    BY DEF Display!NoWindow, Display!None
  <2>2. mFramesType \in [DisplayBufs -> Display!Types \cup {Display!None}]
    BY DEF Display!Untyped
  <2>3. posting \in {<<>>} \cup (DisplayBufs \X BOOLEAN) /\ mDisplayQ \in Nat /\ windowFaults \in 0 .. DisplayFaults
    BY DEF DisplayConstants
  <2>4. withAdapter \subseteq DisplayBufs /\ atCamera \subseteq DisplayBufs
    OBVIOUS
  <2> QED
    BY <2>1, <2>2, <2>3, <2>4 DEF DisplayTypes, Display!None
<1>2. Commanded /\ Running
  BY DEF Commanded, Running
<1>3. FewMessages
  BY DisplaySets DEF FewMessages, InPost, InFetch
<1>4. Mapped /\ WindowFed
  BY DEF Mapped, WindowFed, Display!NoWindow, Display!Posting, Display!None
<1> QED
  BY <1>1, <1>2, <1>3, <1>4 DEF DisplayInv

LEMMA FaultCounted ==
  ASSUME NEW n \in Nat, NEW f \in 0 .. n, NEW g, g = f \/ (f < n /\ g = f + 1)
  PROVE  g \in 0 .. n
OBVIOUS

LEMMA DisplaySetPreviewWindowStep ==
  ASSUME DisplayConstants, DisplayInv, Display!SetPreviewWindow
  PROVE  DisplayInv'
<1> USE DEF Display!SetPreviewWindow, Display!stateVars, Display!windowVars, Display!Fail, DisplayInv
<1>1. DisplayTypes'
  <2>1. inWindow' \in [DisplayBufs -> {Display!None, "queued", "free"}]
    BY DEF Display!NoWindow, Display!None
  <2>2. /\ mANativeWindow' \in BOOLEAN /\ abandoned' \in BOOLEAN
        /\ UNCHANGED <<mBuffers, mDisplayState, mDisplayEnabled, subscribed, mPaused, displayMsgQ, halPc, mDisplayQ,
                       withAdapter, leftover, atCamera, mFramesType, posting, fetching, returning, raced,
                       displayCrashed, windowFaults>>
    OBVIOUS
  <2>3. DisplayTypes
    OBVIOUS
  <2> HIDE DEF Display!SetPreviewWindow, DisplayInv
  <2> QED
    BY <2>1, <2>2, <2>3 DEF DisplayTypes
<1>2. Commanded'
  BY DEF DisplayConstants, Commanded, Display!None, DisplayTypes
<1>3. Running'
  BY DEF DisplayConstants, Running, DisplayTypes, Commanded
<1>4. FewMessages'
  BY DisplaySets DEF DisplayConstants, FewMessages, InPost, InFetch, Running, DisplayTypes
<1>5. Mapped'
  BY DEF Display!NoWindow, DisplayConstants, Mapped, Running, Display!Posting, Display!None, DisplayTypes, Commanded
<1>6. WindowFed'
  BY DisplaySets DEF DisplayConstants, WindowFed, InFetch, Display!Dequeued, Display!None, DisplayTypes, Running, Commanded
<1> QED
  BY <1>1, <1>2, <1>3, <1>4, <1>5, <1>6

LEMMA DisplayAllocateBufferListStep ==
  ASSUME DisplayConstants, DisplayInv, Display!AllocateBufferList
  PROVE  DisplayInv'
<1> USE DEF Display!AllocateBufferList, Display!stateVars, Display!windowVars, Display!Fail, DisplayInv
<1>1. DisplayTypes'
  BY DEF DisplayConstants, DisplayTypes, Display!Types, Display!Untyped, Display!NoWindow, Display!None
<1>2. Commanded'
  BY DEF DisplayConstants, Commanded, Display!None, DisplayTypes
<1>3. Running'
  BY DEF DisplayConstants, Running, DisplayTypes, Commanded
<1>4. FewMessages'
  BY DisplaySets DEF DisplayConstants, FewMessages, InPost, InFetch, Running, DisplayTypes
<1>5. Mapped'
  BY DEF DisplayConstants, Mapped, Running, Display!Posting, Display!None, DisplayTypes, Commanded
<1>6. WindowFed'
  <2>1. Display!Cancelled \subseteq DisplayBufs /\ Cardinality(DisplayBufs \ Display!Cancelled) = Cardinality(DisplayBufs) - MinUndequeued
    BY CancelledAreFew
  <2>2. Display!Dequeued' = withAdapter' /\ withAdapter' = DisplayBufs \ Display!Cancelled
    BY <2>1 DEF Display!Dequeued, Display!None
  <2> QED
    BY <2>1, <2>2 DEF WindowFed, Running, Commanded
<1> QED
  BY <1>1, <1>2, <1>3, <1>4, <1>5, <1>6

LEMMA DisplayAllocateFailsStep ==
  ASSUME DisplayConstants, DisplayInv, Display!AllocateFails
  PROVE  DisplayInv'
<1> USE DEF Display!AllocateFails, Display!stateVars, Display!windowVars, Display!Fail, DisplayInv
<1>1. DisplayTypes'
  <2>1. /\ withAdapter' \subseteq DisplayBufs /\ leftover' \in BOOLEAN /\ mANativeWindow' \in BOOLEAN
        /\ abandoned' \in BOOLEAN /\ displayCrashed' \in BOOLEAN /\ windowFaults' \in 0 .. DisplayFaults
    <3>1. /\ withAdapter' \in {withAdapter, {}} /\ leftover' \in {leftover, TRUE, FALSE} /\ mANativeWindow' \in BOOLEAN
          /\ abandoned' \in BOOLEAN /\ displayCrashed' \in {TRUE, displayCrashed}
      BY DEF DisplayTypes
    <3>2. windowFaults' = windowFaults \/ (windowFaults < DisplayFaults /\ windowFaults' = windowFaults + 1)
      BY DEF Display!NoFault
    <3>3. DisplayTypes
      OBVIOUS
    <3> HIDE DEF Display!AllocateFails, DisplayInv
    <3>4. windowFaults' \in 0 .. DisplayFaults
      BY <3>2, <3>3, FaultCounted DEF DisplayTypes, DisplayConstants
    <3> QED
      BY <3>1, <3>3, <3>4 DEF DisplayTypes
  <2> QED
    BY <2>1 DEF DisplayTypes
<1>2. Commanded'
  BY DEF DisplayConstants, Commanded, Display!None, DisplayTypes
<1>3. Running'
  BY DEF DisplayConstants, Running, DisplayTypes, Commanded
<1>4. FewMessages'
  BY DisplaySets DEF DisplayConstants, FewMessages, InPost, InFetch, Running, DisplayTypes
<1>5. Mapped'
  BY DEF DisplayConstants, Mapped, Running, Display!Posting, Display!None, DisplayTypes, Commanded
<1>6. WindowFed'
  <2>1. (abandoned /\ windowFaults' = windowFaults) \/ windowFaults' = windowFaults + 1
    BY DEF Display!NoFault
  <2>2. windowFaults \in Nat /\ (windowFaults = 0 => ~abandoned)
    BY DEF DisplayTypes, DisplayConstants, WindowFed
  <2>3. windowFaults' # 0
    BY <2>1, <2>2
  <2> QED
    BY <2>3 DEF WindowFed
<1> QED
  BY <1>1, <1>2, <1>3, <1>4, <1>5, <1>6

LEMMA DisplayEnableDisplayStep ==
  ASSUME DisplayConstants, DisplayInv, Display!EnableDisplay
  PROVE  DisplayInv'
<1> USE DEF Display!EnableDisplay, Display!stateVars, Display!windowVars, Display!Fail, DisplayInv
<1>1. DisplayTypes'
  BY DEF DisplayConstants, DisplayTypes, Display!Types, Display!Untyped, Display!NoWindow, Display!None
<1>2. Commanded'
  BY DEF DisplayConstants, Commanded, Display!None, DisplayTypes
<1>3. Running'
  BY DEF DisplayConstants, Running, DisplayTypes, Commanded
<1>4. FewMessages'
  BY DisplaySets DEF DisplayConstants, FewMessages, InPost, InFetch, Running, DisplayTypes
<1>5. Mapped'
  BY DEF DisplayConstants, Mapped, Running, Display!Posting, Display!None, DisplayTypes, Commanded
<1>6. WindowFed'
  BY DisplaySets DEF DisplayConstants, WindowFed, InFetch, Display!Dequeued, Display!None, DisplayTypes, Running, Commanded
<1> QED
  BY <1>1, <1>2, <1>3, <1>4, <1>5, <1>6

LEMMA DisplayDisableDisplayStep ==
  ASSUME DisplayConstants, DisplayInv, Display!DisableDisplay("cancel") \/ Display!DisableDisplay("destroy")
  PROVE  DisplayInv'
<1> USE DEF Display!DisableDisplay, Display!stateVars, Display!windowVars, Display!Fail, DisplayInv
<1>1. DisplayTypes'
  <2>1. halPc' \in {"cancel", "destroy"} /\ displayMsgQ' = "DISPLAY_STOP"
    OBVIOUS
  <2> QED
    BY <2>1 DEF DisplayTypes
<1>2. Commanded'
  BY DEF DisplayConstants, Commanded, Display!None, DisplayTypes
<1>3. Running'
  BY DEF DisplayConstants, Running, DisplayTypes, Commanded
<1>4. FewMessages'
  BY DisplaySets DEF DisplayConstants, FewMessages, InPost, InFetch, Running, DisplayTypes
<1>5. Mapped'
  BY DEF DisplayConstants, Mapped, Running, Display!Posting, Display!None, DisplayTypes, Commanded
<1>6. WindowFed'
  BY DisplaySets DEF DisplayConstants, WindowFed, InFetch, Display!Dequeued, Display!None, DisplayTypes, Running, Commanded
<1> QED
  BY <1>1, <1>2, <1>3, <1>4, <1>5, <1>6

LEMMA DisplayPauseDisplayStep ==
  ASSUME DisplayConstants, DisplayInv, NEW pause \in BOOLEAN, Display!PauseDisplay(pause)
  PROVE  DisplayInv'
<1> USE DEF Display!PauseDisplay, Display!stateVars, Display!windowVars, Display!Fail, DisplayInv
<1>1. DisplayTypes'
  BY DEF DisplayConstants, DisplayTypes, Display!Types, Display!Untyped, Display!NoWindow, Display!None
<1>2. Commanded'
  BY DEF DisplayConstants, Commanded, Display!None, DisplayTypes
<1>3. Running'
  BY DEF DisplayConstants, Running, DisplayTypes, Commanded
<1>4. FewMessages'
  BY DisplaySets DEF DisplayConstants, FewMessages, InPost, InFetch, Running, DisplayTypes
<1>5. Mapped'
  BY DEF DisplayConstants, Mapped, Running, Display!Posting, Display!None, DisplayTypes, Commanded
<1>6. WindowFed'
  BY DisplaySets DEF DisplayConstants, WindowFed, InFetch, Display!Dequeued, Display!None, DisplayTypes, Running, Commanded
<1> QED
  BY <1>1, <1>2, <1>3, <1>4, <1>5, <1>6

(* What is left when the buffers have been returned to the window.            *)
LEMMA DisplayReturned ==
  ASSUME DisplayConstants, DisplayTypes, Display!ReturnBuffersToWindow
  PROVE  /\ mANativeWindow' \in BOOLEAN /\ leftover' \in BOOLEAN /\ windowFaults' \in 0 .. DisplayFaults
         /\ inWindow' \in [DisplayBufs -> {Display!None, "queued", "free"}] /\ withAdapter' \subseteq DisplayBufs
         /\ windowFaults' = 0 =>
              /\ windowFaults = 0
              /\ ~abandoned /\ ~leftover =>
                   /\ withAdapter' = {} /\ ~leftover' /\ mANativeWindow' = mANativeWindow
                   /\ mANativeWindow /\ Display!Dequeued = withAdapter => Display!Dequeued' = {}
<1> USE DEF Display!ReturnBuffersToWindow, Display!Fail, Display!NoFault
<1>1. PICK gone \in SUBSET DisplayBufs : inWindow' = Display!Return(gone) \/ inWindow' = inWindow
  BY DEF DisplayTypes
<1>2. inWindow' \in [DisplayBufs -> {Display!None, "queued", "free"}]
  <2>1. Display!Return(gone) \in [DisplayBufs -> {Display!None, "queued", "free"}]
    BY DEF DisplayTypes, Display!Return
  <2>2. inWindow \in [DisplayBufs -> {Display!None, "queued", "free"}]
    BY DEF DisplayTypes
  <2> HIDE DEF Display!ReturnBuffersToWindow
  <2> QED
    BY <1>1, <2>1, <2>2
<1>3. mANativeWindow' \in BOOLEAN /\ leftover' \in BOOLEAN /\ withAdapter' \subseteq DisplayBufs
  BY DEF DisplayTypes
<1>4. windowFaults' \in 0 .. DisplayFaults /\ (windowFaults' = 0 => windowFaults = 0)
  BY DEF DisplayTypes, DisplayConstants
<1>5. ASSUME windowFaults' = 0, ~abandoned, ~leftover
      PROVE  /\ withAdapter' = {} /\ ~leftover' /\ mANativeWindow' = mANativeWindow
             /\ mANativeWindow => inWindow' = Display!Return(withAdapter)
  BY <1>5 DEF DisplayTypes
<1>6. ASSUME inWindow' = Display!Return(withAdapter), Display!Dequeued = withAdapter PROVE Display!Dequeued' = {}
  BY <1>6 DEF Display!Return, Display!Dequeued, DisplayTypes, Display!None
<1> QED
  BY <1>2, <1>3, <1>4, <1>5, <1>6

LEMMA DisplayFreeBufferListStep ==
  ASSUME DisplayConstants, DisplayInv, Display!FreeBufferList
  PROVE  DisplayInv'
<1> USE DEF Display!FreeBufferList, Display!stateVars, Display!windowVars, Display!Fail, DisplayInv
<1>1. DisplayTypes'
  <2>1. mFramesType' \in [DisplayBufs -> Display!Types \cup {Display!None}]
    BY DEF Display!Untyped
  <2> QED
    BY <2>1, DisplayReturned DEF DisplayTypes
<1>2. Commanded'
  BY DEF DisplayConstants, Commanded, Display!None, DisplayTypes
<1>3. Running'
  BY DEF DisplayConstants, Running, DisplayTypes, Commanded
<1>4. FewMessages'
  BY DisplaySets DEF DisplayConstants, FewMessages, InPost, InFetch, Running, DisplayTypes
<1>5. Mapped'
  BY DEF DisplayConstants, Mapped, Running, Display!Posting, Display!None, DisplayTypes, Commanded
<1>6. WindowFed'
  <2>1. mBuffers' = "none" /\ ~mDisplayEnabled' /\ abandoned' = abandoned
    OBVIOUS
  <2> QED
    BY <2>1, DisplayReturned DEF WindowFed
<1> QED
  BY <1>1, <1>2, <1>3, <1>4, <1>5, <1>6

LEMMA DisplayDestroyStep ==
  ASSUME DisplayConstants, DisplayInv, Display!Destroy
  PROVE  DisplayInv'
<1> USE DEF Display!Destroy, Display!stateVars, Display!windowVars, Display!Fail, DisplayInv
<1>1. DisplayTypes'
  BY DEF DisplayConstants, DisplayTypes, Display!Types, Display!Untyped, Display!NoWindow, Display!None
<1>2. Commanded'
  BY DEF DisplayConstants, Commanded, Display!None, DisplayTypes
<1>3. Running'
  BY DEF DisplayConstants, Running, DisplayTypes, Commanded
<1>4. FewMessages'
  BY DisplaySets DEF DisplayConstants, FewMessages, InPost, InFetch, Running, DisplayTypes
<1>5. Mapped'
  BY DEF DisplayConstants, Mapped, Running, Display!Posting, Display!None, DisplayTypes, Commanded
<1>6. WindowFed'
  BY DisplaySets DEF DisplayConstants, WindowFed, InFetch, Display!Dequeued, Display!None, DisplayTypes, Running, Commanded
<1> QED
  BY <1>1, <1>2, <1>3, <1>4, <1>5, <1>6

LEMMA DisplayEnabledStep ==
  ASSUME DisplayConstants, DisplayInv, Display!Enabled
  PROVE  DisplayInv'
<1> USE DEF Display!Enabled, Display!stateVars, Display!windowVars, Display!Fail, DisplayInv
<1>1. DisplayTypes'
  BY DEF DisplayConstants, DisplayTypes, Display!Types, Display!Untyped, Display!NoWindow, Display!None
<1>2. Commanded'
  BY DEF DisplayConstants, Commanded, Display!None, DisplayTypes
<1>3. Running'
  BY DEF DisplayConstants, Running, DisplayTypes, Commanded
<1>4. FewMessages'
  BY DisplaySets DEF DisplayConstants, FewMessages, InPost, InFetch, Running, DisplayTypes
<1>5. Mapped'
  BY DEF DisplayConstants, Mapped, Running, Display!Posting, Display!None, DisplayTypes, Commanded
<1>6. WindowFed'
  <2>1. mDisplayQ = 0 /\ InFetch' = 0 /\ ~mDisplayEnabled /\ mBuffers = "fresh" /\ mDisplayQ' = mDisplayQ
    BY DEF Running, DisplayTypes, InFetch
  <2>2. Cardinality(DisplayBufs) \in Nat /\ MinUndequeued \in Nat /\ Cardinality(withAdapter) \in Nat
    BY DisplaySets DEF DisplayConstants, DisplayTypes
  <2> QED
    BY <2>1, <2>2 DEF WindowFed, Display!Dequeued
<1> QED
  BY <1>1, <1>2, <1>3, <1>4, <1>5, <1>6

LEMMA DisplayDisabledStep ==
  ASSUME DisplayConstants, DisplayInv, Display!Disabled
  PROVE  DisplayInv'
<1> USE DEF Display!Disabled, Display!stateVars, Display!windowVars, Display!Fail, DisplayInv
<1>1. DisplayTypes'
  <2>1. /\ mANativeWindow' \in BOOLEAN /\ leftover' \in BOOLEAN /\ windowFaults' \in 0 .. DisplayFaults
        /\ inWindow' \in [DisplayBufs -> {Display!None, "queued", "free"}] /\ withAdapter' \subseteq DisplayBufs
    BY DisplayReturned DEF DisplayTypes, Display!NoFault
  <2> QED
    BY <2>1 DEF DisplayTypes
<1>2. Commanded'
  BY DEF DisplayConstants, Commanded, Display!None, DisplayTypes
<1>3. Running'
  BY DEF DisplayConstants, Running, DisplayTypes, Commanded
<1>4. FewMessages'
  BY DisplaySets DEF DisplayConstants, FewMessages, InPost, InFetch, Running, DisplayTypes
<1>5. Mapped'
  BY DEF DisplayConstants, Mapped, Running, Display!Posting, Display!None, DisplayTypes, Commanded
<1>6. WindowFed'
  <2> SUFFICES ASSUME windowFaults' = 0 PROVE WindowFed'
    BY DEF WindowFed
  <2>1. mBuffers' = "shown" /\ ~mDisplayEnabled' /\ abandoned' = abandoned
    BY DEF Running
  <2>2. windowFaults = 0
    BY DisplayReturned DEF Display!NoFault
  <2>3. ~abandoned /\ ~leftover /\ (mANativeWindow => Display!Dequeued = withAdapter)
    BY <2>1, <2>2 DEF WindowFed
  <2>4. ~leftover' /\ (mANativeWindow' => Display!Dequeued' = withAdapter')
    BY <2>3, DisplayReturned
  <2> QED
    BY <2>1, <2>3, <2>4 DEF WindowFed
<1> QED
  BY <1>1, <1>2, <1>3, <1>4, <1>5, <1>6

LEMMA DisplayDestroyedStep ==
  ASSUME DisplayConstants, DisplayInv, Display!Destroyed
  PROVE  DisplayInv'
<1> USE DEF Display!Destroyed, Display!stateVars, Display!windowVars, Display!Fail, DisplayInv
<1>1. DisplayTypes'
  BY DEF DisplayConstants, DisplayTypes, Display!Types, Display!Untyped, Display!NoWindow, Display!None
<1>2. Commanded'
  BY DEF DisplayConstants, Commanded, Display!None, DisplayTypes
<1>3. Running'
  BY DEF DisplayConstants, Running, DisplayTypes, Commanded
<1>4. FewMessages'
  BY DisplaySets DEF DisplayConstants, FewMessages, InPost, InFetch, Running, DisplayTypes
<1>5. Mapped'
  BY DEF DisplayConstants, Mapped, Running, Display!Posting, Display!None, DisplayTypes, Commanded
<1>6. WindowFed'
  BY DisplaySets DEF DisplayConstants, WindowFed, InFetch, Display!Dequeued, Display!None, DisplayTypes, Running, Commanded
<1> QED
  BY <1>1, <1>2, <1>3, <1>4, <1>5, <1>6

LEMMA DisplayProcessHalMsgStep ==
  ASSUME DisplayConstants, DisplayInv, Display!ProcessHalMsg
  PROVE  DisplayInv'
<1> USE DEF Display!ProcessHalMsg, Display!stateVars, Display!windowVars, Display!Fail, DisplayInv
<1>1. DisplayTypes'
  BY DEF DisplayConstants, DisplayTypes, Display!Types, Display!Untyped, Display!NoWindow, Display!None
<1>2. Commanded'
  BY DEF DisplayConstants, Commanded, Display!None, DisplayTypes
<1>3. Running'
  BY DEF DisplayConstants, Running, DisplayTypes, Commanded
<1>4. FewMessages'
  BY DisplaySets DEF DisplayConstants, FewMessages, InPost, InFetch, Running, DisplayTypes
<1>5. Mapped'
  BY DEF DisplayConstants, Mapped, Running, Display!Posting, Display!None, DisplayTypes, Commanded
<1>6. WindowFed'
  BY DisplaySets DEF DisplayConstants, WindowFed, InFetch, Display!Dequeued, Display!None, DisplayTypes, Running, Commanded
<1> QED
  BY <1>1, <1>2, <1>3, <1>4, <1>5, <1>6

LEMMA DisplayTakeMessageStep ==
  ASSUME DisplayConstants, DisplayInv, Display!TakeMessage
  PROVE  DisplayInv'
<1> USE DEF Display!TakeMessage, Display!stateVars, Display!windowVars, Display!CanHandle, DisplayInv
<1>1. mDisplayQ' \in Nat /\ mDisplayQ' = mDisplayQ - 1 /\ ~fetching /\ mDisplayEnabled /\ mDisplayState = "STARTED"
  BY DEF DisplayTypes, Running
<1>2. DisplayTypes'
  BY <1>1 DEF DisplayTypes
<1>3. Commanded' /\ Running'
  BY <1>1 DEF Commanded, Running
<1>4. FewMessages'
  <2>1. Cardinality(atCamera) \in Nat /\ InPost \in Nat /\ Cardinality(DisplayBufs) \in Nat
    BY DisplaySets DEF DisplayTypes, InPost
  <2> QED
    BY <1>1, <2>1 DEF FewMessages, InPost, InFetch, DisplayTypes
<1>5. Mapped'
  BY DEF Mapped, Display!Posting
<1>6. WindowFed'
  <2>1. Cardinality(withAdapter) \in Nat
    BY DisplaySets DEF DisplayTypes
  <2> QED
    BY <1>1, <2>1 DEF WindowFed, InFetch, Display!Dequeued, DisplayTypes
<1> QED
  BY <1>2, <1>3, <1>4, <1>5, <1>6

LEMMA DisplayHandleFrameReturnStep ==
  ASSUME DisplayConstants, DisplayInv, Display!HandleFrameReturn
  PROVE  DisplayInv'
<1> USE DEF DisplayInv
<1>1. PICK b \in DisplayBufs :
        /\ inWindow[b] = "free" /\ inWindow' = [inWindow EXCEPT ![b] = Display!None]
        /\ \/ /\ UNCHANGED <<windowFaults, mANativeWindow>> /\ withAdapter' = withAdapter \cup {b}
              /\ \/ atCamera' = atCamera \cup {b} /\ returning' = b
                 \/ UNCHANGED <<atCamera, returning>>
           \/ /\ windowFaults < DisplayFaults /\ windowFaults' = windowFaults + 1 /\ mANativeWindow' \in BOOLEAN
              /\ UNCHANGED <<withAdapter, atCamera, returning>>
  BY DEF Display!HandleFrameReturn, Display!Noted, Display!Fail, Display!NoFault
<1>2. /\ fetching /\ fetching' = FALSE
      /\ UNCHANGED <<abandoned, leftover, displayCrashed, mBuffers, mDisplayState, mDisplayEnabled, subscribed, mPaused,
                     displayMsgQ, halPc, mDisplayQ, mFramesType, posting, raced>>
  BY DEF Display!HandleFrameReturn, Display!stateVars
<1>3. DisplayTypes'
  <2>1. windowFaults' \in 0 .. DisplayFaults /\ mANativeWindow' \in BOOLEAN
    BY <1>1 DEF DisplayTypes, DisplayConstants
  <2>2. inWindow' \in [DisplayBufs -> {Display!None, "queued", "free"}] /\ withAdapter' \subseteq DisplayBufs
    BY <1>1 DEF DisplayTypes, Display!None
  <2>3. atCamera' \subseteq DisplayBufs /\ returning' \in DisplayBufs \cup {Display!None}
    BY <1>1 DEF DisplayTypes
  <2> QED
    <3> HIDE DEF DisplayInv
    <3>1. DisplayTypes
      BY DEF DisplayInv
    <3>2. fetching' \in BOOLEAN
      BY <1>2
    <3> QED
      BY <1>2, <2>1, <2>2, <2>3, <3>1, <3>2 DEF DisplayTypes
<1>4. Commanded' /\ Running'
  BY <1>2 DEF Commanded, Running
<1>5. FewMessages'
  <2>1. atCamera' = atCamera \cup {b} \/ atCamera' = atCamera
    BY <1>1
  <2>2. atCamera \in SUBSET DisplayBufs /\ InPost' = InPost /\ InPost \in {0, 1} /\ InFetch = 1 /\ InFetch' = 0 /\ mDisplayQ \in Nat
        /\ mDisplayQ' = mDisplayQ /\ Cardinality(DisplayBufs) \in Nat
    BY <1>2, DisplaySets DEF DisplayTypes, InPost, InFetch
  <2> HIDE DEF DisplayInv
  <2>3. Cardinality(atCamera) \in Nat /\ Cardinality(atCamera \cup {b}) \in {Cardinality(atCamera), Cardinality(atCamera) + 1}
    BY <2>2, DisplaySets
  <2>4. Cardinality(atCamera') \in {Cardinality(atCamera), Cardinality(atCamera) + 1}
    BY <2>1, <2>3
  <2> QED
    BY <2>2, <2>3, <2>4 DEF DisplayInv, FewMessages
<1>6. Mapped'
  <2>1. mDisplayEnabled /\ (posting # <<>> => posting[1] # b)
    BY <1>1, <1>2 DEF Running, Mapped, Display!Posting, Display!None
  <2>2. atCamera' \cup Display!Posting' \subseteq withAdapter'
    BY <1>1, <1>2, <2>1 DEF Mapped, Display!Posting
  <2>3. \A c \in withAdapter' : inWindow'[c] = Display!None
    <3>1. withAdapter' \subseteq withAdapter \cup {b} /\ withAdapter' \subseteq DisplayBufs
      BY <1>1 DEF DisplayTypes
    <3>2. \A c \in withAdapter : inWindow[c] = Display!None
      BY <2>1 DEF Mapped
    <3>3. inWindow \in [DisplayBufs -> {Display!None, "queued", "free"}]
      BY DEF DisplayTypes
    <3> HIDE DEF DisplayInv
    <3> QED
      BY <1>1, <3>1, <3>2, <3>3
  <2> QED
    BY <1>1, <1>2, <2>1, <2>2, <2>3 DEF Mapped
<1>7. WindowFed'
  <2> SUFFICES ASSUME windowFaults' = 0 PROVE WindowFed'
    BY DEF WindowFed
  <2>1. /\ windowFaults = 0 /\ UNCHANGED <<windowFaults, mANativeWindow>> /\ withAdapter' = withAdapter \cup {b}
        /\ mDisplayEnabled /\ mBuffers = "shown" /\ mDisplayState = "STARTED"
    BY <1>1, <1>2 DEF DisplayTypes, Running
  <2>2. Display!Dequeued' = Display!Dequeued \cup {b} /\ b \notin Display!Dequeued
    <3>1. inWindow \in [DisplayBufs -> {Display!None, "queued", "free"}]
      BY DEF DisplayTypes
    <3> HIDE DEF DisplayInv
    <3> QED
      BY <1>1, <3>1 DEF Display!Dequeued, Display!None
  <2>3. Display!Dequeued = withAdapter /\ mDisplayQ + 1 + Cardinality(withAdapter) = Cardinality(DisplayBufs) - MinUndequeued
        /\ mANativeWindow /\ ~abandoned /\ ~leftover
    BY <1>2, <2>1 DEF WindowFed, InFetch
  <2>4. withAdapter \in SUBSET DisplayBufs
    BY DEF DisplayTypes
  <2>5. mDisplayQ \in Nat
    BY DEF DisplayTypes
  <2> HIDE DEF DisplayInv
  <2>6. Cardinality(withAdapter') = Cardinality(withAdapter) + 1 /\ Cardinality(withAdapter) \in Nat
    BY <2>1, <2>2, <2>3, <2>4, DisplaySets
  <2>7. InFetch' = 0 /\ mDisplayQ' + InFetch' + Cardinality(withAdapter') = Cardinality(DisplayBufs) - MinUndequeued
    BY <1>2, <2>3, <2>5, <2>6 DEF InFetch
  <2> QED
    BY <1>2, <2>1, <2>2, <2>3, <2>7 DEF WindowFed
<1> QED
  BY <1>3, <1>4, <1>5, <1>6, <1>7

LEMMA DisplayFrameReturnedStep ==
  ASSUME DisplayConstants, DisplayInv, Display!FrameReturned
  PROVE  DisplayInv'
<1> USE DEF Display!FrameReturned, Display!stateVars, Display!windowVars, Display!Fail, DisplayInv
<1>1. DisplayTypes'
  BY DEF DisplayConstants, DisplayTypes, Display!Types, Display!Untyped, Display!NoWindow, Display!None
<1>2. Commanded'
  BY DEF DisplayConstants, Commanded, Display!None, DisplayTypes
<1>3. Running'
  BY DEF DisplayConstants, Running, DisplayTypes, Commanded
<1>4. FewMessages'
  BY DisplaySets DEF DisplayConstants, FewMessages, InPost, InFetch, Running, DisplayTypes
<1>5. Mapped'
  BY DEF DisplayConstants, Mapped, Running, Display!Posting, Display!None, DisplayTypes, Commanded
<1>6. WindowFed'
  BY DisplaySets DEF DisplayConstants, WindowFed, InFetch, Display!Dequeued, Display!None, DisplayTypes, Running, Commanded
<1> QED
  BY <1>1, <1>2, <1>3, <1>4, <1>5, <1>6

LEMMA DisplayNothingReturnedStep ==
  ASSUME DisplayConstants, DisplayInv, Display!NothingReturned
  PROVE  DisplayInv'
<1> USE DEF Display!NothingReturned, Display!stateVars, Display!windowVars, Display!Fail, Display!CanHandle, DisplayInv
<1>1. DisplayTypes'
  <2>1. mANativeWindow' \in BOOLEAN /\ windowFaults' \in 0 .. DisplayFaults /\ fetching' \in BOOLEAN
    <3>1. mANativeWindow' \in {mANativeWindow, FALSE} /\ fetching' = FALSE
      OBVIOUS
    <3>2. windowFaults' = windowFaults \/ (windowFaults < DisplayFaults /\ windowFaults' = windowFaults + 1)
      BY DEF Display!NoFault
    <3>3. DisplayTypes
      OBVIOUS
    <3> HIDE DEF Display!NothingReturned, DisplayInv
    <3>4. windowFaults' \in 0 .. DisplayFaults
      BY <3>2, <3>3, FaultCounted DEF DisplayTypes, DisplayConstants
    <3> QED
      BY <3>1, <3>3, <3>4 DEF DisplayTypes
  <2> QED
    BY <2>1 DEF DisplayTypes
<1>2. Commanded'
  BY DEF DisplayConstants, Commanded, Display!None, DisplayTypes
<1>3. Running'
  BY DEF DisplayConstants, Running, DisplayTypes, Commanded
<1>4. FewMessages'
  BY DisplaySets DEF DisplayConstants, FewMessages, InPost, InFetch, Running, DisplayTypes
<1>5. Mapped'
  BY DEF DisplayConstants, Mapped, Running, Display!Posting, Display!None, DisplayTypes, Commanded
<1>6. WindowFed'
  <2>1. (abandoned /\ windowFaults' = windowFaults) \/ windowFaults' = windowFaults + 1
    BY DEF Display!NoFault
  <2>2. windowFaults \in Nat /\ (windowFaults = 0 => ~abandoned)
    BY DEF DisplayTypes, DisplayConstants, WindowFed
  <2>3. windowFaults' # 0
    BY <2>1, <2>2
  <2> QED
    BY <2>3 DEF WindowFed
<1> QED
  BY <1>1, <1>2, <1>3, <1>4, <1>5, <1>6

LEMMA DisplayPostStep ==
  ASSUME DisplayConstants, DisplayInv, Display!Post
  PROVE  DisplayInv'
<1> USE DEF Display!Post, Display!stateVars, Display!windowVars, Display!Fail, Display!NoFault, DisplayInv
<1>1. DisplayTypes'
  <2>1. posting \in DisplayBufs \X BOOLEAN /\ posting' = <<>>
    BY DEF DisplayTypes
  <2>2. inWindow' \in [DisplayBufs -> {Display!None, "queued", "free"}]
    BY <2>1 DEF DisplayTypes
  <2>3. /\ withAdapter' \subseteq DisplayBufs /\ mDisplayQ' \in Nat /\ displayCrashed' \in BOOLEAN
        /\ windowFaults' \in 0 .. DisplayFaults
    <3>1. /\ withAdapter' \in {withAdapter, withAdapter \ {posting[1]}} /\ mDisplayQ' \in {mDisplayQ, mDisplayQ + 1}
          /\ displayCrashed' \in {TRUE, displayCrashed}
      OBVIOUS
    <3>2. windowFaults' = windowFaults \/ (windowFaults < DisplayFaults /\ windowFaults' = windowFaults + 1)
      OBVIOUS
    <3>3. DisplayTypes
      OBVIOUS
    <3> HIDE DEF Display!Post, DisplayInv
    <3>4. windowFaults' \in 0 .. DisplayFaults
      BY <3>2, <3>3, FaultCounted DEF DisplayTypes, DisplayConstants
    <3>5. mDisplayQ \in Nat /\ withAdapter \subseteq DisplayBufs /\ displayCrashed \in BOOLEAN
      BY <3>3 DEF DisplayTypes
    <3>6. mDisplayQ' \in Nat
      BY <3>1, <3>5
    <3>7. withAdapter' \subseteq DisplayBufs /\ displayCrashed' \in BOOLEAN
      BY <3>1, <3>5
    <3> QED
      BY <3>4, <3>6, <3>7
  <2> QED
    BY <2>1, <2>2, <2>3 DEF DisplayTypes
<1>2. Commanded'
  BY DEF DisplayConstants, Commanded, Display!None, DisplayTypes
<1>3. Running'
  BY DEF DisplayConstants, Running, DisplayTypes, Commanded
<1>4. FewMessages'
  BY DisplaySets DEF DisplayConstants, FewMessages, InPost, InFetch, Running, DisplayTypes
<1>5. Mapped'
  BY DEF DisplayConstants, Mapped, Running, Display!Posting, Display!None, DisplayTypes, Commanded
<1>6. WindowFed'
  <2> SUFFICES ASSUME windowFaults' = 0 PROVE WindowFed'
    BY DEF WindowFed
  <2> DEFINE b == posting[1]
  <2>0. windowFaults = 0 /\ mDisplayEnabled /\ mANativeWindow /\ posting \in DisplayBufs \X BOOLEAN
    <3>1. windowFaults = 0 /\ mDisplayEnabled /\ posting \in DisplayBufs \X BOOLEAN
      BY DEF DisplayTypes, Running
    <3> QED
      BY <3>1 DEF WindowFed
  <2>1. /\ windowFaults = 0 /\ b \in withAdapter /\ withAdapter' = withAdapter \ {b} /\ mDisplayQ' = mDisplayQ + 1
        /\ inWindow' = [inWindow EXCEPT ![b] = IF posting[2] THEN "queued" ELSE "free"]
        /\ mDisplayEnabled /\ mANativeWindow /\ b \in DisplayBufs
    <3>1. b \in withAdapter
      BY <2>0 DEF Mapped, Display!Posting
    <3> QED
      BY <2>0, <3>1 DEF DisplayTypes
  <2>2. Display!Dequeued' = Display!Dequeued \ {b}
    BY <2>1 DEF DisplayTypes, Display!Dequeued, Display!None
  <2>3. Cardinality(withAdapter') = Cardinality(withAdapter) - 1
    <3>1. withAdapter \in SUBSET DisplayBufs /\ b \in DisplayBufs
      BY <2>1 DEF DisplayTypes
    <3> HIDE DEF b, DisplayInv, Display!Post
    <3> QED
      BY <2>1, <3>1, DisplaySets
  <2>4. Cardinality(withAdapter) \in Nat /\ Cardinality(DisplayBufs) \in Nat /\ MinUndequeued \in Nat
    BY DisplaySets DEF DisplayTypes, DisplayConstants
  <2> HIDE DEF b
  <2> QED
    <3>1. Display!Dequeued' = withAdapter' /\ Running
      BY <2>1, <2>2 DEF WindowFed, Running
    <3>2. mDisplayState = "STARTED" =>
            mDisplayQ' + InFetch' + Cardinality(withAdapter') = Cardinality(DisplayBufs) - MinUndequeued
      BY <2>1, <2>3, <2>4 DEF WindowFed, InFetch, DisplayTypes
    <3> QED
      BY <2>1, <3>1, <3>2 DEF WindowFed, Running
<1> QED
  BY <1>1, <1>2, <1>3, <1>4, <1>5, <1>6

LEMMA DisplayComposeStep ==
  ASSUME DisplayConstants, DisplayInv, NEW b \in DisplayBufs, Display!Compose(b)
  PROVE  DisplayInv'
<1> USE DEF Display!Compose, Display!stateVars, Display!windowVars, Display!Fail, DisplayInv
<1>1. DisplayTypes'
  BY DEF DisplayConstants, DisplayTypes, Display!Types, Display!Untyped, Display!NoWindow, Display!None
<1>2. Commanded'
  BY DEF DisplayConstants, Commanded, Display!None, DisplayTypes
<1>3. Running'
  BY DEF DisplayConstants, Running, DisplayTypes, Commanded
<1>4. FewMessages'
  BY DisplaySets DEF DisplayConstants, FewMessages, InPost, InFetch, Running, DisplayTypes
<1>5. Mapped'
  BY DEF DisplayConstants, Mapped, Running, Display!Posting, Display!None, DisplayTypes, Commanded
<1>6. WindowFed'
  BY DisplaySets DEF DisplayConstants, WindowFed, InFetch, Display!Dequeued, Display!None, DisplayTypes, Running, Commanded
<1> QED
  BY <1>1, <1>2, <1>3, <1>4, <1>5, <1>6

LEMMA DisplayFrameStep ==
  ASSUME DisplayConstants, DisplayInv, NEW b \in DisplayBufs, NEW type \in Display!Types, Display!Frame(b, type)
  PROVE  DisplayInv'
<1> USE DEF Display!Frame, Display!stateVars, Display!windowVars, Display!Fail, DisplayInv
<1>1. DisplayTypes'
  <2>1. posting' \in {<<>>} \cup (DisplayBufs \X BOOLEAN)
    <3>1. CASE mANativeWindow
      <4> DEFINE shown == mDisplayState = "STARTED" /\ (~mPaused \/ type = "SNAPSHOT_FRAME")
      <4>1. posting' = <<b, shown>> /\ shown \in BOOLEAN
        BY <3>1
      <4> HIDE DEF shown
      <4> QED
        BY <4>1
    <3>2. CASE ~mANativeWindow
      BY <3>2 DEF DisplayTypes
    <3> QED
      BY <3>1, <3>2
  <2>2. mFramesType' \in [DisplayBufs -> Display!Types \cup {Display!None}] /\ raced' \in BOOLEAN
    BY DEF DisplayTypes
  <2> QED
    BY <2>1, <2>2 DEF DisplayConstants, DisplayTypes, Display!Types, Display!Untyped, Display!NoWindow, Display!None
<1>2. Commanded'
  BY DEF DisplayConstants, Commanded, Display!None, DisplayTypes
<1>3. Running'
  BY DEF DisplayConstants, Running, DisplayTypes, Commanded
<1>4. FewMessages'
  <2>1. atCamera \subseteq DisplayBufs /\ atCamera' = atCamera \ {b} /\ b \in atCamera /\ mDisplayQ' = mDisplayQ
    BY DEF DisplayTypes
  <2>2. Cardinality(atCamera') = Cardinality(atCamera) - 1 /\ Cardinality(atCamera) \in Nat
    BY <2>1, DisplaySets
  <2>3. InPost = 0 /\ InPost' \in {0, 1} /\ InFetch' = InFetch /\ InFetch \in {0, 1} /\ mDisplayQ \in Nat
    BY DEF InPost, InFetch, DisplayTypes
  <2> QED
    BY <2>1, <2>2, <2>3, DisplaySets DEF FewMessages, DisplayTypes
<1>5. Mapped'
  BY DEF DisplayConstants, Mapped, Running, Display!Posting, Display!None, DisplayTypes, Commanded
<1>6. WindowFed'
  BY DisplaySets DEF DisplayConstants, WindowFed, InFetch, Display!Dequeued, Display!None, DisplayTypes, Running, Commanded
<1> QED
  BY <1>1, <1>2, <1>3, <1>4, <1>5, <1>6

LEMMA DisplayAbandonStep ==
  ASSUME DisplayConstants, DisplayInv, Display!Abandon
  PROVE  DisplayInv'
<1> USE DEF Display!Abandon, Display!stateVars, Display!windowVars, Display!Fail, DisplayInv
<1>1. DisplayTypes'
  BY DEF DisplayConstants, DisplayTypes, Display!Types, Display!Untyped, Display!NoWindow, Display!None
<1>2. Commanded'
  BY DEF DisplayConstants, Commanded, Display!None, DisplayTypes
<1>3. Running'
  BY DEF DisplayConstants, Running, DisplayTypes, Commanded
<1>4. FewMessages'
  BY DisplaySets DEF DisplayConstants, FewMessages, InPost, InFetch, Running, DisplayTypes
<1>5. Mapped'
  BY DEF DisplayConstants, Mapped, Running, Display!Posting, Display!None, DisplayTypes, Commanded
<1>6. WindowFed'
  BY DisplaySets DEF DisplayConstants, WindowFed, InFetch, Display!Dequeued, Display!None, DisplayTypes, Running, Commanded
<1> QED
  BY <1>1, <1>2, <1>3, <1>4, <1>5, <1>6


LEMMA DisplayInvStep == DisplayConstants /\ DisplayInv /\ [Display!Next]_Display!displayVars => DisplayInv'
<1> SUFFICES ASSUME DisplayConstants, DisplayInv, [Display!Next]_Display!displayVars PROVE DisplayInv'
  OBVIOUS
<1>1. CASE UNCHANGED Display!displayVars
  BY <1>1 DEF Display!displayVars, DisplayInv, DisplayTypes, Commanded, Running, FewMessages, InPost, InFetch, Mapped,
              WindowFed, Display!Posting, Display!Dequeued
<1>2. CASE Display!HalCalls
  BY <1>2, DisplaySetPreviewWindowStep, DisplayAllocateBufferListStep, DisplayAllocateFailsStep,
     DisplayEnableDisplayStep, DisplayDisableDisplayStep, DisplayPauseDisplayStep, DisplayFreeBufferListStep,
     DisplayDestroyStep
     DEF Display!HalCalls
<1>3. CASE Display!HalWaits
  BY <1>3, DisplayEnabledStep, DisplayDisabledStep, DisplayDestroyedStep DEF Display!HalWaits
<1>4. CASE Display!DisplayThread
  BY <1>4, DisplayProcessHalMsgStep, DisplayHandleFrameReturnStep, DisplayFrameReturnedStep,
     DisplayNothingReturnedStep, DisplayTakeMessageStep
     DEF Display!DisplayThread
<1>5. CASE \E b \in DisplayBufs : Display!Compose(b) \/ \E type \in Display!Types : Display!Frame(b, type)
  BY <1>5, DisplayComposeStep, DisplayFrameStep
<1>6. CASE Display!Post \/ Display!Abandon
  BY <1>6, DisplayPostStep, DisplayAbandonStep
<1> QED
  BY <1>1, <1>2, <1>3, <1>4, <1>5, <1>6 DEF Display!Next

DisplayProps == Display!TypeOK /\ Display!MapIsExact /\ Display!MessagesMatchWindow /\ Display!AllReturned
LEMMA DisplayInvImplies == DisplayConstants /\ DisplayInv => DisplayProps
<1> SUFFICES ASSUME DisplayConstants, DisplayInv PROVE DisplayProps
  OBVIOUS
<1> USE DEF DisplayInv
<1>1. Display!TypeOK
  <2>1. Cardinality(atCamera) \in Nat /\ InPost \in Nat /\ InFetch \in Nat /\ Cardinality(DisplayBufs) \in Nat
    BY DisplaySets DEF DisplayTypes, InPost, InFetch
  <2>2. mDisplayQ \in 0 .. Cardinality(DisplayBufs)
    BY <2>1 DEF FewMessages, DisplayTypes
  <2> QED
    BY <2>2, DisplayCardinality DEF Display!TypeOK, DisplayTypes
<1>2. Display!MapIsExact
  BY DEF Mapped, Display!MapIsExact
<1>3. Display!MessagesMatchWindow
  <2>1. Cardinality(withAdapter) \in Nat /\ Cardinality(DisplayBufs) \in Nat /\ MinUndequeued \in Nat /\ mDisplayQ \in Nat
    BY DisplaySets DEF DisplayTypes, DisplayConstants
  <2> SUFFICES ASSUME mDisplayState = "STARTED", mDisplayEnabled, windowFaults = 0
               PROVE  mDisplayQ + InFetch = (Cardinality(DisplayBufs) - MinUndequeued) - Cardinality(Display!Dequeued)
    BY DisplayCardinality DEF Display!MessagesMatchWindow, InFetch
  <2>2. Display!Dequeued = withAdapter
    BY DEF WindowFed, Running
  <2>3. mDisplayQ + InFetch + Cardinality(withAdapter) = Cardinality(DisplayBufs) - MinUndequeued /\ InFetch \in Nat
    BY DEF WindowFed, InFetch
  <2> QED
    BY <2>1, <2>2, <2>3
<1>4. Display!AllReturned
  BY DEF WindowFed, Display!AllReturned
<1> QED
  BY <1>1, <1>2, <1>3, <1>4 DEF DisplayProps

(* No buffer of the window is lost or kept twice: the map names the buffers   *)
(* that were dequeued, each message stands for a buffer the window is to      *)
(* give, and after a disable all of them are the window's again.              *)
THEOREM DisplayConserves ==
  ASSUME DisplayConstants
  PROVE  Display!Spec => [](Display!TypeOK /\ Display!MapIsExact /\ Display!MessagesMatchWindow /\ Display!AllReturned)
<1>1. DisplayInv => Display!TypeOK /\ Display!MapIsExact /\ Display!MessagesMatchWindow /\ Display!AllReturned
  BY DisplayInvImplies DEF DisplayProps
<1>2. Display!Init => DisplayInv
  BY DisplayInvInit
<1>3. DisplayInv /\ [Display!Next]_Display!displayVars => DisplayInv'
  BY DisplayInvStep
<1> QED
  BY <1>1, <1>2, <1>3, PTL DEF Display!Spec
-----------------------------------------------------------------------------
(* The module                                                                *)

(* MAX_SIMUL_CAMERAS_SUPPORTED is 1.                                          *)
ModuleConstants ==
  /\ CameraIds \subseteq Nat \ {Loader!NoCamera} /\ Loader!NoThread \notin ServiceThreads
  /\ CamerasFound \in Nat /\ MaxSimulCameras = 1

Opening == {"adapter", "parts", "sensor", "opened", "failed"}
Closing == {"closing", "closed"}

ModuleTypes ==
  /\ mInitialized \in BOOLEAN /\ mCamerasSupported \in {0, CamerasFound} /\ missing = FALSE
  /\ gCameraHalDeviceLock \in ServiceThreads \cup {Loader!NoThread} /\ gCamerasOpen \in 0 .. 1
  /\ gCameraHals \in [CameraIds -> BOOLEAN] /\ adapters \subseteq CameraIds
  /\ modulePc \in [ServiceThreads -> {"idle", "loading"} \cup Opening \cup Closing]
  /\ asked \in [ServiceThreads -> CameraIds \cup {Loader!NoCamera}]
  /\ device \in [ServiceThreads -> CameraIds \cup {Loader!NoCamera}]
  /\ listener \in CameraIds \cup {Loader!NoCamera} /\ inCallback \in {listener, Loader!NoCamera}

ModuleLocked == \A t \in ServiceThreads : modulePc[t] \in Opening \cup Closing <=> gCameraHalDeviceLock = t

(* The table has the camera of the one device, or nothing.                    *)
OneDevice ==
  /\ gCamerasOpen = 0 => /\ \A t \in ServiceThreads : device[t] = Loader!NoCamera
                         /\ \A i \in CameraIds : ~gCameraHals[i]
  /\ gCamerasOpen = 1 => \E t \in ServiceThreads :
       /\ device[t] # Loader!NoCamera
       /\ \A s \in ServiceThreads \ {t} : device[s] = Loader!NoCamera
       /\ \A i \in CameraIds : gCameraHals[i] <=> i = device[t]

(* What a thread that opens or closes has done so far.                        *)
Progress ==
  /\ \A t \in ServiceThreads :
       /\ modulePc[t] \in Opening => gCamerasOpen = 0 /\ asked[t] \in CameraIds
       /\ modulePc[t] = "adapter" => adapters = {}
       /\ modulePc[t] \in {"parts", "sensor", "opened"} => adapters = {asked[t]}
       /\ modulePc[t] = "failed" => adapters \subseteq {asked[t]}
       /\ modulePc[t] \in Closing => device[t] # Loader!NoCamera
  /\ (\A t \in ServiceThreads : modulePc[t] \notin Opening) => adapters = {i \in CameraIds : gCameraHals[i]}

(* The listener's camera is alive.                                            *)
Listening ==
  listener # Loader!NoCamera =>
    /\ listener \in adapters
    /\ \A t \in ServiceThreads : modulePc[t] \notin {"adapter", "parts", "sensor", "failed", "closed"}

ModuleInv == ModuleTypes /\ ModuleLocked /\ OneDevice /\ Progress /\ Listening
-----------------------------------------------------------------------------
LEMMA ModuleInvInit == ModuleConstants /\ Loader!Init => ModuleInv
<1> SUFFICES ASSUME ModuleConstants, Loader!Init PROVE ModuleInv
  OBVIOUS
<1> USE DEF Loader!Init, ModuleConstants
<1>1. ModuleTypes
  <2>1. gCameraHals \in [CameraIds -> BOOLEAN] /\ modulePc \in [ServiceThreads -> {"idle", "loading"} \cup Opening \cup Closing]
    OBVIOUS
  <2>2. /\ asked \in [ServiceThreads -> CameraIds \cup {Loader!NoCamera}]
        /\ device \in [ServiceThreads -> CameraIds \cup {Loader!NoCamera}]
    OBVIOUS
  <2>3. gCamerasOpen \in 0 .. 1 /\ adapters \subseteq CameraIds /\ mCamerasSupported \in {0, CamerasFound}
    OBVIOUS
  <2>4. inCallback \in {listener, Loader!NoCamera} /\ listener \in CameraIds \cup {Loader!NoCamera}
    OBVIOUS
  <2> QED
    BY <2>1, <2>2, <2>3, <2>4 DEF ModuleTypes
<1>2. ModuleLocked
  BY DEF ModuleLocked, Opening, Closing
<1>3. OneDevice
  BY DEF OneDevice
<1>4. Progress /\ Listening
  BY DEF Progress, Listening, Opening, Closing
<1> QED
  BY <1>1, <1>2, <1>3, <1>4 DEF ModuleInv

LEMMA ModuleInitializePropertiesStep ==
  ASSUME ModuleConstants, ModuleInv, NEW t \in ServiceThreads, Loader!InitializeProperties(t)
  PROVE  ModuleInv'
<1> USE DEF Loader!InitializeProperties, Loader!At, Loader!table, Loader!cameraProperties, Loader!camera, ModuleInv
<1>1. ModuleTypes'
  BY DEF ModuleConstants, ModuleTypes, Opening, Closing, ModuleLocked, Progress, OneDevice
<1>2. ModuleLocked'
  BY DEF ModuleConstants, ModuleLocked, Opening, Closing, ModuleTypes
<1>3. OneDevice'
  BY DEF ModuleConstants, OneDevice, Opening, Closing, ModuleTypes, Progress
<1>4. Progress'
  BY DEF ModuleConstants, Progress, Opening, Closing, ModuleTypes, ModuleLocked, OneDevice
<1>5. Listening'
  BY DEF ModuleConstants, Listening, Opening, Closing, ModuleTypes, ModuleLocked, Progress, OneDevice
<1> QED
  BY <1>1, <1>2, <1>3, <1>4, <1>5

LEMMA ModuleLoadPropertiesStep ==
  ASSUME ModuleConstants, ModuleInv, NEW t \in ServiceThreads, Loader!LoadProperties(t)
  PROVE  ModuleInv'
<1> USE DEF Loader!LoadProperties, Loader!At, Loader!table, Loader!cameraProperties, Loader!camera, Loader!ModuleFault, ModuleInv
<1>1. ModuleTypes'
  <2>1. mCamerasSupported' \in {0, CamerasFound}
    BY DEF ModuleTypes
  <2>3. mInitialized' \in BOOLEAN
    <3>1. (CamerasFound > 0) \in BOOLEAN
      BY DEF ModuleConstants
    <3>2. mInitialized' = (CamerasFound > 0) \/ mInitialized' = mInitialized
      OBVIOUS
    <3> HIDE DEF Loader!LoadProperties
    <3> QED
      BY <3>1, <3>2 DEF ModuleTypes
  <2>2. modulePc' \in [ServiceThreads -> {"idle", "loading"} \cup Opening \cup Closing]
    BY DEF ModuleTypes
  <2> QED
    BY <2>1, <2>2, <2>3 DEF ModuleTypes
<1>2. ModuleLocked'
  BY DEF ModuleConstants, ModuleLocked, Opening, Closing, ModuleTypes
<1>3. OneDevice'
  BY DEF ModuleConstants, OneDevice, Opening, Closing, ModuleTypes, Progress
<1>4. Progress'
  BY DEF ModuleConstants, Progress, Opening, Closing, ModuleTypes, ModuleLocked, OneDevice
<1>5. Listening'
  BY DEF ModuleConstants, Listening, Opening, Closing, ModuleTypes, ModuleLocked, Progress, OneDevice
<1> QED
  BY <1>1, <1>2, <1>3, <1>4, <1>5

LEMMA ModuleOpenStep ==
  ASSUME ModuleConstants, ModuleInv, NEW t \in ServiceThreads, Loader!Open(t)
  PROVE  ModuleInv'
<1> USE DEF Loader!Open, Loader!At, Loader!table, Loader!cameraProperties, Loader!camera, Loader!GetProperties, ModuleInv
<1>1. ModuleTypes'
  BY DEF ModuleConstants, ModuleTypes, Opening, Closing, ModuleLocked, Progress, OneDevice
<1>2. ModuleLocked'
  BY DEF ModuleConstants, ModuleLocked, Opening, Closing, ModuleTypes
<1>3. OneDevice'
  BY DEF ModuleConstants, OneDevice, Opening, Closing, ModuleTypes, Progress
<1>4. Progress'
  BY DEF ModuleConstants, Progress, Opening, Closing, ModuleTypes, ModuleLocked, OneDevice
<1>5. Listening'
  BY DEF ModuleConstants, Listening, Opening, Closing, ModuleTypes, ModuleLocked, Progress, OneDevice
<1> QED
  BY <1>1, <1>2, <1>3, <1>4, <1>5

LEMMA ModuleInitializeAdapterStep ==
  ASSUME ModuleConstants, ModuleInv, NEW t \in ServiceThreads, Loader!InitializeAdapter(t)
  PROVE  ModuleInv'
<1> USE DEF Loader!InitializeAdapter, Loader!At, Loader!table, Loader!cameraProperties, Loader!camera, Loader!ModuleFault, ModuleInv
<1>1. ModuleTypes'
  BY DEF ModuleConstants, ModuleTypes, Opening, Closing, ModuleLocked, Progress, OneDevice
<1>2. ModuleLocked'
  BY DEF ModuleConstants, ModuleLocked, Opening, Closing, ModuleTypes
<1>3. OneDevice'
  BY DEF ModuleConstants, OneDevice, Opening, Closing, ModuleTypes, Progress
<1>4. Progress'
  <2>1. \A s \in ServiceThreads \ {t} : modulePc'[s] = modulePc[s] /\ modulePc[s] \notin Opening \cup Closing
    BY DEF ModuleTypes, ModuleLocked, Opening, ModuleConstants

  <2>2. modulePc'[t] \in {"parts", "failed"} /\ modulePc[t] = "adapter" /\ gCamerasOpen = 0 /\ asked[t] \in CameraIds /\ adapters = {}
    BY DEF ModuleTypes, Progress, Opening
  <2>3. /\ modulePc'[t] = "parts" => adapters' = {asked[t]}
        /\ modulePc'[t] = "failed" => adapters' = {}
    BY <2>2 DEF ModuleTypes
  <2> QED
    BY <2>1, <2>2, <2>3 DEF Progress, Opening, Closing
<1>5. Listening'
  BY DEF ModuleConstants, Listening, Opening, Closing, ModuleTypes, ModuleLocked, Progress, OneDevice
<1> QED
  BY <1>1, <1>2, <1>3, <1>4, <1>5

LEMMA ModuleInitializePartsStep ==
  ASSUME ModuleConstants, ModuleInv, NEW t \in ServiceThreads, Loader!InitializeParts(t)
  PROVE  ModuleInv'
<1> USE DEF Loader!InitializeParts, Loader!At, Loader!table, Loader!cameraProperties, Loader!camera, Loader!ModuleFault, ModuleInv
<1>1. ModuleTypes'
  BY DEF ModuleConstants, ModuleTypes, Opening, Closing, ModuleLocked, Progress, OneDevice
<1>2. ModuleLocked'
  BY DEF ModuleConstants, ModuleLocked, Opening, Closing, ModuleTypes
<1>3. OneDevice'
  BY DEF ModuleConstants, OneDevice, Opening, Closing, ModuleTypes, Progress
<1>4. Progress'
  BY DEF ModuleConstants, Progress, Opening, Closing, ModuleTypes, ModuleLocked, OneDevice
<1>5. Listening'
  BY DEF ModuleConstants, Listening, Opening, Closing, ModuleTypes, ModuleLocked, Progress, OneDevice
<1> QED
  BY <1>1, <1>2, <1>3, <1>4, <1>5

LEMMA ModuleInitializeSensorStep ==
  ASSUME ModuleConstants, ModuleInv, NEW t \in ServiceThreads, Loader!InitializeSensor(t)
  PROVE  ModuleInv'
<1> USE DEF Loader!InitializeSensor, Loader!At, Loader!table, Loader!cameraProperties, Loader!camera, Loader!ModuleFault, ModuleInv
<1>1. ModuleTypes'
  <2>1. listener = Loader!NoCamera /\ inCallback = Loader!NoCamera /\ asked[t] \in CameraIds
    BY DEF ModuleTypes, Listening, Progress, Opening
  <2>2. listener' \in CameraIds \cup {Loader!NoCamera} /\ inCallback' = Loader!NoCamera
    BY <2>1
  <2>3. modulePc' \in [ServiceThreads -> {"idle", "loading"} \cup Opening \cup Closing]
    BY DEF ModuleTypes, Opening
  <2> QED
    BY <2>2, <2>3 DEF ModuleTypes
<1>2. ModuleLocked'
  BY DEF ModuleConstants, ModuleLocked, Opening, Closing, ModuleTypes
<1>3. OneDevice'
  BY DEF ModuleConstants, OneDevice, Opening, Closing, ModuleTypes, Progress
<1>4. Progress'
  BY DEF ModuleConstants, Progress, Opening, Closing, ModuleTypes, ModuleLocked, OneDevice
<1>5. Listening'
  BY DEF ModuleConstants, Listening, Opening, Closing, ModuleTypes, ModuleLocked, Progress, OneDevice
<1> QED
  BY <1>1, <1>2, <1>3, <1>4, <1>5

LEMMA ModuleOpenedStep ==
  ASSUME ModuleConstants, ModuleInv, NEW t \in ServiceThreads, Loader!Opened(t)
  PROVE  ModuleInv'
<1> USE DEF Loader!Opened, Loader!At, Loader!table, Loader!cameraProperties, Loader!camera, ModuleInv
<1>1. ModuleTypes'
  BY DEF ModuleConstants, ModuleTypes, Opening, Closing, ModuleLocked, Progress, OneDevice
<1>2. ModuleLocked'
  BY DEF ModuleConstants, ModuleLocked, Opening, Closing, ModuleTypes
<1>3. OneDevice'
  <2>1. gCamerasOpen = 0 /\ asked[t] \in CameraIds /\ gCamerasOpen' = 1
    BY DEF ModuleTypes, Progress, Opening
  <2>2. device'[t] = asked[t] /\ asked[t] # Loader!NoCamera /\ \A s \in ServiceThreads \ {t} : device'[s] = Loader!NoCamera
    BY <2>1 DEF ModuleTypes, OneDevice, ModuleConstants
  <2>3. \A i \in CameraIds : gCameraHals'[i] <=> i = asked[t]
    BY <2>1 DEF ModuleTypes, OneDevice
  <2> QED
    BY <2>1, <2>2, <2>3 DEF OneDevice
<1>4. Progress'
  <2>1. \A s \in ServiceThreads \ {t} : modulePc'[s] = modulePc[s] /\ modulePc[s] \notin Opening \cup Closing
    BY DEF ModuleTypes, ModuleLocked, Opening, ModuleConstants

  <2>2. gCamerasOpen = 0 /\ asked[t] \in CameraIds /\ adapters = {asked[t]} /\ modulePc'[t] = "idle" /\ adapters' = adapters
    BY DEF ModuleTypes, Progress, Opening
  <2>3. \A i \in CameraIds : gCameraHals'[i] <=> i = asked[t]
    BY <2>2 DEF ModuleTypes, OneDevice
  <2>4. \A s \in ServiceThreads : modulePc'[s] \notin Opening \cup Closing
    BY <2>1, <2>2 DEF Opening, Closing
  <2>5. adapters' = {i \in CameraIds : gCameraHals'[i]}
    BY <2>2, <2>3
  <2> QED
    BY <2>4, <2>5 DEF Progress, Opening, Closing
<1>5. Listening'
  BY DEF ModuleConstants, Listening, Opening, Closing, ModuleTypes, ModuleLocked, Progress, OneDevice
<1> QED
  BY <1>1, <1>2, <1>3, <1>4, <1>5

LEMMA ModuleOpenFailedStep ==
  ASSUME ModuleConstants, ModuleInv, NEW t \in ServiceThreads, Loader!OpenFailed(t)
  PROVE  ModuleInv'
<1> USE DEF Loader!OpenFailed, Loader!At, Loader!table, Loader!cameraProperties, Loader!camera, ModuleInv
<1>1. ModuleTypes'
  BY DEF ModuleConstants, ModuleTypes, Opening, Closing, ModuleLocked, Progress, OneDevice
<1>2. ModuleLocked'
  BY DEF ModuleConstants, ModuleLocked, Opening, Closing, ModuleTypes
<1>3. OneDevice'
  BY DEF ModuleConstants, OneDevice, Opening, Closing, ModuleTypes, Progress
<1>4. Progress'
  <2>1. \A s \in ServiceThreads \ {t} : modulePc'[s] = modulePc[s] /\ modulePc[s] \notin Opening \cup Closing
    BY DEF ModuleTypes, ModuleLocked, Opening, ModuleConstants

  <2>2. gCamerasOpen = 0 /\ adapters' = {} /\ modulePc'[t] = "idle"
    BY DEF ModuleTypes, Progress, Opening
  <2>3. \A s \in ServiceThreads : modulePc'[s] \notin Opening \cup Closing
    BY <2>1, <2>2 DEF Opening, Closing
  <2>4. adapters' = {i \in CameraIds : gCameraHals'[i]}
    BY <2>2 DEF OneDevice
  <2> QED
    BY <2>3, <2>4 DEF Progress, Opening, Closing
<1>5. Listening'
  BY DEF ModuleConstants, Listening, Opening, Closing, ModuleTypes, ModuleLocked, Progress, OneDevice
<1> QED
  BY <1>1, <1>2, <1>3, <1>4, <1>5

LEMMA ModuleOperationStep ==
  ASSUME ModuleConstants, ModuleInv, NEW t \in ServiceThreads, Loader!Operation(t)
  PROVE  ModuleInv'
<1> USE DEF Loader!Operation, Loader!At, Loader!table, Loader!cameraProperties, Loader!camera, ModuleInv
<1>1. ModuleTypes'
  <2>1. device[t] # Loader!NoCamera /\ device[t] \in CameraIds /\ gCamerasOpen = 1
    BY DEF ModuleTypes, OneDevice
  <2>2. gCameraHals[device[t]]
    BY <2>1 DEF OneDevice
  <2>3. missing' = FALSE
    BY <2>2 DEF ModuleTypes
  <2>4. modulePc' = modulePc
    BY DEF ModuleTypes
  <2> QED
    BY <2>3, <2>4 DEF ModuleTypes
<1>2. ModuleLocked'
  BY DEF ModuleConstants, ModuleLocked, Opening, Closing, ModuleTypes
<1>3. OneDevice'
  BY DEF ModuleConstants, OneDevice, Opening, Closing, ModuleTypes, Progress
<1>4. Progress'
  BY DEF ModuleConstants, Progress, Opening, Closing, ModuleTypes, ModuleLocked, OneDevice
<1>5. Listening'
  BY DEF ModuleConstants, Listening, Opening, Closing, ModuleTypes, ModuleLocked, Progress, OneDevice
<1> QED
  BY <1>1, <1>2, <1>3, <1>4, <1>5

LEMMA ModuleReleaseStep ==
  ASSUME ModuleConstants, ModuleInv, NEW t \in ServiceThreads, Loader!Release(t)
  PROVE  ModuleInv'
<1> USE DEF Loader!Release, Loader!At, Loader!table, Loader!cameraProperties, Loader!camera, Loader!StopSensor, ModuleInv
<1>1. ModuleTypes'
  BY DEF ModuleConstants, ModuleTypes, Opening, Closing, ModuleLocked, Progress, OneDevice
<1>2. ModuleLocked'
  BY DEF ModuleConstants, ModuleLocked, Opening, Closing, ModuleTypes
<1>3. OneDevice'
  BY DEF ModuleConstants, OneDevice, Opening, Closing, ModuleTypes, Progress
<1>4. Progress'
  BY DEF ModuleConstants, Progress, Opening, Closing, ModuleTypes, ModuleLocked, OneDevice
<1>5. Listening'
  BY DEF ModuleConstants, Listening, Opening, Closing, ModuleTypes, ModuleLocked, Progress, OneDevice
<1> QED
  BY <1>1, <1>2, <1>3, <1>4, <1>5

LEMMA ModuleCloseStep ==
  ASSUME ModuleConstants, ModuleInv, NEW t \in ServiceThreads, Loader!Close(t)
  PROVE  ModuleInv'
<1> USE DEF Loader!Close, Loader!At, Loader!table, Loader!cameraProperties, Loader!camera, ModuleInv
<1>1. ModuleTypes'
  BY DEF ModuleConstants, ModuleTypes, Opening, Closing, ModuleLocked, Progress, OneDevice
<1>2. ModuleLocked'
  BY DEF ModuleConstants, ModuleLocked, Opening, Closing, ModuleTypes
<1>3. OneDevice'
  BY DEF ModuleConstants, OneDevice, Opening, Closing, ModuleTypes, Progress
<1>4. Progress'
  BY DEF ModuleConstants, Progress, Opening, Closing, ModuleTypes, ModuleLocked, OneDevice
<1>5. Listening'
  BY DEF ModuleConstants, Listening, Opening, Closing, ModuleTypes, ModuleLocked, Progress, OneDevice
<1> QED
  BY <1>1, <1>2, <1>3, <1>4, <1>5

LEMMA ModuleCloseSensorStep ==
  ASSUME ModuleConstants, ModuleInv, NEW t \in ServiceThreads, Loader!CloseSensor(t)
  PROVE  ModuleInv'
<1> USE DEF Loader!CloseSensor, Loader!At, Loader!table, Loader!cameraProperties, Loader!camera, Loader!StopSensor, ModuleInv
<1>1. ModuleTypes'
  BY DEF ModuleConstants, ModuleTypes, Opening, Closing, ModuleLocked, Progress, OneDevice
<1>2. ModuleLocked'
  BY DEF ModuleConstants, ModuleLocked, Opening, Closing, ModuleTypes
<1>3. OneDevice'
  BY DEF ModuleConstants, OneDevice, Opening, Closing, ModuleTypes, Progress
<1>4. Progress'
  BY DEF ModuleConstants, Progress, Opening, Closing, ModuleTypes, ModuleLocked, OneDevice
<1>5. Listening'
  BY DEF ModuleConstants, Listening, Opening, Closing, ModuleTypes, ModuleLocked, Progress, OneDevice
<1> QED
  BY <1>1, <1>2, <1>3, <1>4, <1>5

LEMMA ModuleClosedStep ==
  ASSUME ModuleConstants, ModuleInv, NEW t \in ServiceThreads, Loader!Closed(t)
  PROVE  ModuleInv'
<1> USE DEF Loader!Closed, Loader!At, Loader!table, Loader!cameraProperties, Loader!camera, ModuleInv
<1>1. ModuleTypes'
  BY DEF ModuleConstants, ModuleTypes, Opening, Closing, ModuleLocked, Progress, OneDevice
<1>2. ModuleLocked'
  BY DEF ModuleConstants, ModuleLocked, Opening, Closing, ModuleTypes
<1>3. OneDevice'
  BY DEF ModuleConstants, OneDevice, Opening, Closing, ModuleTypes, Progress
<1>4. Progress'
  BY DEF ModuleConstants, Progress, Opening, Closing, ModuleTypes, ModuleLocked, OneDevice
<1>5. Listening'
  BY DEF ModuleConstants, Listening, Opening, Closing, ModuleTypes, ModuleLocked, Progress, OneDevice
<1> QED
  BY <1>1, <1>2, <1>3, <1>4, <1>5

LEMMA ModuleHandleOrientationStep ==
  ASSUME ModuleConstants, ModuleInv, Loader!HandleOrientation
  PROVE  ModuleInv'
<1> USE DEF Loader!HandleOrientation, Loader!At, Loader!table, Loader!cameraProperties, Loader!camera, ModuleInv
<1>1. ModuleTypes'
  BY DEF ModuleConstants, ModuleTypes, Opening, Closing, ModuleLocked, Progress, OneDevice
<1>2. ModuleLocked'
  BY DEF ModuleConstants, ModuleLocked, Opening, Closing, ModuleTypes
<1>3. OneDevice'
  BY DEF ModuleConstants, OneDevice, Opening, Closing, ModuleTypes, Progress
<1>4. Progress'
  BY DEF ModuleConstants, Progress, Opening, Closing, ModuleTypes, ModuleLocked, OneDevice
<1>5. Listening'
  BY DEF ModuleConstants, Listening, Opening, Closing, ModuleTypes, ModuleLocked, Progress, OneDevice
<1> QED
  BY <1>1, <1>2, <1>3, <1>4, <1>5

LEMMA ModuleOrientationHandledStep ==
  ASSUME ModuleConstants, ModuleInv, Loader!OrientationHandled
  PROVE  ModuleInv'
<1> USE DEF Loader!OrientationHandled, Loader!At, Loader!table, Loader!cameraProperties, Loader!camera, ModuleInv
<1>1. ModuleTypes'
  BY DEF ModuleConstants, ModuleTypes, Opening, Closing, ModuleLocked, Progress, OneDevice
<1>2. ModuleLocked'
  BY DEF ModuleConstants, ModuleLocked, Opening, Closing, ModuleTypes
<1>3. OneDevice'
  BY DEF ModuleConstants, OneDevice, Opening, Closing, ModuleTypes, Progress
<1>4. Progress'
  BY DEF ModuleConstants, Progress, Opening, Closing, ModuleTypes, ModuleLocked, OneDevice
<1>5. Listening'
  BY DEF ModuleConstants, Listening, Opening, Closing, ModuleTypes, ModuleLocked, Progress, OneDevice
<1> QED
  BY <1>1, <1>2, <1>3, <1>4, <1>5

LEMMA ModuleInvStep == ModuleConstants /\ ModuleInv /\ [Loader!Next]_Loader!moduleVars => ModuleInv'
<1> SUFFICES ASSUME ModuleConstants, ModuleInv, [Loader!Next]_Loader!moduleVars PROVE ModuleInv'
  OBVIOUS
<1>1. CASE UNCHANGED Loader!moduleVars
  BY <1>1 DEF Loader!moduleVars, ModuleInv, ModuleTypes, ModuleLocked, OneDevice, Progress, Listening
<1>2. CASE Loader!HandleOrientation \/ Loader!OrientationHandled
  BY <1>2, ModuleHandleOrientationStep, ModuleOrientationHandledStep
<1>3. ASSUME NEW t \in ServiceThreads, Loader!Steps(t) PROVE ModuleInv'
  BY <1>3, ModuleLoadPropertiesStep, ModuleInitializeAdapterStep, ModuleInitializePartsStep,
     ModuleInitializeSensorStep, ModuleOpenedStep, ModuleOpenFailedStep, ModuleCloseSensorStep, ModuleClosedStep
     DEF Loader!Steps, Loader!OpenSteps, Loader!CloseSteps
<1>4. ASSUME NEW t \in ServiceThreads, Loader!Calls(t) PROVE ModuleInv'
  BY <1>4, ModuleInitializePropertiesStep, ModuleOpenStep, ModuleOperationStep, ModuleReleaseStep, ModuleCloseStep
     DEF Loader!Calls
<1> QED
  BY <1>1, <1>2, <1>3, <1>4 DEF Loader!Next

LEMMA LoaderCardinality == ASSUME NEW S PROVE Loader!Cardinality(S) = Cardinality(S)
BY DEF Loader!Cardinality, Cardinality

LEMMA ModuleInvImplies ==
  ASSUME ModuleConstants, ModuleInv
  PROVE  Loader!TypeOK /\ Loader!TableIsExact /\ Loader!CalledIsAlive
<1> USE DEF ModuleInv
<1>1. Loader!TypeOK
  BY DEF ModuleTypes, ModuleConstants, Loader!TypeOK
<1>2. Loader!CalledIsAlive
  BY DEF ModuleTypes, Listening, Loader!CalledIsAlive
<1>3. Loader!TableIsExact
  <2> DEFINE Table == {i \in CameraIds : gCameraHals[i]}
  <2> SUFFICES ASSUME gCameraHalDeviceLock = Loader!NoThread
               PROVE  /\ gCamerasOpen = Cardinality(Table) /\ adapters = Table
                      /\ adapters = {device[t] : t \in ServiceThreads} \ {Loader!NoCamera}
    BY LoaderCardinality DEF Loader!TableIsExact
  <2>1. adapters = Table
    BY DEF ModuleConstants, ModuleLocked, Progress
  <2>2. CASE gCamerasOpen = 0
    <3>1. Table = {}
      BY <2>2 DEF OneDevice
    <3>2. {device[t] : t \in ServiceThreads} \ {Loader!NoCamera} = {}
      BY <2>2 DEF OneDevice
    <3> QED
      BY <2>1, <2>2, <3>1, <3>2, FS_EmptySet
  <2>3. CASE gCamerasOpen = 1
    <3>1. PICK t \in ServiceThreads : /\ device[t] # Loader!NoCamera
                                      /\ \A s \in ServiceThreads \ {t} : device[s] = Loader!NoCamera
                                      /\ \A i \in CameraIds : gCameraHals[i] <=> i = device[t]
      BY <2>3 DEF OneDevice
    <3>2. Table = {device[t]}
      BY <3>1 DEF ModuleTypes
    <3>3. {device[s] : s \in ServiceThreads} \ {Loader!NoCamera} = {device[t]}
      BY <3>1
    <3> QED
      BY <2>1, <2>3, <3>2, <3>3, FS_Singleton
  <2> QED
    BY <2>2, <2>3 DEF ModuleTypes
<1> QED
  BY <1>1, <1>2, <1>3

(* Between calls the table, the devices and the adapters name the same        *)
(* camera; orientation events and operations find it alive.                   *)
THEOREM ModuleTable ==
  ASSUME ModuleConstants
  PROVE  Loader!Spec => [](Loader!TypeOK /\ Loader!TableIsExact /\ Loader!CalledIsAlive)
<1>1. ModuleInv => Loader!TypeOK /\ Loader!TableIsExact /\ Loader!CalledIsAlive
  BY ModuleInvImplies
<1>2. Loader!Init => ModuleInv
  BY ModuleInvInit
<1>3. ModuleInv /\ [Loader!Next]_Loader!moduleVars => ModuleInv'
  BY ModuleInvStep
<1> QED
  BY <1>1, <1>2, <1>3, PTL DEF Loader!Spec
-----------------------------------------------------------------------------
(* The tap-out point                                                         *)

SourceConstants ==
  /\ IsFiniteSet(SourceBufs) /\ Source!NoBuf \notin SourceBufs
  /\ Allocations \in Nat /\ SourceFaults \in Nat

SourceTypes ==
  /\ sourcePc \in {"none", "dequeue", "ready"} /\ isSourceGone \in BOOLEAN
  /\ freeInSource \subseteq SourceBufs /\ consumed \subseteq SourceBufs /\ leaked \subseteq SourceBufs
  /\ atAdapter \subseteq SourceBufs /\ filling \subseteq SourceBufs
  /\ queueBuf \in SourceBufs \cup {Source!NoBuf} /\ tapReturn \in SourceBufs \cup {Source!NoBuf}
  /\ frameQueue \in Seq([buf : SourceBufs, list : Nat])
  /\ waiting \in Nat /\ mapRaced \in BOOLEAN /\ sourceCrashed \in BOOLEAN
  /\ allocations \in 0 .. Allocations /\ sourceFaults \in Nat

(* Each list brings as many frames on their way as there are buffers, since a *)
(* buffer comes back for a signal of one that has left.                       *)
One(buf) == IF buf = Source!NoBuf THEN 0 ELSE 1
Lists == IF sourcePc = "dequeue" THEN allocations - 1 ELSE allocations
FewSignals ==
  /\ sourcePc = "dequeue" => allocations > 0
  /\ waiting + Len(frameQueue) + Cardinality(filling) + One(queueBuf) + One(tapReturn) <= Cardinality(SourceBufs) * Lists

(* What there is at which stage of a list.                                    *)
Stages ==
  ~sourceCrashed =>
    /\ sourcePc = "none" => atAdapter = {}
    /\ sourcePc # "ready" => filling = {} /\ queueBuf = Source!NoBuf
    /\ \A i \in 1 .. Len(frameQueue) : /\ frameQueue[i].list <= allocations
                                       /\ sourcePc = "dequeue" => frameQueue[i].list < allocations

(* The frames of this list.                                                   *)
Current == {i \in 1 .. Len(frameQueue) : frameQueue[i].list = allocations}
OnTheirWay == filling \cup {frameQueue[i].buf : i \in Current}
FramesApart ==
  sourcePc = "ready" =>
    /\ \A i, j \in Current : frameQueue[i].buf = frameQueue[j].buf => i = j
    /\ \A i \in Current : frameQueue[i].buf \notin filling \cup {queueBuf}
    /\ queueBuf \notin filling
    /\ atAdapter = OnTheirWay \cup ({queueBuf} \ {Source!NoBuf})

(* Outside of the map a buffer is in one place.                               *)
Away == freeInSource \cup consumed \cup leaked \cup {tapReturn}
BuffersApart ==
  /\ freeInSource \cap consumed = {} /\ freeInSource \cap leaked = {} /\ consumed \cap leaked = {}
  /\ tapReturn \notin freeInSource \cup consumed \cup leaked
  /\ Away \cap (atAdapter \ {queueBuf}) = {}
  /\ queueBuf # Source!NoBuf => queueBuf \in Away
  /\ ~isSourceGone => SourceBufs \subseteq Away \cup atAdapter

SourceInv ==
  /\ SourceTypes /\ FewSignals /\ Stages
  /\ ~sourceCrashed /\ ~mapRaced => FramesApart /\ BuffersApart
-----------------------------------------------------------------------------
LEMMA SourceCardinality == ASSUME NEW S PROVE Source!Cardinality(S) = Cardinality(S)
BY DEF Source!Cardinality, Cardinality

(* The sets of buffers are finite, and the budget grows with the lists.       *)
LEMMA SourceSets ==
  ASSUME SourceConstants
  PROVE  /\ Cardinality(SourceBufs) \in Nat /\ Cardinality({}) = 0
         /\ \A S \in SUBSET SourceBufs : Cardinality(S) \in Nat /\ Cardinality(S) <= Cardinality(SourceBufs)
         /\ \A S \in SUBSET SourceBufs, b \in SourceBufs :
              /\ Cardinality(S \cup {b}) <= Cardinality(S) + 1
              /\ b \in S => Cardinality(S \ {b}) = Cardinality(S) - 1
<1>1. Cardinality(SourceBufs) \in Nat
  BY FS_CardinalityType DEF SourceConstants
<1>2. \A S \in SUBSET SourceBufs : IsFiniteSet(S) /\ Cardinality(S) \in Nat /\ Cardinality(S) <= Cardinality(SourceBufs)
  BY FS_Subset, FS_CardinalityType DEF SourceConstants
<1>3. ASSUME NEW S \in SUBSET SourceBufs, NEW b \in SourceBufs
      PROVE  /\ Cardinality(S \cup {b}) <= Cardinality(S) + 1
             /\ b \in S => Cardinality(S \ {b}) = Cardinality(S) - 1
  <2>1. IsFiniteSet(S) /\ Cardinality(S) \in Nat
    BY <1>2
  <2>2. Cardinality(S \cup {b}) = IF b \in S THEN Cardinality(S) ELSE Cardinality(S) + 1
    BY <2>1, FS_AddElement
  <2>3. b \in S => Cardinality(S \ {b}) = Cardinality(S) - 1
    BY <2>1, FS_RemoveElement
  <2> QED
    BY <2>1, <2>2, <2>3
<1> QED
  BY <1>1, <1>2, <1>3, FS_EmptySet

(* A frame is taken from the queue.                                           *)
LEMMA SourceTail ==
  ASSUME NEW q, q \in Seq([buf : SourceBufs, list : Nat]), q # <<>>
  PROVE  /\ Tail(q) \in Seq([buf : SourceBufs, list : Nat]) /\ Len(q) \in Nat \ {0} /\ Len(Tail(q)) = Len(q) - 1
         /\ \A k \in 1 .. Len(q) - 1 : Tail(q)[k] = q[k + 1]
         /\ Head(q) = q[1] /\ Head(q).buf \in SourceBufs /\ Head(q).list \in Nat
<1> DEFINE Frame == [buf : SourceBufs, list : Nat]
<1>1. q \in Seq(Frame)
  OBVIOUS
<1> HIDE DEF Frame
<1>2. /\ Tail(q) \in Seq(Frame) /\ Len(q) \in Nat \ {0} /\ Len(Tail(q)) = Len(q) - 1
      /\ \A k \in 1 .. Len(q) - 1 : Tail(q)[k] = q[k + 1]
      /\ Head(q) = q[1] /\ q[1] \in Frame
  BY <1>1
<1>3. q[1].buf \in SourceBufs /\ q[1].list \in Nat
  BY <1>2 DEF Frame
<1> QED
  BY <1>2, <1>3 DEF Frame

LEMMA SourceFrames ==
  ASSUME SourceTypes
  PROVE  Len(frameQueue) \in Nat /\ \A i \in 1 .. Len(frameQueue) : frameQueue[i].list \in Nat /\ frameQueue[i].buf \in SourceBufs
<1> DEFINE Frame == [buf : SourceBufs, list : Nat]
<1>1. frameQueue \in Seq(Frame)
  BY DEF SourceTypes
<1>2. \A f \in Frame : f.list \in Nat /\ f.buf \in SourceBufs
  OBVIOUS
<1> HIDE DEF Frame
<1>3. Len(frameQueue) \in Nat /\ \A i \in 1 .. Len(frameQueue) : frameQueue[i] \in Frame
  BY <1>1
<1> QED
  BY <1>2, <1>3

LEMMA SourceInvInit == SourceConstants /\ Source!Init => SourceInv
<1> SUFFICES ASSUME SourceConstants, Source!Init PROVE SourceInv
  OBVIOUS
<1> USE DEF Source!Init, Source!NoBuf
<1>1. SourceTypes
  <2>1. frameQueue \in Seq([buf : SourceBufs, list : Nat])
    OBVIOUS
  <2>2. /\ freeInSource \subseteq SourceBufs /\ consumed \subseteq SourceBufs /\ leaked \subseteq SourceBufs
        /\ atAdapter \subseteq SourceBufs /\ filling \subseteq SourceBufs /\ allocations \in 0 .. Allocations
    BY DEF SourceConstants
  <2> QED
    BY <2>1, <2>2 DEF SourceTypes
<1>2. FewSignals
  BY SourceSets DEF FewSignals, One, Lists
<1>3. Stages
  BY DEF Stages
<1>4. FramesApart
  BY DEF FramesApart
<1>5. BuffersApart
  BY DEF BuffersApart, Away, SourceConstants
<1> QED
  BY <1>1, <1>2, <1>3, <1>4, <1>5 DEF SourceInv

LEMMA SourceAllocateStep == ASSUME SourceConstants, SourceInv, Source!Allocate PROVE SourceInv'
<1> USE DEF Source!Allocate, Source!Up, Source!window, Source!bounds, Source!NoBuf, SourceInv
<1>1. SourceTypes'
  BY DEF SourceConstants, SourceTypes
<1>2. FewSignals'
  BY SourceSets DEF FewSignals, One, Lists, SourceTypes, SourceConstants, Stages
<1>3. Stages'
  <2>1. allocations \in Nat /\ allocations' = allocations + 1 /\ frameQueue' = frameQueue
    BY DEF SourceTypes
  <2>2. \A i \in 1 .. Len(frameQueue) : frameQueue[i].list < allocations'
    BY <2>1, SourceFrames DEF Stages
  <2> QED
    BY <2>1, <2>2, SourceFrames DEF Stages
<1>4. ASSUME ~sourceCrashed', ~mapRaced' PROVE FramesApart'
  BY <1>4 DEF FramesApart, OnTheirWay, Current, Stages, BuffersApart, Away, SourceTypes, SourceConstants
<1>5. ASSUME ~sourceCrashed', ~mapRaced' PROVE BuffersApart'
  BY <1>5 DEF FramesApart, OnTheirWay, Current, Stages, BuffersApart, Away, SourceTypes, SourceConstants
<1> QED
  BY <1>1, <1>2, <1>3, <1>4, <1>5

LEMMA SourceDequeueOneStep == ASSUME SourceConstants, SourceInv, Source!DequeueOne PROVE SourceInv'
<1> USE DEF Source!DequeueOne, Source!Up, Source!window, Source!bounds, Source!NoBuf, SourceInv
<1>1. SourceTypes'
  BY DEF SourceConstants, SourceTypes
<1>2. FewSignals'
  BY SourceSets DEF FewSignals, One, Lists, SourceTypes, SourceConstants, Stages
<1>3. Stages'
  BY DEF Stages, SourceTypes, SourceConstants
<1>4. ASSUME ~sourceCrashed', ~mapRaced' PROVE FramesApart'
  BY <1>4 DEF FramesApart, OnTheirWay, Current, Stages, BuffersApart, Away, SourceTypes, SourceConstants
<1>5. ASSUME ~sourceCrashed', ~mapRaced' PROVE BuffersApart'
  BY <1>5 DEF FramesApart, OnTheirWay, Current, Stages, BuffersApart, Away, SourceTypes, SourceConstants
<1> QED
  BY <1>1, <1>2, <1>3, <1>4, <1>5

LEMMA SourceKeepSomeStep == ASSUME SourceConstants, SourceInv, Source!KeepSome PROVE SourceInv'
<1> USE DEF Source!KeepSome, Source!Up, Source!window, Source!bounds, Source!NoBuf, SourceInv
<1>1. SourceTypes'
  BY DEF SourceConstants, SourceTypes
<1>2. FewSignals'
  BY SourceSets DEF FewSignals, One, Lists, SourceTypes, SourceConstants, Stages
<1>3. Stages'
  BY DEF Stages, SourceTypes, SourceConstants
<1>4. ASSUME ~sourceCrashed', ~mapRaced' PROVE FramesApart'
  BY <1>4 DEF FramesApart, OnTheirWay, Current, Stages, BuffersApart, Away, SourceTypes, SourceConstants
<1>5. ASSUME ~sourceCrashed', ~mapRaced' PROVE BuffersApart'
  BY <1>5 DEF FramesApart, OnTheirWay, Current, Stages, BuffersApart, Away, SourceTypes, SourceConstants
<1> QED
  BY <1>1, <1>2, <1>3, <1>4, <1>5

LEMMA SourceAllocateFailsStep == ASSUME SourceConstants, SourceInv, Source!AllocateFails PROVE SourceInv'
<1> USE DEF Source!AllocateFails, Source!Up, Source!window, Source!bounds, Source!NoBuf, Source!SourceFault, SourceInv
<1>1. SourceTypes'
  <2>1. isSourceGone' \in BOOLEAN /\ sourceCrashed' \in BOOLEAN
    BY DEF SourceTypes
  <2>2. freeInSource' \subseteq SourceBufs /\ atAdapter' \subseteq SourceBufs /\ sourceFaults' \in Nat /\ sourcePc' = "none"
    BY DEF SourceTypes
  <2> QED
    BY <2>1, <2>2 DEF SourceTypes
<1>2. FewSignals'
  <2>1. filling = {} /\ queueBuf = "none" /\ allocations \in Nat /\ Cardinality(SourceBufs) \in Nat
    BY SourceSets DEF Stages, SourceTypes
  <2>2. Cardinality(SourceBufs) * (allocations - 1) <= Cardinality(SourceBufs) * allocations
    BY <2>1
  <2>3. Cardinality(SourceBufs) * (allocations - 1) \in Int /\ Cardinality(SourceBufs) * allocations \in Int
    BY <2>1
  <2>4. Lists = allocations - 1 /\ Lists' = allocations
    BY DEF Lists
  <2>5. UNCHANGED <<waiting, frameQueue, filling, queueBuf, tapReturn, allocations>> /\ sourcePc' = "none"
    OBVIOUS
  <2>6. waiting \in Nat /\ Len(frameQueue) \in Nat /\ Cardinality(filling) \in Nat /\ One(queueBuf) \in Nat /\ One(tapReturn) \in Nat
    BY SourceFrames, SourceSets DEF SourceTypes, One
  <2> QED
    BY <2>2, <2>3, <2>4, <2>5, <2>6 DEF FewSignals, One
<1>3. Stages'
  BY DEF Stages, SourceTypes, SourceConstants
<1>4. ASSUME ~sourceCrashed', ~mapRaced' PROVE FramesApart'
  BY <1>4 DEF FramesApart, OnTheirWay, Current, Stages, BuffersApart, Away, SourceTypes, SourceConstants
<1>5. ASSUME ~sourceCrashed', ~mapRaced' PROVE BuffersApart'
  BY <1>5 DEF FramesApart, OnTheirWay, Current, Stages, BuffersApart, Away, SourceTypes, SourceConstants
<1> QED
  BY <1>1, <1>2, <1>3, <1>4, <1>5

LEMMA SourceFreeBufferListStep == ASSUME SourceConstants, SourceInv, Source!FreeBufferList PROVE SourceInv'
<1> USE DEF Source!FreeBufferList, Source!Up, Source!window, Source!bounds, Source!NoBuf, Source!Unlocked, SourceInv
<1>1. SourceTypes'
  BY DEF SourceConstants, SourceTypes
<1>2. FewSignals'
  BY SourceSets DEF FewSignals, One, Lists, SourceTypes, SourceConstants, Stages
<1>3. Stages'
  BY DEF Stages, SourceTypes, SourceConstants
<1>4. ASSUME ~sourceCrashed', ~mapRaced' PROVE FramesApart'
  BY <1>4 DEF FramesApart, OnTheirWay, Current, Stages, BuffersApart, Away, SourceTypes, SourceConstants
<1>5. ASSUME ~sourceCrashed', ~mapRaced' PROVE BuffersApart'
  BY <1>5 DEF FramesApart, OnTheirWay, Current, Stages, BuffersApart, Away, SourceTypes, SourceConstants
<1> QED
  BY <1>1, <1>2, <1>3, <1>4, <1>5

LEMMA SourceAddFrameStep == ASSUME SourceConstants, SourceInv, Source!AddFrame PROVE SourceInv'
<1> USE DEF Source!AddFrame, Source!Up, Source!window, Source!bounds, Source!NoBuf, SourceInv
<1>1. SourceTypes'
  BY DEF SourceConstants, SourceTypes
<1>2. FewSignals'
  <2>1. PICK b \in filling : filling' = filling \ {b} /\ Len(frameQueue') = Len(frameQueue) + 1
    BY DEF SourceTypes
  <2>2. Cardinality(filling') = Cardinality(filling) - 1 /\ Cardinality(filling) \in Nat
    BY <2>1, SourceSets DEF SourceTypes
  <2>3. Len(frameQueue) \in Nat /\ waiting \in Nat
    BY DEF SourceTypes
  <2>4. One(queueBuf)' = One(queueBuf) /\ One(tapReturn)' = One(tapReturn) /\ Lists' = Lists /\ One(queueBuf) \in Nat /\ One(tapReturn) \in Nat
    BY DEF One, Lists
  <2> QED
    BY <2>1, <2>2, <2>3, <2>4 DEF FewSignals
<1>3. Stages'
  BY DEF Stages, SourceTypes, SourceConstants
<1>4. ASSUME ~sourceCrashed', ~mapRaced' PROVE FramesApart'
  BY <1>4 DEF FramesApart, OnTheirWay, Current, Stages, BuffersApart, Away, SourceTypes, SourceConstants
<1>5. ASSUME ~sourceCrashed', ~mapRaced' PROVE BuffersApart'
  BY <1>5 DEF FramesApart, OnTheirWay, Current, Stages, BuffersApart, Away, SourceTypes, SourceConstants
<1> QED
  BY <1>1, <1>2, <1>3, <1>4, <1>5

LEMMA SourceEnqueueStep == ASSUME SourceConstants, SourceInv, Source!Enqueue PROVE SourceInv'
<1> USE DEF Source!Enqueue, Source!Up, Source!window, Source!bounds, Source!NoBuf, Source!SourceFault, Source!Unlocked, SourceInv
<1>1. SourceTypes'
  <2>1. frameQueue' \in Seq([buf : SourceBufs, list : Nat])
    BY SourceTail DEF SourceTypes
  <2>2. Head(frameQueue).buf \in SourceBufs
    BY SourceTail DEF SourceTypes
  <2>3. /\ consumed' = consumed \/ consumed' = consumed \cup {Head(frameQueue).buf}
        /\ leaked' = leaked \/ leaked' = leaked \cup {Head(frameQueue).buf}
        /\ queueBuf' = queueBuf \/ queueBuf' = Head(frameQueue).buf
        /\ sourceCrashed' = sourceCrashed \/ sourceCrashed' = TRUE
        /\ sourceFaults' = sourceFaults \/ sourceFaults' = sourceFaults + 1
    BY DEF SourceTypes
  <2>4. UNCHANGED <<sourcePc, isSourceGone, freeInSource, atAdapter, filling, waiting, tapReturn, mapRaced, allocations>>
    OBVIOUS
  <2> DEFINE f == Head(frameQueue)
  <2> HIDE DEF Source!Enqueue, f
  <2>5. consumed' \subseteq SourceBufs /\ leaked' \subseteq SourceBufs /\ queueBuf' \in SourceBufs \cup {Source!NoBuf}
    BY <2>2, <2>3 DEF SourceTypes
  <2>6. sourceCrashed' \in BOOLEAN
    <3>1. sourceCrashed \in BOOLEAN
      BY DEF SourceTypes
    <3> HIDE DEF SourceInv
    <3> QED
      BY <2>3, <3>1
  <2>7. sourceFaults' \in Nat
    <3>1. sourceFaults \in Nat
      BY DEF SourceTypes
    <3> HIDE DEF SourceInv
    <3> QED
      BY <2>3, <3>1
  <2> QED
    BY <2>1, <2>4, <2>5, <2>6, <2>7 DEF SourceTypes
<1>2. FewSignals'
  <2>1. Len(frameQueue') = Len(frameQueue) - 1 /\ Len(frameQueue) \in Nat
    BY SourceTail DEF SourceTypes
  <2>2. One(queueBuf) = 0 /\ One(queueBuf)' \in {0, 1} /\ One(tapReturn)' = One(tapReturn) /\ One(tapReturn) \in Nat
    BY DEF One
  <2>3. Cardinality(filling) \in Nat /\ waiting \in Nat /\ UNCHANGED <<filling, waiting, Lists>>
    BY SourceSets DEF SourceTypes, Lists
  <2>4. UNCHANGED <<sourcePc, allocations>>
    OBVIOUS
  <2>5. Cardinality(SourceBufs) * Lists \in Int
    BY SourceSets DEF SourceTypes, Lists
  <2> HIDE DEF Source!Enqueue
  <2> QED
    BY <2>1, <2>2, <2>3, <2>4, <2>5 DEF FewSignals
<1>3. Stages'
  BY DEF Stages, SourceTypes, SourceConstants
<1>4. ASSUME ~sourceCrashed', ~mapRaced' PROVE FramesApart'
  <2> SUFFICES ASSUME sourcePc = "ready" PROVE FramesApart'
    BY DEF FramesApart
  <2> DEFINE f == Head(frameQueue)
  <2>1. FramesApart /\ BuffersApart /\ ~sourceCrashed
    BY <1>4

  <2>2. /\ f = frameQueue[1] /\ f.buf \in SourceBufs /\ Len(frameQueue) \in Nat \ {0} /\ Len(frameQueue') = Len(frameQueue) - 1
        /\ \A i \in 1 .. Len(frameQueue') : frameQueue'[i] = frameQueue[i + 1]
    BY SourceTail DEF SourceTypes

  <2>3. f.list = allocations /\ queueBuf' = f.buf /\ queueBuf = "none" /\ UNCHANGED <<allocations, filling, atAdapter, sourcePc>>
    BY <1>4
  <2>4. 1 \in Current /\ frameQueue[1].buf = f.buf /\ f.buf \notin filling
    BY <2>1, <2>2, <2>3 DEF Current, FramesApart
  <2>5. \A i \in Current' : i + 1 \in Current /\ i + 1 # 1 /\ frameQueue'[i].buf = frameQueue[i + 1].buf
    BY <2>2, <2>3 DEF Current
  <2>6. \A i \in Current : i = 1 \/ (i - 1 \in Current' /\ frameQueue'[i - 1] = frameQueue[i])
    BY <2>2, <2>3 DEF Current
  <2>7. \A i, j \in Current' : frameQueue'[i].buf = frameQueue'[j].buf => i = j
    <3> SUFFICES ASSUME NEW i \in Current', NEW j \in Current', frameQueue'[i].buf = frameQueue'[j].buf PROVE i = j
      OBVIOUS
    <3>1. /\ i + 1 \in Current /\ frameQueue'[i].buf = frameQueue[i + 1].buf
          /\ j + 1 \in Current /\ frameQueue'[j].buf = frameQueue[j + 1].buf
      BY <2>5
    <3>2. i + 1 = j + 1
      BY <2>1, <3>1 DEF FramesApart
    <3>3. i \in Int /\ j \in Int
      BY DEF Current
    <3> QED
      BY <3>2, <3>3
  <2>8. \A i \in Current' : frameQueue'[i].buf \notin filling' \cup {queueBuf'}
    <3> SUFFICES ASSUME NEW i \in Current' PROVE frameQueue'[i].buf \notin filling' \cup {queueBuf'}
      OBVIOUS
    <3>1. i + 1 \in Current /\ i + 1 # 1 /\ frameQueue'[i].buf = frameQueue[i + 1].buf
      BY <2>5
    <3>2. frameQueue[i + 1].buf \notin filling /\ frameQueue[i + 1].buf # frameQueue[1].buf
      BY <2>1, <2>4, <3>1 DEF FramesApart
    <3> QED
      BY <2>3, <2>4, <3>1, <3>2
  <2>9. OnTheirWay = OnTheirWay' \cup {f.buf}
    <3>1. {frameQueue[i].buf : i \in Current} = {f.buf} \cup {frameQueue'[i].buf : i \in Current'}
      <4>1. ASSUME NEW i \in Current PROVE frameQueue[i].buf \in {f.buf} \cup {frameQueue'[j].buf : j \in Current'}
        <5>1. CASE i = 1
          BY <2>4, <5>1
        <5>2. CASE i # 1
          <6>1. i - 1 \in Current' /\ frameQueue'[i - 1].buf = frameQueue[i].buf
            BY <2>6, <5>2
          <6> QED
            BY <6>1
        <5> QED
          BY <5>1, <5>2
      <4>2. ASSUME NEW i \in Current' PROVE frameQueue'[i].buf \in {frameQueue[j].buf : j \in Current}
        BY <2>5
      <4>3. f.buf \in {frameQueue[j].buf : j \in Current}
        BY <2>4
      <4> HIDE DEF f
      <4> QED
        BY <4>1, <4>2, <4>3
    <3> QED
      BY <2>3, <3>1 DEF OnTheirWay
  <2> HIDE DEF f
  <2>10. f.buf # "none"
    BY <2>2 DEF SourceConstants
  <2> QED
    BY <2>1, <2>3, <2>4, <2>7, <2>8, <2>9, <2>10 DEF FramesApart
<1>5. ASSUME ~sourceCrashed', ~mapRaced' PROVE BuffersApart'
  <2> DEFINE f == Head(frameQueue)
  <2>1. FramesApart /\ BuffersApart /\ ~sourceCrashed
    BY <1>5

  <2>2. /\ f = frameQueue[1] /\ f.buf \in SourceBufs /\ Len(frameQueue) \in Nat \ {0} /\ Len(frameQueue') = Len(frameQueue) - 1
        /\ \A i \in 1 .. Len(frameQueue') : frameQueue'[i] = frameQueue[i + 1]
    BY SourceTail DEF SourceTypes

  <2>3. CASE sourcePc = "none"
    BY <1>5, <2>1, <2>3 DEF BuffersApart, Away
  <2>4. CASE sourcePc # "none"
    <3>1. f.list = allocations /\ ~isSourceGone /\ queueBuf' = f.buf /\ queueBuf = "none" /\ sourcePc # "dequeue"
      <4>1. f.list = allocations /\ ~isSourceGone /\ queueBuf' = f.buf /\ queueBuf = "none"
        BY <1>5, <2>4
      <4>2. sourcePc = "dequeue" => f.list < allocations
        BY <2>1, <2>2 DEF Stages
      <4>3. allocations \in Nat
        BY DEF SourceTypes
      <4> HIDE DEF f
      <4> QED
        BY <4>1, <4>2, <4>3
    <3>2. f.buf \in atAdapter
      BY <2>1, <2>2, <2>4, <3>1 DEF FramesApart, Current, OnTheirWay, SourceTypes
    <3>3. f.buf \notin Away
      BY <2>1, <2>2, <3>1, <3>2 DEF BuffersApart, SourceConstants
    <3>4. \/ consumed' = consumed \cup {f.buf} /\ leaked' = leaked
          \/ consumed' = consumed /\ leaked' = leaked \cup {f.buf}
      BY <1>5, <2>4, <3>1
    <3>5. UNCHANGED <<freeInSource, tapReturn, atAdapter, isSourceGone>>
      OBVIOUS
    <3>6. Away' = Away \cup {f.buf}
      BY <3>4, <3>5 DEF Away
    <3> HIDE DEF f
    <3>7. (Away \cup {f.buf}) \cap (atAdapter \ {f.buf}) = {}
      <4>1. "none" \notin atAdapter
        BY DEF SourceTypes, SourceConstants
      <4> QED
        BY <2>1, <3>1, <4>1 DEF BuffersApart
    <3>8. SourceBufs \subseteq (Away \cup atAdapter)'
      BY <2>1, <3>1, <3>5, <3>6 DEF BuffersApart
    <3>9. /\ (freeInSource \cap consumed = {})' /\ (freeInSource \cap leaked = {})' /\ (consumed \cap leaked = {})'
          /\ (tapReturn \notin freeInSource \cup consumed \cup leaked)'
      BY <2>1, <3>3, <3>4, <3>5 DEF BuffersApart, Away
    <3> QED
      BY <3>1, <3>5, <3>6, <3>7, <3>8, <3>9 DEF BuffersApart
  <2> QED
    BY <2>3, <2>4
<1> QED
  BY <1>1, <1>2, <1>3, <1>4, <1>5

LEMMA SourceRemoveFromMapStep == ASSUME SourceConstants, SourceInv, Source!RemoveFromMap PROVE SourceInv'
<1> USE DEF Source!RemoveFromMap, Source!Up, Source!window, Source!bounds, Source!NoBuf, SourceInv
<1>1. SourceTypes'
  BY DEF SourceConstants, SourceTypes
<1>2. FewSignals'
  BY SourceSets DEF FewSignals, One, Lists, SourceTypes, SourceConstants, Stages
<1>3. Stages'
  BY DEF Stages, SourceTypes, SourceConstants
<1>4. ASSUME ~sourceCrashed', ~mapRaced' PROVE FramesApart'
  BY <1>4 DEF FramesApart, OnTheirWay, Current, Stages, BuffersApart, Away, SourceTypes, SourceConstants
<1>5. ASSUME ~sourceCrashed', ~mapRaced' PROVE BuffersApart'
  BY <1>5 DEF FramesApart, OnTheirWay, Current, Stages, BuffersApart, Away, SourceTypes, SourceConstants
<1> QED
  BY <1>1, <1>2, <1>3, <1>4, <1>5

LEMMA SourceConsumeStep == ASSUME SourceConstants, SourceInv, Source!Consume PROVE SourceInv'
<1> USE DEF Source!Consume, Source!Up, Source!window, Source!bounds, Source!NoBuf, SourceInv
<1>1. SourceTypes'
  BY DEF SourceConstants, SourceTypes
<1>2. FewSignals'
  BY SourceSets DEF FewSignals, One, Lists, SourceTypes, SourceConstants, Stages
<1>3. Stages'
  BY DEF Stages, SourceTypes, SourceConstants
<1>4. ASSUME ~sourceCrashed', ~mapRaced' PROVE FramesApart'
  BY <1>4 DEF FramesApart, OnTheirWay, Current, Stages, BuffersApart, Away, SourceTypes, SourceConstants
<1>5. ASSUME ~sourceCrashed', ~mapRaced' PROVE BuffersApart'
  BY <1>5 DEF FramesApart, OnTheirWay, Current, Stages, BuffersApart, Away, SourceTypes, SourceConstants
<1> QED
  BY <1>1, <1>2, <1>3, <1>4, <1>5

LEMMA SourceDequeueReturnedStep == ASSUME SourceConstants, SourceInv, Source!DequeueReturned PROVE SourceInv'
<1> USE DEF Source!DequeueReturned, Source!Up, Source!window, Source!bounds, Source!NoBuf, Source!SourceFault, SourceInv
<1>1. SourceTypes'
  <2>1. waiting' \in Nat /\ isSourceGone' \in BOOLEAN /\ sourceFaults' \in Nat
    BY DEF SourceTypes
  <2>2. freeInSource' \subseteq SourceBufs /\ tapReturn' \in SourceBufs \cup {Source!NoBuf}
    BY DEF SourceTypes
  <2> QED
    BY <2>1, <2>2 DEF SourceTypes
<1>2. FewSignals'
  BY SourceSets DEF FewSignals, One, Lists, SourceTypes, SourceConstants, Stages
<1>3. Stages'
  BY DEF Stages, SourceTypes, SourceConstants
<1>4. ASSUME ~sourceCrashed', ~mapRaced' PROVE FramesApart'
  BY <1>4 DEF FramesApart, OnTheirWay, Current, Stages, BuffersApart, Away, SourceTypes, SourceConstants
<1>5. ASSUME ~sourceCrashed', ~mapRaced' PROVE BuffersApart'
  <2>1. BuffersApart /\ tapReturn = "none" /\ UNCHANGED <<consumed, leaked, atAdapter, queueBuf>>
    BY <1>5
  <2>2. CASE UNCHANGED <<freeInSource, tapReturn>>
    BY <2>1, <2>2 DEF BuffersApart, Away
  <2>3. CASE \E b \in freeInSource : tapReturn' = b /\ freeInSource' = freeInSource \ {b} /\ UNCHANGED isSourceGone
    <3>1. PICK b \in freeInSource : tapReturn' = b /\ freeInSource' = freeInSource \ {b} /\ UNCHANGED isSourceGone
      BY <2>3
    <3>2. Away' = Away \ {"none"} \/ Away' = Away
      BY <2>1, <3>1 DEF Away, SourceTypes, SourceConstants
    <3>3. "none" \notin SourceBufs /\ (queueBuf # "none" => queueBuf \in Away')
      BY <2>1, <3>2 DEF SourceConstants, BuffersApart
    <3>4. \A c \in SourceBufs : c \in Away' <=> c \in Away
      BY <3>2, <3>3
    <3>5. /\ (freeInSource \cap consumed = {})' /\ (freeInSource \cap leaked = {})' /\ (consumed \cap leaked = {})'
          /\ (tapReturn \notin freeInSource \cup consumed \cup leaked)'
      BY <2>1, <3>1 DEF BuffersApart
    <3> QED
      BY <2>1, <3>1, <3>2, <3>3, <3>4, <3>5 DEF BuffersApart, SourceTypes
  <2> QED
    BY <2>2, <2>3
<1> QED
  BY <1>1, <1>2, <1>3, <1>4, <1>5

LEMMA SourceGiveBackStep == ASSUME SourceConstants, SourceInv, Source!GiveBack PROVE SourceInv'
<1> USE DEF Source!GiveBack, Source!Up, Source!window, Source!bounds, Source!NoBuf, SourceInv
<1>1. SourceTypes'
  BY DEF SourceConstants, SourceTypes
<1>2. FewSignals'
  <2>1. /\ tapReturn \in SourceBufs /\ filling \in SUBSET SourceBufs /\ One(tapReturn) = 1 /\ One(tapReturn)' = 0
        /\ filling' = filling \/ filling' = filling \cup {tapReturn}
    BY DEF SourceTypes, One
  <2>2. Cardinality(filling') <= Cardinality(filling) + 1 /\ Cardinality(filling) \in Nat /\ Cardinality(filling') \in Nat
    <3>1. Cardinality(filling \cup {tapReturn}) <= Cardinality(filling) + 1 /\ Cardinality(filling) \in Nat
          /\ Cardinality(filling \cup {tapReturn}) \in Nat
      BY <2>1, SourceSets
    <3> HIDE DEF Source!GiveBack, SourceInv
    <3> QED
      BY <2>1, <3>1
  <2>3. UNCHANGED <<sourcePc, waiting, frameQueue, queueBuf, allocations>>
    OBVIOUS
  <2>4. One(queueBuf) \in Nat /\ waiting \in Nat /\ Len(frameQueue) \in Nat /\ One(queueBuf)' = One(queueBuf) /\ Lists' = Lists
    BY <2>3, SourceFrames DEF SourceTypes, One, Lists
  <2>5. Cardinality(SourceBufs) * Lists \in Int
    BY SourceSets DEF SourceTypes, Lists
  <2> QED
    BY <2>1, <2>2, <2>3, <2>4, <2>5, SourceSets DEF FewSignals
<1>3. Stages'
  BY DEF Stages, SourceTypes, SourceConstants
<1>4. ASSUME ~sourceCrashed', ~mapRaced' PROVE FramesApart'
  <2>1. FramesApart /\ BuffersApart /\ ~sourceCrashed /\ sourcePc = "ready" /\ tapReturn # queueBuf /\ ~mapRaced
    BY <1>4 DEF SourceTypes
  <2>2. /\ tapReturn \in SourceBufs /\ atAdapter' = atAdapter \cup {tapReturn} /\ filling' = filling \cup {tapReturn}
        /\ tapReturn' = "none" /\ UNCHANGED <<queueBuf, frameQueue, allocations, sourcePc, freeInSource, consumed, leaked, isSourceGone>>
    BY <2>1 DEF SourceTypes
  <2>3. tapReturn \notin atAdapter /\ tapReturn # "none"
    BY <2>1, <2>2 DEF BuffersApart, Away, SourceConstants

  <2>4. Current' = Current /\ \A i \in Current : frameQueue[i].buf # tapReturn
    BY <2>1, <2>2, <2>3 DEF Current, FramesApart, OnTheirWay
  <2>5. OnTheirWay' = OnTheirWay \cup {tapReturn}
    BY <2>2, <2>4 DEF OnTheirWay
  <2> QED
    BY <2>1, <2>2, <2>3, <2>4, <2>5 DEF FramesApart
<1>5. ASSUME ~sourceCrashed', ~mapRaced' PROVE BuffersApart'
  <2>1. FramesApart /\ BuffersApart /\ ~sourceCrashed /\ sourcePc = "ready" /\ tapReturn # queueBuf /\ ~mapRaced
    BY <1>5 DEF SourceTypes
  <2>2. /\ tapReturn \in SourceBufs /\ atAdapter' = atAdapter \cup {tapReturn} /\ filling' = filling \cup {tapReturn}
        /\ tapReturn' = "none" /\ UNCHANGED <<queueBuf, frameQueue, allocations, sourcePc, freeInSource, consumed, leaked, isSourceGone>>
    BY <2>1 DEF SourceTypes
  <2>3. tapReturn \notin atAdapter /\ tapReturn # "none"
    BY <2>1, <2>2 DEF BuffersApart, Away, SourceConstants

  <2>4. Away \ {tapReturn} \subseteq Away' /\ Away' \subseteq (Away \ {tapReturn}) \cup {"none"}
    BY <2>1, <2>2 DEF Away, BuffersApart
  <2>5. "none" \notin atAdapter' /\ "none" \notin freeInSource \cup consumed \cup leaked
    BY <2>2 DEF SourceTypes, SourceConstants
  <2>6. Away' \cap (atAdapter' \ {queueBuf'}) = {}
    BY <2>1, <2>2, <2>4, <2>5 DEF BuffersApart
  <2>7. queueBuf # "none" => queueBuf \in Away'
    BY <2>1, <2>4 DEF BuffersApart
  <2>8. ~isSourceGone => SourceBufs \subseteq Away' \cup atAdapter'
    BY <2>1, <2>2, <2>4 DEF BuffersApart
  <2>9. (tapReturn \notin freeInSource \cup consumed \cup leaked)'
    BY <2>2, <2>5
  <2> QED
    BY <2>1, <2>2, <2>6, <2>7, <2>8, <2>9 DEF BuffersApart
<1> QED
  BY <1>1, <1>2, <1>3, <1>4, <1>5

LEMMA SourceInvStep == SourceConstants /\ SourceInv /\ [Source!Next]_Source!sourceVars => SourceInv'
<1> SUFFICES ASSUME SourceConstants, SourceInv, [Source!Next]_Source!sourceVars PROVE SourceInv'
  OBVIOUS
<1>1. CASE UNCHANGED Source!sourceVars
  BY <1>1 DEF Source!sourceVars, SourceInv, SourceTypes, FewSignals, One, Lists, Stages, FramesApart, OnTheirWay,
              Current, BuffersApart, Away
<1>2. CASE Source!Next
  BY <1>2, SourceAllocateStep, SourceDequeueOneStep, SourceKeepSomeStep, SourceAllocateFailsStep,
     SourceFreeBufferListStep, SourceAddFrameStep, SourceEnqueueStep, SourceRemoveFromMapStep, SourceConsumeStep,
     SourceDequeueReturnedStep, SourceGiveBackStep
     DEF Source!Next, Source!Hal, Source!QueueThread, Source!ReturnThread
<1> QED
  BY <1>1, <1>2

LEMMA SourceInvImplies ==
  ASSUME SourceConstants, SourceInv
  PROVE  Source!TypeOK /\ Source!MapMatchesAdapter /\ Source!NoBufferGone
<1> USE DEF SourceInv, Source!NoBuf
<1>1. Source!TypeOK
  <2> DEFINE N == Cardinality(SourceBufs)
  <2>1. N \in Nat /\ Lists \in Nat /\ Lists <= Allocations /\ Allocations \in Nat
    BY SourceSets DEF SourceTypes, SourceConstants, Lists, FewSignals
  <2>2. waiting \in Nat /\ waiting <= N * Lists
    <3>1. Len(frameQueue) \in Nat /\ Cardinality(filling) \in Nat /\ One(queueBuf) \in Nat /\ One(tapReturn) \in Nat
      BY SourceSets, SourceFrames DEF SourceTypes, One
    <3>2. N * Lists \in Nat
      BY <2>1
    <3> QED
      BY <3>1, <3>2 DEF FewSignals, SourceTypes
  <2>3. N * Lists <= N * (1 + Allocations)
    <3> HIDE DEF N
    <3> QED
      BY <2>1
  <2>4. N * Lists \in Nat /\ N * (1 + Allocations) \in Nat
    BY <2>1
  <2>5. waiting \in 0 .. N * (1 + Allocations)
    BY <2>2, <2>3, <2>4
  <2> QED
    BY <2>5, SourceCardinality DEF Source!TypeOK, SourceTypes
<1>2. Source!MapMatchesAdapter
  <2>1. Source!Queued = {frameQueue[i].buf : i \in Current}
    BY DEF Source!Queued, Current, SourceTypes
  <2> QED
    BY <2>1 DEF Source!MapMatchesAdapter, FramesApart, OnTheirWay
<1>3. Source!NoBufferGone
  <2> SUFFICES ASSUME ~sourceCrashed, ~mapRaced, ~isSourceGone
               PROVE  (UNION {freeInSource, consumed, atAdapter, leaked, {tapReturn}, {queueBuf}}) \ {"none"} = SourceBufs
    BY DEF Source!NoBufferGone
  <2>1. SourceBufs \subseteq Away \cup atAdapter
    BY DEF BuffersApart
  <2>2. UNION {freeInSource, consumed, atAdapter, leaked, {tapReturn}, {queueBuf}} = Away \cup atAdapter \cup {queueBuf}
    BY DEF Away
  <2>3. Away \cup atAdapter \cup {queueBuf} \subseteq SourceBufs \cup {"none"} /\ "none" \notin SourceBufs
    BY DEF Away, SourceTypes, SourceConstants
  <2> QED
    BY <2>1, <2>2, <2>3
<1> QED
  BY <1>1, <1>2, <1>3

(* The map names what the camera adapter has or has filled, and no buffer is  *)
(* lost between the window, its consumer, the threads and the adapter.        *)
THEOREM SourceKeeps ==
  ASSUME SourceConstants
  PROVE  Source!Spec => [](Source!TypeOK /\ Source!MapMatchesAdapter /\ Source!NoBufferGone)
<1>1. SourceInv => Source!TypeOK /\ Source!MapMatchesAdapter /\ Source!NoBufferGone
  BY SourceInvImplies
<1>2. Source!Init => SourceInv
  BY SourceInvInit
<1>3. SourceInv /\ [Source!Next]_Source!sourceVars => SourceInv'
  BY SourceInvStep
<1> QED
  BY <1>1, <1>2, <1>3, PTL DEF Source!Spec
-----------------------------------------------------------------------------
(* The encoder proxy                                                         *)

EncoderConstants == IsFiniteSet(InputHeaders) /\ EncoderFaults \in Nat
Buffers == Cardinality(InputHeaders)
Internal == 0 .. Buffers - 1

EncoderTypes ==
  /\ encPc \in {"loading", "running", "sent", "freeing", "closed"}
  /\ bAndroidOpaqueFormat \in BOOLEAN /\ stuffed \in BOOLEAN /\ converted \in BOOLEAN /\ spoiled \in BOOLEAN
  /\ freedTwice \in BOOLEAN /\ halfAllocated \in BOOLEAN /\ inputs \subseteq InputHeaders /\ refused \subseteq InputHeaders
  /\ gralloc_handle \in [Internal -> {"none", "live", "stale"}]
  /\ hBufPipe \in Seq(Internal) /\ messageCount = Len(hBufPipe)
  /\ encoding \in Seq(InputHeaders \X (0 .. Buffers))
  /\ submitted \in {<<>>} \cup (InputHeaders \X (0 .. Buffers))
  /\ nCurBufIndex = IF bAndroidOpaqueFormat THEN Cardinality(inputs) ELSE 0

Phases ==
  /\ encPc \in {"running", "sent"} => inputs = InputHeaders
  /\ encPc \in {"loading", "freeing", "closed"} => encoding = <<>>
  /\ encPc = "sent" => submitted # <<>> /\ (submitted[2] # Buffers => bAndroidOpaqueFormat /\ hBufPipe # <<>>)
  /\ encPc = "closed" => inputs = {}

(* The handles below nCurBufIndex are those of the buffers allocated; one is  *)
(* freed twice only where one was left behind.                                *)
Handles ==
  /\ \A i \in Internal : i < nCurBufIndex => gralloc_handle[i] = "live"
  /\ \A i \in Internal : gralloc_handle[i] = "stale" => halfAllocated
  /\ freedTwice => halfAllocated
  /\ halfAllocated => bAndroidOpaqueFormat \/ encPc = "closed"

(* The pipe is filled in order, and then holds every index once.              *)
PipeIsFull ==
  ~stuffed =>
    /\ Len(hBufPipe) = nCurBufIndex
    /\ encPc = "loading" => \A k \in 1 .. Len(hBufPipe) : hBufPipe[k] = k - 1
    /\ encPc \in {"running", "sent"} /\ bAndroidOpaqueFormat =>
         /\ \A k, l \in 1 .. Len(hBufPipe) : hBufPipe[k] = hBufPipe[l] => k = l
         /\ \A i \in Internal : \E k \in 1 .. Len(hBufPipe) : hBufPipe[k] = i

(* The indices of the frames with the encoder are late in the pipe, and the   *)
(* later the younger the frame is: behind that of the oldest there are none   *)
(* but those of the younger ones, and those of frames the encoder refused.    *)
(* The index of a frame just sent is still the first.                         *)
Gone == Cardinality(refused)
InSending == IF encPc = "sent" THEN 1 ELSE 0
InOrder ==
  \A i \in 1 .. Len(encoding), k \in 1 .. Len(hBufPipe) :
    hBufPipe[k] = encoding[i][2] =>
      (encPc = "sent" /\ k = 1) \/ k >= Buffers - Len(encoding) - Gone + i + InSending
FramesInOrder ==
  converted /\ ~stuffed =>
    /\ ~spoiled
    /\ bAndroidOpaqueFormat /\ (encPc = "running" \/ (encPc = "sent" /\ submitted[2] # Buffers)) => InOrder

(* A header is with the encoder once, if it was not refused, and only the one *)
(* being sent is altered.                                                     *)
HeadersApart ==
  /\ \A i, j \in 1 .. Len(encoding) : encoding[i][1] = encoding[j][1] => i = j
  /\ \A i \in 1 .. Len(encoding) : encoding[i][1] \notin refused
  /\ converted => altered \subseteq IF encPc = "sent" THEN {submitted[1]} ELSE {}

EncoderInv == EncoderTypes /\ Phases /\ Handles /\ PipeIsFull /\ FramesInOrder /\ HeadersApart
-----------------------------------------------------------------------------
LEMMA EncoderIndices ==
  /\ Encoder!Indices = Internal /\ Encoder!NoIndex = Buffers
  /\ \A S : Encoder!Cardinality(S) = Cardinality(S)
<1>1. \A S : Encoder!Cardinality(S) = Cardinality(S)
  BY DEF Encoder!Cardinality, Cardinality
<1> QED
  BY <1>1 DEF Encoder!Indices, Encoder!NoIndex, Internal, Buffers

LEMMA EncoderSets ==
  ASSUME EncoderConstants
  PROVE  /\ Buffers \in Nat /\ Cardinality({}) = 0
         /\ \A S \in SUBSET InputHeaders : Cardinality(S) \in 0 .. Buffers
         /\ \A S \in SUBSET InputHeaders, h \in InputHeaders :
              /\ h \notin S => Cardinality(S \cup {h}) = Cardinality(S) + 1 /\ Cardinality(S) \in Internal
              /\ h \in S => Cardinality(S \ {h}) = Cardinality(S) - 1 /\ Cardinality(S) - 1 \in Internal
<1>1. Buffers \in Nat
  BY FS_CardinalityType DEF EncoderConstants, Buffers
<1>2. \A S \in SUBSET InputHeaders : IsFiniteSet(S) /\ Cardinality(S) \in Nat /\ Cardinality(S) <= Buffers
  BY FS_Subset, FS_CardinalityType DEF EncoderConstants, Buffers
<1>3. ASSUME NEW S \in SUBSET InputHeaders, NEW h \in InputHeaders
      PROVE  /\ h \notin S => Cardinality(S \cup {h}) = Cardinality(S) + 1 /\ Cardinality(S) \in Internal
             /\ h \in S => Cardinality(S \ {h}) = Cardinality(S) - 1 /\ Cardinality(S) - 1 \in Internal
  <2>1. IsFiniteSet(S) /\ Cardinality(S) \in Nat /\ Cardinality(S) <= Buffers
    BY <1>2
  <2>2. S \cup {h} \in SUBSET InputHeaders /\ S \ {h} \in SUBSET InputHeaders
    OBVIOUS
  <2>3. Cardinality(S \cup {h}) <= Buffers /\ Cardinality(S \ {h}) \in Nat
    BY <1>2, <2>2
  <2>4. Cardinality(S \cup {h}) = IF h \in S THEN Cardinality(S) ELSE Cardinality(S) + 1
    BY <2>1, FS_AddElement
  <2>5. Cardinality(S \ {h}) = IF h \in S THEN Cardinality(S) - 1 ELSE Cardinality(S)
    BY <2>1, FS_RemoveElement
  <2>6. CASE h \in S
    BY <1>1, <2>1, <2>3, <2>5, <2>6 DEF Internal
  <2>7. CASE h \notin S
    BY <1>1, <2>1, <2>3, <2>4, <2>7 DEF Internal
  <2> QED
    BY <2>6, <2>7
<1>4. ASSUME NEW S \in SUBSET InputHeaders PROVE Cardinality(S) \in 0 .. Buffers
  <2>1. Cardinality(S) \in Nat /\ Cardinality(S) <= Buffers
    BY <1>2
  <2> QED
    BY <1>1, <2>1
<1> QED
  BY <1>1, <1>3, <1>4, FS_EmptySet

(* What the calls of the pipe make of its contents.                           *)
LEMMA Appended ==
  ASSUME NEW S, NEW q \in Seq(S), NEW e \in S
  PROVE  /\ Append(q, e) \in Seq(S) /\ Len(q) \in Nat /\ Len(Append(q, e)) = Len(q) + 1
         /\ \A k \in 1 .. Len(q) : Append(q, e)[k] = q[k]
         /\ Append(q, e)[Len(q) + 1] = e
OBVIOUS

LEMMA Dropped ==
  ASSUME NEW S, NEW q \in Seq(S), q # <<>>
  PROVE  /\ Tail(q) \in Seq(S) /\ Len(q) \in Nat \ {0} /\ Len(Tail(q)) = Len(q) - 1
         /\ \A k \in 1 .. Len(q) - 1 : Tail(q)[k] = q[k + 1]
OBVIOUS

LEMMA Rotated ==
  ASSUME NEW S, NEW q \in Seq(S), q # <<>>, NEW r, r = Append(Tail(q), Head(q))
  PROVE  /\ r \in Seq(S) /\ Len(q) \in Nat \ {0} /\ Len(r) = Len(q)
         /\ \A k \in 1 .. Len(q) - 1 : r[k] = q[k + 1]
         /\ r[Len(q)] = q[1]
<1>1. /\ Tail(q) \in Seq(S) /\ Len(q) \in Nat \ {0} /\ Len(Tail(q)) = Len(q) - 1
      /\ \A k \in 1 .. Len(q) - 1 : Tail(q)[k] = q[k + 1]
  BY Dropped
<1>2. Head(q) = q[1] /\ Head(q) \in S
  OBVIOUS
<1>3. /\ r \in Seq(S) /\ Len(r) = Len(Tail(q)) + 1
      /\ \A k \in 1 .. Len(Tail(q)) : r[k] = Tail(q)[k]
      /\ r[Len(Tail(q)) + 1] = Head(q)
  BY <1>1, <1>2, Appended
<1> QED
  BY <1>1, <1>2, <1>3

LEMMA EncoderInvInit == EncoderConstants /\ Encoder!Init => EncoderInv
<1> SUFFICES ASSUME EncoderConstants, Encoder!Init PROVE EncoderInv
  OBVIOUS
<1> USE EncoderIndices DEF Encoder!Init, Encoder!ComponentInit, Encoder!CreatePipe
<1>1. EncoderTypes
  <2>1. hBufPipe \in Seq(Internal) /\ encoding \in Seq(InputHeaders \X (0 .. Buffers)) /\ Len(hBufPipe) = 0
    OBVIOUS
  <2>2. gralloc_handle \in [Internal -> {"none", "live", "stale"}]
    OBVIOUS
  <2>3. inputs \subseteq InputHeaders /\ submitted \in {<<>>} \cup (InputHeaders \X (0 .. Buffers))
    OBVIOUS
  <2>4. nCurBufIndex = IF bAndroidOpaqueFormat THEN Cardinality(inputs) ELSE 0
    OBVIOUS
  <2> HIDE DEF Internal, Buffers
  <2> QED
    BY <2>1, <2>2, <2>3, <2>4 DEF EncoderTypes
<1>2. Phases
  BY DEF Phases
<1>3. Handles
  BY DEF Handles, Internal
<1>4. PipeIsFull
  BY DEF PipeIsFull
<1>5. FramesInOrder /\ HeadersApart
  BY DEF FramesInOrder, HeadersApart
<1> QED
  BY <1>1, <1>2, <1>3, <1>4, <1>5 DEF EncoderInv

LEMMA EncoderSetFormatStep ==
  ASSUME EncoderConstants, EncoderInv, NEW f \in {"opaque", "nv12"}, Encoder!SetFormat(f)
  PROVE  EncoderInv'
<1> USE EncoderIndices DEF Encoder!SetFormat, Encoder!formats, Encoder!indices, Encoder!pipe, Encoder!frames, Encoder!OpenConverter, EncoderInv
<1>1. EncoderTypes'
  BY EncoderSets DEF EncoderTypes, EncoderConstants, Phases, Handles
<1>2. Phases'
  BY DEF Phases, EncoderTypes
<1>3. Handles'
  BY EncoderSets DEF Handles, EncoderTypes, Phases
<1>4. PipeIsFull'
  BY EncoderSets DEF PipeIsFull, EncoderTypes, Phases
<1>5. FramesInOrder'
  BY DEF FramesInOrder, InOrder, Gone, InSending, EncoderTypes, Phases, PipeIsFull
<1>6. HeadersApart'
  BY DEF HeadersApart, EncoderTypes, Phases, Encoder!Waiting
<1> QED
  BY <1>1, <1>2, <1>3, <1>4, <1>5, <1>6

LEMMA EncoderStoreMetaDataStep ==
  ASSUME EncoderConstants, EncoderInv, Encoder!StoreMetaData
  PROVE  EncoderInv'
<1> USE EncoderIndices DEF Encoder!StoreMetaData, Encoder!formats, Encoder!indices, Encoder!pipe, Encoder!frames, EncoderInv
<1>1. EncoderTypes'
  BY EncoderSets DEF EncoderTypes, EncoderConstants, Phases, Handles
<1>2. Phases'
  BY DEF Phases, EncoderTypes
<1>3. Handles'
  BY EncoderSets DEF Handles, EncoderTypes, Phases
<1>4. PipeIsFull'
  BY EncoderSets DEF PipeIsFull, EncoderTypes, Phases
<1>5. FramesInOrder'
  BY DEF FramesInOrder, InOrder, Gone, InSending, EncoderTypes, Phases, PipeIsFull
<1>6. HeadersApart'
  BY DEF HeadersApart, EncoderTypes, Phases, Encoder!Waiting
<1> QED
  BY <1>1, <1>2, <1>3, <1>4, <1>5, <1>6

(* A buffer is allocated.                                                     *)
LEMMA EncoderAllocated ==
  ASSUME EncoderConstants, EncoderInv, NEW h \in InputHeaders, encPc = "loading", h \notin inputs,
         inputs' = inputs \cup {h}, encPc' = (IF inputs' = InputHeaders THEN "running" ELSE "loading"),
         IF bAndroidOpaqueFormat
           THEN /\ gralloc_handle' = [gralloc_handle EXCEPT ![nCurBufIndex] = "live"]
                /\ hBufPipe' = Append(hBufPipe, nCurBufIndex) /\ messageCount' = messageCount + 1
                /\ nCurBufIndex' = nCurBufIndex + 1
           ELSE UNCHANGED <<gralloc_handle, hBufPipe, messageCount, nCurBufIndex>>,
         UNCHANGED <<freedTwice, halfAllocated, bAndroidOpaqueFormat, encoding, submitted, altered, spoiled, stuffed, converted, refused>>
  PROVE  EncoderInv'
<1> USE DEF EncoderInv
<1>1. inputs \in SUBSET InputHeaders /\ Buffers \in Nat /\ encoding = <<>> /\ encPc' \in {"loading", "running"}
  BY EncoderSets DEF EncoderTypes, Phases
<1>2. /\ Cardinality(inputs') = Cardinality(inputs) + 1 /\ Cardinality(inputs) \in Internal
      /\ inputs' = InputHeaders => Cardinality(inputs') = Buffers
  BY <1>1, EncoderSets DEF Buffers
<1>3. bAndroidOpaqueFormat => nCurBufIndex = Cardinality(inputs) /\ nCurBufIndex \in Internal
  BY <1>2 DEF EncoderTypes
<1>4. bAndroidOpaqueFormat =>
        /\ hBufPipe' \in Seq(Internal) /\ Len(hBufPipe) \in Nat /\ Len(hBufPipe') = Len(hBufPipe) + 1
        /\ \A k \in 1 .. Len(hBufPipe) : hBufPipe'[k] = hBufPipe[k]
        /\ hBufPipe'[Len(hBufPipe) + 1] = nCurBufIndex
  <2>1. hBufPipe \in Seq(Internal)
    BY DEF EncoderTypes
  <2>2. bAndroidOpaqueFormat => hBufPipe' = Append(hBufPipe, nCurBufIndex)
    OBVIOUS
  <2> QED
    BY <1>3, <2>1, <2>2, Appended
<1>5. EncoderTypes'
  <2>1. gralloc_handle' \in [Internal -> {"none", "live", "stale"}]
    BY DEF EncoderTypes
  <2>2. hBufPipe' \in Seq(Internal) /\ messageCount' = Len(hBufPipe')
    BY <1>4 DEF EncoderTypes
  <2>3. nCurBufIndex' = IF bAndroidOpaqueFormat' THEN Cardinality(inputs') ELSE 0
    BY <1>2, <1>3 DEF EncoderTypes
  <2>4. inputs' \subseteq InputHeaders
    BY <1>1
  <2> QED
    BY <1>1, <2>1, <2>2, <2>3, <2>4 DEF EncoderTypes
<1>6. Phases'
  BY <1>1 DEF Phases
<1>7. Handles'
  <2>1. CASE bAndroidOpaqueFormat
    <3>1. \A i \in Internal : gralloc_handle'[i] = IF i = nCurBufIndex THEN "live" ELSE gralloc_handle[i]
      BY <2>1 DEF EncoderTypes
    <3>2. \A i \in Internal : i < nCurBufIndex' => i < nCurBufIndex \/ i = nCurBufIndex
      BY <2>1, <1>3 DEF Internal
    <3> QED
      BY <2>1, <3>1, <3>2, <1>1 DEF Handles
  <2>2. CASE ~bAndroidOpaqueFormat
    BY <2>2, <1>1 DEF Handles
  <2> QED
    BY <2>1, <2>2
<1>8. PipeIsFull'
  <2> SUFFICES ASSUME ~stuffed PROVE PipeIsFull'
    BY DEF PipeIsFull
  <2>1. CASE bAndroidOpaqueFormat
    <3>1. Len(hBufPipe) = nCurBufIndex /\ \A k \in 1 .. Len(hBufPipe) : hBufPipe[k] = k - 1
      BY DEF PipeIsFull
    <3>2. Len(hBufPipe') = nCurBufIndex' /\ \A k \in 1 .. Len(hBufPipe') : hBufPipe'[k] = k - 1
      BY <2>1, <3>1, <1>4
    <3>3. encPc' = "running" => nCurBufIndex' = Buffers
      BY <2>1, <1>2, <1>3
    <3>4. \A k, l \in 1 .. Len(hBufPipe') : hBufPipe'[k] = hBufPipe'[l] => k = l
      BY <3>2
    <3>5. encPc' = "running" => \A i \in Internal : \E k \in 1 .. Len(hBufPipe') : hBufPipe'[k] = i
      <4> SUFFICES ASSUME encPc' = "running", NEW i \in Internal PROVE \E k \in 1 .. Len(hBufPipe') : hBufPipe'[k] = i
        OBVIOUS
      <4>1. i + 1 \in 1 .. Len(hBufPipe')
        BY <1>1, <3>2, <3>3 DEF Internal
      <4>2. hBufPipe'[i + 1] = i
        BY <3>2, <4>1 DEF Internal
      <4> QED
        BY <4>1, <4>2
    <3> QED
      BY <1>1, <3>2, <3>4, <3>5 DEF PipeIsFull
  <2>2. CASE ~bAndroidOpaqueFormat
    <3>1. Len(hBufPipe) = 0
      BY <2>2 DEF PipeIsFull, EncoderTypes
    <3> QED
      BY <2>2, <3>1, <1>1 DEF PipeIsFull
  <2> QED
    BY <2>1, <2>2
<1>9. FramesInOrder' /\ HeadersApart'
  BY <1>1 DEF FramesInOrder, InOrder, HeadersApart
<1> QED
  BY <1>5, <1>6, <1>7, <1>8, <1>9

(* An allocation fails.                                                       *)
LEMMA EncoderUnallocated ==
  ASSUME EncoderConstants, EncoderInv, NEW h \in InputHeaders, encPc = "loading", h \notin inputs,
         encPc' = "freeing", halfAllocated' = bAndroidOpaqueFormat,
         UNCHANGED <<hBufPipe, messageCount, inputs, nCurBufIndex>>,
         IF bAndroidOpaqueFormat
           THEN \/ gralloc_handle' = [gralloc_handle EXCEPT ![nCurBufIndex] = "stale"] /\ UNCHANGED freedTwice
                \/ UNCHANGED gralloc_handle /\ freedTwice' = (freedTwice \/ gralloc_handle[nCurBufIndex] = "stale")
           ELSE UNCHANGED <<gralloc_handle, freedTwice>>,
         UNCHANGED <<bAndroidOpaqueFormat, encoding, submitted, altered, spoiled, stuffed, converted, refused>>
  PROVE  EncoderInv'
<1> USE DEF EncoderInv
<1>1. encoding = <<>>
  BY DEF Phases
<1>2. EncoderTypes'
  <2>1. gralloc_handle' \in [Internal -> {"none", "live", "stale"}]
    BY DEF EncoderTypes
  <2>2. freedTwice' \in BOOLEAN
    <3>1. CASE UNCHANGED freedTwice
      BY <3>1 DEF EncoderTypes
    <3>2. CASE freedTwice' = (freedTwice \/ gralloc_handle[nCurBufIndex] = "stale")
      BY <3>2
    <3> QED
      BY <3>1, <3>2
  <2> QED
    BY <2>1, <2>2 DEF EncoderTypes
<1>3. Phases' /\ PipeIsFull'
  BY <1>1 DEF Phases, PipeIsFull
<1>4. Handles'
  <2>1. CASE bAndroidOpaqueFormat
    <3>1. \A i \in Internal : gralloc_handle'[i] # gralloc_handle[i] => i = nCurBufIndex
      BY <2>1 DEF EncoderTypes
    <3>2. nCurBufIndex \in Int
      BY <2>1, EncoderSets DEF EncoderTypes
    <3>3. \A i \in Internal : i < nCurBufIndex' => gralloc_handle'[i] = "live"
      BY <3>1, <3>2 DEF Handles
    <3> QED
      BY <2>1, <3>3 DEF Handles
  <2>2. CASE ~bAndroidOpaqueFormat
    <3>1. ~halfAllocated /\ ~halfAllocated'
      BY <2>2 DEF Handles
    <3> QED
      BY <2>2, <3>1 DEF Handles
  <2> QED
    BY <2>1, <2>2
<1>5. FramesInOrder' /\ HeadersApart'
  BY <1>1 DEF FramesInOrder, InOrder, HeadersApart
<1> QED
  BY <1>2, <1>3, <1>4, <1>5

LEMMA EncoderAllocateBufferStep ==
  ASSUME EncoderConstants, EncoderInv, NEW h \in InputHeaders, Encoder!AllocateBuffer(h)
  PROVE  EncoderInv'
<1> USE DEF Encoder!AllocateBuffer, Encoder!WriteToPipe, Encoder!Fault, Encoder!pipe, Encoder!formats, Encoder!frames
<1>1. CASE inputs' = inputs \cup {h}
  <2>1. h \notin inputs
    OBVIOUS
  <2> QED
    BY <1>1, <2>1, EncoderAllocated
<1>2. CASE inputs' # inputs \cup {h}
  BY <1>2, EncoderUnallocated
<1> QED
  BY <1>1, <1>2

LEMMA EncoderFreeBufferStep ==
  ASSUME EncoderConstants, EncoderInv, NEW h \in InputHeaders, Encoder!FreeBuffer(h)
  PROVE  EncoderInv'
<1> USE DEF EncoderInv
<1>1. /\ encPc = "freeing" /\ h \in inputs /\ inputs' = inputs \ {h} /\ encoding = <<>>
      /\ UNCHANGED <<encPc, bAndroidOpaqueFormat, freedTwice, halfAllocated, encoding, submitted, altered, spoiled, stuffed, converted, refused>>
  BY DEF Encoder!FreeBuffer, Encoder!formats, Encoder!frames, Phases
<1>2. /\ Cardinality(inputs') = Cardinality(inputs) - 1 /\ Cardinality(inputs) - 1 \in Internal /\ Cardinality(inputs) \in Nat
  <2>1. inputs \in SUBSET InputHeaders
    BY DEF EncoderTypes
  <2>2. h \in inputs /\ inputs' = inputs \ {h}
    BY <1>1
  <2>3. Cardinality(inputs) \in 0 .. Buffers /\ Buffers \in Nat
    BY <2>1, EncoderSets
  <2>4. Cardinality(inputs \ {h}) = Cardinality(inputs) - 1 /\ Cardinality(inputs) - 1 \in Internal
    BY <2>1, <2>2, EncoderSets
  <2> HIDE DEF EncoderInv
  <2> QED
    BY <2>2, <2>3, <2>4
<1>3. CASE bAndroidOpaqueFormat
  <2>1. /\ nCurBufIndex' = nCurBufIndex - 1 /\ gralloc_handle' = [gralloc_handle EXCEPT ![nCurBufIndex - 1] = "none"]
        /\ nCurBufIndex = Cardinality(inputs)
    BY <1>3 DEF Encoder!FreeBuffer, Encoder!Free, EncoderTypes
  <2>2. /\ hBufPipe' \in Seq(Internal) /\ messageCount' = Len(hBufPipe') /\ Len(hBufPipe) \in Nat
        /\ Len(hBufPipe') = IF Len(hBufPipe) > 0 THEN Len(hBufPipe) - 1 ELSE 0
    <3>1. hBufPipe \in Seq(Internal) /\ messageCount = Len(hBufPipe) /\ Len(hBufPipe) \in Nat
      BY DEF EncoderTypes
    <3>2. CASE messageCount > 0
      <4>1. hBufPipe # <<>> /\ hBufPipe' = Tail(hBufPipe) /\ messageCount' = messageCount - 1
        BY <1>3, <3>1, <3>2 DEF Encoder!FreeBuffer, Encoder!IsPipeReady, Encoder!DropFromPipe
      <4> QED
        BY <3>1, <4>1, Dropped
    <3>3. CASE ~(messageCount > 0)
      <4>1. hBufPipe' = hBufPipe /\ messageCount' = messageCount
        BY <1>3, <3>3 DEF Encoder!FreeBuffer, Encoder!IsPipeReady, Encoder!pipe
      <4> QED
        BY <3>1, <3>3, <4>1
    <3> QED
      BY <3>2, <3>3
  <2>3. EncoderTypes'
    <3>1. gralloc_handle' \in [Internal -> {"none", "live", "stale"}]
      BY <2>1 DEF EncoderTypes
    <3> QED
      BY <1>1, <1>2, <1>3, <2>1, <2>2, <3>1 DEF EncoderTypes
  <2>4. Handles'
    <3>1. \A i \in Internal : gralloc_handle'[i] = IF i = nCurBufIndex - 1 THEN "none" ELSE gralloc_handle[i]
      BY <2>1 DEF EncoderTypes
    <3>2. \A i \in Internal : i < nCurBufIndex' => i < nCurBufIndex /\ i # nCurBufIndex - 1
      BY <1>2, <2>1, EncoderSets DEF Internal
    <3> QED
      BY <1>1, <1>3, <3>1, <3>2 DEF Handles
  <2>5. PipeIsFull'
    <3>1. ~stuffed => Len(hBufPipe') = nCurBufIndex'
      BY <1>2, <2>1, <2>2, EncoderSets DEF PipeIsFull, Internal
    <3> QED
      BY <1>1, <3>1 DEF PipeIsFull
  <2> QED
    BY <1>1, <2>3, <2>4, <2>5 DEF Phases, FramesInOrder, InOrder, HeadersApart
<1>4. CASE ~bAndroidOpaqueFormat
  <2>1. UNCHANGED <<nCurBufIndex, gralloc_handle, hBufPipe, messageCount>>
    BY <1>4 DEF Encoder!FreeBuffer, Encoder!pipe
  <2>2. EncoderTypes'
    BY <1>1, <1>4, <2>1 DEF EncoderTypes
  <2> QED
    BY <1>1, <1>4, <2>1, <2>2 DEF Phases, Handles, PipeIsFull, FramesInOrder, InOrder, HeadersApart
<1> QED
  BY <1>3, <1>4

(* The headers with the encoder are distinct: there are no more of them than  *)
(* there are, and fewer while the client has one.                             *)
LEMMA WithTheEncoder ==
  ASSUME EncoderConstants, EncoderInv, NEW S \in SUBSET InputHeaders, \A i \in 1 .. Len(encoding) : encoding[i][1] \in S
  PROVE  Len(encoding) \in Nat /\ Len(encoding) <= Cardinality(S)
<1>1. encoding \in Seq(InputHeaders \X (0 .. Buffers)) /\ Len(encoding) \in Nat
  BY DEF EncoderInv, EncoderTypes
<1> DEFINE f == [i \in 1 .. Len(encoding) |-> encoding[i][1]]
<1>2. IsFiniteSet(S) /\ Cardinality(S) \in Nat
  BY FS_Subset, FS_CardinalityType DEF EncoderConstants
<1>3. IsFiniteSet(1 .. Len(encoding)) /\ Cardinality(1 .. Len(encoding)) = Len(encoding)
  <2>1. 1 \in Int /\ Len(encoding) \in Int
    BY <1>1
  <2>2. /\ IsFiniteSet(1 .. Len(encoding))
        /\ Cardinality(1 .. Len(encoding)) = IF 1 > Len(encoding) THEN 0 ELSE Len(encoding) - 1 + 1
    BY <2>1, FS_Interval
  <2> QED
    BY <1>1, <2>2
<1>4. f \in [1 .. Len(encoding) -> S] /\ \A i, j \in 1 .. Len(encoding) : f[i] = f[j] => i = j
  BY DEF EncoderInv, HeadersApart
<1> HIDE DEF f
<1>5. ~(Cardinality(S) < Cardinality(1 .. Len(encoding)))
  BY <1>2, <1>3, <1>4, FS_PigeonHole
<1> QED
  BY <1>1, <1>2, <1>3, <1>5

LEMMA EncoderRoom ==
  ASSUME EncoderConstants, EncoderInv
  PROVE  /\ encoding \in Seq(InputHeaders \X (0 .. Buffers)) /\ Len(encoding) \in 0 .. Buffers /\ Gone \in 0 .. Buffers
         /\ \A h \in InputHeaders : ~Encoder!Waiting(h) /\ h \notin refused => Len(encoding) + Gone <= Buffers - 1
<1>1. encoding \in Seq(InputHeaders \X (0 .. Buffers)) /\ DOMAIN encoding = 1 .. Len(encoding) /\ Buffers \in Nat
  BY EncoderSets DEF EncoderInv, EncoderTypes
<1>2. \A i \in 1 .. Len(encoding) : encoding[i][1] \in InputHeaders \ refused
  BY <1>1 DEF EncoderInv, HeadersApart
<1>3. Len(encoding) \in Nat /\ Len(encoding) <= Buffers
  BY <1>2, WithTheEncoder DEF Buffers
<1>4. Gone \in 0 .. Buffers /\ Cardinality(InputHeaders \ refused) = Buffers - Gone
  <2>1. refused \in SUBSET InputHeaders
    BY DEF EncoderInv, EncoderTypes
  <2>2. InputHeaders \cap refused = refused
    BY <2>1
  <2>3. Cardinality(InputHeaders \ refused) = Buffers - Gone
    BY <2>2, FS_Difference DEF EncoderConstants, Buffers, Gone
  <2>4. Gone \in 0 .. Buffers
    BY <2>1, EncoderSets DEF Gone
  <2> QED
    BY <2>3, <2>4
<1>5. ASSUME NEW h \in InputHeaders, ~Encoder!Waiting(h), h \notin refused PROVE Len(encoding) + Gone <= Buffers - 1
  <2> DEFINE Kept == InputHeaders \ refused
  <2>1. \A i \in 1 .. Len(encoding) : encoding[i][1] \in Kept \ {h}
    BY <1>1, <1>2, <1>5 DEF Encoder!Waiting
  <2>2. Kept \in SUBSET InputHeaders /\ Kept \ {h} \in SUBSET InputHeaders /\ h \in Kept
    BY <1>5
  <2>3. Cardinality(Kept) = Buffers - Gone
    BY <1>4
  <2> HIDE DEF Kept
  <2>4. Len(encoding) <= Cardinality(Kept \ {h})
    BY <2>1, <2>2, WithTheEncoder
  <2>5. Cardinality(Kept \ {h}) = Cardinality(Kept) - 1
    BY <2>2, EncoderSets
  <2> QED
    BY <1>1, <1>3, <1>4, <2>3, <2>4, <2>5
<1> QED
  BY <1>1, <1>3, <1>4, <1>5

(* A rotation keeps every index in the pipe once.                             *)
EachOnce(q) ==
  /\ \A k, l \in 1 .. Len(q) : q[k] = q[l] => k = l
  /\ \A i \in Internal : \E k \in 1 .. Len(q) : q[k] = i

LEMMA RotatedOnce ==
  ASSUME NEW q \in Seq(Internal), q # <<>>, NEW r, r = Append(Tail(q), Head(q)), EachOnce(q)
  PROVE  EachOnce(r)
<1> DEFINE n == Len(q)
<1>1. /\ r \in Seq(Internal) /\ n \in Nat \ {0} /\ Len(r) = n
      /\ \A k \in 1 .. n - 1 : r[k] = q[k + 1]
      /\ r[n] = q[1]
  BY Rotated
<1> HIDE DEF n
<1>2. \A k \in 1 .. n : r[k] = q[IF k = n THEN 1 ELSE k + 1]
  BY <1>1
<1>3. ASSUME NEW k \in 1 .. n, NEW l \in 1 .. n, r[k] = r[l] PROVE k = l
  <2> DEFINE kk == IF k = n THEN 1 ELSE k + 1
             ll == IF l = n THEN 1 ELSE l + 1
  <2>1. kk \in 1 .. n /\ ll \in 1 .. n /\ q[kk] = q[ll]
    BY <1>1, <1>2, <1>3
  <2>2. kk = ll
    BY <2>1 DEF EachOnce, n
  <2> QED
    BY <1>1, <2>2
<1>4. ASSUME NEW i \in Internal PROVE \E k \in 1 .. n : r[k] = i
  <2>1. PICK k \in 1 .. n : q[k] = i
    BY DEF EachOnce, n
  <2> DEFINE m == IF k = 1 THEN n ELSE k - 1
  <2>2. m \in 1 .. n /\ (IF m = n THEN 1 ELSE m + 1) \in {k, 1} /\ r[m] = q[k]
    <3>1. CASE k = 1
      BY <1>1, <3>1
    <3>2. CASE k # 1
      BY <1>1, <3>2
    <3> QED
      BY <3>1, <3>2
  <2> QED
    BY <2>1, <2>2
<1> QED
  BY <1>1, <1>3, <1>4 DEF EachOnce

(* A frame is sent as it is, or by the index at the head, and the encoder     *)
(* takes it or refuses it.                                                    *)
LEMMA EncoderSent ==
  ASSUME EncoderConstants, EncoderInv, encPc = "running", NEW h \in InputHeaders, ~Encoder!Waiting(h), h \notin refused,
         NEW e \in 0 .. Buffers,
         e # Buffers => bAndroidOpaqueFormat /\ hBufPipe # <<>> /\ e = hBufPipe[1],
         \/ encoding' = Append(encoding, <<h, e>>) /\ refused' = refused
         \/ encoding' = encoding /\ refused' = refused \cup {h},
         submitted' = <<h, e>>, encPc' = "sent", altered' \subseteq altered \cup {h},
         spoiled' \in BOOLEAN, spoiled' => spoiled \/ (e # Buffers /\ Encoder!WithEncoder(e)),
         UNCHANGED <<hBufPipe, messageCount, inputs, nCurBufIndex, gralloc_handle, freedTwice, halfAllocated,
                     bAndroidOpaqueFormat, stuffed, converted>>
  PROVE  EncoderInv'
<1> USE DEF EncoderInv
<1>1. /\ encoding \in Seq(InputHeaders \X (0 .. Buffers)) /\ Len(encoding) \in Nat /\ Buffers \in Nat /\ Gone \in Nat
      /\ DOMAIN encoding = 1 .. Len(encoding) /\ Len(encoding) + Gone <= Buffers - 1
  BY EncoderRoom, EncoderSets
<1>2. \/ /\ encoding' \in Seq(InputHeaders \X (0 .. Buffers)) /\ Len(encoding') = Len(encoding) + 1
         /\ \A i \in 1 .. Len(encoding) : encoding'[i] = encoding[i]
         /\ encoding'[Len(encoding) + 1] = <<h, e>>
         /\ refused' = refused
      \/ encoding' = encoding /\ refused' = refused \cup {h}
  <2>1. <<h, e>> \in InputHeaders \X (0 .. Buffers)
    OBVIOUS
  <2>2. CASE encoding' = Append(encoding, <<h, e>>) /\ refused' = refused
    <3> DEFINE q == Append(encoding, <<h, e>>)
    <3>1. /\ q \in Seq(InputHeaders \X (0 .. Buffers)) /\ Len(q) = Len(encoding) + 1
          /\ \A i \in 1 .. Len(encoding) : q[i] = encoding[i]
          /\ q[Len(encoding) + 1] = <<h, e>>
      BY <1>1, <2>1, Appended
    <3>2. encoding' = q /\ refused' = refused
      BY <2>2
    <3> HIDE DEF q, EncoderInv
    <3> QED
      BY <3>1, <3>2
  <2> QED
    BY <2>2
<1>3. /\ encoding' \in Seq(InputHeaders \X (0 .. Buffers)) /\ Len(encoding') \in Nat
      /\ \A i \in 1 .. Len(encoding') :
           \/ i \in 1 .. Len(encoding) /\ encoding'[i] = encoding[i]
           \/ i = Len(encoding) + 1 /\ encoding'[i] = <<h, e>> /\ refused' = refused
  <2>1. CASE encoding' = encoding
    BY <1>1, <2>1
  <2>2. CASE Len(encoding') = Len(encoding) + 1
    <3>1. \A i \in 1 .. Len(encoding') : i \in 1 .. Len(encoding) \/ i = Len(encoding) + 1
      BY <1>1, <2>2
    <3> QED
      BY <1>1, <1>2, <2>2, <3>1
  <2> QED
    BY <1>2, <2>1, <2>2
<1>4. refused' \subseteq refused \cup {h} /\ refused' \subseteq InputHeaders
  BY <1>2 DEF EncoderTypes
<1>5. EncoderTypes'
  BY <1>3, <1>4 DEF EncoderTypes
<1>6. Phases' /\ Handles' /\ PipeIsFull'
  BY DEF Phases, Handles, PipeIsFull
<1>7. FramesInOrder'
  <2> SUFFICES ASSUME converted, ~stuffed
               PROVE  ~spoiled' /\ (bAndroidOpaqueFormat /\ e # Buffers => InOrder')
    BY DEF FramesInOrder
  <2>1. ~spoiled
    BY DEF FramesInOrder
  <2>2. CASE e = Buffers
    BY <2>1, <2>2
  <2>3. CASE e # Buffers
    <3>1. InOrder /\ InSending = 0 /\ InSending' = 1 /\ Buffers' = Buffers
      BY <2>3 DEF FramesInOrder, InSending, Buffers
    <3>2. /\ Len(hBufPipe) = Buffers
          /\ \A k, l \in 1 .. Len(hBufPipe) : hBufPipe[k] = hBufPipe[l] => k = l
      BY <2>3 DEF PipeIsFull, EncoderTypes, Phases, Buffers
    <3>3. 1 \in 1 .. Len(hBufPipe)
      BY <1>1, <3>2
    <3>4. \A i \in 1 .. Len(encoding) : encoding[i][2] # hBufPipe[1]
      <4> SUFFICES ASSUME NEW i \in 1 .. Len(encoding), encoding[i][2] = hBufPipe[1] PROVE FALSE
        OBVIOUS
      <4>1. 1 >= Buffers - Len(encoding) - Gone + i + InSending
        BY <3>1, <3>3 DEF InOrder
      <4> QED
        BY <1>1, <3>1, <4>1
    <3>5. ~spoiled'
      BY <1>1, <2>1, <3>4, <2>3 DEF Encoder!WithEncoder
    <3>6. Len(encoding') + Gone' = Len(encoding) + Gone + 1 /\ Gone' \in Nat
      <4>1. CASE refused' = refused
        <5>1. Gone' = Gone /\ refused' # refused \cup {h}
          BY <4>1 DEF Gone
        <5>2. Len(encoding') = Len(encoding) + 1
          BY <1>2, <5>1
        <5> QED
          BY <1>1, <5>1, <5>2
      <4>2. CASE encoding' = encoding /\ refused' = refused \cup {h}
        <5>1. Gone' = Gone + 1
          BY <4>2, EncoderSets DEF Gone, EncoderTypes
        <5> QED
          BY <1>1, <4>2, <5>1
      <4> QED
        BY <1>2, <4>1, <4>2
    <3>7. InOrder'
      <4> SUFFICES ASSUME NEW i \in 1 .. Len(encoding'), NEW k \in 1 .. Len(hBufPipe), hBufPipe[k] = encoding'[i][2]
                   PROVE  k = 1 \/ k >= Buffers - Len(encoding') - Gone' + i + 1
        BY <3>1 DEF InOrder
      <4>1. CASE i \in 1 .. Len(encoding) /\ encoding'[i] = encoding[i]
        <5>1. k >= Buffers - Len(encoding) - Gone + i + InSending
          BY <4>1, <3>1 DEF InOrder
        <5>2. k \in Nat /\ i \in Nat /\ k >= Buffers - (Len(encoding) + Gone) + i
          BY <1>1, <1>3, <3>1, <3>2, <5>1
        <5>3. Buffers - (Len(encoding) + Gone) + i = Buffers - Len(encoding') - Gone' + i + 1
          <6> DEFINE L == Len(encoding)
                     M == Len(encoding')
                     G == Gone
                     H == Gone'
          <6>1. L \in Nat /\ M \in Nat /\ G \in Nat /\ H \in Nat /\ M + H = L + G + 1 /\ i \in Nat /\ Buffers \in Nat
            BY <1>1, <1>3, <3>6, <5>2
          <6> HIDE DEF L, M, G, H, EncoderInv
          <6>2. Buffers - (L + G) + i = Buffers - M - H + i + 1
            BY ONLY <6>1
          <6> QED
            BY <6>2 DEF L, M, G, H
        <5> QED
          BY <5>2, <5>3
      <4>2. CASE encoding'[i] = <<h, e>>
        BY <2>3, <3>2, <3>3, <4>2
      <4> QED
        BY <1>3, <4>1, <4>2
    <3> QED
      BY <3>5, <3>7
  <2> QED
    BY <2>2, <2>3
<1>8. HeadersApart'
  <2>1. \A i \in 1 .. Len(encoding) : encoding[i][1] # h
    BY <1>1 DEF Encoder!Waiting
  <2>2. \A i, j \in 1 .. Len(encoding') : encoding'[i][1] = encoding'[j][1] => i = j
    <3> SUFFICES ASSUME NEW i \in 1 .. Len(encoding'), NEW j \in 1 .. Len(encoding'), encoding'[i][1] = encoding'[j][1]
                 PROVE  i = j
      OBVIOUS
    <3> QED
      BY <1>3, <2>1 DEF HeadersApart
  <2>3. \A i \in 1 .. Len(encoding') : encoding'[i][1] \notin refused'
    BY <1>3, <1>4, <2>1 DEF HeadersApart
  <2>4. converted' => altered' \subseteq {h}
    BY DEF HeadersApart
  <2> QED
    BY <2>2, <2>3, <2>4 DEF HeadersApart
<1> QED
  BY <1>5, <1>6, <1>7, <1>8

(* A conversion fails: the index goes to the end at once.                     *)
LEMMA EncoderNotConverted ==
  ASSUME EncoderConstants, EncoderInv, encPc = "running", bAndroidOpaqueFormat, hBufPipe # <<>>, converted' = FALSE,
         hBufPipe' = Append(Tail(hBufPipe), Head(hBufPipe)), spoiled' \in BOOLEAN,
         UNCHANGED <<encPc, messageCount, inputs, nCurBufIndex, gralloc_handle, freedTwice, halfAllocated,
                     bAndroidOpaqueFormat, stuffed, encoding, submitted, refused>>
  PROVE  EncoderInv'
<1> USE DEF EncoderInv
<1>1. hBufPipe \in Seq(Internal)
  BY DEF EncoderTypes
<1>2. hBufPipe' \in Seq(Internal) /\ Len(hBufPipe') = Len(hBufPipe)
  BY <1>1, Rotated
<1>3. EncoderTypes'
  BY <1>2 DEF EncoderTypes
<1>4. Phases' /\ Handles' /\ FramesInOrder' /\ HeadersApart'
  BY DEF Phases, Handles, FramesInOrder, HeadersApart
<1>5. PipeIsFull'
  <2>1. ~stuffed => Len(hBufPipe) = nCurBufIndex /\ EachOnce(hBufPipe)
    BY DEF PipeIsFull, EachOnce
  <2>2. ~stuffed => EachOnce(hBufPipe')
    BY <1>1, <2>1, RotatedOnce
  <2> QED
    BY <1>2, <2>1, <2>2 DEF PipeIsFull, EachOnce
<1> QED
  BY <1>3, <1>4, <1>5

LEMMA EncoderEmptyThisBufferStep ==
  ASSUME EncoderConstants, EncoderInv, NEW h \in InputHeaders, NEW kind \in {"gralloc", "camera", "end"}, Encoder!EmptyThisBuffer(h, kind)
  PROVE  EncoderInv'
<1>1. /\ encPc = "running" /\ ~Encoder!Waiting(h) /\ h \notin refused
      /\ UNCHANGED <<inputs, nCurBufIndex, gralloc_handle, freedTwice, halfAllocated, bAndroidOpaqueFormat>>
  BY DEF Encoder!EmptyThisBuffer, Encoder!formats, Encoder!indices
<1> DEFINE Sent(e) ==
      /\ submitted' = <<h, e>> /\ encPc' = "sent"
      /\ \/ encoding' = Append(encoding, <<h, e>>) /\ refused' = refused
         \/ encoding' = encoding /\ refused' = refused \cup {h}
<1>2. \A e : Encoder!Send(h, e) => Sent(e)
  BY DEF Encoder!Send
<1>3. CASE proxyBufferType = "metadata" /\ kind = "gralloc" /\ bAndroidOpaqueFormat
  <2>1. hBufPipe # <<>> /\ Encoder!ConvertAndSend(h)
    BY <1>3 DEF Encoder!EmptyThisBuffer, Encoder!ConvertAndSend
  <2> DEFINE e == Head(hBufPipe)
  <2>2. e = hBufPipe[1] /\ e \in Internal /\ Buffers \in Nat
    BY <2>1, EncoderSets DEF EncoderInv, EncoderTypes
  <2>3. e \in 0 .. Buffers /\ e # Buffers
    BY <2>2 DEF Internal
  <2>4. spoiled' \in BOOLEAN /\ (spoiled' => spoiled \/ Encoder!WithEncoder(e)) /\ altered' \subseteq altered \cup {h} /\ UNCHANGED stuffed
    BY <2>1 DEF Encoder!ConvertAndSend
  <2>5. CASE Encoder!Send(h, e) /\ UNCHANGED <<hBufPipe, messageCount, converted>>
    <3>1. Sent(e)
      BY <1>2, <2>5
    <3> HIDE DEF e
    <3> QED
      BY <1>1, <1>3, <2>1, <2>2, <2>3, <2>4, <2>5, <3>1, EncoderSent
  <2>6. CASE converted' = FALSE /\ hBufPipe' = Append(Tail(hBufPipe), Head(hBufPipe))
             /\ UNCHANGED <<messageCount, submitted, encPc, encoding, refused>>
    BY <1>1, <1>3, <2>1, <2>4, <2>6, EncoderNotConverted
  <2> QED
    BY <2>1, <2>5, <2>6 DEF Encoder!ConvertAndSend, Encoder!Recirculate, Encoder!pipe
<1>4. CASE ~(proxyBufferType = "metadata" /\ kind = "gralloc" /\ bAndroidOpaqueFormat)
  <2>1. Encoder!SendUnconverted(h, kind)
    BY <1>4 DEF Encoder!EmptyThisBuffer
  <2>2. /\ Encoder!Send(h, Buffers) /\ altered' \subseteq altered \cup {h}
        /\ UNCHANGED <<hBufPipe, messageCount, converted, spoiled, stuffed>>
    BY <2>1, EncoderIndices DEF Encoder!SendUnconverted, Encoder!pipe
  <2>3. Buffers \in 0 .. Buffers /\ spoiled' \in BOOLEAN /\ (spoiled' => spoiled)
    BY <2>2, EncoderSets DEF EncoderInv, EncoderTypes
  <2>4. Sent(Buffers)
    BY <1>2, <2>2
  <2> QED
    BY <1>1, <2>2, <2>3, <2>4, EncoderSent
<1> QED
  BY <1>3, <1>4

LEMMA EncoderRestoreStep ==
  ASSUME EncoderConstants, EncoderInv, Encoder!Restore
  PROVE  EncoderInv'
<1> USE DEF EncoderInv
<1>1. /\ encPc = "sent" /\ encPc' = "running" /\ submitted' = <<>> /\ altered' = altered \ {submitted[1]}
      /\ UNCHANGED <<inputs, nCurBufIndex, gralloc_handle, freedTwice, halfAllocated, bAndroidOpaqueFormat,
                     encoding, spoiled, converted, refused>>
  BY DEF Encoder!Restore, Encoder!formats, Encoder!indices
<1>2. hBufPipe \in Seq(Internal) /\ submitted # <<>> /\ submitted \in InputHeaders \X (0 .. Buffers) /\ Buffers \in Nat
  BY <1>1, EncoderSets DEF EncoderTypes, Phases
<1>3. Handles' /\ Phases' /\ HeadersApart'
  BY <1>1 DEF Handles, Phases, HeadersApart
<1>4. ASSUME hBufPipe' \in Seq(Internal), messageCount' = Len(hBufPipe'), stuffed' \in BOOLEAN
      PROVE  EncoderTypes'
  BY <1>1, <1>4 DEF EncoderTypes
<1>5. CASE bAndroidOpaqueFormat /\ submitted[2] = Buffers
  <2>1. hBufPipe' = Append(hBufPipe, 0) /\ messageCount' = messageCount + 1 /\ stuffed' = TRUE
    BY <1>5, EncoderIndices DEF Encoder!Restore, Encoder!WriteToPipe
  <2>2. 0 \in Internal
    <3>1. {} \in SUBSET InputHeaders /\ submitted[1] \in InputHeaders /\ submitted[1] \notin {}
      BY <1>2
    <3> QED
      BY <3>1, EncoderSets
  <2>3. hBufPipe' \in Seq(Internal) /\ messageCount' = Len(hBufPipe')
    BY <1>2, <2>1, <2>2, Appended DEF EncoderTypes
  <2> QED
    BY <1>3, <1>4, <2>1, <2>3 DEF PipeIsFull, FramesInOrder
<1>6. CASE bAndroidOpaqueFormat /\ submitted[2] # Buffers
  <2>1. hBufPipe # <<>> /\ hBufPipe' = Append(Tail(hBufPipe), Head(hBufPipe)) /\ UNCHANGED <<messageCount, stuffed>>
    BY <1>1, <1>6, EncoderIndices DEF Encoder!Restore, Encoder!Recirculate, Phases
  <2>2. /\ hBufPipe' \in Seq(Internal) /\ Len(hBufPipe) \in Nat /\ Len(hBufPipe') = Len(hBufPipe)
        /\ \A k \in 1 .. Len(hBufPipe) - 1 : hBufPipe'[k] = hBufPipe[k + 1]
        /\ hBufPipe'[Len(hBufPipe)] = hBufPipe[1]
    BY <1>2, <2>1, Rotated
  <2>3. EncoderTypes'
    BY <1>4, <2>1, <2>2 DEF EncoderTypes
  <2>4. ~stuffed => Len(hBufPipe) = nCurBufIndex /\ Len(hBufPipe) = Buffers /\ EachOnce(hBufPipe)
    BY <1>1, <1>6 DEF PipeIsFull, EachOnce, EncoderTypes, Phases, Buffers
  <2>5. PipeIsFull'
    <3>1. ~stuffed => EachOnce(hBufPipe')
      BY <1>2, <2>1, <2>4, RotatedOnce
    <3> QED
      BY <1>1, <2>1, <2>2, <2>4, <3>1 DEF PipeIsFull, EachOnce
  <2>6. FramesInOrder'
    <3> SUFFICES ASSUME converted, ~stuffed PROVE ~spoiled /\ InOrder'
      BY <1>1, <2>1 DEF FramesInOrder
    <3>1. ~spoiled /\ InOrder /\ InSending = 1 /\ InSending' = 0 /\ Buffers' = Buffers /\ Gone' = Gone
      BY <1>1, <1>6 DEF FramesInOrder, InSending, Buffers, Gone
    <3>2. Len(encoding) \in Nat /\ Gone \in Nat
      BY EncoderRoom
    <3>3. ASSUME NEW i \in 1 .. Len(encoding), NEW k \in 1 .. Len(hBufPipe), hBufPipe'[k] = encoding[i][2]
          PROVE  k >= Buffers - Len(encoding) - Gone + i
      <4>1. CASE k = Len(hBufPipe)
        BY <1>2, <2>4, <3>2, <4>1
      <4>2. CASE k # Len(hBufPipe)
        <5>1. k \in 1 .. Len(hBufPipe) - 1 /\ k + 1 \in 1 .. Len(hBufPipe) /\ k + 1 # 1
          BY <2>2, <4>2
        <5>2. k + 1 >= Buffers - Len(encoding) - Gone + i + InSending
          BY <2>2, <3>1, <3>3, <5>1 DEF InOrder
        <5> QED
          BY <1>2, <3>1, <3>2, <5>1, <5>2
      <4> QED
        BY <4>1, <4>2
    <3>4. \A i \in 1 .. Len(encoding) : Buffers - Len(encoding) - Gone + i + 0 = Buffers - Len(encoding) - Gone + i
      BY <1>2, <3>2
    <3>5. InOrder'
      BY <1>1, <2>2, <3>1, <3>3, <3>4 DEF InOrder
    <3> QED
      BY <3>1, <3>5
  <2> QED
    BY <1>3, <2>3, <2>5, <2>6
<1>7. CASE ~bAndroidOpaqueFormat
  <2>1. UNCHANGED <<hBufPipe, messageCount, stuffed>>
    BY <1>7 DEF Encoder!Restore, Encoder!pipe
  <2>2. EncoderTypes'
    BY <1>4, <2>1, <1>2 DEF EncoderTypes
  <2> QED
    BY <1>1, <1>3, <1>7, <2>1, <2>2 DEF PipeIsFull, FramesInOrder
<1> QED
  BY <1>5, <1>6, <1>7

LEMMA EncoderEmptyBufferDoneStep ==
  ASSUME EncoderConstants, EncoderInv, Encoder!EmptyBufferDone
  PROVE  EncoderInv'
<1> USE EncoderIndices DEF Encoder!EmptyBufferDone, Encoder!formats, Encoder!indices, Encoder!pipe, Encoder!frames, EncoderInv
<1>1. EncoderTypes'
  BY EncoderSets DEF EncoderTypes, EncoderConstants, Phases, Handles
<1>2. Phases'
  BY DEF Phases, EncoderTypes
<1>3. Handles'
  BY EncoderSets DEF Handles, EncoderTypes, Phases
<1>4. PipeIsFull'
  BY EncoderSets DEF PipeIsFull, EncoderTypes, Phases
<1>5. FramesInOrder'
  <2>1. /\ encoding \in Seq(InputHeaders \X (0 .. Buffers)) /\ Buffers \in Nat /\ InSending \in Nat /\ Gone \in Nat
        /\ UNCHANGED <<Buffers, InSending, Gone, hBufPipe, encPc>>
    BY EncoderRoom, EncoderSets DEF InSending, Buffers, Gone
  <2>2. /\ Len(encoding) \in Nat \ {0} /\ Len(encoding') = Len(encoding) - 1
        /\ \A i \in 1 .. Len(encoding) - 1 : encoding'[i] = encoding[i + 1]
    BY <2>1, Dropped
  <2>3. InOrder => InOrder'
    <3> SUFFICES ASSUME InOrder, NEW i \in 1 .. Len(encoding'), NEW k \in 1 .. Len(hBufPipe),
                        hBufPipe[k] = encoding'[i][2]
                 PROVE  (encPc = "sent" /\ k = 1) \/ k >= Buffers - Len(encoding') - Gone + i + InSending
      BY <2>1 DEF InOrder
    <3>1. i \in 1 .. Len(encoding) - 1 /\ i + 1 \in 1 .. Len(encoding)
      BY <2>2
    <3>2. (encPc = "sent" /\ k = 1) \/ k >= Buffers - Len(encoding) - Gone + (i + 1) + InSending
      BY <2>2, <3>1 DEF InOrder
    <3>3. Buffers - Len(encoding) - Gone + (i + 1) + InSending = Buffers - Len(encoding') - Gone + i + InSending
      BY <2>1, <2>2, <3>1
    <3> QED
      BY <3>2, <3>3
  <2> QED
    BY <2>3 DEF FramesInOrder
<1>6. HeadersApart'
  <2>1. encoding \in Seq(InputHeaders \X (0 .. Buffers))
    BY DEF EncoderTypes
  <2>2. /\ Len(encoding) \in Nat \ {0} /\ Len(encoding') = Len(encoding) - 1
        /\ \A i \in 1 .. Len(encoding) - 1 : encoding'[i] = encoding[i + 1]
    BY <2>1, Dropped
  <2>3. \A i \in 1 .. Len(encoding') : i + 1 \in 1 .. Len(encoding) /\ encoding'[i] = encoding[i + 1]
    BY <2>2
  <2>4. \A i, j \in 1 .. Len(encoding') : i + 1 = j + 1 => i = j
    BY <2>2
  <2> QED
    BY <2>3, <2>4 DEF HeadersApart
<1> QED
  BY <1>1, <1>2, <1>3, <1>4, <1>5, <1>6

LEMMA EncoderStopStep ==
  ASSUME EncoderConstants, EncoderInv, Encoder!Stop
  PROVE  EncoderInv'
<1> USE EncoderIndices DEF Encoder!Stop, Encoder!formats, Encoder!indices, Encoder!pipe, Encoder!frames, EncoderInv
<1>1. EncoderTypes'
  BY EncoderSets DEF EncoderTypes, EncoderConstants, Phases, Handles
<1>2. Phases'
  BY DEF Phases, EncoderTypes
<1>3. Handles'
  BY EncoderSets DEF Handles, EncoderTypes, Phases
<1>4. PipeIsFull'
  BY EncoderSets DEF PipeIsFull, EncoderTypes, Phases
<1>5. FramesInOrder'
  BY DEF FramesInOrder, InOrder, Gone, InSending, EncoderTypes, Phases, PipeIsFull
<1>6. HeadersApart'
  BY DEF HeadersApart, EncoderTypes, Phases, Encoder!Waiting
<1> QED
  BY <1>1, <1>2, <1>3, <1>4, <1>5, <1>6

LEMMA EncoderReloadStep ==
  ASSUME EncoderConstants, EncoderInv, Encoder!Reload
  PROVE  EncoderInv'
<1> USE EncoderIndices DEF Encoder!Reload, Encoder!formats, Encoder!indices, Encoder!pipe, Encoder!frames, EncoderInv
<1>1. EncoderTypes'
  BY EncoderSets DEF EncoderTypes, EncoderConstants, Phases, Handles
<1>2. Phases'
  BY DEF Phases, EncoderTypes
<1>3. Handles'
  BY EncoderSets DEF Handles, EncoderTypes, Phases
<1>4. PipeIsFull'
  <2>1. nCurBufIndex = 0 /\ hBufPipe \in Seq(Internal)
    BY EncoderSets DEF EncoderTypes
  <2> QED
    BY <2>1 DEF PipeIsFull
<1>5. FramesInOrder'
  BY DEF FramesInOrder, InOrder, Gone, InSending, EncoderTypes, Phases, PipeIsFull
<1>6. HeadersApart'
  BY DEF HeadersApart, EncoderTypes, Phases, Encoder!Waiting
<1> QED
  BY <1>1, <1>2, <1>3, <1>4, <1>5, <1>6

LEMMA EncoderComponentDeInitStep ==
  ASSUME EncoderConstants, EncoderInv, Encoder!ComponentDeInit
  PROVE  EncoderInv'
<1> USE EncoderIndices DEF Encoder!ComponentDeInit, Encoder!formats, Encoder!indices, Encoder!pipe, Encoder!frames, Encoder!CloseConverter, EncoderInv
<1>1. EncoderTypes'
  <2>1. gralloc_handle' \in [Internal -> {"none", "live", "stale"}]
    BY DEF EncoderTypes
  <2>2. freedTwice' \in BOOLEAN
    BY DEF EncoderTypes
  <2>3. nCurBufIndex' = 0 /\ Cardinality({}) = 0
    BY EncoderSets DEF EncoderTypes
  <2>4. hBufPipe' \in Seq(Internal) /\ Len(hBufPipe') = 0
    OBVIOUS
  <2> QED
    BY <2>1, <2>2, <2>3, <2>4 DEF EncoderTypes
<1>2. Phases'
  BY DEF Phases, EncoderTypes
<1>3. Handles'
  <2>1. nCurBufIndex' = 0
    BY EncoderSets DEF EncoderTypes
  <2>2. \A i \in Internal : ~(i < nCurBufIndex')
    BY <2>1 DEF Internal
  <2>3. CASE bAndroidOpaqueFormat
    BY <2>2, <2>3 DEF Handles
  <2>4. CASE ~bAndroidOpaqueFormat
    BY <2>2, <2>4 DEF Handles
  <2> QED
    BY <2>3, <2>4
<1>4. PipeIsFull'
  BY EncoderSets DEF PipeIsFull, EncoderTypes, Phases
<1>5. FramesInOrder'
  BY DEF FramesInOrder, InOrder, Gone, InSending, EncoderTypes, Phases, PipeIsFull
<1>6. HeadersApart'
  BY DEF HeadersApart, EncoderTypes, Phases, Encoder!Waiting
<1> QED
  BY <1>1, <1>2, <1>3, <1>4, <1>5, <1>6

LEMMA EncoderInvStep == EncoderConstants /\ EncoderInv /\ [Encoder!Next]_Encoder!encoderVars => EncoderInv'
<1> SUFFICES ASSUME EncoderConstants, EncoderInv, [Encoder!Next]_Encoder!encoderVars PROVE EncoderInv'
  OBVIOUS
<1>1. CASE UNCHANGED Encoder!encoderVars
  BY <1>1 DEF Encoder!encoderVars, EncoderInv, EncoderTypes, Phases, Handles, PipeIsFull, FramesInOrder, InOrder,
              Gone, InSending, HeadersApart
<1>2. CASE Encoder!Client
  BY <1>2, EncoderSetFormatStep, EncoderStoreMetaDataStep, EncoderAllocateBufferStep, EncoderFreeBufferStep,
     EncoderEmptyThisBufferStep, EncoderStopStep, EncoderReloadStep, EncoderComponentDeInitStep
     DEF Encoder!Client
<1>3. CASE Encoder!Restore \/ Encoder!EmptyBufferDone
  BY <1>3, EncoderRestoreStep, EncoderEmptyBufferDoneStep
<1> QED
  BY <1>1, <1>2, <1>3 DEF Encoder!Next

LEMMA EncoderInvImplies ==
  EncoderConstants /\ EncoderInv =>
    /\ Encoder!TypeOK /\ Encoder!EveryIndexOnce /\ Encoder!EncodedInPeace /\ Encoder!HeadersRestored /\ Encoder!FreedOnce
<1> SUFFICES ASSUME EncoderConstants, EncoderInv
             PROVE  /\ Encoder!TypeOK /\ Encoder!EveryIndexOnce /\ Encoder!EncodedInPeace
                    /\ Encoder!HeadersRestored /\ Encoder!FreedOnce
  OBVIOUS
<1> USE EncoderIndices DEF EncoderInv
<1>1. nCurBufIndex \in 0 .. Buffers
  <2>1. inputs \in SUBSET InputHeaders
    BY DEF EncoderTypes
  <2>2. Cardinality(inputs) \in 0 .. Buffers /\ 0 \in 0 .. Buffers
    BY <2>1, EncoderSets
  <2> QED
    BY <2>2 DEF EncoderTypes
<1>2. Encoder!TypeOK
  BY <1>1 DEF Encoder!TypeOK, EncoderTypes
<1>3. Encoder!EveryIndexOnce
  <2> SUFFICES ASSUME encPc = "running", bAndroidOpaqueFormat, ~stuffed
               PROVE  /\ Len(hBufPipe) = Buffers
                      /\ \A i \in Internal : gralloc_handle[i] = "live" /\ \E k \in DOMAIN hBufPipe : hBufPipe[k] = i
    BY DEF Encoder!EveryIndexOnce, Buffers
  <2>1. nCurBufIndex = Buffers /\ Len(hBufPipe) = Buffers /\ DOMAIN hBufPipe = 1 .. Len(hBufPipe)
    BY DEF EncoderTypes, Phases, PipeIsFull, Buffers
  <2>2. \A i \in Internal : i < Buffers
    BY EncoderSets DEF Internal
  <2> QED
    BY <2>1, <2>2 DEF Handles, PipeIsFull
<1>4. Encoder!EncodedInPeace /\ Encoder!FreedOnce
  BY DEF Encoder!EncodedInPeace, Encoder!FreedOnce, FramesInOrder, Handles
<1>5. Encoder!HeadersRestored
  BY DEF Encoder!HeadersRestored, HeadersApart
<1> QED
  BY <1>2, <1>3, <1>4, <1>5

(* While frames are given every internal buffer of the encoder's proxy is     *)
(* live and in the pipe once, none is converted into that the encoder still   *)
(* reads, the client's headers are its own again, and no handle is freed      *)
(* twice, each as long as what spoils it has not happened: a frame sent as    *)
(* it is, a conversion that failed, an allocation that did.                   *)
THEOREM EncoderKeeps ==
  ASSUME EncoderConstants
  PROVE  Encoder!Spec =>
           [](/\ Encoder!TypeOK /\ Encoder!EveryIndexOnce /\ Encoder!EncodedInPeace
              /\ Encoder!HeadersRestored /\ Encoder!FreedOnce)
<1>1. EncoderInv =>
        /\ Encoder!TypeOK /\ Encoder!EveryIndexOnce /\ Encoder!EncodedInPeace
        /\ Encoder!HeadersRestored /\ Encoder!FreedOnce
  BY EncoderInvImplies
<1>2. Encoder!Init => EncoderInv
  BY EncoderInvInit
<1>3. EncoderInv /\ [Encoder!Next]_Encoder!encoderVars => EncoderInv'
  BY EncoderInvStep
<1> QED
  BY <1>1, <1>2, <1>3, PTL DEF Encoder!Spec
-----------------------------------------------------------------------------
(* The proxy of a component                                                  *)

Fns == Proxy!Functions
NoHeader == Proxy!NoHdr
ProxyConstants ==
  /\ IsFiniteSet(ProxyThreads) /\ Opener \in ProxyThreads /\ NoHeader \notin RemoteHdrs
  /\ IsFiniteSet(ProxySlots) /\ ProxySlots = 1 .. Cardinality(ProxySlots)
  /\ PlainCalls \subseteq {"SetParameter", "GetParameterOnly", "SetConfig", "GetConfig", "GetState",
                           "GetComponentVersion", "GetExtensionIndex", "SendCommand"}

Hdrs == RemoteHdrs \cup {NoHeader}
Gives == {"FillThisBuffer", "EmptyThisBuffer"}
GiveOps == {"fill", "empty"}
MakeOps == {"use", "allocate"}
Ops == {"open", "close", "use", "allocate", "free", "fill", "empty"} \cup PlainCalls
Packets == [fn : Fns, by : ProxyThreads, hdr : Hdrs]
Answers == [fn : Fns, by : ProxyThreads, hdr : Hdrs, ok : BOOLEAN]
Returns == [fn : {"FillBufferDone", "EmptyBufferDone"}, hdr : RemoteHdrs]
Notices == [fn : {"EventHandler"}, hdr : {NoHeader}]

ProxyTypes ==
  /\ proxy \in {"none", "open", "closed"} /\ cbThread \in {"none", "running", "gone"} /\ remote \in {"alive", "dead"}
  /\ op \in [ProxyThreads -> Ops \cup {"idle"}] /\ opBuf \in [ProxyThreads -> Hdrs]
  /\ rpcs \in [ProxyThreads -> Seq(Fns)]
  /\ toRemote \in Seq(Packets) /\ toHost \in Seq(Answers \cup Returns \cup Notices) /\ pMsgPipe \in [Fns -> Seq(Answers)]
  /\ tBufList \in [ProxySlots -> Hdrs]
  /\ nTotalBuffers \in 0 .. Cardinality(ProxySlots) /\ nAllocatedBuffers \in 0 .. nTotalBuffers
  /\ client \subseteq RemoteHdrs /\ remoteBufs \subseteq RemoteHdrs /\ stray \subseteq RemoteHdrs
  /\ remoteHolds \subseteq [fn : Gives, by : ProxyThreads, hdr : RemoteHdrs] /\ IsFiniteSet(remoteHolds)

(* A pipe has answers of its function; a buffer is named where one is meant.  *)
Named ==
  /\ \A f \in Fns : \A i \in 1 .. Len(pMsgPipe[f]) : pMsgPipe[f][i].fn = f
  /\ \A i \in 1 .. Len(toRemote) : toRemote[i].fn \in Gives \cup {"FreeBuffer"} => toRemote[i].hdr \in RemoteHdrs
  /\ \A t \in ProxyThreads : op[t] \in {"fill", "empty", "free"} => opBuf[t] \in RemoteHdrs

(* What is left of a call: its last remote call, and those that ask before.   *)
CallsLeft ==
  \A t \in ProxyThreads :
    /\ op[t] = "idle" <=> rpcs[t] = <<>>
    /\ op[t] \in MakeOps =>
         /\ Len(rpcs[t]) \in 1 .. 4 /\ rpcs[t][Len(rpcs[t])] = "UseBuffer"
         /\ \A i \in 1 .. Len(rpcs[t]) - 1 : rpcs[t][i] = "GetParameter"
    /\ op[t] \notin MakeOps \cup {"idle"} => rpcs[t] = Proxy!RemoteCalls[op[t]]

(* Who calls what, and when.                                                  *)
Roles ==
  /\ \A t \in ProxyThreads \ {Opener} : op[t] \in {"idle", "fill"}
  /\ op[Opener] \in {"open", "close"} => \A t \in ProxyThreads \ {Opener} : op[t] = "idle"
  /\ "handle" \notin events =>
       /\ client = {} /\ nTotalBuffers = 0 /\ op[Opener] \in {"idle", "open"}
       /\ \A t \in ProxyThreads \ {Opener} : op[t] = "idle"
  /\ op[Opener] = "open" => "handle" \notin events
  /\ proxy = "none" => "handle" \notin events /\ op[Opener] = "idle"
  /\ proxy = "closed" => \A t \in ProxyThreads : op[t] = "idle"
  /\ op[Opener] = "close" => client = {} /\ Proxy!Used = {}
  /\ op[Opener] \in MakeOps => nTotalBuffers < Cardinality(ProxySlots)

(* Every remote call is on its way, answered or in its pipe.                  *)
Marks(q, P) == {i \in 1 .. Len(q) : q[i] \in P}
Count(q, P) == Cardinality(Marks(q, P))
PacketsOf(f) == {p \in Packets : p.fn = f}
AnswersOf(f) == {a \in Answers : a.fn = f}
Waiters(f) == {t \in ProxyThreads : rpcs[t] # <<>> /\ rpcs[t][1] = f}
Conserved ==
  \A f \in Fns : Count(toRemote, PacketsOf(f)) + Count(toHost, AnswersOf(f)) + Len(pMsgPipe[f]) = Cardinality(Waiters(f))

(* The slots are those of the remote buffers; one is between the two sides    *)
(* while it is made or freed.                                                 *)
InUse == proxy # "closed" /\ op[Opener] # "close"
Slotted == {tBufList[s] : s \in Proxy!Used}
Good(q, f) == {q[i].hdr : i \in {j \in 1 .. Len(q) : q[j].fn = f /\ q[j].ok}}
Agreed(f) == Good(toHost, f) \cup Good(pMsgPipe[f], f)
Slots ==
  InUse =>
    /\ nAllocatedBuffers = Cardinality(Proxy!Used) /\ Proxy!Used \subseteq 1 .. nTotalBuffers
    /\ \A s, r \in Proxy!Used : tBufList[s] = tBufList[r] => s = r
    /\ op[Opener] = "free" => opBuf[Opener] \in Slotted
    /\ \A b \in Slotted : b \in remoteBufs \/ (op[Opener] = "free" /\ b = opBuf[Opener])
    /\ \A b \in remoteBufs : b \in stray \cup Slotted \cup Agreed("UseBuffer")
    /\ Agreed("UseBuffer") \subseteq remoteBufs \ Slotted
    /\ \A i \in 1 .. Len(toRemote) : toRemote[i].fn = "FreeBuffer" => toRemote[i].hdr = opBuf[Opener]
    /\ Agreed("FreeBuffer") \subseteq {opBuf[Opener]} \ remoteBufs

(* A buffer is with the client, on its way or with the remote side, once.     *)
Given(b) == {p \in Packets : p.fn \in Gives /\ p.hdr = b}
Refused(b) == {a \in Answers : a.fn \in Gives /\ ~a.ok /\ a.hdr = b}
Returned(b) == {r \in Returns : r.hdr = b}
Held(b) == {p \in remoteHolds : p.hdr = b}
Tokens(b) ==
  Count(toRemote, Given(b)) + Count(toHost, Refused(b)) + Count(toHost, Returned(b)) + Cardinality(Held(b))
    + Count(pMsgPipe["FillThisBuffer"], Refused(b)) + Count(pMsgPipe["EmptyThisBuffer"], Refused(b))
    + (IF b \in client THEN 1 ELSE 0)
OneToken ==
  InUse /\ "crossed" \notin events =>
    /\ \A b \in RemoteHdrs : Tokens(b) <= 1 /\ (Tokens(b) > 0 => b \in Slotted)
    /\ op[Opener] = "free" => Tokens(opBuf[Opener]) = 0

ProxyInv ==
  ProxyTypes /\ Named /\ CallsLeft /\ Roles /\ Conserved /\ Slots /\ OneToken /\ Proxy!CallbackFindsHeader
-----------------------------------------------------------------------------
LEMMA ProxyNames ==
  ASSUME ProxyConstants
  PROVE  /\ Fns = {"GetHandle", "FreeHandle", "GetParameter", "UseBuffer", "FreeBuffer", "FillThisBuffer", "EmptyThisBuffer"}
                    \cup PlainCalls
         /\ {"FillBufferDone", "EmptyBufferDone", "EventHandler"} \cap Fns = {}
         /\ PlainCalls \cap {"GetHandle", "FreeHandle", "GetParameter", "UseBuffer", "FreeBuffer",
                             "FillThisBuffer", "EmptyThisBuffer"} = {}
         /\ PlainCalls \cap {"idle", "open", "close", "use", "allocate", "free", "fill", "empty"} = {}
         /\ "idle" \notin Ops /\ NoHeader = 0 /\ NoHeader \notin RemoteHdrs
         /\ \A S : Proxy!Cardinality(S) = Cardinality(S)
<1>1. \A S : Proxy!Cardinality(S) = Cardinality(S)
  BY DEF Proxy!Cardinality, Cardinality
<1>2. NoHeader = 0 /\ NoHeader \notin RemoteHdrs
  BY DEF ProxyConstants, NoHeader, Proxy!NoHdr
<1>3. Fns = {"GetHandle", "FreeHandle", "GetParameter", "UseBuffer", "FreeBuffer", "FillThisBuffer", "EmptyThisBuffer"}
              \cup PlainCalls
  BY DEF Fns, Proxy!Functions
<1> QED
  BY <1>1, <1>2, <1>3 DEF ProxyConstants, Ops

LEMMA CallTable ==
  ASSUME ProxyConstants
  PROVE  /\ DOMAIN Proxy!RemoteCalls = Ops
         /\ \A o \in Ops :
              /\ Proxy!RemoteCalls[o] \in Seq(Fns) /\ Len(Proxy!RemoteCalls[o]) \in 1 .. 4 /\ Proxy!RemoteCalls[o][1] \in Fns
              /\ o \notin MakeOps => Len(Proxy!RemoteCalls[o]) = 1
              /\ o \in MakeOps =>
                   /\ Proxy!RemoteCalls[o][Len(Proxy!RemoteCalls[o])] = "UseBuffer"
                   /\ \A i \in 1 .. Len(Proxy!RemoteCalls[o]) - 1 : Proxy!RemoteCalls[o][i] = "GetParameter"
         /\ Proxy!RemoteCalls["open"] = <<"GetHandle">> /\ Proxy!RemoteCalls["close"] = <<"FreeHandle">>
         /\ Proxy!RemoteCalls["free"] = <<"FreeBuffer">> /\ Proxy!RemoteCalls["fill"] = <<"FillThisBuffer">>
         /\ Proxy!RemoteCalls["empty"] = <<"EmptyThisBuffer">>
         /\ \A o \in MakeOps : Proxy!RemoteCalls[o][1] = "GetParameter"
         /\ \A f \in PlainCalls : Proxy!RemoteCalls[f] = <<f>>
<1>1. /\ DOMAIN Proxy!RemoteCalls = Ops
      /\ Proxy!RemoteCalls["open"] = <<"GetHandle">> /\ Proxy!RemoteCalls["close"] = <<"FreeHandle">>
      /\ Proxy!RemoteCalls["free"] = <<"FreeBuffer">> /\ Proxy!RemoteCalls["fill"] = <<"FillThisBuffer">>
      /\ Proxy!RemoteCalls["empty"] = <<"EmptyThisBuffer">>
      /\ Proxy!RemoteCalls["use"] = <<"GetParameter", "GetParameter", "UseBuffer">>
      /\ Proxy!RemoteCalls["allocate"] = <<"GetParameter", "GetParameter", "GetParameter", "UseBuffer">>
  BY DEF Proxy!RemoteCalls, Ops
<1>2. \A f \in PlainCalls : Proxy!RemoteCalls[f] = <<f>>
  BY ProxyNames DEF Proxy!RemoteCalls
<1>3. ASSUME NEW o \in Ops
      PROVE  /\ Proxy!RemoteCalls[o] \in Seq(Fns) /\ Len(Proxy!RemoteCalls[o]) \in 1 .. 4 /\ Proxy!RemoteCalls[o][1] \in Fns
             /\ o \notin MakeOps => Len(Proxy!RemoteCalls[o]) = 1
             /\ o \in MakeOps =>
                  /\ Proxy!RemoteCalls[o][1] = "GetParameter"
                  /\ Proxy!RemoteCalls[o][Len(Proxy!RemoteCalls[o])] = "UseBuffer"
                  /\ \A i \in 1 .. Len(Proxy!RemoteCalls[o]) - 1 : Proxy!RemoteCalls[o][i] = "GetParameter"
  <2>1. CASE o \in PlainCalls
    <3>1. o \in Fns /\ Proxy!RemoteCalls[o] = <<o>> /\ o \notin MakeOps
      BY <1>2, <2>1, ProxyNames DEF MakeOps
    <3> QED
      BY <3>1
  <2>2. CASE o = "use"
    <3> DEFINE c == <<"GetParameter", "GetParameter", "UseBuffer">>
    <3>1. Proxy!RemoteCalls[o] = c /\ o \in MakeOps
      BY <1>1, <2>2 DEF MakeOps
    <3>2. c \in Seq(Fns) /\ Len(c) = 3
      BY ProxyNames
    <3>3. c[1] = "GetParameter" /\ c[3] = "UseBuffer" /\ "GetParameter" \in Fns
      BY ProxyNames
    <3>4. \A i \in 1 .. 3 - 1 : c[i] = "GetParameter"
      OBVIOUS
    <3> HIDE DEF c
    <3> QED
      BY <3>1, <3>2, <3>3, <3>4
  <2>3. CASE o = "allocate"
    <3> DEFINE c == <<"GetParameter", "GetParameter", "GetParameter", "UseBuffer">>
    <3>1. Proxy!RemoteCalls[o] = c /\ o \in MakeOps
      BY <1>1, <2>3 DEF MakeOps
    <3>2. c \in Seq(Fns) /\ Len(c) = 4
      BY ProxyNames
    <3>3. c[1] = "GetParameter" /\ c[4] = "UseBuffer" /\ "GetParameter" \in Fns
      BY ProxyNames
    <3>4. \A i \in 1 .. 4 - 1 : c[i] = "GetParameter"
      OBVIOUS
    <3> HIDE DEF c
    <3> QED
      BY <3>1, <3>2, <3>3, <3>4
  <2>4. CASE o \in {"open", "close", "free", "fill", "empty"}
    <3>1. \E f \in Fns : Proxy!RemoteCalls[o] = <<f>>
      BY <1>1, <2>4, ProxyNames
    <3> QED
      BY <2>4, <3>1 DEF MakeOps
  <2> QED
    BY <2>1, <2>2, <2>3, <2>4 DEF Ops
<1>4. MakeOps \subseteq Ops
  BY DEF MakeOps, Ops
<1> QED
  BY <1>1, <1>2, <1>3, <1>4

(* How many packets of a kind there are when one comes or goes.               *)
LEMMA MarksFinite ==
  ASSUME NEW S, NEW q \in Seq(S), NEW P
  PROVE  /\ IsFiniteSet(Marks(q, P)) /\ Count(q, P) \in Nat
         /\ Count(q, P) = 0 => \A i \in 1 .. Len(q) : q[i] \notin P
<1>1. IsFiniteSet(1 .. Len(q)) /\ Marks(q, P) \subseteq 1 .. Len(q)
  BY FS_Interval DEF Marks
<1>2. IsFiniteSet(Marks(q, P))
  BY <1>1, FS_Subset
<1>3. Count(q, P) \in Nat /\ (Count(q, P) = 0 => Marks(q, P) = {})
  BY <1>2, FS_CardinalityType, FS_EmptySet DEF Count
<1> QED
  BY <1>2, <1>3 DEF Marks

LEMMA CountAppend ==
  ASSUME NEW S, NEW q \in Seq(S), NEW e \in S, NEW P
  PROVE  Count(Append(q, e), P) = Count(q, P) + (IF e \in P THEN 1 ELSE 0)
<1> DEFINE r == Append(q, e)
           n == Len(q)
<1>1. n \in Nat /\ Len(r) = n + 1 /\ r[n + 1] = e /\ \A k \in 1 .. n : r[k] = q[k]
  BY Appended
<1> HIDE DEF r, n
<1>2. IsFiniteSet(Marks(q, P)) /\ Marks(q, P) \subseteq 1 .. n
  BY MarksFinite DEF Marks, n
<1>3. n + 1 \notin Marks(q, P)
  BY <1>1, <1>2
<1>4. CASE e \in P
  <2>1. Marks(r, P) = Marks(q, P) \cup {n + 1}
    <3>1. ASSUME NEW i \in 1 .. n + 1 PROVE r[i] \in P <=> i \in Marks(q, P) \cup {n + 1}
      <4>1. CASE i = n + 1
        BY <1>1, <1>4, <4>1
      <4>2. CASE i # n + 1
        <5>1. i \in 1 .. n
          BY <1>1, <4>2
        <5> QED
          BY <1>1, <4>2, <5>1 DEF Marks, n
      <4> QED
        BY <4>1, <4>2
    <3>2. Marks(q, P) \cup {n + 1} \subseteq 1 .. n + 1
      BY <1>1, <1>2
    <3> QED
      BY <1>1, <3>1, <3>2 DEF Marks
  <2> QED
    BY <1>2, <1>3, <1>4, <2>1, FS_AddElement DEF Count, r
<1>5. CASE e \notin P
  <2>1. Marks(r, P) = Marks(q, P)
    <3>1. ASSUME NEW i \in 1 .. n + 1 PROVE r[i] \in P <=> i \in Marks(q, P)
      <4>1. CASE i = n + 1
        BY <1>1, <1>3, <1>5, <4>1
      <4>2. CASE i # n + 1
        <5>1. i \in 1 .. n
          BY <1>1, <4>2
        <5> QED
          BY <1>1, <4>2, <5>1 DEF Marks, n
      <4> QED
        BY <4>1, <4>2
    <3>2. Marks(q, P) \subseteq 1 .. n + 1
      BY <1>1, <1>2
    <3> QED
      BY <1>1, <3>1, <3>2 DEF Marks
  <2>2. Count(q, P) \in Nat
    BY MarksFinite
  <2> QED
    BY <1>5, <2>1, <2>2 DEF Count, r
<1> QED
  BY <1>4, <1>5

LEMMA CountTail ==
  ASSUME NEW S, NEW q \in Seq(S), q # <<>>, NEW P
  PROVE  /\ q[1] \in S /\ Head(q) = q[1] /\ Count(Tail(q), P) \in Nat
         /\ Count(q, P) = Count(Tail(q), P) + (IF q[1] \in P THEN 1 ELSE 0)
<1> DEFINE r == Tail(q)
           n == Len(q)
           X == Marks(q, P) \ {1}
<1>1. /\ r \in Seq(S) /\ n \in Nat \ {0} /\ Len(r) = n - 1 /\ \A k \in 1 .. n - 1 : r[k] = q[k + 1]
  BY Dropped
<1>2. q[1] \in S /\ Head(q) = q[1]
  BY <1>1
<1>3. IsFiniteSet(Marks(q, P)) /\ IsFiniteSet(Marks(r, P)) /\ Marks(r, P) \subseteq 1 .. n - 1 /\ Marks(q, P) \subseteq 1 .. n
      /\ Count(r, P) \in Nat
  BY <1>1, MarksFinite DEF Marks
<1> HIDE DEF r, n
<1>4. \A k \in 1 .. n - 1 : k \in Marks(r, P) <=> k + 1 \in Marks(q, P)
  BY <1>1 DEF Marks, n
<1> DEFINE f == [k \in Marks(r, P) |-> k + 1]
<1>5. f \in Bijection(Marks(r, P), X)
  <2>1. \A k \in Marks(r, P) : k + 1 \in X
    BY <1>1, <1>3, <1>4
  <2>2. \A a, b \in Marks(r, P) : f[a] = f[b] => a = b
    BY <1>3
  <2>3. ASSUME NEW x \in X PROVE \E k \in Marks(r, P) : f[k] = x
    <3>1. x - 1 \in 1 .. n - 1 /\ (x - 1) + 1 = x
      BY <1>1, <1>3
    <3> QED
      BY <1>4, <3>1
  <2> HIDE DEF X
  <2> QED
    BY <2>1, <2>2, <2>3, Fun_IsBij
<1>6. IsFiniteSet(X) /\ Cardinality(X) = Cardinality(Marks(r, P))
  <2>1. IsFiniteSet(X)
    BY <1>3, FS_Subset
  <2> HIDE DEF X, f
  <2> QED
    BY <1>3, <1>5, <2>1, FS_Bijection DEF ExistsBijection
<1>7. Cardinality(X) = IF 1 \in Marks(q, P) THEN Cardinality(Marks(q, P)) - 1 ELSE Cardinality(Marks(q, P))
  BY <1>3, FS_RemoveElement
<1>8. 1 \in Marks(q, P) <=> q[1] \in P
  BY <1>1 DEF Marks, n
<1>9. Count(q, P) \in Nat
  BY MarksFinite
<1> QED
  BY <1>2, <1>3, <1>6, <1>7, <1>8, <1>9 DEF Count, r

LEMMA RpcsChange ==
  ASSUME ProxyConstants, ProxyTypes, NEW t \in ProxyThreads, NEW r \in Seq(Fns), rpcs' = [rpcs EXCEPT ![t] = r], NEW f \in Fns
  PROVE  /\ Cardinality(Waiters(f)) \in Nat /\ Cardinality(Waiters(f)') \in Nat
         /\ Cardinality(Waiters(f)') + (IF rpcs[t] # <<>> /\ rpcs[t][1] = f THEN 1 ELSE 0)
              = Cardinality(Waiters(f)) + (IF r # <<>> /\ r[1] = f THEN 1 ELSE 0)
<1>1. rpcs'[t] = r /\ \A u \in ProxyThreads \ {t} : rpcs'[u] = rpcs[u]
  BY DEF ProxyTypes
<1> DEFINE A == Waiters(f)
           B == Waiters(f)'
<1>2. A \subseteq ProxyThreads /\ B \subseteq ProxyThreads /\ A \ {t} = B \ {t}
  BY <1>1 DEF Waiters
<1>3. (t \in A <=> rpcs[t] # <<>> /\ rpcs[t][1] = f) /\ (t \in B <=> r # <<>> /\ r[1] = f)
  BY <1>1 DEF Waiters
<1> HIDE DEF A, B
<1>4. IsFiniteSet(A) /\ IsFiniteSet(B) /\ Cardinality(A) \in Nat /\ Cardinality(B) \in Nat
  BY <1>2, FS_Subset, FS_CardinalityType DEF ProxyConstants
<1>5. /\ Cardinality(A \ {t}) = IF t \in A THEN Cardinality(A) - 1 ELSE Cardinality(A)
      /\ Cardinality(B \ {t}) = IF t \in B THEN Cardinality(B) - 1 ELSE Cardinality(B)
  BY <1>4, FS_RemoveElement
<1>6. Cardinality(B) + (IF t \in A THEN 1 ELSE 0) = Cardinality(A) + (IF t \in B THEN 1 ELSE 0)
  <2>1. Cardinality(A \ {t}) = Cardinality(B \ {t})
    BY <1>2
  <2>2. CASE t \in A
    <3>1. Cardinality(A \ {t}) = Cardinality(A) - 1
      BY <1>5, <2>2
    <3>2. CASE t \in B
      BY <1>4, <1>5, <2>1, <2>2, <3>1, <3>2
    <3>3. CASE t \notin B
      BY <1>4, <1>5, <2>1, <2>2, <3>1, <3>3
    <3> QED
      BY <3>2, <3>3
  <2>3. CASE t \notin A
    <3>1. Cardinality(A \ {t}) = Cardinality(A)
      BY <1>5, <2>3
    <3>2. CASE t \in B
      BY <1>4, <1>5, <2>1, <2>3, <3>1, <3>2
    <3>3. CASE t \notin B
      BY <1>4, <1>5, <2>1, <2>3, <3>1, <3>3
    <3> QED
      BY <3>2, <3>3
  <2> QED
    BY <2>2, <2>3
<1> QED
  BY <1>3, <1>4, <1>6 DEF A, B

(* What is in flight of the remote calls that only the opener makes.          *)
LEMMA InFlight ==
  ASSUME ProxyConstants, ProxyTypes, Conserved, NEW f \in Fns
  PROVE  /\ Count(toRemote, PacketsOf(f)) \in Nat /\ Count(toHost, AnswersOf(f)) \in Nat /\ Len(pMsgPipe[f]) \in Nat
         /\ Cardinality(Waiters(f)) \in Nat
         /\ Count(toRemote, PacketsOf(f)) + Count(toHost, AnswersOf(f)) + Len(pMsgPipe[f]) = Cardinality(Waiters(f))
<1>1. toRemote \in Seq(Packets) /\ toHost \in Seq(Answers \cup Returns \cup Notices) /\ pMsgPipe[f] \in Seq(Answers)
  BY DEF ProxyTypes
<1>2. Cardinality(Waiters(f)) \in Nat
  <2>1. Waiters(f) \subseteq ProxyThreads
    BY DEF Waiters
  <2> QED
    BY <2>1, FS_Subset, FS_CardinalityType DEF ProxyConstants
<1> QED
  BY <1>1, <1>2, MarksFinite DEF Conserved

(* A call begins.                                                             *)
LEMMA ProxyCallStep ==
  ASSUME ProxyConstants, ProxyTypes, Named, CallsLeft, Conserved, NEW t \in ProxyThreads, NEW o \in Ops, NEW b \in Hdrs,
         Proxy!Call(t, o, b), o \in {"fill", "empty", "free"} => b \in RemoteHdrs, UNCHANGED <<pMsgPipe, toHost>>
  PROVE  /\ op[t] = "idle" /\ op'[t] = o /\ opBuf'[t] = b
         /\ \A u \in ProxyThreads \ {t} : op'[u] = op[u] /\ opBuf'[u] = opBuf[u]
         /\ op' \in [ProxyThreads -> Ops \cup {"idle"}] /\ opBuf' \in [ProxyThreads -> Hdrs]
         /\ rpcs' \in [ProxyThreads -> Seq(Fns)]
         /\ toRemote \in Seq(Packets) /\ toRemote' \in Seq(Packets)
         /\ [fn |-> Proxy!RemoteCalls[o][1], by |-> t, hdr |-> b] \in Packets
         /\ toRemote' = Append(toRemote, [fn |-> Proxy!RemoteCalls[o][1], by |-> t, hdr |-> b])
         /\ Named' /\ CallsLeft' /\ Conserved'
<1> DEFINE c == Proxy!RemoteCalls[o]
           p == [fn |-> c[1], by |-> t, hdr |-> b]
<1>1. /\ op[t] = "idle" /\ op' = [op EXCEPT ![t] = o] /\ opBuf' = [opBuf EXCEPT ![t] = b]
      /\ rpcs' = [rpcs EXCEPT ![t] = c] /\ toRemote' = Append(toRemote, p)
  BY DEF Proxy!Call, Proxy!Idle, Proxy!Packet
<1>2. c \in Seq(Fns) /\ c # <<>> /\ c[1] \in Fns /\ Len(c) \in 1 .. 4
  BY CallTable
<1>3. p \in Packets
  BY <1>2 DEF Packets
<1>4. /\ o \in GiveOps \cup {"free"} <=> p.fn \in Gives \cup {"FreeBuffer"}
      /\ o # "idle" /\ o \in MakeOps => c[Len(c)] = "UseBuffer" /\ \A i \in 1 .. Len(c) - 1 : c[i] = "GetParameter"
  BY CallTable, ProxyNames DEF Gives, GiveOps, MakeOps, Ops
<1> HIDE DEF c, p
<1>5. /\ op'[t] = o /\ opBuf'[t] = b /\ rpcs'[t] = c
      /\ \A u \in ProxyThreads \ {t} : op'[u] = op[u] /\ opBuf'[u] = opBuf[u] /\ rpcs'[u] = rpcs[u]
  BY <1>1 DEF ProxyTypes
<1>6. /\ op' \in [ProxyThreads -> Ops \cup {"idle"}] /\ opBuf' \in [ProxyThreads -> Hdrs]
      /\ rpcs' \in [ProxyThreads -> Seq(Fns)]
  BY <1>1, <1>2 DEF ProxyTypes
<1>7. /\ toRemote \in Seq(Packets) /\ toRemote' \in Seq(Packets) /\ Len(toRemote) \in Nat /\ Len(toRemote') = Len(toRemote) + 1
      /\ \A i \in 1 .. Len(toRemote) : toRemote'[i] = toRemote[i]
      /\ toRemote'[Len(toRemote) + 1] = p
  <2>1. toRemote \in Seq(Packets)
    BY DEF ProxyTypes
  <2> QED
    BY <1>1, <1>3, <2>1, Appended
<1>8. Named'
  <2>1. \A f \in Fns : \A i \in 1 .. Len(pMsgPipe'[f]) : pMsgPipe'[f][i].fn = f
    BY DEF Named
  <2>2. ASSUME NEW i \in 1 .. Len(toRemote'), toRemote'[i].fn \in Gives \cup {"FreeBuffer"} PROVE toRemote'[i].hdr \in RemoteHdrs
    <3>1. CASE i \in 1 .. Len(toRemote)
      BY <1>7, <2>2, <3>1 DEF Named
    <3>2. CASE i = Len(toRemote) + 1
      <4>1. p.hdr = b
        BY DEF p
      <4> QED
        BY <1>4, <1>7, <2>2, <3>2, <4>1 DEF GiveOps
    <3> QED
      BY <1>7, <3>1, <3>2
  <2>3. \A u \in ProxyThreads : op'[u] \in {"fill", "empty", "free"} => opBuf'[u] \in RemoteHdrs
    BY <1>5 DEF Named
  <2> QED
    BY <2>1, <2>2, <2>3 DEF Named
<1>9. CallsLeft'
  <2> SUFFICES ASSUME NEW u \in ProxyThreads
      PROVE  /\ op'[u] = "idle" <=> rpcs'[u] = <<>>
             /\ op'[u] \in MakeOps =>
                  /\ Len(rpcs'[u]) \in 1 .. 4 /\ rpcs'[u][Len(rpcs'[u])] = "UseBuffer"
                  /\ \A i \in 1 .. Len(rpcs'[u]) - 1 : rpcs'[u][i] = "GetParameter"
             /\ op'[u] \notin MakeOps \cup {"idle"} => rpcs'[u] = Proxy!RemoteCalls[op'[u]]
    BY DEF CallsLeft
  <2>1. CASE u = t
    <3>1. o # "idle"
      BY ProxyNames
    <3> QED
      BY <1>2, <1>4, <1>5, <2>1, <3>1 DEF c
  <2>2. CASE u # t
    BY <1>5, <2>2 DEF CallsLeft
  <2> QED
    BY <2>1, <2>2
<1>10. Conserved'
  <2> SUFFICES ASSUME NEW f \in Fns
      PROVE Count(toRemote', PacketsOf(f)) + Count(toHost, AnswersOf(f)) + Len(pMsgPipe[f]) = Cardinality(Waiters(f)')
    BY DEF Conserved
  <2>1. p \in PacketsOf(f) <=> c[1] = f
    <3>1. p.fn = c[1]
      BY DEF p
    <3> QED
      BY <1>3, <3>1 DEF PacketsOf
  <2>2. Count(toRemote', PacketsOf(f)) = Count(toRemote, PacketsOf(f)) + (IF c[1] = f THEN 1 ELSE 0)
    BY <1>1, <1>3, <1>7, <2>1, CountAppend
  <2>3. rpcs[t] = <<>>
    BY <1>1 DEF CallsLeft
  <2>4. Cardinality(Waiters(f)') = Cardinality(Waiters(f)) + (IF c[1] = f THEN 1 ELSE 0)
    <3>1. /\ Cardinality(Waiters(f)) \in Nat /\ Cardinality(Waiters(f)') \in Nat
          /\ Cardinality(Waiters(f)') + (IF rpcs[t] # <<>> /\ rpcs[t][1] = f THEN 1 ELSE 0)
               = Cardinality(Waiters(f)) + (IF c # <<>> /\ c[1] = f THEN 1 ELSE 0)
      BY <1>1, <1>2, RpcsChange
    <3> QED
      BY <1>2, <2>3, <3>1
  <2> QED
    BY <2>2, <2>4, InFlight
<1> QED
  BY <1>1, <1>3, <1>5, <1>6, <1>7, <1>8, <1>9, <1>10 DEF c, p

(* A thread takes the answer it has waited for.                               *)
LEMMA ProxyTakeStep ==
  ASSUME ProxyConstants, ProxyTypes, Named, Conserved, NEW t \in ProxyThreads, Proxy!HasAnswer(t), Proxy!TakeAnswer(t)
  PROVE  /\ rpcs[t] \in Seq(Fns) /\ rpcs[t] # <<>> /\ rpcs[t][1] \in Fns
         /\ Proxy!Got(t) \in Answers /\ Proxy!Got(t).fn = rpcs[t][1] /\ Proxy!Got(t) = pMsgPipe[rpcs[t][1]][1]
         /\ pMsgPipe[rpcs[t][1]] \in Seq(Answers) /\ pMsgPipe[rpcs[t][1]] # <<>>
         /\ pMsgPipe' \in [Fns -> Seq(Answers)] /\ pMsgPipe'[rpcs[t][1]] = Tail(pMsgPipe[rpcs[t][1]])
         /\ \A f \in Fns \ {rpcs[t][1]} : pMsgPipe'[f] = pMsgPipe[f]
         /\ Len(pMsgPipe[rpcs[t][1]]) \in Nat \ {0} /\ Len(pMsgPipe'[rpcs[t][1]]) = Len(pMsgPipe[rpcs[t][1]]) - 1
         /\ \A i \in 1 .. Len(pMsgPipe'[rpcs[t][1]]) : pMsgPipe'[rpcs[t][1]][i] = pMsgPipe[rpcs[t][1]][i + 1]
         /\ \A f \in Fns : \A i \in 1 .. Len(pMsgPipe'[f]) : pMsgPipe'[f][i].fn = f
<1> DEFINE f == rpcs[t][1]
           q == pMsgPipe[f]
<1>1. rpcs[t] \in Seq(Fns) /\ rpcs[t] # <<>> /\ q # <<>> /\ pMsgPipe' = [pMsgPipe EXCEPT ![f] = Tail(q)] /\ Proxy!Got(t) = Head(q)
  BY DEF ProxyTypes, Proxy!HasAnswer, Proxy!Waiting, Proxy!TakeAnswer, Proxy!Got, Proxy!PipeOf
<1>2. f \in Fns
  BY <1>1
<1>3. q \in Seq(Answers) /\ \A i \in 1 .. Len(q) : q[i].fn = f
  BY <1>2 DEF ProxyTypes, Named
<1> HIDE DEF f, q
<1>4. /\ Tail(q) \in Seq(Answers) /\ Len(q) \in Nat \ {0} /\ Len(Tail(q)) = Len(q) - 1
      /\ \A k \in 1 .. Len(q) - 1 : Tail(q)[k] = q[k + 1]
  BY <1>1, <1>3, Dropped
<1>5. Head(q) = q[1] /\ q[1] \in Answers /\ q[1].fn = f
  BY <1>1, <1>3
<1>6. /\ pMsgPipe' \in [Fns -> Seq(Answers)] /\ pMsgPipe'[f] = Tail(q) /\ \A g \in Fns \ {f} : pMsgPipe'[g] = pMsgPipe[g]
  BY <1>1, <1>2, <1>4 DEF ProxyTypes
<1>7. \A g \in Fns : \A i \in 1 .. Len(pMsgPipe'[g]) : pMsgPipe'[g][i].fn = g
  <2> SUFFICES ASSUME NEW g \in Fns, NEW i \in 1 .. Len(pMsgPipe'[g]) PROVE pMsgPipe'[g][i].fn = g
    OBVIOUS
  <2>1. CASE g = f
    <3>1. i \in 1 .. Len(q) - 1 /\ i + 1 \in 1 .. Len(q)
      BY <1>4, <1>6, <2>1
    <3> QED
      BY <1>3, <1>4, <1>6, <2>1, <3>1
  <2>2. CASE g # f
    BY <1>6, <2>2 DEF Named
  <2> QED
    BY <2>1, <2>2
<1> QED
  BY <1>1, <1>2, <1>3, <1>4, <1>5, <1>6, <1>7 DEF f, q

(* A call ends.                                                               *)
LEMMA ProxyEndStep ==
  ASSUME ProxyConstants, ProxyTypes, Named, CallsLeft, Conserved, NEW t \in ProxyThreads,
         Proxy!HasAnswer(t), Proxy!TakeAnswer(t), Proxy!Return(t),
         \/ UNCHANGED <<toRemote, toHost>>
         \/ /\ toRemote' = <<>> /\ toHost' = <<>>
            /\ \A f \in Fns : Count(toRemote, PacketsOf(f)) = 0 /\ Count(toHost, AnswersOf(f)) = 0
  PROVE  /\ op'[t] = "idle" /\ opBuf'[t] = NoHeader
         /\ \A u \in ProxyThreads \ {t} : op'[u] = op[u] /\ opBuf'[u] = opBuf[u]
         /\ op' \in [ProxyThreads -> Ops \cup {"idle"}] /\ opBuf' \in [ProxyThreads -> Hdrs]
         /\ rpcs' \in [ProxyThreads -> Seq(Fns)]
         /\ Named' /\ CallsLeft' /\ Conserved'
<1> DEFINE g == rpcs[t][1]
<1>1. op' = [op EXCEPT ![t] = "idle"] /\ opBuf' = [opBuf EXCEPT ![t] = NoHeader] /\ rpcs' = [rpcs EXCEPT ![t] = <<>>]
  BY DEF Proxy!Return, NoHeader
<1>2. <<>> \in Seq(Fns)
  OBVIOUS
<1>3. /\ op'[t] = "idle" /\ opBuf'[t] = NoHeader /\ rpcs'[t] = <<>>
      /\ \A u \in ProxyThreads \ {t} : op'[u] = op[u] /\ opBuf'[u] = opBuf[u] /\ rpcs'[u] = rpcs[u]
  BY <1>1 DEF ProxyTypes
<1>4. /\ op' \in [ProxyThreads -> Ops \cup {"idle"}] /\ opBuf' \in [ProxyThreads -> Hdrs]
      /\ rpcs' \in [ProxyThreads -> Seq(Fns)]
  BY <1>1, <1>2 DEF ProxyTypes, Hdrs
<1>5. /\ rpcs[t] # <<>> /\ g \in Fns
      /\ Len(pMsgPipe[g]) \in Nat \ {0} /\ Len(pMsgPipe'[g]) = Len(pMsgPipe[g]) - 1
      /\ \A f \in Fns \ {g} : pMsgPipe'[f] = pMsgPipe[f]
      /\ \A f \in Fns : \A i \in 1 .. Len(pMsgPipe'[f]) : pMsgPipe'[f][i].fn = f
  BY ProxyTakeStep
<1> HIDE DEF g
<1>6. Named'
  <2>1. \A u \in ProxyThreads : op'[u] \in {"fill", "empty", "free"} => opBuf'[u] \in RemoteHdrs
    BY <1>3 DEF Named
  <2>2. \A i \in 1 .. Len(toRemote') : toRemote'[i].fn \in Gives \cup {"FreeBuffer"} => toRemote'[i].hdr \in RemoteHdrs
    BY DEF Named
  <2> QED
    BY <1>5, <2>1, <2>2 DEF Named
<1>7. CallsLeft'
  <2>1. "idle" \notin MakeOps
    BY DEF MakeOps
  <2> QED
    BY <1>3, <2>1 DEF CallsLeft
<1>8. Conserved'
  <2> SUFFICES ASSUME NEW f \in Fns
      PROVE Count(toRemote', PacketsOf(f)) + Count(toHost', AnswersOf(f)) + Len(pMsgPipe'[f]) = Cardinality(Waiters(f)')
    BY DEF Conserved
  <2>1. Count(toRemote', PacketsOf(f)) = Count(toRemote, PacketsOf(f)) /\ Count(toHost', AnswersOf(f)) = Count(toHost, AnswersOf(f))
    <3>1. CASE UNCHANGED <<toRemote, toHost>>
      BY <3>1
    <3>2. CASE /\ toRemote' = <<>> /\ toHost' = <<>>
               /\ \A h \in Fns : Count(toRemote, PacketsOf(h)) = 0 /\ Count(toHost, AnswersOf(h)) = 0
      <4>1. Marks(<<>>, PacketsOf(f)) = {} /\ Marks(<<>>, AnswersOf(f)) = {}
        BY DEF Marks
      <4> QED
        BY <3>2, <4>1, FS_EmptySet DEF Count
    <3> QED
      BY <3>1, <3>2
  <2>2. Cardinality(Waiters(f)') + (IF g = f THEN 1 ELSE 0) = Cardinality(Waiters(f)) /\ Cardinality(Waiters(f)') \in Nat
    <3>1. /\ Cardinality(Waiters(f)) \in Nat /\ Cardinality(Waiters(f)') \in Nat
          /\ Cardinality(Waiters(f)') + (IF rpcs[t] # <<>> /\ rpcs[t][1] = f THEN 1 ELSE 0)
               = Cardinality(Waiters(f)) + (IF <<>> # <<>> /\ <<>>[1] = f THEN 1 ELSE 0)
      BY <1>1, <1>2, RpcsChange
    <3> QED
      BY <1>5, <3>1 DEF g
  <2>3. /\ g = f => Len(pMsgPipe'[f]) = Len(pMsgPipe[f]) - 1
        /\ g # f => Len(pMsgPipe'[f]) = Len(pMsgPipe[f])
    BY <1>5
  <2>4. Len(pMsgPipe'[f]) \in Nat
    <3>1. Len(pMsgPipe[f]) \in Nat
      BY InFlight
    <3>2. CASE f = g
      BY <1>5, <3>2
    <3>3. CASE f # g
      BY <1>5, <3>1, <3>3
    <3> QED
      BY <3>2, <3>3
  <2>5. /\ Count(toRemote, PacketsOf(f)) \in Nat /\ Count(toHost, AnswersOf(f)) \in Nat
        /\ Count(toRemote, PacketsOf(f)) + Count(toHost, AnswersOf(f)) + Len(pMsgPipe[f]) = Cardinality(Waiters(f))
    BY InFlight
  <2>6. /\ g = f => Cardinality(Waiters(f)') + 1 = Cardinality(Waiters(f))
        /\ g # f => Cardinality(Waiters(f)') = Cardinality(Waiters(f))
    <3>1. Cardinality(Waiters(f)) \in Nat
      BY InFlight
    <3> QED
      BY <2>2, <3>1
  <2> QED
    BY <2>1, <2>2, <2>3, <2>4, <2>5, <2>6
<1> QED
  BY <1>3, <1>4, <1>6, <1>7, <1>8

(* The remote calls but FillThisBuffer() are those of the opener: there is a  *)
(* packet of one of them exactly when he waits for it.                        *)
LEMMA OpenersPackets ==
  ASSUME ProxyConstants, ProxyTypes, Named, CallsLeft, Roles, Conserved, NEW f \in Fns \ {"FillThisBuffer"}
  PROVE  /\ rpcs[Opener] # <<>> /\ rpcs[Opener][1] = f =>
              Count(toRemote, PacketsOf(f)) + Count(toHost, AnswersOf(f)) + Len(pMsgPipe[f]) = 1
         /\ ~(rpcs[Opener] # <<>> /\ rpcs[Opener][1] = f) =>
              /\ Count(toRemote, PacketsOf(f)) = 0 /\ Count(toHost, AnswersOf(f)) = 0 /\ Len(pMsgPipe[f]) = 0
<1>1. \A t \in ProxyThreads \ {Opener} : t \notin Waiters(f)
  BY CallTable DEF Waiters, Roles, CallsLeft, MakeOps
<1>2. Waiters(f) = IF rpcs[Opener] # <<>> /\ rpcs[Opener][1] = f THEN {Opener} ELSE {}
  BY <1>1 DEF Waiters, ProxyConstants
<1>3. Cardinality(Waiters(f)) = IF rpcs[Opener] # <<>> /\ rpcs[Opener][1] = f THEN 1 ELSE 0
  <2>1. Cardinality({Opener}) = 1 /\ Cardinality({}) = 0
    BY FS_Singleton, FS_EmptySet
  <2> QED
    BY <1>2, <2>1
<1> QED
  BY <1>3, InFlight

(* A count of zero: there are no such packets.                                *)
LEMMA NoPackets ==
  ASSUME ProxyConstants, ProxyTypes, NEW f \in Fns
  PROVE  /\ Count(toRemote, PacketsOf(f)) = 0 => \A i \in 1 .. Len(toRemote) : toRemote[i].fn # f
         /\ Count(toHost, AnswersOf(f)) = 0 => (\A i \in 1 .. Len(toHost) : toHost[i].fn # f) /\ Good(toHost, f) = {}
         /\ Len(pMsgPipe[f]) = 0 => Good(pMsgPipe[f], f) = {}
<1>1. toRemote \in Seq(Packets) /\ toHost \in Seq(Answers \cup Returns \cup Notices)
  BY DEF ProxyTypes
<1>2. ASSUME Count(toRemote, PacketsOf(f)) = 0, NEW i \in 1 .. Len(toRemote) PROVE toRemote[i].fn # f
  <2>1. toRemote[i] \in Packets /\ toRemote[i] \notin PacketsOf(f)
    BY <1>1, <1>2, MarksFinite
  <2> QED
    BY <2>1 DEF PacketsOf
<1>3. ASSUME Count(toHost, AnswersOf(f)) = 0, NEW i \in 1 .. Len(toHost) PROVE toHost[i].fn # f
  <2>1. toHost[i] \in Answers \cup Returns \cup Notices /\ toHost[i] \notin AnswersOf(f)
    BY <1>1, <1>3, MarksFinite
  <2>2. CASE toHost[i] \in Answers
    BY <2>1, <2>2 DEF AnswersOf
  <2>3. CASE toHost[i] \in Returns \cup Notices
    <3>1. toHost[i].fn \in {"FillBufferDone", "EmptyBufferDone", "EventHandler"}
      BY <2>3 DEF Returns, Notices
    <3> QED
      BY <3>1, ProxyNames
  <2> QED
    BY <2>1, <2>2, <2>3
<1>4. Count(toHost, AnswersOf(f)) = 0 => Good(toHost, f) = {}
  BY <1>3 DEF Good
<1>5. Len(pMsgPipe[f]) = 0 => Good(pMsgPipe[f], f) = {}
  BY DEF Good
<1> QED
  BY <1>2, <1>3, <1>4, <1>5

LEMMA NotCalled ==
  ASSUME ProxyConstants, ProxyTypes, Named, CallsLeft, Roles, Conserved, NEW f \in Fns \ {"FillThisBuffer"},
         ~(rpcs[Opener] # <<>> /\ rpcs[Opener][1] = f)
  PROVE  /\ \A i \in 1 .. Len(toRemote) : toRemote[i].fn # f
         /\ Agreed(f) = {}
<1>1. Count(toRemote, PacketsOf(f)) = 0 /\ Count(toHost, AnswersOf(f)) = 0 /\ Len(pMsgPipe[f]) = 0
  BY OpenersPackets
<1> QED
  BY <1>1, NoPackets DEF Agreed

LEMMA OpenerIdle ==
  ASSUME ProxyConstants, ProxyTypes, Named, CallsLeft, Roles, Conserved, op[Opener] = "idle"
  PROVE  /\ \A i \in 1 .. Len(toRemote) : toRemote[i].fn # "FreeBuffer"
         /\ Agreed("FreeBuffer") = {} /\ Agreed("UseBuffer") = {}
<1>1. rpcs[Opener] = <<>> /\ {"FreeBuffer", "UseBuffer"} \subseteq Fns \ {"FillThisBuffer"}
  BY ProxyNames DEF CallsLeft, ProxyConstants
<1> QED
  BY <1>1, NotCalled

LEMMA SlotRange ==
  ASSUME ProxyConstants, ProxyTypes
  PROVE  1 .. nTotalBuffers \subseteq ProxySlots /\ Cardinality(ProxySlots) \in Nat
<1>1. Cardinality(ProxySlots) \in Nat
  BY FS_CardinalityType DEF ProxyConstants
<1> QED
  BY <1>1 DEF ProxyConstants, ProxyTypes

(* What leaves the slots as they are.                                         *)
LEMMA SlotsKept ==
  ASSUME Slots, InUse' => InUse, UNCHANGED <<nAllocatedBuffers, nTotalBuffers, tBufList, remoteBufs, stray>>,
         Agreed("UseBuffer")' = Agreed("UseBuffer"), Agreed("FreeBuffer")' \subseteq Agreed("FreeBuffer"),
         \/ /\ op'[Opener] = op[Opener] /\ opBuf'[Opener] = opBuf[Opener]
            /\ \A i \in 1 .. Len(toRemote') :
                 toRemote'[i].fn = "FreeBuffer" => \E j \in 1 .. Len(toRemote) : toRemote[j] = toRemote'[i]
         \/ /\ op[Opener] # "free" /\ op'[Opener] # "free" /\ Agreed("FreeBuffer") = {}
            /\ \A i \in 1 .. Len(toRemote') : toRemote'[i].fn # "FreeBuffer"
  PROVE  Slots'
<1>1. Slotted' = Slotted /\ Proxy!Used' = Proxy!Used
  BY DEF Slotted, Proxy!Used
<1> SUFFICES ASSUME InUse' PROVE Slots'
  BY DEF Slots
<1>2. InUse
  OBVIOUS
<1>3. /\ nAllocatedBuffers' = Cardinality(Proxy!Used') /\ Proxy!Used' \subseteq 1 .. nTotalBuffers'
      /\ \A s, r \in Proxy!Used' : tBufList'[s] = tBufList'[r] => s = r
      /\ \A b \in remoteBufs' : b \in stray' \cup Slotted' \cup Agreed("UseBuffer")'
      /\ Agreed("UseBuffer")' \subseteq remoteBufs' \ Slotted'
  BY <1>1, <1>2 DEF Slots
<1>4. CASE /\ op'[Opener] = op[Opener] /\ opBuf'[Opener] = opBuf[Opener]
           /\ \A i \in 1 .. Len(toRemote') :
                toRemote'[i].fn = "FreeBuffer" => \E j \in 1 .. Len(toRemote) : toRemote[j] = toRemote'[i]
  <2>1. /\ op'[Opener] = "free" => opBuf'[Opener] \in Slotted'
        /\ \A b \in Slotted' : b \in remoteBufs' \/ (op'[Opener] = "free" /\ b = opBuf'[Opener])
        /\ Agreed("FreeBuffer")' \subseteq {opBuf'[Opener]} \ remoteBufs'
    BY <1>1, <1>2, <1>4 DEF Slots
  <2>2. \A i \in 1 .. Len(toRemote') : toRemote'[i].fn = "FreeBuffer" => toRemote'[i].hdr = opBuf'[Opener]
    BY <1>2, <1>4 DEF Slots
  <2> QED
    BY <1>3, <2>1, <2>2 DEF Slots
<1>5. CASE /\ op[Opener] # "free" /\ op'[Opener] # "free" /\ Agreed("FreeBuffer") = {}
           /\ \A i \in 1 .. Len(toRemote') : toRemote'[i].fn # "FreeBuffer"
  <2>1. /\ \A b \in Slotted' : b \in remoteBufs'
        /\ Agreed("FreeBuffer")' = {}
    BY <1>1, <1>2, <1>5 DEF Slots
  <2> QED
    BY <1>3, <1>5, <2>1 DEF Slots
<1> QED
  BY <1>4, <1>5

(* The tokens are numbers.                                                    *)
LEMMA TokenNumbers ==
  ASSUME ProxyConstants, ProxyTypes, NEW b
  PROVE  /\ Count(toRemote, Given(b)) \in Nat /\ Count(toHost, Refused(b)) \in Nat /\ Count(toHost, Returned(b)) \in Nat
         /\ IsFiniteSet(Held(b)) /\ Cardinality(Held(b)) \in Nat
         /\ Count(pMsgPipe["FillThisBuffer"], Refused(b)) \in Nat
         /\ Count(pMsgPipe["EmptyThisBuffer"], Refused(b)) \in Nat
         /\ Tokens(b) \in Nat
<1>1. /\ toRemote \in Seq(Packets) /\ toHost \in Seq(Answers \cup Returns \cup Notices)
      /\ pMsgPipe["FillThisBuffer"] \in Seq(Answers) /\ pMsgPipe["EmptyThisBuffer"] \in Seq(Answers)
  BY ProxyNames DEF ProxyTypes
<1>2. IsFiniteSet(Held(b)) /\ Cardinality(Held(b)) \in Nat
  <2>1. Held(b) \subseteq remoteHolds
    BY DEF Held
  <2> QED
    BY <2>1, FS_Subset, FS_CardinalityType DEF ProxyTypes
<1>3. /\ Count(toRemote, Given(b)) \in Nat /\ Count(toHost, Refused(b)) \in Nat /\ Count(toHost, Returned(b)) \in Nat
      /\ Count(pMsgPipe["FillThisBuffer"], Refused(b)) \in Nat
      /\ Count(pMsgPipe["EmptyThisBuffer"], Refused(b)) \in Nat
  BY <1>1, MarksFinite
<1> QED
  BY <1>2, <1>3 DEF Tokens

LEMMA TokensAreNumbers == ProxyConstants /\ ProxyTypes => \A b : Tokens(b) \in Nat
BY TokenNumbers

(* What leaves the tokens as they are, or takes some.                         *)
LEMMA TokensKept ==
  ASSUME ProxyConstants, ProxyTypes, ProxyTypes', OneToken, InUse' => InUse,
         "crossed" \in events => "crossed" \in events', Slotted' = Slotted,
         \A b \in RemoteHdrs : Tokens(b)' <= Tokens(b),
         \/ op'[Opener] # "free"
         \/ op'[Opener] = op[Opener] /\ opBuf'[Opener] = opBuf[Opener] /\ opBuf[Opener] \in RemoteHdrs
  PROVE  OneToken'
<1>1. \A b \in RemoteHdrs : Tokens(b) \in Nat /\ Tokens(b)' \in Nat
  <2>1. (ProxyConstants /\ ProxyTypes => \A b : Tokens(b) \in Nat)'
    BY TokensAreNumbers, PTL
  <2> QED
    BY <2>1, TokensAreNumbers
<1> SUFFICES ASSUME InUse', "crossed" \notin events'
             PROVE  /\ \A b \in RemoteHdrs : Tokens(b)' <= 1 /\ (Tokens(b)' > 0 => b \in Slotted')
                    /\ op'[Opener] = "free" => Tokens(opBuf[Opener])' = 0
  BY DEF OneToken
<1>2. \A b \in RemoteHdrs : Tokens(b) <= 1 /\ (Tokens(b) > 0 => b \in Slotted)
  BY DEF OneToken
<1> QED
  BY <1>1, <1>2 DEF OneToken

(* The opener calls, but not to give up a header.                             *)
LEMMA ProxyOpenerCallStep ==
  ASSUME ProxyConstants, ProxyInv, NEW o \in Ops \ {"free", "close", "fill", "empty"}, Proxy!Call(Opener, o, NoHeader),
         proxy # "closed", proxy' = "open", cbThread' \in {"none", "running", "gone"},
         UNCHANGED <<remote, pMsgPipe, toHost, tBufList, nTotalBuffers, nAllocatedBuffers, remoteBufs, remoteHolds,
                     client, stray, events>>,
         Roles'
  PROVE  ProxyInv'
<1> DEFINE p == [fn |-> Proxy!RemoteCalls[o][1], by |-> Opener, hdr |-> NoHeader]
<1> USE DEF ProxyInv
<1>0. Opener \in ProxyThreads /\ NoHeader \in Hdrs
  BY DEF ProxyConstants, Hdrs
<1>1. /\ op[Opener] = "idle" /\ op'[Opener] = o /\ opBuf'[Opener] = NoHeader
      /\ op' \in [ProxyThreads -> Ops \cup {"idle"}] /\ opBuf' \in [ProxyThreads -> Hdrs]
      /\ rpcs' \in [ProxyThreads -> Seq(Fns)]
      /\ toRemote \in Seq(Packets) /\ toRemote' \in Seq(Packets) /\ p \in Packets /\ toRemote' = Append(toRemote, p)
      /\ Named' /\ CallsLeft' /\ Conserved'
  BY <1>0, ProxyCallStep
<1>2. p.fn \notin Gives \cup {"FreeBuffer"}
  <2>1. p.fn = Proxy!RemoteCalls[o][1]
    OBVIOUS
  <2> QED
    BY <2>1, CallTable, ProxyNames DEF Ops, Gives, MakeOps
<1> HIDE DEF p
<1>3. ProxyTypes'
  BY <1>1 DEF ProxyTypes
<1>4. Agreed("FreeBuffer") = {} /\ \A i \in 1 .. Len(toRemote) : toRemote[i].fn # "FreeBuffer"
  BY <1>1, OpenerIdle
<1>5. \A i \in 1 .. Len(toRemote') : toRemote'[i].fn # "FreeBuffer"
  <2>1. /\ Len(toRemote) \in Nat /\ Len(toRemote') = Len(toRemote) + 1 /\ toRemote'[Len(toRemote) + 1] = p
        /\ \A i \in 1 .. Len(toRemote) : toRemote'[i] = toRemote[i]
    BY <1>1, Appended
  <2> QED
    BY <1>2, <1>4, <2>1
<1>6. InUse
  BY <1>1 DEF InUse
<1>7. Slots'
  <2>1. Agreed("UseBuffer")' = Agreed("UseBuffer") /\ Agreed("FreeBuffer")' = Agreed("FreeBuffer")
    BY DEF Agreed
  <2> QED
    BY <1>1, <1>4, <1>5, <1>6, <2>1, SlotsKept
<1>8. OneToken'
  <2>1. \A b \in RemoteHdrs : Tokens(b)' <= Tokens(b)
    <3> SUFFICES ASSUME NEW b \in RemoteHdrs PROVE Tokens(b)' <= Tokens(b)
      OBVIOUS
    <3>1. p \notin Given(b)
      BY <1>2 DEF Given
    <3>2. Count(toRemote', Given(b)) = Count(toRemote, Given(b))
      BY <1>1, <3>1, CountAppend, TokenNumbers
    <3>3. Tokens(b)' = Tokens(b) /\ Tokens(b) \in Nat
      BY <3>2, TokenNumbers DEF Tokens, Held
    <3> QED
      BY <3>3
  <2>2. Slotted' = Slotted
    BY DEF Slotted, Proxy!Used
  <2> QED
    BY <1>1, <1>3, <1>6, <2>1, <2>2, TokensKept
<1>9. Proxy!CallbackFindsHeader'
  BY <1>1 DEF Proxy!CallbackFindsHeader
<1> QED
  BY <1>1, <1>3, <1>7, <1>8, <1>9

LEMMA ProxyInitStep ==
  ASSUME ProxyConstants, ProxyInv, NEW t \in ProxyThreads, Proxy!ProxyInit(t)
  PROVE  ProxyInv'
<1>1. /\ t = Opener /\ proxy = "none" /\ Proxy!Call(Opener, "open", NoHeader) /\ proxy' = "open" /\ cbThread' = "running"
      /\ UNCHANGED <<remote, pMsgPipe, toHost, tBufList, nTotalBuffers, nAllocatedBuffers, remoteBufs, remoteHolds,
                     client, stray, events>>
  BY DEF Proxy!ProxyInit, Proxy!slotVars, Proxy!remoteVars, NoHeader
<1>2. op' = [op EXCEPT ![Opener] = "open"]
  BY <1>1 DEF Proxy!Call
<1>3. Roles'
  <2>1. op'[Opener] = "open" /\ \A u \in ProxyThreads \ {Opener} : op'[u] = op[u]
    BY <1>2 DEF ProxyInv, ProxyTypes, ProxyConstants
  <2>2. "handle" \notin events /\ client = {} /\ nTotalBuffers = 0 /\ \A u \in ProxyThreads \ {Opener} : op[u] = "idle"
    BY <1>1 DEF ProxyInv, Roles
  <2> QED
    BY <1>1, <2>1, <2>2 DEF Roles, MakeOps
<1>4. "open" \in Ops \ {"free", "close", "fill", "empty"}
  BY DEF Ops
<1> QED
  BY <1>1, <1>3, <1>4, ProxyOpenerCallStep

LEMMA ProxyUseBufferStep ==
  ASSUME ProxyConstants, ProxyInv, NEW t \in ProxyThreads, NEW o \in MakeOps, Proxy!UseBuffer(t, o)
  PROVE  ProxyInv'
<1>1. /\ t = Opener /\ proxy = "open" /\ Proxy!Call(Opener, o, NoHeader) /\ proxy' = "open" /\ "handle" \in events
      /\ UNCHANGED <<cbThread, remote, pMsgPipe, toHost, tBufList, nTotalBuffers, nAllocatedBuffers, remoteBufs, remoteHolds,
                     client, stray, events>>
      /\ nTotalBuffers < Cardinality(ProxySlots)
  BY ProxyNames DEF Proxy!UseBuffer, Proxy!slotVars, Proxy!remoteVars, NoHeader
<1>2. op' = [op EXCEPT ![Opener] = o]
  BY <1>1 DEF Proxy!Call
<1>3. Roles'
  <2>1. op'[Opener] = o /\ \A u \in ProxyThreads \ {Opener} : op'[u] = op[u]
    BY <1>2 DEF ProxyInv, ProxyTypes, ProxyConstants
  <2> QED
    BY <1>1, <2>1 DEF ProxyInv, Roles, MakeOps
<1>4. o \in Ops \ {"free", "close", "fill", "empty"} /\ cbThread' \in {"none", "running", "gone"}
  BY <1>1 DEF Ops, MakeOps, ProxyInv, ProxyTypes
<1> QED
  BY <1>1, <1>3, <1>4, ProxyOpenerCallStep

LEMMA ProxyPlainStep ==
  ASSUME ProxyConstants, ProxyInv, NEW t \in ProxyThreads, NEW f, Proxy!Plain(t, f)
  PROVE  ProxyInv'
<1>1. /\ t = Opener /\ proxy = "open" /\ Proxy!Call(Opener, f, NoHeader) /\ proxy' = "open" /\ "handle" \in events
      /\ UNCHANGED <<cbThread, remote, pMsgPipe, toHost, tBufList, nTotalBuffers, nAllocatedBuffers, remoteBufs, remoteHolds,
                     client, stray, events>>
      /\ f \in PlainCalls
  BY DEF Proxy!Plain, Proxy!slotVars, Proxy!remoteVars, NoHeader
<1>2. op' = [op EXCEPT ![Opener] = f]
  BY <1>1 DEF Proxy!Call
<1>3. f \notin {"idle", "open", "close", "use", "allocate", "free", "fill", "empty"} /\ f \in Ops
  BY <1>1, ProxyNames DEF Ops
<1>4. Roles'
  <2>1. op'[Opener] = f /\ \A u \in ProxyThreads \ {Opener} : op'[u] = op[u]
    BY <1>2 DEF ProxyInv, ProxyTypes, ProxyConstants
  <2> QED
    BY <1>1, <1>3, <2>1 DEF ProxyInv, Roles, MakeOps
<1>5. cbThread' \in {"none", "running", "gone"}
  BY <1>1 DEF ProxyInv, ProxyTypes
<1> QED
  BY <1>1, <1>3, <1>4, <1>5, ProxyOpenerCallStep

(* A header is given to the remote side, or given up.                         *)
LEMMA ProxyGiveStep ==
  ASSUME ProxyConstants, ProxyInv, NEW t \in ProxyThreads, NEW o \in {"fill", "empty", "free"}, NEW b, Proxy!Give(t, o, b),
         o # "fill" => t = Opener
  PROVE  ProxyInv'
<1> DEFINE p == [fn |-> Proxy!RemoteCalls[o][1], by |-> t, hdr |-> b]
<1> USE DEF ProxyInv
<1>1. /\ proxy = "open" /\ b \in client /\ Proxy!Known(b) /\ Proxy!Call(t, o, b) /\ client' = client \ {b}
      /\ UNCHANGED <<proxy, cbThread, remote, pMsgPipe, toHost, tBufList, nTotalBuffers, nAllocatedBuffers, remoteBufs, remoteHolds,
                     stray, events>>
  BY DEF Proxy!Give, Proxy!slotVars, Proxy!remoteVars
<1>2. b \in RemoteHdrs /\ b \in Hdrs /\ o \in Ops /\ b # NoHeader
  BY <1>1, ProxyNames DEF ProxyTypes, Hdrs, Ops
<1>3. /\ op[t] = "idle" /\ op'[t] = o /\ opBuf'[t] = b
      /\ \A u \in ProxyThreads \ {t} : op'[u] = op[u] /\ opBuf'[u] = opBuf[u]
      /\ op' \in [ProxyThreads -> Ops \cup {"idle"}] /\ opBuf' \in [ProxyThreads -> Hdrs]
      /\ rpcs' \in [ProxyThreads -> Seq(Fns)]
      /\ toRemote \in Seq(Packets) /\ toRemote' \in Seq(Packets) /\ p \in Packets /\ toRemote' = Append(toRemote, p)
      /\ Named' /\ CallsLeft' /\ Conserved'
  BY <1>1, <1>2, ProxyCallStep
<1>4. /\ p.hdr = b
      /\ o = "fill" => p.fn = "FillThisBuffer"
      /\ o = "empty" => p.fn = "EmptyThisBuffer"
      /\ o = "free" => p.fn = "FreeBuffer"
  BY CallTable
<1> HIDE DEF p
<1>5. ProxyTypes'
  BY <1>1, <1>3 DEF ProxyTypes
<1>6. op[Opener] \notin {"open", "close"} /\ "handle" \in events /\ Opener \in ProxyThreads
  BY <1>1 DEF Roles, ProxyConstants
<1>7. Roles'
  <2>1. op'[Opener] = op[Opener] \/ (op'[Opener] = o /\ t = Opener)
    BY <1>3, <1>6
  <2>2. \A u \in ProxyThreads \ {Opener} : op'[u] \in {"idle", "fill"}
    BY <1>3 DEF Roles
  <2> QED
    BY <1>1, <1>6, <2>1, <2>2 DEF Roles, MakeOps
<1>8. InUse /\ InUse'
  BY <1>1, <1>3, <1>6 DEF InUse
<1>9. b \in Slotted /\ Slotted' = Slotted /\ Proxy!Used' = Proxy!Used
  <2>1. PICK s \in 1 .. nTotalBuffers : tBufList[s] = b
    BY <1>1 DEF Proxy!Known
  <2>2. s \in ProxySlots
    BY SlotRange
  <2> QED
    BY <1>1, <1>2, <2>1, <2>2 DEF Slotted, Proxy!Used, NoHeader
<1>10. /\ Len(toRemote) \in Nat /\ Len(toRemote') = Len(toRemote) + 1 /\ toRemote'[Len(toRemote) + 1] = p
       /\ \A i \in 1 .. Len(toRemote) : toRemote'[i] = toRemote[i]
  BY <1>3, Appended
<1>11. Agreed("UseBuffer")' = Agreed("UseBuffer") /\ Agreed("FreeBuffer")' = Agreed("FreeBuffer")
  BY <1>1 DEF Agreed
<1>12. Slots'
  <2>1. CASE o = "free"
    <3>1. t = Opener /\ Agreed("FreeBuffer") = {} /\ \A i \in 1 .. Len(toRemote) : toRemote[i].fn # "FreeBuffer"
      BY <1>3, <2>1, OpenerIdle
    <3>2. \A i \in 1 .. Len(toRemote') : toRemote'[i].fn = "FreeBuffer" => toRemote'[i].hdr = b
      BY <1>4, <1>10, <3>1
    <3>3. \A c \in Slotted : c \in remoteBufs
      BY <1>3, <1>8, <3>1 DEF Slots
    <3>4. /\ nAllocatedBuffers' = Cardinality(Proxy!Used') /\ Proxy!Used' \subseteq 1 .. nTotalBuffers'
          /\ \A s, r \in Proxy!Used' : tBufList'[s] = tBufList'[r] => s = r
          /\ \A c \in remoteBufs' : c \in stray' \cup Slotted' \cup Agreed("UseBuffer")'
          /\ Agreed("UseBuffer")' \subseteq remoteBufs' \ Slotted'
      BY <1>1, <1>8, <1>9, <1>11 DEF Slots
    <3>5. opBuf'[Opener] \in Slotted' /\ \A c \in Slotted' : c \in remoteBufs'
      BY <1>1, <1>3, <1>9, <3>1, <3>3
    <3> QED
      BY <1>3, <1>11, <3>1, <3>2, <3>4, <3>5 DEF Slots
  <2>2. CASE o # "free"
    <3>1. \A i \in 1 .. Len(toRemote') :
            toRemote'[i].fn = "FreeBuffer" => i \in 1 .. Len(toRemote) /\ toRemote[i] = toRemote'[i]
      BY <1>4, <1>10, <2>2
    <3>2. CASE t = Opener
      <4>1. Agreed("FreeBuffer") = {} /\ \A i \in 1 .. Len(toRemote) : toRemote[i].fn # "FreeBuffer"
        BY <1>3, <3>2, OpenerIdle
      <4> QED
        BY <1>1, <1>3, <1>8, <1>11, <2>2, <3>1, <3>2, <4>1, SlotsKept
    <3>3. CASE t # Opener
      <4>1. op'[Opener] = op[Opener] /\ opBuf'[Opener] = opBuf[Opener]
        BY <1>3, <1>6, <3>3
      <4> QED
        BY <1>1, <1>8, <1>11, <3>1, <4>1, SlotsKept
    <3> QED
      BY <3>2, <3>3
  <2> QED
    BY <2>1, <2>2
<1>13. OneToken'
  <2>1. ASSUME NEW c \in RemoteHdrs
        PROVE  /\ Tokens(c) \in Nat /\ Tokens(c)' \in Nat /\ Tokens(c)' <= Tokens(c)
               /\ o = "free" /\ c = b => Tokens(c)' = Tokens(c) - 1
    <3>1. p \in Given(c) <=> o # "free" /\ c = b
      BY <1>3, <1>4 DEF Given, Gives
    <3>2. Count(toRemote', Given(c)) = Count(toRemote, Given(c)) + (IF o # "free" /\ c = b THEN 1 ELSE 0)
      BY <1>3, <3>1, CountAppend
    <3>3. /\ c = b => c \in client /\ c \notin client'
          /\ c # b => (c \in client' <=> c \in client)
      BY <1>1
    <3>4. CASE c = b
      <4>1. Tokens(c)' = IF o # "free" THEN Tokens(c) ELSE Tokens(c) - 1
        BY <1>1, <3>2, <3>3, <3>4, TokenNumbers DEF Tokens, Held
      <4>2. Tokens(c) \in Nat \ {0}
        BY <3>3, <3>4, TokenNumbers DEF Tokens
      <4> QED
        BY <4>1, <4>2
    <3>5. CASE c # b
      <4>1. Tokens(c)' = Tokens(c)
        BY <1>1, <3>2, <3>3, <3>5, TokenNumbers DEF Tokens, Held
      <4> QED
        BY <3>5, <4>1, TokenNumbers
    <3> QED
      BY <3>4, <3>5
  <2>2. CASE o = "free"
    <3> SUFFICES ASSUME "crossed" \notin events
                 PROVE  /\ \A c \in RemoteHdrs : Tokens(c)' <= 1 /\ (Tokens(c)' > 0 => c \in Slotted')
                        /\ op'[Opener] = "free" => Tokens(b)' = 0
      BY <1>1, <1>3, <2>2 DEF OneToken
    <3>1. \A c \in RemoteHdrs : Tokens(c) <= 1 /\ (Tokens(c) > 0 => c \in Slotted)
      BY <1>8 DEF OneToken
    <3> QED
      BY <1>2, <1>9, <2>1, <2>2, <3>1
  <2>3. CASE o # "free"
    <3>1. \/ op'[Opener] # "free"
          \/ op'[Opener] = op[Opener] /\ opBuf'[Opener] = opBuf[Opener] /\ opBuf[Opener] \in RemoteHdrs
      BY <1>3, <1>6, <2>3 DEF Named
    <3> QED
      BY <1>1, <1>5, <1>8, <1>9, <2>1, <3>1, TokensKept
  <2> QED
    BY <2>2, <2>3
<1>14. Proxy!CallbackFindsHeader'
  BY <1>1, <1>6 DEF Proxy!CallbackFindsHeader
<1> QED
  BY <1>3, <1>5, <1>7, <1>12, <1>13, <1>14

LEMMA ProxyDeInitStep ==
  ASSUME ProxyConstants, ProxyInv, NEW t \in ProxyThreads, Proxy!ComponentDeInit(t)
  PROVE  ProxyInv'
<1> USE DEF ProxyInv
<1>1. /\ t = Opener /\ proxy = "open" /\ "handle" \in events /\ \A u \in ProxyThreads : op[u] = "idle"
      /\ Proxy!Call(Opener, "close", NoHeader) /\ client' = {}
      /\ tBufList' = [s \in ProxySlots |-> NoHeader] /\ stray' = stray \cup remoteBufs
      /\ UNCHANGED <<proxy, cbThread, remote, pMsgPipe, toHost, nTotalBuffers, nAllocatedBuffers, remoteBufs, remoteHolds, events>>
  BY DEF Proxy!ComponentDeInit, Proxy!slotVars, Proxy!remoteVars, Proxy!Idle, NoHeader
<1>2. "close" \in Ops /\ NoHeader \in Hdrs /\ Opener \in ProxyThreads
  BY DEF Ops, Hdrs, ProxyConstants
<1>3. /\ op'[Opener] = "close"
      /\ \A u \in ProxyThreads \ {Opener} : op'[u] = op[u] /\ opBuf'[u] = opBuf[u]
      /\ op' \in [ProxyThreads -> Ops \cup {"idle"}] /\ opBuf' \in [ProxyThreads -> Hdrs]
      /\ rpcs' \in [ProxyThreads -> Seq(Fns)]
      /\ toRemote' \in Seq(Packets)
      /\ Named' /\ CallsLeft' /\ Conserved'
  BY <1>1, <1>2, ProxyCallStep
<1>4. ProxyTypes'
  BY <1>1, <1>2, <1>3 DEF ProxyTypes
<1>5. Proxy!Used' = {}
  BY <1>1 DEF Proxy!Used, NoHeader
<1>6. Roles'
  BY <1>1, <1>3, <1>5 DEF Roles, MakeOps
<1>7. Slots' /\ OneToken'
  BY <1>3 DEF Slots, OneToken, InUse
<1>8. Proxy!CallbackFindsHeader'
  BY <1>3 DEF Proxy!CallbackFindsHeader
<1> QED
  BY <1>3, <1>4, <1>6, <1>7, <1>8

(* The buffers that a queue of answers brings.                                *)
LEMMA GoodAppend ==
  ASSUME NEW S, NEW q \in Seq(S), NEW e \in S, NEW f
  PROVE  Good(Append(q, e), f) = Good(q, f) \cup (IF e.fn = f /\ e.ok THEN {e.hdr} ELSE {})
<1> DEFINE r == Append(q, e)
           n == Len(q)
<1>1. n \in Nat /\ Len(r) = n + 1 /\ r[n + 1] = e /\ \A k \in 1 .. n : r[k] = q[k]
  BY Appended
<1> HIDE DEF r
<1>2. ASSUME NEW b PROVE b \in Good(r, f) <=> b \in Good(q, f) \/ (e.fn = f /\ e.ok /\ b = e.hdr)
  <2>1. b \in Good(r, f) <=> \E j \in 1 .. n + 1 : r[j].fn = f /\ r[j].ok /\ b = r[j].hdr
    BY <1>1 DEF Good
  <2>2. b \in Good(q, f) <=> \E j \in 1 .. n : q[j].fn = f /\ q[j].ok /\ b = q[j].hdr
    BY DEF Good
  <2>3. \A j \in 1 .. n + 1 : j \in 1 .. n \/ j = n + 1
    BY <1>1
  <2>4. n + 1 \in 1 .. n + 1 /\ \A j \in 1 .. n : j \in 1 .. n + 1
    BY <1>1
  <2> QED
    BY <1>1, <2>1, <2>2, <2>3, <2>4
<1> QED
  BY <1>2 DEF r

LEMMA GoodTail ==
  ASSUME NEW S, NEW q \in Seq(S), q # <<>>, NEW f
  PROVE  Good(q, f) = Good(Tail(q), f) \cup (IF q[1].fn = f /\ q[1].ok THEN {q[1].hdr} ELSE {})
<1> DEFINE r == Tail(q)
           n == Len(q)
<1>1. n \in Nat \ {0} /\ Len(r) = n - 1 /\ \A k \in 1 .. n - 1 : r[k] = q[k + 1]
  BY Dropped
<1> HIDE DEF r
<1>2. ASSUME NEW b PROVE b \in Good(q, f) <=> b \in Good(r, f) \/ (q[1].fn = f /\ q[1].ok /\ b = q[1].hdr)
  <2>1. b \in Good(r, f) <=> \E j \in 1 .. n - 1 : r[j].fn = f /\ r[j].ok /\ b = r[j].hdr
    BY <1>1 DEF Good
  <2>2. b \in Good(q, f) <=> \E j \in 1 .. n : q[j].fn = f /\ q[j].ok /\ b = q[j].hdr
    BY DEF Good
  <2>3. \A j \in 1 .. n : j = 1 \/ (j - 1 \in 1 .. n - 1 /\ (j - 1) + 1 = j)
    BY <1>1
  <2>4. 1 \in 1 .. n /\ \A j \in 1 .. n - 1 : j + 1 \in 1 .. n
    BY <1>1
  <2>5. ASSUME b \in Good(q, f) PROVE b \in Good(r, f) \/ (q[1].fn = f /\ q[1].ok /\ b = q[1].hdr)
    <3>1. PICK j \in 1 .. n : q[j].fn = f /\ q[j].ok /\ b = q[j].hdr
      BY <2>2, <2>5
    <3>2. CASE j = 1
      BY <3>1, <3>2
    <3>3. CASE j # 1
      <4>1. j - 1 \in 1 .. n - 1 /\ r[j - 1] = q[j]
        BY <1>1, <2>3, <3>3
      <4> QED
        BY <2>1, <3>1, <4>1
    <3> QED
      BY <3>2, <3>3
  <2>6. ASSUME b \in Good(r, f) PROVE b \in Good(q, f)
    <3>1. PICK j \in 1 .. n - 1 : r[j].fn = f /\ r[j].ok /\ b = r[j].hdr
      BY <2>1, <2>6
    <3>2. j + 1 \in 1 .. n /\ q[j + 1] = r[j]
      BY <1>1, <2>4, <3>1
    <3> QED
      BY <2>2, <3>1, <3>2
  <2> QED
    BY <2>2, <2>4, <2>5, <2>6
<1> QED
  BY <1>2 DEF r

(* What the opener does when a packet of his is on its way.                   *)
LEMMA OpenerDoes ==
  ASSUME ProxyConstants, ProxyTypes, CallsLeft, rpcs[Opener] # <<>>
  PROVE  /\ rpcs[Opener][1] = "FreeBuffer" => op[Opener] = "free"
         /\ rpcs[Opener][1] = "UseBuffer" => op[Opener] \in MakeOps
<1>1. Opener \in ProxyThreads /\ op[Opener] \in Ops
  BY DEF ProxyConstants, ProxyTypes, CallsLeft
<1>2. CASE op[Opener] \in MakeOps
  <2>1. rpcs[Opener][1] \in {"GetParameter", "UseBuffer"}
    <3> DEFINE n == Len(rpcs[Opener])
    <3>1. n \in 1 .. 4 /\ rpcs[Opener][n] = "UseBuffer" /\ \A i \in 1 .. n - 1 : rpcs[Opener][i] = "GetParameter"
      BY <1>1, <1>2 DEF CallsLeft
    <3> HIDE DEF n
    <3>2. n = 1 \/ 1 \in 1 .. n - 1
      BY <3>1
    <3> QED
      BY <3>1, <3>2
  <2> QED
    BY <1>2, <2>1
<1>3. CASE op[Opener] \notin MakeOps
  <2>1. rpcs[Opener] = Proxy!RemoteCalls[op[Opener]]
    BY <1>1, <1>3, ProxyNames DEF CallsLeft
  <2>2. CASE op[Opener] \in PlainCalls
    <3>1. rpcs[Opener][1] = op[Opener]
      BY <2>1, <2>2, CallTable
    <3> QED
      BY <2>2, <3>1, ProxyNames
  <2>3. CASE op[Opener] \notin PlainCalls
    <3>1. op[Opener] \in {"open", "close", "free", "fill", "empty"}
      BY <1>1, <1>3, <2>3 DEF Ops, MakeOps
    <3> QED
      BY <2>1, <3>1, CallTable
  <2> QED
    BY <2>2, <2>3
<1> QED
  BY <1>2, <1>3

(* The remote side serves a packet: what it does with the queues.             *)
EventNotice == [fn |-> "EventHandler", hdr |-> NoHeader]
LEMMA ServedStep ==
  ASSUME ProxyConstants, ProxyTypes, Named, Conserved, toRemote # <<>>, toRemote' = Tail(toRemote),
         NEW a \in Answers, a.fn = toRemote[1].fn,
         toHost' = Append(toHost, a) \/ toHost' = Append(Append(toHost, a), EventNotice),
         UNCHANGED <<pMsgPipe, op, opBuf, rpcs>>
  PROVE  /\ toRemote' \in Seq(Packets) /\ toHost' \in Seq(Answers \cup Returns \cup Notices)
         /\ toRemote \in Seq(Packets) /\ toRemote[1] \in Packets /\ 1 \in 1 .. Len(toRemote)
         /\ Named' /\ Conserved'
         /\ \A i \in 1 .. Len(toRemote') : \E j \in 1 .. Len(toRemote) : toRemote[j] = toRemote'[i]
         /\ \A f \in Fns : Good(toHost', f) = Good(toHost, f) \cup (IF a.fn = f /\ a.ok THEN {a.hdr} ELSE {})
         /\ \A b : /\ Count(toRemote', Given(b)) \in Nat
                   /\ Count(toRemote, Given(b)) = Count(toRemote', Given(b)) + (IF toRemote[1] \in Given(b) THEN 1 ELSE 0)
                   /\ Count(toHost', Refused(b)) = Count(toHost, Refused(b)) + (IF a \in Refused(b) THEN 1 ELSE 0)
                   /\ Count(toHost', Returned(b)) = Count(toHost, Returned(b))
<1> DEFINE H == Answers \cup Returns \cup Notices
<1>1. toRemote \in Seq(Packets) /\ toHost \in Seq(H)
  BY DEF ProxyTypes
<1>2. /\ toRemote' \in Seq(Packets) /\ Len(toRemote) \in Nat \ {0} /\ Len(toRemote') = Len(toRemote) - 1
      /\ \A k \in 1 .. Len(toRemote) - 1 : toRemote'[k] = toRemote[k + 1]
  BY <1>1, Dropped
<1>3. toRemote[1] \in Packets /\ 1 \in 1 .. Len(toRemote)
  BY <1>1, <1>2
<1>4. EventNotice \in H /\ a \in H /\ EventNotice.fn = "EventHandler" /\ a.fn \in Fns
  BY <1>3 DEF EventNotice, Notices, Packets
<1> HIDE DEF H
<1>5. Append(toHost, a) \in Seq(H) /\ Append(Append(toHost, a), EventNotice) \in Seq(H)
  BY <1>1, <1>4, Appended
<1>6. toHost' \in Seq(H)
  BY <1>5
<1>7. \A i \in 1 .. Len(toRemote') : i + 1 \in 1 .. Len(toRemote) /\ toRemote[i + 1] = toRemote'[i]
  BY <1>2
<1>8. Named'
  <2>1. \A i \in 1 .. Len(toRemote') : toRemote'[i].fn \in Gives \cup {"FreeBuffer"} => toRemote'[i].hdr \in RemoteHdrs
    BY <1>7 DEF Named
  <2> QED
    BY <2>1 DEF Named
<1>9. ASSUME NEW P, EventNotice \notin P
      PROVE Count(toHost', P) = Count(toHost, P) + (IF a \in P THEN 1 ELSE 0) /\ Count(toHost, P) \in Nat
  <2>1. Count(Append(toHost, a), P) = Count(toHost, P) + (IF a \in P THEN 1 ELSE 0) /\ Count(toHost, P) \in Nat
    BY <1>1, <1>4, CountAppend, MarksFinite
  <2>2. Count(Append(Append(toHost, a), EventNotice), P) = Count(Append(toHost, a), P) + 0
    BY <1>4, <1>5, <1>9, CountAppend
  <2>3. CASE toHost' = Append(toHost, a)
    BY <2>1, <2>3
  <2>4. CASE toHost' = Append(Append(toHost, a), EventNotice)
    <3>1. Count(toHost', P) = Count(Append(toHost, a), P) + 0
      BY <2>2, <2>4
    <3>2. Count(Append(toHost, a), P) \in Nat
      BY <2>1
    <3> QED
      BY <2>1, <3>1, <3>2
  <2> QED
    BY <2>3, <2>4
<1>10. ASSUME NEW P
       PROVE  /\ Count(toRemote', P) \in Nat
              /\ Count(toRemote, P) = Count(toRemote', P) + (IF toRemote[1] \in P THEN 1 ELSE 0)
  <2>1. Count(toRemote', P) \in Nat
    BY <1>2, MarksFinite
  <2> QED
    BY <1>1, <2>1, CountTail
<1>11. \A f \in Fns : EventNotice \notin AnswersOf(f)
  <2>1. "EventHandler" \notin Fns
    BY ProxyNames
  <2> QED
    BY <1>4, <2>1 DEF AnswersOf
<1>12. \A b : EventNotice \notin Refused(b) /\ EventNotice \notin Returned(b) /\ a \notin Returned(b)
  <2>1. /\ \A b : \A x \in Refused(b) : x.fn # "EventHandler"
        /\ \A b : \A x \in Returned(b) : x.fn \in {"FillBufferDone", "EmptyBufferDone"}
    BY DEF Refused, Returned, Returns, Gives
  <2>2. a.fn \notin {"FillBufferDone", "EmptyBufferDone"}
    BY <1>4, ProxyNames
  <2> QED
    BY <1>4, <2>1, <2>2
<1>13. Conserved'
  <2> SUFFICES ASSUME NEW f \in Fns
      PROVE Count(toRemote', PacketsOf(f)) + Count(toHost', AnswersOf(f)) + Len(pMsgPipe[f]) = Cardinality(Waiters(f))
    BY DEF Conserved, Waiters
  <2>1. toRemote[1] \in PacketsOf(f) <=> a \in AnswersOf(f)
    BY <1>3 DEF PacketsOf, AnswersOf
  <2>2. /\ Count(toHost', AnswersOf(f)) = Count(toHost, AnswersOf(f)) + (IF a \in AnswersOf(f) THEN 1 ELSE 0)
        /\ Count(toHost, AnswersOf(f)) \in Nat
    BY <1>9, <1>11
  <2>3. /\ Count(toRemote', PacketsOf(f)) \in Nat
        /\ Count(toRemote, PacketsOf(f)) = Count(toRemote', PacketsOf(f)) + (IF toRemote[1] \in PacketsOf(f) THEN 1 ELSE 0)
    BY <1>10
  <2> QED
    BY <2>1, <2>2, <2>3, InFlight
<1>14. ASSUME NEW f \in Fns
       PROVE Good(toHost', f) = Good(toHost, f) \cup (IF a.fn = f /\ a.ok THEN {a.hdr} ELSE {})
  <2>1. Good(Append(toHost, a), f) = Good(toHost, f) \cup (IF a.fn = f /\ a.ok THEN {a.hdr} ELSE {})
    BY <1>1, <1>4, GoodAppend
  <2>2. EventNotice.fn # f
    BY <1>4, ProxyNames
  <2>3. Good(Append(Append(toHost, a), EventNotice), f) = Good(Append(toHost, a), f)
    <3> DEFINE q == Append(toHost, a)
               e == EventNotice
    <3>1. q \in Seq(H) /\ e \in H /\ e.fn # f
      BY <1>4, <1>5, <2>2
    <3> HIDE DEF q, e
    <3>2. Good(Append(q, e), f) = Good(q, f) \cup (IF e.fn = f /\ e.ok THEN {e.hdr} ELSE {})
      BY <3>1, GoodAppend
    <3>3. Good(Append(q, e), f) = Good(q, f)
      BY <3>1, <3>2
    <3> QED
      BY <3>3 DEF q, e
  <2> QED
    BY <2>1, <2>3
<1>15. ASSUME NEW b
       PROVE  /\ Count(toRemote', Given(b)) \in Nat
              /\ Count(toRemote, Given(b)) = Count(toRemote', Given(b)) + (IF toRemote[1] \in Given(b) THEN 1 ELSE 0)
              /\ Count(toHost', Refused(b)) = Count(toHost, Refused(b)) + (IF a \in Refused(b) THEN 1 ELSE 0)
              /\ Count(toHost', Returned(b)) = Count(toHost, Returned(b))
  <2>1. /\ Count(toRemote', Given(b)) \in Nat
        /\ Count(toRemote, Given(b)) = Count(toRemote', Given(b)) + (IF toRemote[1] \in Given(b) THEN 1 ELSE 0)
    BY <1>10
  <2>2. Count(toHost', Refused(b)) = Count(toHost, Refused(b)) + (IF a \in Refused(b) THEN 1 ELSE 0)
    BY <1>9, <1>12
  <2>3. Count(toHost', Returned(b)) = Count(toHost, Returned(b)) + 0 /\ Count(toHost, Returned(b)) \in Nat
    BY <1>9, <1>12
  <2> QED
    BY <2>1, <2>2, <2>3
<1>16. \A i \in 1 .. Len(toRemote') : \E j \in 1 .. Len(toRemote) : toRemote[j] = toRemote'[i]
  BY <1>7
<1> QED
  BY <1>1, <1>2, <1>3, <1>6, <1>8, <1>13, <1>14, <1>15, <1>16 DEF H

LEMMA ProxyServeStep ==
  ASSUME ProxyConstants, ProxyInv, Proxy!Serve
  PROVE  ProxyInv'
<1> DEFINE p == toRemote[1]
           ans(ok, b) == [fn |-> p.fn, by |-> p.by, hdr |-> b, ok |-> ok]
<1> USE DEF ProxyInv
<1>1. /\ toRemote # <<>> /\ toRemote' = Tail(toRemote)
      /\ UNCHANGED <<proxy, cbThread, remote, pMsgPipe, tBufList, nTotalBuffers, nAllocatedBuffers, op, opBuf, rpcs,
                     client, stray, events>>
  BY DEF Proxy!Serve, Proxy!slotVars
<1>2. toRemote \in Seq(Packets) /\ p \in Packets /\ Head(toRemote) = p /\ 1 \in 1 .. Len(toRemote)
  BY <1>1 DEF ProxyTypes
<1>3. /\ p.fn \in Fns /\ p.by \in ProxyThreads /\ p.hdr \in Hdrs
      /\ \A ok \in BOOLEAN : \A b \in Hdrs : ans(ok, b) \in Answers /\ ans(ok, b).fn = p.fn /\ ans(ok, b).hdr = b /\ ans(ok, b).ok = ok
  BY <1>2 DEF Packets, Answers
<1>4. \/ /\ toHost' = Append(toHost, ans(FALSE, p.hdr)) /\ UNCHANGED <<remoteBufs, remoteHolds>>
      \/ /\ p.fn = "UseBuffer" /\ remoteHolds' = remoteHolds
         /\ \E b \in RemoteHdrs \ remoteBufs : toHost' = Append(toHost, ans(TRUE, b)) /\ remoteBufs' = remoteBufs \cup {b}
      \/ /\ p.fn = "FreeBuffer" /\ toHost' = Append(toHost, ans(TRUE, p.hdr))
         /\ remoteBufs' = remoteBufs \ {p.hdr} /\ remoteHolds' = remoteHolds
      \/ /\ p.fn \in Gives /\ toHost' = Append(toHost, ans(TRUE, p.hdr))
         /\ remoteHolds' = remoteHolds \cup {p} /\ remoteBufs' = remoteBufs
      \/ /\ p.fn \notin {"UseBuffer", "FreeBuffer"} \cup Gives
         /\ \/ toHost' = Append(toHost, ans(TRUE, p.hdr))
            \/ toHost' = Append(Append(toHost, ans(TRUE, p.hdr)), EventNotice)
         /\ UNCHANGED <<remoteBufs, remoteHolds>>
  BY <1>2 DEF Proxy!Serve, Proxy!Answer, Proxy!remoteVars, Gives, EventNotice, NoHeader
<1> HIDE DEF p, ans
<1>5. /\ p.fn \in Gives \cup {"FreeBuffer"} => p.hdr \in RemoteHdrs
      /\ p.fn = "UseBuffer" => op[Opener] \in MakeOps /\ Agreed("FreeBuffer") = {}
      /\ p.fn = "FreeBuffer" => op[Opener] = "free" /\ Agreed("UseBuffer") = {}
  <2>1. p.fn \in Gives \cup {"FreeBuffer"} => p.hdr \in RemoteHdrs
    BY <1>2 DEF Named, p
  <2>2. ASSUME p.fn \in {"UseBuffer", "FreeBuffer"} PROVE rpcs[Opener] # <<>> /\ rpcs[Opener][1] = p.fn
    <3>1. p.fn \in Fns \ {"FillThisBuffer"}
      BY <1>3, <2>2
    <3>2. toRemote[1].fn = p.fn
      BY DEF p
    <3> QED
      BY <1>2, <3>1, <3>2, NotCalled
  <2>3. p.fn \in {"UseBuffer", "FreeBuffer"} => rpcs[Opener] # <<>> /\ rpcs[Opener][1] = p.fn
    BY <2>2
  <2>4. /\ p.fn = "UseBuffer" => op[Opener] \in MakeOps
        /\ p.fn = "FreeBuffer" => op[Opener] = "free"
    BY <2>3, OpenerDoes
  <2>5. {"FreeBuffer", "UseBuffer"} \subseteq Fns \ {"FillThisBuffer"}
    BY ProxyNames
  <2>6. p.fn = "UseBuffer" => Agreed("FreeBuffer") = {}
    BY <2>3, <2>5, NotCalled
  <2>7. p.fn = "FreeBuffer" => Agreed("UseBuffer") = {}
    BY <2>3, <2>5, NotCalled
  <2> QED
    BY <2>1, <2>4, <2>6, <2>7
<1>6. \E ok \in BOOLEAN : \E b \in Hdrs :
        /\ toHost' = Append(toHost, ans(ok, b)) \/ toHost' = Append(Append(toHost, ans(ok, b)), EventNotice)
        /\ \/ ~ok /\ b = p.hdr /\ UNCHANGED <<remoteBufs, remoteHolds>>
           \/ /\ ok /\ p.fn = "UseBuffer" /\ remoteHolds' = remoteHolds
              /\ b \in RemoteHdrs \ remoteBufs /\ remoteBufs' = remoteBufs \cup {b}
           \/ ok /\ p.fn = "FreeBuffer" /\ b = p.hdr /\ remoteBufs' = remoteBufs \ {b} /\ remoteHolds' = remoteHolds
           \/ ok /\ p.fn \in Gives /\ b = p.hdr /\ remoteHolds' = remoteHolds \cup {p} /\ remoteBufs' = remoteBufs
           \/ ok /\ p.fn \notin {"UseBuffer", "FreeBuffer"} \cup Gives /\ UNCHANGED <<remoteBufs, remoteHolds>>
  <2>1. p.hdr \in Hdrs /\ RemoteHdrs \subseteq Hdrs /\ TRUE \in BOOLEAN /\ FALSE \in BOOLEAN
    BY <1>3 DEF Hdrs
  <2>2. CASE toHost' = Append(toHost, ans(FALSE, p.hdr)) /\ UNCHANGED <<remoteBufs, remoteHolds>>
    BY <2>1, <2>2
  <2>3. CASE /\ p.fn = "UseBuffer" /\ remoteHolds' = remoteHolds
             /\ \E b \in RemoteHdrs \ remoteBufs : toHost' = Append(toHost, ans(TRUE, b)) /\ remoteBufs' = remoteBufs \cup {b}
    BY <2>1, <2>3
  <2>4. CASE /\ p.fn = "FreeBuffer" /\ toHost' = Append(toHost, ans(TRUE, p.hdr))
             /\ remoteBufs' = remoteBufs \ {p.hdr} /\ remoteHolds' = remoteHolds
    BY <2>1, <2>4
  <2>5. CASE /\ p.fn \in Gives /\ toHost' = Append(toHost, ans(TRUE, p.hdr))
             /\ remoteHolds' = remoteHolds \cup {p} /\ remoteBufs' = remoteBufs
    BY <2>1, <2>5
  <2>6. CASE /\ p.fn \notin {"UseBuffer", "FreeBuffer"} \cup Gives
             /\ \/ toHost' = Append(toHost, ans(TRUE, p.hdr))
                \/ toHost' = Append(Append(toHost, ans(TRUE, p.hdr)), EventNotice)
             /\ UNCHANGED <<remoteBufs, remoteHolds>>
    BY <2>1, <2>6
  <2> QED
    BY <1>4, <2>2, <2>3, <2>4, <2>5, <2>6
<1>7. PICK ok \in BOOLEAN, b \in Hdrs :
        /\ toHost' = Append(toHost, ans(ok, b)) \/ toHost' = Append(Append(toHost, ans(ok, b)), EventNotice)
        /\ \/ ~ok /\ b = p.hdr /\ UNCHANGED <<remoteBufs, remoteHolds>>
           \/ /\ ok /\ p.fn = "UseBuffer" /\ remoteHolds' = remoteHolds
              /\ b \in RemoteHdrs \ remoteBufs /\ remoteBufs' = remoteBufs \cup {b}
           \/ ok /\ p.fn = "FreeBuffer" /\ b = p.hdr /\ remoteBufs' = remoteBufs \ {b} /\ remoteHolds' = remoteHolds
           \/ ok /\ p.fn \in Gives /\ b = p.hdr /\ remoteHolds' = remoteHolds \cup {p} /\ remoteBufs' = remoteBufs
           \/ ok /\ p.fn \notin {"UseBuffer", "FreeBuffer"} \cup Gives /\ UNCHANGED <<remoteBufs, remoteHolds>>
  BY <1>6
<1> DEFINE a == ans(ok, b)
<1>8. a \in Answers /\ a.fn = p.fn /\ a.hdr = b /\ a.ok = ok
  BY <1>3
<1>9. toHost' = Append(toHost, a) \/ toHost' = Append(Append(toHost, a), EventNotice)
  BY <1>7
<1> HIDE DEF a
<1>10. /\ toRemote' \in Seq(Packets) /\ toHost' \in Seq(Answers \cup Returns \cup Notices)
       /\ Named' /\ Conserved'
       /\ \A i \in 1 .. Len(toRemote') : \E j \in 1 .. Len(toRemote) : toRemote[j] = toRemote'[i]
       /\ \A f \in Fns : Good(toHost', f) = Good(toHost, f) \cup (IF a.fn = f /\ a.ok THEN {a.hdr} ELSE {})
       /\ \A c : /\ Count(toRemote', Given(c)) \in Nat
                 /\ Count(toRemote, Given(c)) = Count(toRemote', Given(c)) + (IF p \in Given(c) THEN 1 ELSE 0)
                 /\ Count(toHost', Refused(c)) = Count(toHost, Refused(c)) + (IF a \in Refused(c) THEN 1 ELSE 0)
                 /\ Count(toHost', Returned(c)) = Count(toHost, Returned(c))
  <2>1. a.fn = toRemote[1].fn
    BY <1>8 DEF p
  <2> QED
    BY <1>1, <1>8, <1>9, <2>1, ServedStep DEF p
<1>11. /\ Agreed("UseBuffer")' = Agreed("UseBuffer") \cup (IF p.fn = "UseBuffer" /\ ok THEN {b} ELSE {})
       /\ Agreed("FreeBuffer")' = Agreed("FreeBuffer") \cup (IF p.fn = "FreeBuffer" /\ ok THEN {b} ELSE {})
  <2>1. {"UseBuffer", "FreeBuffer"} \subseteq Fns
    BY ProxyNames
  <2> QED
    BY <1>1, <1>8, <1>10, <2>1 DEF Agreed
<1>12. ProxyTypes'
  <2>1. p.fn \in Gives => p \in [fn : Gives, by : ProxyThreads, hdr : RemoteHdrs]
    BY <1>2, <1>5 DEF Packets
  <2>2. remoteHolds' \in {remoteHolds, remoteHolds \cup {p}} /\ (remoteHolds' # remoteHolds => p.fn \in Gives)
    BY <1>7
  <2>3. IsFiniteSet(remoteHolds \cup {p})
    BY FS_AddElement DEF ProxyTypes
  <2>4. remoteHolds' \subseteq [fn : Gives, by : ProxyThreads, hdr : RemoteHdrs] /\ IsFiniteSet(remoteHolds')
    BY <2>1, <2>2, <2>3 DEF ProxyTypes
  <2>5. remoteBufs' \subseteq RemoteHdrs
    BY <1>7 DEF ProxyTypes
  <2> QED
    BY <1>1, <1>10, <2>4, <2>5 DEF ProxyTypes
<1>13. CallsLeft' /\ Roles' /\ Proxy!CallbackFindsHeader'
  <2>1. CallsLeft'
    BY <1>1 DEF CallsLeft
  <2>2. Proxy!Used' = Proxy!Used
    BY <1>1 DEF Proxy!Used
  <2>3. Roles'
    BY <1>1, <2>2 DEF Roles
  <2>4. Proxy!CallbackFindsHeader'
    BY <1>1 DEF Proxy!CallbackFindsHeader
  <2> QED
    BY <2>1, <2>3, <2>4
<1>14. InUse' = InUse /\ Slotted' = Slotted /\ Proxy!Used' = Proxy!Used
  BY <1>1 DEF InUse, Slotted, Proxy!Used
<1>15. Slots'
  <2>1. CASE ok /\ p.fn = "UseBuffer" /\ b \in RemoteHdrs \ remoteBufs /\ remoteBufs' = remoteBufs \cup {b}
    <3> SUFFICES ASSUME InUse PROVE Slots'
      BY <1>14 DEF Slots
    <3>1. op[Opener] # "free" /\ Agreed("FreeBuffer")' = {} /\ Agreed("UseBuffer")' = Agreed("UseBuffer") \cup {b}
      BY <1>5, <1>11, <2>1 DEF MakeOps
    <3>2. \A c \in Slotted : c \in remoteBufs
      BY <3>1 DEF Slots
    <3>3. /\ nAllocatedBuffers' = Cardinality(Proxy!Used') /\ Proxy!Used' \subseteq 1 .. nTotalBuffers'
          /\ \A s, r \in Proxy!Used' : tBufList'[s] = tBufList'[r] => s = r
      BY <1>1, <1>14 DEF Slots
    <3>4. \A c \in Slotted' : c \in remoteBufs'
      BY <1>14, <2>1, <3>2
    <3>5. \A c \in remoteBufs' : c \in stray' \cup Slotted' \cup Agreed("UseBuffer")'
      BY <1>1, <1>14, <2>1, <3>1 DEF Slots
    <3>6. Agreed("UseBuffer")' \subseteq remoteBufs' \ Slotted'
      BY <1>14, <2>1, <3>1, <3>2 DEF Slots
    <3>7. \A i \in 1 .. Len(toRemote') : toRemote'[i].fn = "FreeBuffer" => toRemote'[i].hdr = opBuf'[Opener]
      BY <1>1, <1>10 DEF Slots
    <3> QED
      BY <1>1, <3>1, <3>3, <3>4, <3>5, <3>6, <3>7 DEF Slots
  <2>2. CASE ok /\ p.fn = "FreeBuffer" /\ b = p.hdr /\ remoteBufs' = remoteBufs \ {b}
    <3> SUFFICES ASSUME InUse PROVE Slots'
      BY <1>14 DEF Slots
    <3>1. op[Opener] = "free" /\ Agreed("UseBuffer")' = {} /\ Agreed("FreeBuffer")' = Agreed("FreeBuffer") \cup {b}
      BY <1>5, <1>11, <2>2
    <3>2. b = opBuf[Opener]
      BY <1>2, <2>2 DEF Slots, p
    <3>3. /\ nAllocatedBuffers' = Cardinality(Proxy!Used') /\ Proxy!Used' \subseteq 1 .. nTotalBuffers'
          /\ \A s, r \in Proxy!Used' : tBufList'[s] = tBufList'[r] => s = r
      BY <1>1, <1>14 DEF Slots
    <3>4. /\ opBuf[Opener] \in Slotted
          /\ \A c \in Slotted : c \in remoteBufs' \/ c = opBuf[Opener]
      BY <2>2, <3>1, <3>2 DEF Slots
    <3>5. \A c \in remoteBufs' : c \in stray' \cup Slotted'
      BY <1>1, <1>5, <1>14, <2>2 DEF Slots
    <3>6. Agreed("FreeBuffer")' \subseteq {opBuf[Opener]} \ remoteBufs'
      BY <2>2, <3>1, <3>2 DEF Slots
    <3>7. \A i \in 1 .. Len(toRemote') : toRemote'[i].fn = "FreeBuffer" => toRemote'[i].hdr = opBuf'[Opener]
      BY <1>1, <1>10 DEF Slots
    <3> QED
      BY <1>1, <1>14, <3>1, <3>3, <3>4, <3>5, <3>6, <3>7 DEF Slots
  <2>3. CASE remoteBufs' = remoteBufs /\ ~(ok /\ p.fn \in {"UseBuffer", "FreeBuffer"})
    <3>1. Agreed("UseBuffer")' = Agreed("UseBuffer") /\ Agreed("FreeBuffer")' = Agreed("FreeBuffer")
      BY <1>11, <2>3
    <3>2. op'[Opener] = op[Opener] /\ opBuf'[Opener] = opBuf[Opener]
      BY <1>1
    <3> QED
      BY <1>1, <1>10, <1>14, <2>3, <3>1, <3>2, SlotsKept
  <2>4. "UseBuffer" \notin Gives /\ "FreeBuffer" \notin Gives
    BY DEF Gives
  <2> QED
    BY <1>7, <2>1, <2>2, <2>3, <2>4
<1>16. OneToken'
  <2>1. ASSUME NEW c \in RemoteHdrs PROVE Tokens(c)' <= Tokens(c)
    <3> DEFINE g == IF p \in Given(c) THEN 1 ELSE 0
               r == IF a \in Refused(c) THEN 1 ELSE 0
    <3>1. /\ p \in Given(c) <=> p.fn \in Gives /\ p.hdr = c
          /\ a \in Refused(c) <=> p.fn \in Gives /\ ~ok /\ b = c
      BY <1>2, <1>8 DEF Given, Refused
    <3>2. Cardinality(Held(c)') \in Nat /\ Cardinality(Held(c)') + r <= Cardinality(Held(c)) + g
      <4>1. IsFiniteSet(Held(c)) /\ Cardinality(Held(c)) \in Nat
        BY TokenNumbers
      <4>2. CASE ~ok /\ b = p.hdr /\ remoteHolds' = remoteHolds
        <5>1. Held(c)' = Held(c) /\ r = g
          BY <3>1, <4>2 DEF Held
        <5> QED
          BY <4>1, <5>1
      <4>3. CASE ok /\ remoteHolds' = remoteHolds
        <5>1. Held(c)' = Held(c) /\ r = 0 /\ g \in 0 .. 1
          BY <3>1, <4>3 DEF Held
        <5> HIDE DEF g
        <5> QED
          BY <4>1, <5>1
      <4>4. CASE ok /\ p.fn \in Gives /\ remoteHolds' = remoteHolds \cup {p}
        <5>1. r = 0
          BY <3>1, <4>4
        <5>2. CASE p.hdr = c
          <6>1. Held(c)' = Held(c) \cup {p} /\ g = 1
            BY <3>1, <4>4, <5>2 DEF Held
          <6>2. Cardinality(Held(c) \cup {p}) = IF p \in Held(c) THEN Cardinality(Held(c)) ELSE Cardinality(Held(c)) + 1
            BY <4>1, FS_AddElement
          <6> HIDE DEF g, r
          <6> QED
            BY <4>1, <5>1, <6>1, <6>2
        <5>3. CASE p.hdr # c
          <6>1. Held(c)' = Held(c) /\ g = 0
            BY <3>1, <4>4, <5>3 DEF Held
          <6> QED
            BY <4>1, <5>1, <6>1
        <5> QED
          BY <5>2, <5>3
      <4> QED
        BY <1>7, <4>2, <4>3, <4>4
    <3>3. /\ Count(toRemote', Given(c)) \in Nat /\ Count(toRemote, Given(c)) = Count(toRemote', Given(c)) + g
          /\ Count(toHost', Refused(c)) = Count(toHost, Refused(c)) + r
          /\ Count(toHost', Returned(c)) = Count(toHost, Returned(c))
      BY <1>10
    <3>4. g \in Nat /\ r \in Nat
      OBVIOUS
    <3> HIDE DEF g, r
    <3>5. Tokens(c)' = Count(toRemote', Given(c)) + Count(toHost', Refused(c)) + Count(toHost', Returned(c)) + Cardinality(Held(c)')
                         + Count(pMsgPipe["FillThisBuffer"], Refused(c)) + Count(pMsgPipe["EmptyThisBuffer"], Refused(c))
                         + (IF c \in client THEN 1 ELSE 0)
      BY <1>1 DEF Tokens
    <3>6. (IF c \in client THEN 1 ELSE 0) \in Nat
      OBVIOUS
    <3> QED
      BY <3>2, <3>3, <3>4, <3>5, <3>6, TokenNumbers DEF Tokens
  <2>2. \/ op'[Opener] # "free"
        \/ op'[Opener] = op[Opener] /\ opBuf'[Opener] = opBuf[Opener] /\ opBuf[Opener] \in RemoteHdrs
    BY <1>1 DEF Named, ProxyConstants
  <2> QED
    BY <1>1, <1>12, <1>14, <2>1, <2>2, TokensKept
<1> QED
  BY <1>10, <1>12, <1>13, <1>15, <1>16

(* What of the invariant does not speak of the packets of the remote side.    *)
LEMMA CallersKept ==
  ASSUME ProxyConstants, ProxyInv,
         UNCHANGED <<proxy, op, opBuf, rpcs, tBufList, nTotalBuffers, nAllocatedBuffers, remoteBufs, stray, toRemote>>,
         "handle" \in events' <=> "handle" \in events, client' = client \/ ("handle" \in events /\ op[Opener] # "close")
  PROVE  CallsLeft' /\ Roles' /\ InUse' = InUse /\ Slotted' = Slotted /\ Proxy!Used' = Proxy!Used
<1> USE DEF ProxyInv
<1>1. CallsLeft'
  BY DEF CallsLeft
<1>2. Proxy!Used' = Proxy!Used /\ Slotted' = Slotted
  BY DEF Proxy!Used, Slotted
<1>3. InUse' = InUse
  BY DEF InUse
<1>4. Roles'
  BY <1>2 DEF Roles
<1> QED
  BY <1>1, <1>2, <1>3, <1>4

LEMMA ProxyRemoteReturnsStep ==
  ASSUME ProxyConstants, ProxyInv, Proxy!RemoteReturns
  PROVE  ProxyInv'
<1> USE DEF ProxyInv
<1>1. UNCHANGED <<proxy, cbThread, remote, pMsgPipe, toRemote, tBufList, nTotalBuffers, nAllocatedBuffers, remoteBufs,
                  op, opBuf, rpcs, client, stray, events>>
  BY DEF Proxy!RemoteReturns, Proxy!slotVars
<1>2. PICK p \in remoteHolds :
        /\ remoteHolds' = remoteHolds \ {p}
        /\ toHost' = Append(toHost,
             [fn |-> IF p.fn = "FillThisBuffer" THEN "FillBufferDone" ELSE "EmptyBufferDone", hdr |-> p.hdr])
  BY DEF Proxy!RemoteReturns
<1> DEFINE e == [fn |-> IF p.fn = "FillThisBuffer" THEN "FillBufferDone" ELSE "EmptyBufferDone", hdr |-> p.hdr]
           H == Answers \cup Returns \cup Notices
<1>3. p.hdr \in RemoteHdrs /\ e \in Returns /\ e.hdr = p.hdr /\ e.fn \in {"FillBufferDone", "EmptyBufferDone"}
  BY DEF ProxyTypes, Returns
<1>4. toHost \in Seq(H) /\ e \in H /\ toHost' = Append(toHost, e)
  BY <1>2, <1>3 DEF ProxyTypes
<1>5. e.fn \notin Fns
  BY <1>3, ProxyNames
<1> HIDE DEF e, H
<1>6. toHost' \in Seq(H)
  BY <1>4, Appended
<1>7. ProxyTypes'
  <2>1. IsFiniteSet(remoteHolds')
    BY <1>2, FS_RemoveElement DEF ProxyTypes
  <2> QED
    BY <1>1, <1>2, <1>6, <2>1 DEF ProxyTypes, H
<1>8. CallsLeft' /\ Roles' /\ InUse' = InUse /\ Slotted' = Slotted /\ Proxy!Used' = Proxy!Used
  BY <1>1, CallersKept
<1>9. Conserved'
  <2> SUFFICES ASSUME NEW f \in Fns
      PROVE Count(toRemote', PacketsOf(f)) + Count(toHost', AnswersOf(f)) + Len(pMsgPipe'[f]) = Cardinality(Waiters(f)')
    BY DEF Conserved
  <2>1. e \notin AnswersOf(f)
    BY <1>5 DEF AnswersOf
  <2>2. Count(toHost', AnswersOf(f)) = Count(toHost, AnswersOf(f))
    BY <1>4, <2>1, CountAppend, InFlight
  <2> QED
    BY <1>1, <2>2, InFlight DEF Waiters
<1>10. \A f \in Fns : Agreed(f)' = Agreed(f)
  <2> SUFFICES ASSUME NEW f \in Fns PROVE Agreed(f)' = Agreed(f)
    OBVIOUS
  <2>1. e.fn # f
    BY <1>5
  <2>2. Good(Append(toHost, e), f) = Good(toHost, f) \cup (IF e.fn = f /\ e.ok THEN {e.hdr} ELSE {})
    BY <1>4, GoodAppend
  <2>3. Good(toHost', f) = Good(toHost, f)
    BY <1>4, <2>1, <2>2
  <2> QED
    BY <1>1, <2>3 DEF Agreed
<1>11. Slots'
  <2>1. Agreed("UseBuffer")' = Agreed("UseBuffer") /\ Agreed("FreeBuffer")' = Agreed("FreeBuffer")
    BY <1>10, ProxyNames
  <2> QED
    BY <1>1, <1>8, <2>1, SlotsKept
<1>12. OneToken'
  <2>1. ASSUME NEW c \in RemoteHdrs PROVE Tokens(c)' <= Tokens(c)
    <3> DEFINE g == IF p.hdr = c THEN 1 ELSE 0
    <3>1. Cardinality(Held(c)') \in Nat /\ Cardinality(Held(c)) = Cardinality(Held(c)') + g
      <4>1. IsFiniteSet(Held(c)) /\ Cardinality(Held(c)) \in Nat
        BY TokenNumbers
      <4>2. Held(c)' = Held(c) \ {p} /\ (p \in Held(c) <=> p.hdr = c)
        BY <1>2 DEF Held
      <4>3. Cardinality(Held(c) \ {p}) = IF p \in Held(c) THEN Cardinality(Held(c)) - 1 ELSE Cardinality(Held(c))
        BY <4>1, FS_RemoveElement
      <4>4. IsFiniteSet(Held(c) \ {p}) /\ Cardinality(Held(c) \ {p}) \in Nat
        BY <4>1, FS_Subset, FS_CardinalityType
      <4> QED
        BY <4>1, <4>2, <4>3, <4>4
    <3>2. (e \in Returned(c) <=> p.hdr = c) /\ e \notin Refused(c)
      BY <1>3 DEF Returned, Refused, Gives
    <3>3. Count(toHost', Returned(c)) = Count(toHost, Returned(c)) + g
      BY <1>4, <3>2, CountAppend
    <3>4. Count(toHost', Refused(c)) = Count(toHost, Refused(c))
      <4>1. Count(toHost', Refused(c)) = Count(toHost, Refused(c)) + 0
        BY <1>4, <3>2, CountAppend
      <4> QED
        BY <4>1, TokenNumbers
    <3>5. g \in Nat
      OBVIOUS
    <3> HIDE DEF g
    <3>6. Tokens(c)' = Count(toRemote, Given(c)) + Count(toHost', Refused(c)) + Count(toHost', Returned(c)) + Cardinality(Held(c)')
                         + Count(pMsgPipe["FillThisBuffer"], Refused(c)) + Count(pMsgPipe["EmptyThisBuffer"], Refused(c))
                         + (IF c \in client THEN 1 ELSE 0)
      BY <1>1 DEF Tokens
    <3>7. (IF c \in client THEN 1 ELSE 0) \in Nat
      OBVIOUS
    <3> QED
      BY <3>1, <3>3, <3>4, <3>5, <3>6, <3>7, TokenNumbers DEF Tokens
  <2>2. \/ op'[Opener] # "free"
        \/ op'[Opener] = op[Opener] /\ opBuf'[Opener] = opBuf[Opener] /\ opBuf[Opener] \in RemoteHdrs
    BY <1>1 DEF Named, ProxyConstants
  <2> QED
    BY <1>1, <1>7, <1>8, <2>1, <2>2, TokensKept
<1>13. Named' /\ Proxy!CallbackFindsHeader'
  BY <1>1 DEF Named, Proxy!CallbackFindsHeader
<1> QED
  BY <1>7, <1>8, <1>9, <1>11, <1>12, <1>13

(* Nothing but the threads of the wire changes.                               *)
LEMMA ProxyDeathStep ==
  ASSUME ProxyConstants, ProxyInv, Proxy!RemoteDies \/ Proxy!CbRemoteIsDead
  PROVE  ProxyInv'
<1> USE DEF ProxyInv
<1>1. /\ UNCHANGED <<proxy, pMsgPipe, toRemote, toHost, tBufList, nTotalBuffers, nAllocatedBuffers, remoteBufs, remoteHolds,
                     op, opBuf, rpcs, client, stray>>
      /\ remote' \in {"alive", "dead"} /\ cbThread' \in {"none", "running", "gone"}
      /\ events' \in {events, events \cup {"hardware error"}}
  BY DEF Proxy!RemoteDies, Proxy!CbRemoteIsDead, Proxy!slotVars, Proxy!remoteVars, ProxyTypes
<1>2. ProxyTypes'
  BY <1>1 DEF ProxyTypes
<1>3. CallsLeft' /\ Roles' /\ InUse' = InUse /\ Slotted' = Slotted /\ Proxy!Used' = Proxy!Used
  BY <1>1, CallersKept
<1>4. Named'
  BY <1>1 DEF Named
<1>5. Conserved'
  BY <1>1 DEF Conserved, Waiters
<1>6. Slots'
  BY <1>1, <1>3 DEF Slots, Agreed
<1>7. OneToken'
  <2>1. \A c : Tokens(c)' = Tokens(c)
    BY <1>1 DEF Tokens, Held
  <2> QED
    BY <1>1, <1>3, <2>1 DEF OneToken
<1>8. Proxy!CallbackFindsHeader'
  <2>1. /\ "unknown header" \in events' <=> "unknown header" \in events
        /\ "crossed" \in events' <=> "crossed" \in events
    BY <1>1
  <2> QED
    BY <1>1, <2>1 DEF Proxy!CallbackFindsHeader
<1> QED
  BY <1>2, <1>3, <1>4, <1>5, <1>6, <1>7, <1>8

(* The callback thread takes a packet.                                        *)
LEMMA ProxyAnswerStep ==
  ASSUME ProxyConstants, ProxyInv, Proxy!CbAnswer
  PROVE  ProxyInv'
<1> DEFINE e == toHost[1]
           H == Answers \cup Returns \cup Notices
<1> USE DEF ProxyInv
<1>1. /\ UNCHANGED <<proxy, cbThread, remote, toRemote, tBufList, nTotalBuffers, nAllocatedBuffers, remoteBufs, remoteHolds,
                     op, opBuf, rpcs, client, stray, events>>
      /\ toHost # <<>> /\ toHost' = Tail(toHost)
  BY DEF Proxy!CbAnswer, Proxy!slotVars, Proxy!remoteVars
<1>2. toHost \in Seq(H)
  BY DEF ProxyTypes
<1>3. Head(toHost) = e /\ e \in H
  BY <1>1, <1>2
<1>4. /\ e.fn \notin {"FillBufferDone", "EmptyBufferDone", "EventHandler"}
      /\ pMsgPipe' = [pMsgPipe EXCEPT ![e.fn] = Append(@, e)]
  BY <1>3 DEF Proxy!CbAnswer, Proxy!Callbacks, Proxy!PipeOf
<1>5. e \in Answers /\ e.fn \in Fns
  <2>1. \A x \in Returns \cup Notices : x.fn \in {"FillBufferDone", "EmptyBufferDone", "EventHandler"}
    BY DEF Returns, Notices
  <2>2. e \in Answers
    BY <1>3, <1>4, <2>1
  <2> QED
    BY <2>2 DEF Answers
<1> HIDE DEF e, H
<1>6. /\ toHost' \in Seq(H)
      /\ \A P : /\ Count(toHost', P) \in Nat
                /\ Count(toHost, P) = Count(toHost', P) + (IF e \in P THEN 1 ELSE 0)
      /\ \A f : Good(toHost, f) = Good(toHost', f) \cup (IF e.fn = f /\ e.ok THEN {e.hdr} ELSE {})
  BY <1>1, <1>2, Dropped, CountTail, GoodTail DEF e
<1> DEFINE q == pMsgPipe[e.fn]
<1>7. q \in Seq(Answers)
  BY <1>5 DEF ProxyTypes
<1> HIDE DEF q
<1>8. /\ pMsgPipe' \in [Fns -> Seq(Answers)] /\ pMsgPipe'[e.fn] = Append(q, e)
      /\ \A f \in Fns \ {e.fn} : pMsgPipe'[f] = pMsgPipe[f]
  <2>1. Append(q, e) \in Seq(Answers) /\ pMsgPipe' = [pMsgPipe EXCEPT ![e.fn] = Append(q, e)]
    BY <1>4, <1>5, <1>7, Appended DEF q
  <2> QED
    BY <1>5, <2>1 DEF ProxyTypes
<1>9. /\ Len(q) \in Nat /\ Len(Append(q, e)) = Len(q) + 1 /\ Append(q, e)[Len(q) + 1] = e
      /\ \A i \in 1 .. Len(q) : Append(q, e)[i] = q[i]
  BY <1>5, <1>7, Appended
<1>10. ProxyTypes'
  BY <1>1, <1>6, <1>8 DEF ProxyTypes, H
<1>11. Named'
  <2>1. ASSUME NEW f \in Fns, NEW i \in 1 .. Len(pMsgPipe'[f]) PROVE pMsgPipe'[f][i].fn = f
    <3>1. CASE f # e.fn
      BY <1>8, <3>1 DEF Named
    <3>2. CASE f = e.fn
      <4>1. i \in 1 .. Len(q) + 1
        BY <1>8, <1>9, <3>2
      <4>2. CASE i = Len(q) + 1
        BY <1>8, <1>9, <3>2, <4>2
      <4>3. CASE i \in 1 .. Len(q)
        <5>1. q[i].fn = f
          BY <1>5, <3>2, <4>3 DEF Named, q
        <5> QED
          BY <1>8, <1>9, <3>2, <4>3, <5>1
      <4> QED
        BY <1>9, <4>1, <4>2, <4>3
    <3> QED
      BY <3>1, <3>2
  <2> QED
    BY <1>1, <2>1 DEF Named
<1>12. CallsLeft' /\ Roles' /\ InUse' = InUse /\ Slotted' = Slotted /\ Proxy!Used' = Proxy!Used
  BY <1>1, CallersKept
<1>13. Conserved'
  <2> SUFFICES ASSUME NEW f \in Fns
      PROVE Count(toRemote', PacketsOf(f)) + Count(toHost', AnswersOf(f)) + Len(pMsgPipe'[f]) = Cardinality(Waiters(f)')
    BY DEF Conserved
  <2>1. e \in AnswersOf(f) <=> e.fn = f
    BY <1>5 DEF AnswersOf
  <2>2. Count(toHost', AnswersOf(f)) \in Nat
        /\ Count(toHost, AnswersOf(f)) = Count(toHost', AnswersOf(f)) + (IF e.fn = f THEN 1 ELSE 0)
    BY <1>6, <2>1
  <2>3. Len(pMsgPipe'[f]) = Len(pMsgPipe[f]) + (IF e.fn = f THEN 1 ELSE 0) /\ Len(pMsgPipe[f]) \in Nat
    <3>1. CASE f = e.fn
      BY <1>8, <1>9, <3>1 DEF q
    <3>2. CASE f # e.fn
      <4>1. Len(pMsgPipe[f]) \in Nat /\ e.fn # f
        BY <3>2, InFlight
      <4>2. pMsgPipe'[f] = pMsgPipe[f]
        BY <1>8, <3>2
      <4> QED
        BY <4>1, <4>2
    <3> QED
      BY <3>1, <3>2
  <2>4. Count(toRemote', PacketsOf(f)) = Count(toRemote, PacketsOf(f)) /\ Waiters(f)' = Waiters(f)
    BY <1>1 DEF Waiters
  <2>5. /\ Count(toRemote, PacketsOf(f)) \in Nat
        /\ Count(toRemote, PacketsOf(f)) + Count(toHost, AnswersOf(f)) + Len(pMsgPipe[f]) = Cardinality(Waiters(f))
    BY InFlight
  <2>6. CASE e.fn = f
    BY <2>2, <2>3, <2>4, <2>5, <2>6
  <2>7. CASE e.fn # f
    BY <2>2, <2>3, <2>4, <2>5, <2>7
  <2> QED
    BY <2>6, <2>7
<1>14. ASSUME NEW f \in Fns PROVE Agreed(f)' = Agreed(f)
  <2>1. Good(toHost, f) = Good(toHost', f) \cup (IF e.fn = f /\ e.ok THEN {e.hdr} ELSE {})
    BY <1>6
  <2>2. Good(pMsgPipe'[f], f) = Good(pMsgPipe[f], f) \cup (IF e.fn = f /\ e.ok THEN {e.hdr} ELSE {})
    <3>1. CASE f = e.fn
      <4>1. Good(Append(q, e), f) = Good(q, f) \cup (IF e.fn = f /\ e.ok THEN {e.hdr} ELSE {})
        BY <1>5, <1>7, GoodAppend
      <4>2. pMsgPipe'[f] = Append(q, e) /\ pMsgPipe[f] = q
        BY <1>8, <3>1 DEF q
      <4> QED
        BY <4>1, <4>2
    <3>2. CASE f # e.fn
      BY <1>8, <3>2
    <3> QED
      BY <3>1, <3>2
  <2> QED
    BY <2>1, <2>2 DEF Agreed
<1>15. Slots'
  <2>1. Agreed("UseBuffer")' = Agreed("UseBuffer") /\ Agreed("FreeBuffer")' = Agreed("FreeBuffer")
    BY <1>14, ProxyNames
  <2> QED
    BY <1>1, <1>12, <2>1, SlotsKept
<1>16. OneToken'
  <2>1. ASSUME NEW c \in RemoteHdrs PROVE Tokens(c)' <= Tokens(c)
    <3> DEFINE x(f) == IF e \in Refused(c) /\ e.fn = f THEN 1 ELSE 0
    <3>1. Count(toHost', Returned(c)) = Count(toHost, Returned(c))
      <4>1. e \notin Returned(c)
        BY <1>4 DEF Returned, Returns
      <4>2. Count(toHost', Returned(c)) \in Nat
        BY <1>6
      <4>3. Count(toHost, Returned(c)) = Count(toHost', Returned(c)) + 0
        BY <1>6, <4>1
      <4> QED
        BY <4>2, <4>3
    <3>2. Count(toHost, Refused(c)) = Count(toHost', Refused(c)) + x("FillThisBuffer") + x("EmptyThisBuffer")
          /\ Count(toHost', Refused(c)) \in Nat
      <4>1. /\ Count(toHost', Refused(c)) \in Nat
            /\ Count(toHost, Refused(c)) = Count(toHost', Refused(c)) + (IF e \in Refused(c) THEN 1 ELSE 0)
        BY <1>6
      <4>2. e \in Refused(c) => e.fn \in Gives
        BY DEF Refused
      <4> QED
        BY <4>1, <4>2 DEF Gives
    <3>3. \A f \in Gives : Count(pMsgPipe'[f], Refused(c)) = Count(pMsgPipe[f], Refused(c)) + x(f)
      <4> SUFFICES ASSUME NEW f \in Gives PROVE Count(pMsgPipe'[f], Refused(c)) = Count(pMsgPipe[f], Refused(c)) + x(f)
        OBVIOUS
      <4>1. f \in Fns
        BY ProxyNames DEF Gives
      <4>2. CASE f = e.fn
        <5>1. Count(Append(q, e), Refused(c)) = Count(q, Refused(c)) + (IF e \in Refused(c) THEN 1 ELSE 0)
          BY <1>5, <1>7, CountAppend
        <5> QED
          BY <1>8, <4>2, <5>1 DEF q
      <4>3. CASE f # e.fn
        <5>1. pMsgPipe[f] \in Seq(Answers)
          BY <4>1 DEF ProxyTypes
        <5>2. Count(pMsgPipe[f], Refused(c)) \in Nat
          BY <5>1, MarksFinite
        <5> QED
          BY <1>8, <4>1, <4>3, <5>2
      <4> QED
        BY <4>2, <4>3
    <3>4. x("FillThisBuffer") \in Nat /\ x("EmptyThisBuffer") \in Nat
      OBVIOUS
    <3> HIDE DEF x
    <3>5. Tokens(c)' = Count(toRemote, Given(c)) + Count(toHost', Refused(c)) + Count(toHost', Returned(c)) + Cardinality(Held(c))
                         + Count(pMsgPipe'["FillThisBuffer"], Refused(c)) + Count(pMsgPipe'["EmptyThisBuffer"], Refused(c))
                         + (IF c \in client THEN 1 ELSE 0)
      BY <1>1 DEF Tokens, Held
    <3>6. /\ (IF c \in client THEN 1 ELSE 0) \in Nat
          /\ Count(pMsgPipe'["FillThisBuffer"], Refused(c)) = Count(pMsgPipe["FillThisBuffer"], Refused(c)) + x("FillThisBuffer")
          /\ Count(pMsgPipe'["EmptyThisBuffer"], Refused(c)) = Count(pMsgPipe["EmptyThisBuffer"], Refused(c)) + x("EmptyThisBuffer")
      BY <3>3 DEF Gives
    <3> QED
      BY <3>1, <3>2, <3>4, <3>5, <3>6, TokenNumbers DEF Tokens
  <2>2. \/ op'[Opener] # "free"
        \/ op'[Opener] = op[Opener] /\ opBuf'[Opener] = opBuf[Opener] /\ opBuf[Opener] \in RemoteHdrs
    BY <1>1 DEF Named, ProxyConstants
  <2> QED
    BY <1>1, <1>10, <1>12, <2>1, <2>2, TokensKept
<1>17. Proxy!CallbackFindsHeader'
  BY <1>1 DEF Proxy!CallbackFindsHeader
<1> QED
  BY <1>10, <1>11, <1>12, <1>13, <1>15, <1>16, <1>17

LEMMA ProxyCallbackStep ==
  ASSUME ProxyConstants, ProxyInv,
         Proxy!EventHandler \/ Proxy!FillBufferDone \/ Proxy!EmptyBufferDone
  PROVE  ProxyInv'
<1> DEFINE e == toHost[1]
           H == Answers \cup Returns \cup Notices
<1> USE DEF ProxyInv
<1>1. /\ UNCHANGED <<proxy, cbThread, remote, pMsgPipe, toRemote, tBufList, nTotalBuffers, nAllocatedBuffers, remoteBufs,
                     remoteHolds, op, opBuf, rpcs, stray>>
      /\ toHost # <<>> /\ toHost' = Tail(toHost)
  BY DEF Proxy!EventHandler, Proxy!FillBufferDone, Proxy!EmptyBufferDone, Proxy!BufferDone, Proxy!slotVars, Proxy!remoteVars
<1>2. toHost \in Seq(H)
  BY DEF ProxyTypes
<1>3. Head(toHost) = e /\ e \in H
  BY <1>1, <1>2
<1>4. \/ e.fn = "EventHandler" /\ UNCHANGED <<client, events>>
      \/ /\ e.fn \in {"FillBufferDone", "EmptyBufferDone"}
         /\ \/ Proxy!Known(e.hdr) /\ client' = client \cup {e.hdr} /\ events' = events
            \/ ~Proxy!Known(e.hdr) /\ client' = client /\ events' = events \cup {"unknown header"}
  BY <1>3 DEF Proxy!EventHandler, Proxy!FillBufferDone, Proxy!EmptyBufferDone, Proxy!BufferDone
<1>5. e.fn \notin Fns /\ (e.fn \in {"FillBufferDone", "EmptyBufferDone"} => e \in Returns /\ e.hdr \in RemoteHdrs)
  <2>1. /\ \A x \in Returns : x.hdr \in RemoteHdrs
        /\ \A x \in Notices : x.fn = "EventHandler"
        /\ \A x \in Answers : x.fn \in Fns
    BY DEF Returns, Notices, Answers
  <2>2. e.fn \notin Fns
    BY <1>4, ProxyNames
  <2> QED
    BY <1>3, <2>1, <2>2
<1> HIDE DEF e, H
<1>6. /\ toHost' \in Seq(H)
      /\ \A P : /\ Count(toHost', P) \in Nat
                /\ Count(toHost, P) = Count(toHost', P) + (IF e \in P THEN 1 ELSE 0)
      /\ \A f : Good(toHost, f) = Good(toHost', f) \cup (IF e.fn = f /\ e.ok THEN {e.hdr} ELSE {})
  BY <1>1, <1>2, Dropped, CountTail, GoodTail DEF e
<1>7. ASSUME client' # client
      PROVE "handle" \in events /\ op[Opener] # "close" /\ e.fn \in {"FillBufferDone", "EmptyBufferDone"} /\ Proxy!Known(e.hdr)
            /\ client' = client \cup {e.hdr}
  <2>1. e.fn \in {"FillBufferDone", "EmptyBufferDone"} /\ Proxy!Known(e.hdr) /\ client' = client \cup {e.hdr}
    BY <1>4, <1>7
  <2>2. PICK s \in 1 .. nTotalBuffers : tBufList[s] = e.hdr
    BY <2>1 DEF Proxy!Known
  <2>3. s \in Proxy!Used
    BY <1>5, <2>1, <2>2, SlotRange, ProxyNames DEF Proxy!Used, NoHeader
  <2> QED
    BY <2>1, <2>2, <2>3 DEF Roles
<1>8. /\ "handle" \in events' <=> "handle" \in events
      /\ "crossed" \in events' <=> "crossed" \in events
  BY <1>4
<1>9. CallsLeft' /\ Roles' /\ InUse' = InUse /\ Slotted' = Slotted /\ Proxy!Used' = Proxy!Used
  <2>1. client' = client \/ ("handle" \in events /\ op[Opener] # "close")
    BY <1>7
  <2> QED
    BY <1>1, <1>8, <2>1, CallersKept
<1>10. ProxyTypes'
  <2>1. client' \subseteq RemoteHdrs
    BY <1>4, <1>5 DEF ProxyTypes
  <2> QED
    BY <1>1, <1>6, <2>1 DEF ProxyTypes, H
<1>11. Named'
  BY <1>1 DEF Named
<1>12. Conserved'
  <2> SUFFICES ASSUME NEW f \in Fns
      PROVE Count(toRemote', PacketsOf(f)) + Count(toHost', AnswersOf(f)) + Len(pMsgPipe'[f]) = Cardinality(Waiters(f)')
    BY DEF Conserved
  <2>1. e \notin AnswersOf(f)
    BY <1>5 DEF AnswersOf
  <2>2. Count(toHost', AnswersOf(f)) = Count(toHost, AnswersOf(f))
    <3>1. /\ Count(toHost', AnswersOf(f)) \in Nat
          /\ Count(toHost, AnswersOf(f)) = Count(toHost', AnswersOf(f)) + 0
      BY <1>6, <2>1
    <3> QED
      BY <3>1
  <2> QED
    BY <1>1, <2>2, InFlight DEF Waiters
<1>13. ASSUME NEW f \in Fns PROVE Agreed(f)' = Agreed(f)
  <2>1. e.fn # f
    BY <1>5
  <2>2. Good(toHost, f) = Good(toHost', f) \cup (IF e.fn = f /\ e.ok THEN {e.hdr} ELSE {})
    BY <1>6
  <2>3. Good(toHost', f) = Good(toHost, f)
    BY <2>1, <2>2
  <2> QED
    BY <1>1, <2>3 DEF Agreed
<1>14. Slots'
  <2>1. Agreed("UseBuffer")' = Agreed("UseBuffer") /\ Agreed("FreeBuffer")' = Agreed("FreeBuffer")
    BY <1>13, ProxyNames
  <2> QED
    BY <1>1, <1>9, <2>1, SlotsKept
<1>15. ASSUME NEW c \in RemoteHdrs
       PROVE /\ Tokens(c)' <= Tokens(c)
             /\ e \in Returned(c) => Tokens(c) > 0
  <2>1. /\ e \in Returned(c) <=> e.fn \in {"FillBufferDone", "EmptyBufferDone"} /\ e.hdr = c
        /\ e \notin Refused(c)
    <3>1. e \in Returned(c) <=> e.fn \in {"FillBufferDone", "EmptyBufferDone"} /\ e.hdr = c
      BY <1>5 DEF Returned, Returns
    <3>2. e \notin Refused(c)
      BY <1>5 DEF Refused, Answers
    <3> QED
      BY <3>1, <3>2
  <2> DEFINE g == IF e \in Returned(c) THEN 1 ELSE 0
  <2>2. Count(toHost', Returned(c)) \in Nat /\ Count(toHost, Returned(c)) = Count(toHost', Returned(c)) + g
    BY <1>6
  <2>3. Count(toHost', Refused(c)) = Count(toHost, Refused(c))
    <3>1. Count(toHost', Refused(c)) \in Nat /\ Count(toHost, Refused(c)) = Count(toHost', Refused(c)) + 0
      BY <1>6, <2>1
    <3> QED
      BY <3>1
  <2> DEFINE h == IF c \in client THEN 1 ELSE 0
             k == IF c \in client' THEN 1 ELSE 0
  <2>4. k <= h + g
    <3>1. c \in client' => c \in client \/ e \in Returned(c)
      BY <1>7, <2>1
    <3> QED
      BY <3>1
  <2>5. g \in 0 .. 1 /\ h \in 0 .. 1 /\ k \in 0 .. 1 /\ (e \in Returned(c) => g = 1)
    OBVIOUS
  <2>6. Tokens(c) = Count(toRemote, Given(c)) + Count(toHost, Refused(c)) + Count(toHost, Returned(c)) + Cardinality(Held(c))
                      + Count(pMsgPipe["FillThisBuffer"], Refused(c)) + Count(pMsgPipe["EmptyThisBuffer"], Refused(c)) + h
        /\ Tokens(c)' = Count(toRemote, Given(c)) + Count(toHost', Refused(c)) + Count(toHost', Returned(c)) + Cardinality(Held(c))
                      + Count(pMsgPipe["FillThisBuffer"], Refused(c)) + Count(pMsgPipe["EmptyThisBuffer"], Refused(c)) + k
    BY <1>1 DEF Tokens, Held
  <2> HIDE DEF g, h, k
  <2> QED
    BY <2>2, <2>3, <2>4, <2>5, <2>6, TokenNumbers
<1>16. OneToken'
  <2>1. \/ op'[Opener] # "free"
        \/ op'[Opener] = op[Opener] /\ opBuf'[Opener] = opBuf[Opener] /\ opBuf[Opener] \in RemoteHdrs
    BY <1>1 DEF Named, ProxyConstants
  <2> QED
    BY <1>8, <1>9, <1>10, <1>15, <2>1, TokensKept
<1>17. Proxy!CallbackFindsHeader'
  <2> SUFFICES ASSUME "unknown header" \in events', "unknown header" \notin events, InUse, "crossed" \notin events
               PROVE FALSE
    BY <1>1, <1>8 DEF Proxy!CallbackFindsHeader, InUse
  <2>1. e.fn \in {"FillBufferDone", "EmptyBufferDone"} /\ ~Proxy!Known(e.hdr)
    BY <1>4
  <2>2. e.hdr \in RemoteHdrs /\ e \in Returned(e.hdr)
    BY <1>5, <2>1 DEF Returned
  <2>3. e.hdr \in Slotted
    BY <1>15, <2>2 DEF OneToken
  <2>4. PICK s \in Proxy!Used : tBufList[s] = e.hdr
    BY <2>3 DEF Slotted
  <2>5. s \in 1 .. nTotalBuffers
    BY DEF Slots
  <2> QED
    BY <2>1, <2>4, <2>5 DEF Proxy!Known
<1> QED
  BY <1>9, <1>10, <1>11, <1>12, <1>14, <1>16, <1>17

(* The next of the remote calls of UseBuffer().                               *)
LEMMA ProxyContinueStep ==
  ASSUME ProxyConstants, ProxyInv, NEW t \in ProxyThreads, Proxy!Continue(t)
  PROVE  ProxyInv'
<1> USE DEF ProxyInv
<1> DEFINE f == rpcs[t][1]
           c == rpcs[t]
           p == [fn |-> c[2], by |-> t, hdr |-> opBuf[t]]
<1>1. /\ Proxy!HasAnswer(t) /\ Proxy!TakeAnswer(t) /\ Len(c) > 1 /\ rpcs' = [rpcs EXCEPT ![t] = Tail(c)]
      /\ toRemote' = Append(toRemote, p)
      /\ UNCHANGED <<proxy, cbThread, remote, toHost, tBufList, nTotalBuffers, nAllocatedBuffers, remoteBufs, remoteHolds,
                     op, opBuf, client, stray, events>>
  BY DEF Proxy!Continue, Proxy!slotVars, Proxy!remoteVars, Proxy!Packet, ProxyTypes
<1>2. /\ c \in Seq(Fns) /\ c # <<>> /\ f \in Fns
      /\ pMsgPipe' \in [Fns -> Seq(Answers)]
      /\ \A g \in Fns \ {f} : pMsgPipe'[g] = pMsgPipe[g]
      /\ Len(pMsgPipe[f]) \in Nat \ {0} /\ Len(pMsgPipe'[f]) = Len(pMsgPipe[f]) - 1
      /\ \A g \in Fns : \A i \in 1 .. Len(pMsgPipe'[g]) : pMsgPipe'[g][i].fn = g
  BY <1>1, ProxyTakeStep
<1>3. op[t] \in MakeOps
  <2>1. op[t] \in Ops
    BY <1>2 DEF ProxyTypes, CallsLeft
  <2>2. op[t] \notin MakeOps => c = Proxy!RemoteCalls[op[t]] /\ Len(Proxy!RemoteCalls[op[t]]) = 1
    BY <2>1, ProxyNames, CallTable DEF CallsLeft
  <2> QED
    BY <1>1, <2>2
<1>4. t = Opener
  BY <1>3 DEF Roles, MakeOps
<1>5. /\ Len(c) \in 2 .. 4 /\ c[Len(c)] = "UseBuffer" /\ \A i \in 1 .. Len(c) - 1 : c[i] = "GetParameter"
  BY <1>1, <1>2, <1>3 DEF CallsLeft
<1> HIDE DEF c, f, p
<1>6. /\ Tail(c) \in Seq(Fns) /\ Len(Tail(c)) = Len(c) - 1 /\ \A k \in 1 .. Len(c) - 1 : Tail(c)[k] = c[k + 1]
  BY <1>2, Dropped
<1>7. c[2] \in Fns /\ c[2] \in {"GetParameter", "UseBuffer"} /\ c[1] = "GetParameter" /\ f = "GetParameter"
  <2> DEFINE n == Len(c)
  <2>0. n \in 2 .. 4 /\ c[n] = "UseBuffer" /\ \A i \in 1 .. n - 1 : c[i] = "GetParameter"
    BY <1>5
  <2> HIDE DEF n
  <2>1. 2 = n \/ 2 \in 1 .. n - 1
    BY <2>0
  <2>2. 1 \in 1 .. n - 1
    BY <2>0
  <2>3. c[1] = f
    BY DEF c, f
  <2> QED
    BY <2>0, <2>1, <2>2, <2>3, ProxyNames
<1>8. rpcs'[t] = Tail(c) /\ \A u \in ProxyThreads \ {t} : rpcs'[u] = rpcs[u]
  BY <1>1 DEF ProxyTypes
<1>9. p \in Packets /\ p.fn = c[2] /\ toRemote \in Seq(Packets) /\ toRemote' \in Seq(Packets)
      /\ Len(toRemote) \in Nat /\ Len(toRemote') = Len(toRemote) + 1 /\ toRemote'[Len(toRemote) + 1] = p
      /\ \A i \in 1 .. Len(toRemote) : toRemote'[i] = toRemote[i]
  <2>1. p \in Packets /\ p.fn = c[2]
    BY <1>7 DEF p, Packets, ProxyTypes
  <2>2. toRemote \in Seq(Packets)
    BY DEF ProxyTypes
  <2> QED
    BY <1>1, <2>1, <2>2, Appended
<1>10. ProxyTypes'
  <2>1. rpcs' \in [ProxyThreads -> Seq(Fns)]
    BY <1>1, <1>6 DEF ProxyTypes
  <2> QED
    BY <1>1, <1>2, <1>9, <2>1 DEF ProxyTypes
<1>11. p.fn \notin Gives \cup {"FreeBuffer"}
  BY <1>7, <1>9 DEF Gives
<1>12. \A i \in 1 .. Len(toRemote') : i \in 1 .. Len(toRemote) \/ toRemote'[i] = p
  BY <1>9
<1>13. Named'
  <2>1. \A i \in 1 .. Len(toRemote') : toRemote'[i].fn \in Gives \cup {"FreeBuffer"} => toRemote'[i].hdr \in RemoteHdrs
    BY <1>9, <1>11, <1>12 DEF Named
  <2> QED
    BY <1>1, <1>2, <2>1 DEF Named
<1>14. CallsLeft'
  <2> SUFFICES ASSUME NEW u \in ProxyThreads
      PROVE  /\ op'[u] = "idle" <=> rpcs'[u] = <<>>
             /\ op'[u] \in MakeOps =>
                  /\ Len(rpcs'[u]) \in 1 .. 4 /\ rpcs'[u][Len(rpcs'[u])] = "UseBuffer"
                  /\ \A i \in 1 .. Len(rpcs'[u]) - 1 : rpcs'[u][i] = "GetParameter"
             /\ op'[u] \notin MakeOps \cup {"idle"} => rpcs'[u] = Proxy!RemoteCalls[op'[u]]
    BY DEF CallsLeft
  <2>1. CASE u # t
    BY <1>1, <1>8, <2>1 DEF CallsLeft
  <2>2. CASE u = t
    <3> DEFINE d == Tail(c)
               n == Len(c)
    <3>1. n \in 2 .. 4 /\ Len(d) = n - 1 /\ (n - 1) + 1 = n /\ n - 1 \in 1 .. n - 1
          /\ \A k \in 1 .. n - 1 : d[k] = c[k + 1]
      BY <1>5, <1>6
    <3>2. d[n - 1] = "UseBuffer"
      <4>1. d[n - 1] = c[(n - 1) + 1]
        BY <3>1
      <4> QED
        BY <1>5, <3>1, <4>1
    <3>3. \A i \in 1 .. (n - 1) - 1 : d[i] = "GetParameter"
      <4>1. \A i \in 1 .. (n - 1) - 1 : i \in 1 .. n - 1 /\ i + 1 \in 1 .. n - 1
        BY <3>1
      <4> QED
        BY <1>5, <3>1, <4>1
    <3>4. rpcs'[u] = d /\ op'[u] \in MakeOps /\ op'[u] # "idle" /\ d # <<>>
      <4>1. rpcs'[u] = d /\ op'[u] \in MakeOps
        BY <1>1, <1>3, <1>8, <2>2
      <4>2. d # <<>>
        <5>1. n - 1 # 0 /\ Len(<<>>) = 0
          BY <3>1
        <5> HIDE DEF d, n
        <5> QED
          BY <3>1, <5>1
      <4> HIDE DEF d, n
      <4> QED
        BY <4>1, <4>2 DEF MakeOps
    <3> HIDE DEF d, n
    <3>5. Len(d) \in 1 .. 4
      BY <3>1
    <3> QED
      BY <3>1, <3>2, <3>3, <3>4, <3>5
  <2> QED
    BY <2>1, <2>2
<1>15. CallsLeft' /\ Roles' /\ InUse' = InUse /\ Slotted' = Slotted /\ Proxy!Used' = Proxy!Used
  <2>1. Proxy!Used' = Proxy!Used
    BY <1>1 DEF Proxy!Used
  <2>2. InUse' = InUse /\ Slotted' = Slotted
    BY <1>1, <2>1 DEF InUse, Slotted
  <2>3. Roles'
    BY <1>1, <2>1 DEF Roles
  <2> QED
    BY <1>14, <2>1, <2>2, <2>3
<1>16. Conserved'
  <2> SUFFICES ASSUME NEW g \in Fns
      PROVE Count(toRemote', PacketsOf(g)) + Count(toHost', AnswersOf(g)) + Len(pMsgPipe'[g]) = Cardinality(Waiters(g)')
    BY DEF Conserved
  <2> DEFINE x == IF f = g THEN 1 ELSE 0
             y == IF c[2] = g THEN 1 ELSE 0
  <2>1. Cardinality(Waiters(g)) \in Nat /\ Cardinality(Waiters(g)') \in Nat /\ Cardinality(Waiters(g)') + x = Cardinality(Waiters(g)) + y
    <3>1. Tail(c) # <<>> /\ Tail(c)[1] = c[2]
      BY <1>5, <1>6
    <3>2. rpcs' = [rpcs EXCEPT ![t] = Tail(c)] /\ Tail(c) \in Seq(Fns)
      BY <1>1, <1>6
    <3>3. /\ Cardinality(Waiters(g)) \in Nat /\ Cardinality(Waiters(g)') \in Nat
          /\ Cardinality(Waiters(g)') + (IF rpcs[t] # <<>> /\ rpcs[t][1] = g THEN 1 ELSE 0)
               = Cardinality(Waiters(g)) + (IF Tail(c) # <<>> /\ Tail(c)[1] = g THEN 1 ELSE 0)
      BY <3>2, RpcsChange
    <3>4. (rpcs[t] # <<>> /\ rpcs[t][1] = g) <=> f = g
      BY <1>2 DEF c, f
    <3> QED
      BY <3>1, <3>3, <3>4
  <2>2. Count(toRemote', PacketsOf(g)) = Count(toRemote, PacketsOf(g)) + y
    <3>1. p \in PacketsOf(g) <=> c[2] = g
      BY <1>9 DEF PacketsOf
    <3>2. Count(toRemote', PacketsOf(g)) = Count(toRemote, PacketsOf(g)) + (IF p \in PacketsOf(g) THEN 1 ELSE 0)
      BY <1>1, <1>9, CountAppend
    <3> QED
      BY <3>1, <3>2
  <2>3. Len(pMsgPipe'[g]) \in Nat /\ Len(pMsgPipe'[g]) + x = Len(pMsgPipe[g])
    <3>1. CASE g = f
      <4>1. x = 1 /\ Len(pMsgPipe[g]) \in Nat \ {0} /\ Len(pMsgPipe'[g]) = Len(pMsgPipe[g]) - 1
        BY <1>2, <3>1
      <4> HIDE DEF x
      <4> QED
        BY <4>1
    <3>2. CASE g # f
      <4>1. Len(pMsgPipe[g]) \in Nat /\ pMsgPipe'[g] = pMsgPipe[g] /\ x = 0
        BY <1>2, <3>2, InFlight
      <4> HIDE DEF x
      <4> QED
        BY <4>1
    <3> QED
      BY <3>1, <3>2
  <2>4. x \in Nat /\ y \in Nat
    OBVIOUS
  <2> HIDE DEF x, y
  <2>5. Count(toHost', AnswersOf(g)) = Count(toHost, AnswersOf(g))
    BY <1>1
  <2>6. /\ Count(toRemote, PacketsOf(g)) \in Nat /\ Count(toHost, AnswersOf(g)) \in Nat /\ Len(pMsgPipe[g]) \in Nat
        /\ Count(toRemote, PacketsOf(g)) + Count(toHost, AnswersOf(g)) + Len(pMsgPipe[g]) = Cardinality(Waiters(g))
    BY InFlight
  <2>7. Count(toRemote', PacketsOf(g)) + Count(toHost', AnswersOf(g)) + Len(pMsgPipe'[g]) + x = Cardinality(Waiters(g)) + y
    BY <2>2, <2>3, <2>4, <2>5, <2>6
  <2>8. Count(toRemote', PacketsOf(g)) \in Nat /\ Count(toHost', AnswersOf(g)) \in Nat
    BY <2>2, <2>4, <2>5, <2>6
  <2> DEFINE m == Count(toRemote', PacketsOf(g)) + Count(toHost', AnswersOf(g)) + Len(pMsgPipe'[g])
             w == Cardinality(Waiters(g)')
  <2>9. m \in Nat /\ m + x = Cardinality(Waiters(g)) + y
    BY <2>3, <2>7, <2>8
  <2>10. w \in Nat /\ w + x = Cardinality(Waiters(g)) + y
    BY <2>1
  <2> HIDE DEF m, w
  <2>11. m = w
    BY <2>4, <2>6, <2>9, <2>10
  <2> QED
    BY <2>11 DEF m, w
<1>17. \A g \in Fns \ {"GetParameter"} : pMsgPipe'[g] = pMsgPipe[g]
  BY <1>2, <1>7
<1>18. Slots'
  <2>1. Agreed("UseBuffer")' = Agreed("UseBuffer") /\ Agreed("FreeBuffer")' = Agreed("FreeBuffer")
    BY <1>1, <1>17, ProxyNames DEF Agreed
  <2>2. op'[Opener] = op[Opener] /\ opBuf'[Opener] = opBuf[Opener]
    BY <1>1
  <2>3. \A i \in 1 .. Len(toRemote') : toRemote'[i].fn = "FreeBuffer" => \E j \in 1 .. Len(toRemote) : toRemote[j] = toRemote'[i]
    BY <1>9, <1>11, <1>12
  <2> QED
    BY <1>1, <1>15, <2>1, <2>2, <2>3, SlotsKept
<1>19. OneToken'
  <2>1. ASSUME NEW b \in RemoteHdrs PROVE Tokens(b)' <= Tokens(b)
    <3>1. p \notin Given(b)
      BY <1>11 DEF Given
    <3>2. Count(toRemote', Given(b)) = Count(toRemote, Given(b))
      <4>1. Count(toRemote', Given(b)) = Count(toRemote, Given(b)) + 0
        BY <1>1, <1>9, <3>1, CountAppend
      <4> QED
        BY <4>1, TokenNumbers
    <3>3. pMsgPipe'["FillThisBuffer"] = pMsgPipe["FillThisBuffer"] /\ pMsgPipe'["EmptyThisBuffer"] = pMsgPipe["EmptyThisBuffer"]
      BY <1>17, ProxyNames
    <3>4. Tokens(b)' = Tokens(b) /\ Tokens(b) \in Nat
      BY <1>1, <3>2, <3>3, TokenNumbers DEF Tokens, Held
    <3> QED
      BY <3>4
  <2>2. \/ op'[Opener] # "free"
        \/ op'[Opener] = op[Opener] /\ opBuf'[Opener] = opBuf[Opener] /\ opBuf[Opener] \in RemoteHdrs
    BY <1>1 DEF Named, ProxyConstants
  <2> QED
    BY <1>1, <1>10, <1>15, <2>1, <2>2, TokensKept
<1>20. Proxy!CallbackFindsHeader'
  BY <1>1 DEF Proxy!CallbackFindsHeader
<1> QED
  BY <1>10, <1>13, <1>15, <1>16, <1>18, <1>19, <1>20

(* A call ends: its answer leaves the pipe.                                   *)
LEMMA ProxyEndsStep ==
  ASSUME ProxyConstants, ProxyInv, NEW t \in ProxyThreads, NEW o \in Ops, Proxy!Ends(t, o), NEW g, g = Proxy!Got(t),
         NEW f, f = rpcs[t][1]
  PROVE  /\ Proxy!HasAnswer(t) /\ Proxy!TakeAnswer(t) /\ Proxy!Return(t) /\ op[t] = o /\ (g.ok => Len(rpcs[t]) = 1)
         /\ f \in Fns /\ g \in Answers /\ g.fn = f /\ rpcs[t] # <<>> /\ rpcs[t] \in Seq(Fns)
         /\ Len(pMsgPipe[f]) \in Nat \ {0} /\ Len(pMsgPipe'[f]) = Len(pMsgPipe[f]) - 1
         /\ pMsgPipe' \in [Fns -> Seq(Answers)]
         /\ \A h \in Fns \ {f} : pMsgPipe'[h] = pMsgPipe[h]
         /\ \A P : /\ Count(pMsgPipe'[f], P) \in Nat
                   /\ Count(pMsgPipe[f], P) = Count(pMsgPipe'[f], P) + (IF g \in P THEN 1 ELSE 0)
         /\ o \notin MakeOps => f = Proxy!RemoteCalls[o][1]
         /\ o \in MakeOps => f \in {"GetParameter", "UseBuffer"} /\ (g.ok => f = "UseBuffer")
<1> USE DEF ProxyInv
<1> DEFINE q == pMsgPipe[f]
<1>1. Proxy!HasAnswer(t) /\ Proxy!TakeAnswer(t) /\ Proxy!Return(t) /\ op[t] = o /\ (g.ok => Len(rpcs[t]) = 1)
  <2>1. Proxy!HasAnswer(t) /\ Proxy!TakeAnswer(t) /\ Proxy!Return(t) /\ op[t] = o
    BY DEF Proxy!Ends
  <2>2. ~g.ok \/ Len(rpcs[t]) = 1
    BY DEF Proxy!Ends
  <2> QED
    BY <2>1, <2>2
<1>2. /\ rpcs[t] \in Seq(Fns) /\ rpcs[t] # <<>> /\ f \in Fns
      /\ g \in Answers /\ g.fn = f /\ g = q[1] /\ q \in Seq(Answers) /\ q # <<>>
      /\ pMsgPipe' \in [Fns -> Seq(Answers)] /\ pMsgPipe'[f] = Tail(q)
      /\ \A h \in Fns \ {f} : pMsgPipe'[h] = pMsgPipe[h]
      /\ Len(q) \in Nat \ {0} /\ Len(pMsgPipe'[f]) = Len(q) - 1
  BY <1>1, ProxyTakeStep
<1> HIDE DEF q
<1>3. \A P : /\ Count(pMsgPipe'[f], P) \in Nat
             /\ Count(q, P) = Count(pMsgPipe'[f], P) + (IF g \in P THEN 1 ELSE 0)
  BY <1>2, CountTail
<1>5. o # "idle"
  BY ProxyNames
<1>6. o \notin MakeOps => f = Proxy!RemoteCalls[o][1]
  BY <1>1, <1>5 DEF CallsLeft
<1>7. o \in MakeOps => f \in {"GetParameter", "UseBuffer"} /\ (g.ok => f = "UseBuffer")
  <2> SUFFICES ASSUME o \in MakeOps PROVE f \in {"GetParameter", "UseBuffer"} /\ (g.ok => f = "UseBuffer")
    OBVIOUS
  <2> DEFINE n == Len(rpcs[t])
  <2>1. n \in 1 .. 4 /\ rpcs[t][n] = "UseBuffer" /\ \A i \in 1 .. n - 1 : rpcs[t][i] = "GetParameter"
    BY <1>1 DEF CallsLeft
  <2>2. g.ok => n = 1
    BY <1>1
  <2> HIDE DEF n
  <2>3. n = 1 \/ 1 \in 1 .. n - 1
    BY <2>1
  <2> QED
    BY <2>1, <2>2, <2>3
<1> QED
  BY <1>1, <1>2, <1>3, <1>6, <1>7 DEF q

(* The buffers its pipe has brought.                                          *)
LEMMA EndsGood ==
  ASSUME ProxyConstants, ProxyInv, NEW t \in ProxyThreads, Proxy!HasAnswer(t), Proxy!TakeAnswer(t),
         NEW f, f = rpcs[t][1]
  PROVE  /\ Proxy!Got(t).ok => Good(pMsgPipe[f], f) = Good(pMsgPipe'[f], f) \cup {Proxy!Got(t).hdr}
         /\ ~Proxy!Got(t).ok => Good(pMsgPipe[f], f) = Good(pMsgPipe'[f], f)
<1> DEFINE q == pMsgPipe[f]
           g == Proxy!Got(t)
<1>1. /\ f \in Fns /\ g \in Answers /\ g.fn = f /\ g = q[1] /\ q \in Seq(Answers) /\ q # <<>>
      /\ pMsgPipe'[f] = Tail(q)
  BY ProxyTakeStep DEF ProxyInv
<1> HIDE DEF q, g
<1>2. Good(q, f) = Good(Tail(q), f) \cup (IF q[1].fn = f /\ q[1].ok THEN {q[1].hdr} ELSE {})
  BY <1>1, GoodTail
<1>3. q[1].fn = f /\ q[1].ok = g.ok /\ q[1].hdr = g.hdr
  BY <1>1
<1>4. g.ok => Good(q, f) = Good(pMsgPipe'[f], f) \cup {g.hdr}
  BY <1>1, <1>2, <1>3
<1>5. ~g.ok => Good(q, f) = Good(pMsgPipe'[f], f)
  BY <1>1, <1>2, <1>3
<1> QED
  BY <1>4, <1>5 DEF q, g

(* The tokens when a call ends: its answer is one less, what the client gets  *)
(* back one more.                                                             *)
LEMMA EndTokens ==
  ASSUME ProxyConstants, ProxyInv, NEW f \in Fns, NEW g \in Answers, g.fn = f, NEW b,
         UNCHANGED <<toRemote, toHost, remoteHolds>>,
         \A h \in Fns \ {f} : pMsgPipe'[h] = pMsgPipe[h],
         \A P : /\ Count(pMsgPipe'[f], P) \in Nat
                /\ Count(pMsgPipe[f], P) = Count(pMsgPipe'[f], P) + (IF g \in P THEN 1 ELSE 0)
  PROVE  /\ Tokens(b) \in Nat /\ Tokens(b)' \in Nat
         /\ Tokens(b)' + (IF g \in Refused(b) THEN 1 ELSE 0) + (IF b \in client THEN 1 ELSE 0)
              = Tokens(b) + (IF b \in client' THEN 1 ELSE 0)
<1> USE DEF ProxyInv
<1> DEFINE x == IF g \in Refused(b) THEN 1 ELSE 0
           xf == IF g \in Refused(b) /\ f = "FillThisBuffer" THEN 1 ELSE 0
           xe == IF g \in Refused(b) /\ f = "EmptyThisBuffer" THEN 1 ELSE 0
           k == IF b \in client THEN 1 ELSE 0
           l == IF b \in client' THEN 1 ELSE 0
           F == Count(pMsgPipe["FillThisBuffer"], Refused(b))
           E == Count(pMsgPipe["EmptyThisBuffer"], Refused(b))
           F1 == Count(pMsgPipe'["FillThisBuffer"], Refused(b))
           E1 == Count(pMsgPipe'["EmptyThisBuffer"], Refused(b))
           R == Count(toRemote, Given(b)) + Count(toHost, Refused(b)) + Count(toHost, Returned(b)) + Cardinality(Held(b))
<1>1. x = xf + xe
  <2>1. g \in Refused(b) => f \in {"FillThisBuffer", "EmptyThisBuffer"}
    BY DEF Refused, Gives
  <2> QED
    BY <2>1
<1>2. {"FillThisBuffer", "EmptyThisBuffer"} \subseteq Fns
  BY ProxyNames
<1>3. F \in Nat /\ E \in Nat /\ R \in Nat
  BY TokenNumbers
<1>4. x \in Nat /\ xf \in Nat /\ xe \in Nat /\ k \in Nat /\ l \in Nat
  OBVIOUS
<1>5. F1 \in Nat /\ F = F1 + xf
  <2>1. CASE f = "FillThisBuffer"
    BY <2>1
  <2>2. CASE f # "FillThisBuffer"
    <3>1. F1 = F /\ xf = 0
      BY <1>2, <2>2
    <3> QED
      BY <1>3, <3>1
  <2> QED
    BY <2>1, <2>2
<1>6. E1 \in Nat /\ E = E1 + xe
  <2>1. CASE f = "EmptyThisBuffer"
    BY <2>1
  <2>2. CASE f # "EmptyThisBuffer"
    <3>1. E1 = E /\ xe = 0
      BY <1>2, <2>2
    <3> QED
      BY <1>3, <3>1
  <2> QED
    BY <2>1, <2>2
<1>7. Tokens(b) = R + F + E + k /\ Tokens(b)' = R + F1 + E1 + l
  BY DEF Tokens, Held
<1> HIDE DEF x, xf, xe, k, l, F, E, F1, E1, R
<1>8. Tokens(b) \in Nat /\ Tokens(b)' \in Nat /\ Tokens(b)' + x + k = Tokens(b) + l
  BY <1>1, <1>3, <1>4, <1>5, <1>6, <1>7
<1> QED
  BY <1>8 DEF x, k, l

(* A call ends that has no say in the slots.                                  *)
LEMMA ProxyPlainEndStep ==
  ASSUME ProxyConstants, ProxyInv, NEW t \in ProxyThreads, NEW o \in PlainCalls \cup GiveOps, Proxy!EndPlain(t, o)
  PROVE  ProxyInv'
<1> USE DEF ProxyInv
<1> DEFINE g == Proxy!Got(t)
           f == rpcs[t][1]
<1>1. /\ Proxy!Ends(t, o)
      /\ UNCHANGED <<proxy, cbThread, remote, toRemote, toHost, tBufList, nTotalBuffers, nAllocatedBuffers, remoteBufs, remoteHolds,
                     stray>>
      /\ events' = IF ~g.ok /\ g.hdr # opBuf[t] THEN events \cup {"crossed"} ELSE events
      /\ client' = IF o \in {"fill", "empty"} /\ ~g.ok THEN client \cup {opBuf[t]} ELSE client
  BY DEF Proxy!EndPlain, Proxy!Crossed, Proxy!slotVars, Proxy!remoteVars
<1>2. o \in Ops /\ o \notin MakeOps \cup {"idle", "open", "close", "free"}
  BY ProxyNames DEF Ops, GiveOps, MakeOps
<1>3. /\ Proxy!HasAnswer(t) /\ Proxy!TakeAnswer(t) /\ Proxy!Return(t) /\ op[t] = o
      /\ f \in Fns /\ g \in Answers /\ g.fn = f
      /\ pMsgPipe' \in [Fns -> Seq(Answers)]
      /\ \A h \in Fns \ {f} : pMsgPipe'[h] = pMsgPipe[h]
      /\ \A P : /\ Count(pMsgPipe'[f], P) \in Nat
                /\ Count(pMsgPipe[f], P) = Count(pMsgPipe'[f], P) + (IF g \in P THEN 1 ELSE 0)
      /\ f = Proxy!RemoteCalls[o][1]
  <2> HIDE DEF f, g
  <2>1. g = Proxy!Got(t) /\ f = rpcs[t][1]
    BY DEF g, f
  <2>2. /\ Proxy!HasAnswer(t) /\ Proxy!TakeAnswer(t) /\ Proxy!Return(t) /\ op[t] = o
        /\ f \in Fns /\ g \in Answers /\ g.fn = f
        /\ pMsgPipe' \in [Fns -> Seq(Answers)]
        /\ \A h \in Fns \ {f} : pMsgPipe'[h] = pMsgPipe[h]
    BY <1>1, <1>2, <2>1, ProxyEndsStep
  <2>3. \A P : /\ Count(pMsgPipe'[f], P) \in Nat
               /\ Count(pMsgPipe[f], P) = Count(pMsgPipe'[f], P) + (IF g \in P THEN 1 ELSE 0)
    BY <1>1, <1>2, <2>1, ProxyEndsStep
  <2>4. f = Proxy!RemoteCalls[o][1]
    BY <1>1, <1>2, <2>1, ProxyEndsStep
  <2> QED
    BY <2>2, <2>3, <2>4
<1>4. /\ f \notin {"UseBuffer", "FreeBuffer"}
      /\ o = "fill" => f = "FillThisBuffer"
      /\ o = "empty" => f = "EmptyThisBuffer"
      /\ o \in PlainCalls => f \notin Gives
  <2>1. o = "fill" => f = "FillThisBuffer"
    BY <1>3, CallTable
  <2>2. o = "empty" => f = "EmptyThisBuffer"
    BY <1>3, CallTable
  <2>3. o \in PlainCalls => f \in PlainCalls
    <3>1. o \in PlainCalls => Proxy!RemoteCalls[o][1] = o
      BY CallTable
    <3> QED
      BY <1>3, <3>1
  <2> HIDE DEF f
  <2>4. PlainCalls \cap {"UseBuffer", "FreeBuffer", "FillThisBuffer", "EmptyThisBuffer"} = {}
    BY ProxyNames
  <2> QED
    BY <2>1, <2>2, <2>3, <2>4 DEF GiveOps, Gives
<1> HIDE DEF f, g
<1>5. /\ op'[t] = "idle" /\ opBuf'[t] = NoHeader
      /\ \A u \in ProxyThreads \ {t} : op'[u] = op[u] /\ opBuf'[u] = opBuf[u]
      /\ op' \in [ProxyThreads -> Ops \cup {"idle"}] /\ opBuf' \in [ProxyThreads -> Hdrs]
      /\ rpcs' \in [ProxyThreads -> Seq(Fns)]
      /\ Named' /\ CallsLeft' /\ Conserved'
  BY <1>1, <1>3, ProxyEndStep
<1>6. o \in GiveOps => opBuf[t] \in RemoteHdrs
  BY <1>3 DEF Named, GiveOps
<1>7. ProxyTypes'
  <2>1. client' \subseteq RemoteHdrs
    BY <1>1, <1>6 DEF ProxyTypes, GiveOps
  <2> QED
    BY <1>1, <1>3, <1>5, <2>1 DEF ProxyTypes
<1>8. "handle" \in events /\ op[Opener] \notin {"open", "close"} /\ Opener \in ProxyThreads
  BY <1>2, <1>3 DEF Roles, ProxyConstants
<1>9. /\ "handle" \in events' <=> "handle" \in events
      /\ "unknown header" \in events' <=> "unknown header" \in events
      /\ "crossed" \in events => "crossed" \in events'
  BY <1>1
<1>10. op'[Opener] \in {op[Opener], "idle"} /\ (op'[Opener] # op[Opener] => t = Opener)
  BY <1>5, <1>8
<1>11. Proxy!Used' = Proxy!Used /\ Slotted' = Slotted /\ InUse' = InUse
  BY <1>1, <1>8, <1>10 DEF Proxy!Used, Slotted, InUse
<1>12. Roles'
  <2>1. \A u \in ProxyThreads \ {Opener} : op'[u] \in {"idle", "fill"}
    BY <1>5 DEF Roles
  <2>2. proxy' # "closed" /\ proxy' # "none"
    BY <1>1, <1>2, <1>3, <1>8 DEF Roles
  <2> QED
    BY <1>1, <1>8, <1>9, <1>10, <2>1, <2>2 DEF Roles, MakeOps
<1>13. Slots'
  <2>1. Agreed("UseBuffer")' = Agreed("UseBuffer") /\ Agreed("FreeBuffer")' = Agreed("FreeBuffer")
    BY <1>1, <1>3, <1>4, ProxyNames DEF Agreed
  <2>2. CASE t = Opener
    <3>1. "FreeBuffer" \in Fns \ {"FillThisBuffer"} /\ ~(rpcs[Opener] # <<>> /\ rpcs[Opener][1] = "FreeBuffer")
      BY <1>4, <2>2, ProxyNames DEF f
    <3>2. Agreed("FreeBuffer") = {} /\ \A i \in 1 .. Len(toRemote) : toRemote[i].fn # "FreeBuffer"
      BY <3>1, NotCalled
    <3>3. op[Opener] # "free" /\ op'[Opener] # "free"
      BY <1>2, <1>3, <1>5, <2>2
    <3> QED
      BY <1>1, <1>11, <2>1, <3>2, <3>3, SlotsKept
  <2>3. CASE t # Opener
    <3>1. op'[Opener] = op[Opener] /\ opBuf'[Opener] = opBuf[Opener]
      BY <1>5, <1>8, <2>3
    <3> QED
      BY <1>1, <1>11, <2>1, <3>1, SlotsKept
  <2> QED
    BY <2>2, <2>3
<1>14. OneToken'
  <2>1. CASE ~g.ok /\ g.hdr # opBuf[t]
    BY <1>1, <2>1 DEF OneToken
  <2>2. CASE g.ok \/ g.hdr = opBuf[t]
    <3>1. ASSUME NEW b \in RemoteHdrs PROVE Tokens(b)' <= Tokens(b)
      <4> DEFINE x == IF g \in Refused(b) THEN 1 ELSE 0
                 k == IF b \in client THEN 1 ELSE 0
                 l == IF b \in client' THEN 1 ELSE 0
      <4>1. Tokens(b) \in Nat /\ Tokens(b)' \in Nat /\ Tokens(b)' + x + k = Tokens(b) + l
        BY <1>1, <1>3, EndTokens
      <4>2. l <= x + k
        <5>1. b \in client' => b \in client \/ (o \in GiveOps /\ ~g.ok /\ b = opBuf[t])
          BY <1>1 DEF GiveOps
        <5>2. o \in GiveOps /\ ~g.ok /\ b = opBuf[t] => g \in Refused(b)
          BY <1>3, <1>4, <2>2 DEF Refused, GiveOps, Gives
        <5> QED
          BY <5>1, <5>2
      <4>3. x \in Nat /\ k \in Nat /\ l \in Nat
        OBVIOUS
      <4> HIDE DEF x, k, l
      <4> QED
        BY <4>1, <4>2, <4>3
    <3>2. \/ op'[Opener] # "free"
          \/ op'[Opener] = op[Opener] /\ opBuf'[Opener] = opBuf[Opener] /\ opBuf[Opener] \in RemoteHdrs
      BY <1>5, <1>8 DEF Named
    <3> QED
      BY <1>7, <1>9, <1>11, <3>1, <3>2, TokensKept
  <2> QED
    BY <2>1, <2>2
<1>15. Proxy!CallbackFindsHeader'
  BY <1>1, <1>8, <1>9 DEF Proxy!CallbackFindsHeader
<1> QED
  BY <1>5, <1>7, <1>12, <1>13, <1>14, <1>15

(* The slot that is taken is a free one, the first after those used or one    *)
(* among them.                                                                *)
LEMMA SlotIsFree ==
  ASSUME ProxyConstants, ProxyTypes, nTotalBuffers < Cardinality(ProxySlots), Proxy!Used \subseteq 1 .. nTotalBuffers
  PROVE  /\ Proxy!Slot \in ProxySlots /\ tBufList[Proxy!Slot] = NoHeader /\ Proxy!Slot \notin Proxy!Used
         /\ \/ Proxy!Slot \in 1 .. nTotalBuffers
            \/ Proxy!Slot = nTotalBuffers + 1 /\ Proxy!Used = 1 .. nTotalBuffers
<1> DEFINE free == {s \in 1 .. nTotalBuffers : tBufList[s] = NoHeader}
           Less == {ss \in Nat \X Nat : ss[1] < ss[2]}
<1>0. nTotalBuffers \in Nat /\ Cardinality(ProxySlots) \in Nat /\ 1 .. nTotalBuffers \subseteq ProxySlots
      /\ ProxySlots = 1 .. Cardinality(ProxySlots)
  BY SlotRange DEF ProxyTypes, ProxyConstants
<1>1. \A s \in ProxySlots : tBufList[s] = NoHeader <=> s \notin Proxy!Used
  BY DEF Proxy!Used, NoHeader
<1>2. Proxy!Slot = IF free # {} THEN CHOOSE s \in free : \A r \in free : s <= r ELSE nTotalBuffers + 1
  BY DEF Proxy!Slot, NoHeader
<1>3. CASE free # {}
  <2>1. free \subseteq Nat
    BY <1>0
  <2>2. IsWellFoundedOn(Less, Nat)
    BY NatLessThanWellFounded DEF OpToRel
  <2> HIDE DEF free
  <2>3. PICK x \in free : \A y \in free : ~(<<y, x>> \in Less)
    <3> HIDE DEF Less
    <3> QED
      BY <1>3, <2>1, <2>2, WFMin
  <2>4. ASSUME NEW y \in free PROVE x <= y
    <3>1. x \in Nat /\ y \in Nat /\ ~(y < x)
      BY <2>1, <2>3
    <3> QED
      BY <3>1
  <2>5. Proxy!Slot \in free
    BY <1>2, <1>3, <2>4
  <2>6. Proxy!Slot \in 1 .. nTotalBuffers /\ tBufList[Proxy!Slot] = NoHeader
    BY <2>5 DEF free
  <2> QED
    BY <1>0, <1>1, <2>6
<1>4. CASE free = {}
  <2>1. Proxy!Slot = nTotalBuffers + 1
    BY <1>2, <1>4
  <2>2. \A s \in 1 .. nTotalBuffers : s \in Proxy!Used
    BY <1>0, <1>1, <1>4
  <2>3. Proxy!Used = 1 .. nTotalBuffers
    BY <2>2
  <2>4. nTotalBuffers + 1 \in ProxySlots /\ nTotalBuffers + 1 \notin 1 .. nTotalBuffers
    BY <1>0
  <2> QED
    BY <1>1, <2>1, <2>3, <2>4
<1> QED
  BY <1>3, <1>4

(* UseBuffer() and AllocateBuffer() end.                                      *)
LEMMA ProxyEndUseStep ==
  ASSUME ProxyConstants, ProxyInv, NEW t \in ProxyThreads, NEW o \in MakeOps, Proxy!EndUse(t, o)
  PROVE  ProxyInv'
<1> USE DEF ProxyInv
<1> DEFINE g == Proxy!Got(t)
           f == rpcs[t][1]
           slot == Proxy!Slot
<1>1. /\ Proxy!Ends(t, o)
      /\ UNCHANGED <<proxy, cbThread, remote, toRemote, toHost, remoteBufs, remoteHolds, events>>
  BY DEF Proxy!EndUse, Proxy!remoteVars
<1>2. \/ /\ g.ok /\ tBufList' = [tBufList EXCEPT ![slot] = g.hdr] /\ nAllocatedBuffers' = nAllocatedBuffers + 1
         /\ nTotalBuffers' = IF nTotalBuffers < nAllocatedBuffers' THEN nAllocatedBuffers' ELSE nTotalBuffers
         /\ client' = client \cup {g.hdr} /\ stray' = stray
      \/ g.ok /\ stray' = stray \cup {g.hdr} /\ UNCHANGED <<tBufList, nTotalBuffers, nAllocatedBuffers, client>>
      \/ ~g.ok /\ UNCHANGED <<tBufList, nTotalBuffers, nAllocatedBuffers, client, stray>>
  BY DEF Proxy!EndUse, Proxy!slotVars, Proxy!Store, Proxy!TotalOf
<1>3. o \in Ops
  BY DEF Ops, MakeOps
<1>4. /\ Proxy!HasAnswer(t) /\ Proxy!TakeAnswer(t) /\ Proxy!Return(t) /\ op[t] = o /\ rpcs[t] # <<>>
      /\ f \in Fns /\ g \in Answers /\ g.fn = f
      /\ Len(pMsgPipe[f]) \in Nat \ {0} /\ Len(pMsgPipe'[f]) = Len(pMsgPipe[f]) - 1
      /\ pMsgPipe' \in [Fns -> Seq(Answers)]
      /\ \A h \in Fns \ {f} : pMsgPipe'[h] = pMsgPipe[h]
      /\ \A P : /\ Count(pMsgPipe'[f], P) \in Nat
                /\ Count(pMsgPipe[f], P) = Count(pMsgPipe'[f], P) + (IF g \in P THEN 1 ELSE 0)
      /\ f \in {"GetParameter", "UseBuffer"} /\ (g.ok => f = "UseBuffer")
  <2> HIDE DEF f, g
  <2>1. g = Proxy!Got(t) /\ f = rpcs[t][1]
    BY DEF g, f
  <2>2. Proxy!HasAnswer(t) /\ Proxy!TakeAnswer(t) /\ Proxy!Return(t) /\ op[t] = o /\ rpcs[t] # <<>>
    BY <1>1, <1>3, <2>1, ProxyEndsStep
  <2>4. /\ f \in Fns /\ g \in Answers /\ g.fn = f
        /\ Len(pMsgPipe[f]) \in Nat \ {0} /\ Len(pMsgPipe'[f]) = Len(pMsgPipe[f]) - 1
        /\ pMsgPipe' \in [Fns -> Seq(Answers)]
        /\ \A h \in Fns \ {f} : pMsgPipe'[h] = pMsgPipe[h]
    BY <1>1, <1>3, <2>1, ProxyEndsStep
  <2>3. \A P : /\ Count(pMsgPipe'[f], P) \in Nat
               /\ Count(pMsgPipe[f], P) = Count(pMsgPipe'[f], P) + (IF g \in P THEN 1 ELSE 0)
    BY <1>1, <1>3, <2>1, ProxyEndsStep
  <2>5. f \in {"GetParameter", "UseBuffer"} /\ (g.ok => f = "UseBuffer")
    BY <1>1, <1>3, <2>1, ProxyEndsStep
  <2> QED
    BY <2>2, <2>3, <2>4, <2>5
<1>14. /\ g.ok => Good(pMsgPipe[f], f) = Good(pMsgPipe'[f], f) \cup {g.hdr}
       /\ ~g.ok => Good(pMsgPipe[f], f) = Good(pMsgPipe'[f], f)
  BY <1>4, EndsGood
<1> HIDE DEF f, g, slot
<1>5. t = Opener /\ Opener \in ProxyThreads
  BY <1>4 DEF Roles, MakeOps, ProxyConstants
<1>6. /\ op'[Opener] = "idle" /\ opBuf'[Opener] = NoHeader
      /\ \A u \in ProxyThreads \ {Opener} : op'[u] = op[u] /\ opBuf'[u] = opBuf[u]
      /\ op' \in [ProxyThreads -> Ops \cup {"idle"}] /\ opBuf' \in [ProxyThreads -> Hdrs]
      /\ rpcs' \in [ProxyThreads -> Seq(Fns)]
      /\ Named' /\ CallsLeft' /\ Conserved'
  BY <1>1, <1>4, <1>5, ProxyEndStep
<1>7. op[Opener] \in MakeOps /\ "idle" \notin MakeOps /\ "free" \notin MakeOps /\ "close" \notin MakeOps /\ "open" \notin MakeOps
  BY <1>4, <1>5 DEF MakeOps
<1>8. InUse /\ InUse' /\ "handle" \in events /\ proxy # "none" /\ proxy # "closed" /\ nTotalBuffers < Cardinality(ProxySlots)
  BY <1>1, <1>5, <1>6, <1>7 DEF InUse, Roles
<1>9. Agreed("FreeBuffer") = {} /\ Agreed("FreeBuffer")' = {} /\ \A i \in 1 .. Len(toRemote) : toRemote[i].fn # "FreeBuffer"
  <2>1. "FreeBuffer" \in Fns \ {"FillThisBuffer"} /\ ~(rpcs[Opener] # <<>> /\ rpcs[Opener][1] = "FreeBuffer")
    BY <1>4, <1>5, ProxyNames DEF f
  <2>2. Agreed("FreeBuffer") = {} /\ \A i \in 1 .. Len(toRemote) : toRemote[i].fn # "FreeBuffer"
    BY <2>1, NotCalled
  <2>3. pMsgPipe'["FreeBuffer"] = pMsgPipe["FreeBuffer"]
    BY <1>4, <2>1
  <2> QED
    BY <1>1, <2>2, <2>3 DEF Agreed
<1>10. ASSUME g.ok
       PROVE Agreed("UseBuffer")' = {} /\ Agreed("UseBuffer") = {g.hdr} /\ g.hdr \in remoteBufs \ Slotted
  <2> DEFINE u == "UseBuffer"
             n == Len(pMsgPipe[u])
             x == Count(toRemote, PacketsOf(u))
             y == Count(toHost, AnswersOf(u))
  <2>1. f = u /\ u \in Fns \ {"FillThisBuffer"} /\ rpcs[Opener] # <<>> /\ rpcs[Opener][1] = u
    BY <1>4, <1>5, <1>10 DEF f
  <2>2. x + y + n = 1
    BY <2>1, OpenersPackets
  <2>3. x \in Nat /\ y \in Nat
    BY <2>1, InFlight
  <2>4. n \in Nat \ {0} /\ Len(pMsgPipe'[u]) = n - 1
    BY <1>4, <2>1
  <2>5. y = 0 /\ n = 1 /\ Len(pMsgPipe'[u]) = 0
    <3> HIDE DEF x, y, n
    <3> QED
      BY <2>2, <2>3, <2>4
  <2>6. Good(toHost, u) = {}
    BY <2>1, <2>5, NoPackets
  <2>7. Good(pMsgPipe'[u], u) = {}
    BY <2>5 DEF Good
  <2>8. Good(pMsgPipe[u], u) = {g.hdr}
    <3>1. Good(pMsgPipe[u], u) = Good(pMsgPipe'[u], u) \cup {g.hdr}
      BY <1>10, <1>14, <2>1
    <3> QED
      BY <2>7, <3>1
  <2>9. Agreed(u)' = {} /\ Agreed(u) = {g.hdr}
    BY <1>1, <2>6, <2>7, <2>8 DEF Agreed
  <2>10. g.hdr \in remoteBufs \ Slotted
    BY <1>8, <2>9 DEF Slots
  <2> QED
    BY <2>9, <2>10
<1>11. /\ \A b \in RemoteHdrs : Tokens(b) \in Nat /\ Tokens(b)' \in Nat
       /\ \A b \in RemoteHdrs : Tokens(b)' + (IF b \in client THEN 1 ELSE 0) = Tokens(b) + (IF b \in client' THEN 1 ELSE 0)
  <2> SUFFICES ASSUME NEW b \in RemoteHdrs
      PROVE /\ Tokens(b) \in Nat /\ Tokens(b)' \in Nat
            /\ Tokens(b)' + (IF b \in client THEN 1 ELSE 0) = Tokens(b) + (IF b \in client' THEN 1 ELSE 0)
    OBVIOUS
  <2>1. g \notin Refused(b)
    BY <1>4 DEF Refused, Gives
  <2>2. /\ Tokens(b) \in Nat /\ Tokens(b)' \in Nat
        /\ Tokens(b)' + (IF g \in Refused(b) THEN 1 ELSE 0) + (IF b \in client THEN 1 ELSE 0)
             = Tokens(b) + (IF b \in client' THEN 1 ELSE 0)
    BY <1>1, <1>4, EndTokens
  <2>3. Tokens(b)' + 0 + (IF b \in client THEN 1 ELSE 0) = Tokens(b) + (IF b \in client' THEN 1 ELSE 0)
    BY <2>1, <2>2
  <2> QED
    BY <2>2, <2>3
<1>12. CASE UNCHANGED <<tBufList, nTotalBuffers, nAllocatedBuffers, client>>
  <2>1. (g.ok /\ stray' = stray \cup {g.hdr}) \/ (~g.ok /\ stray' = stray)
    BY <1>2, <1>12, <1>10, <1>8 DEF ProxyTypes
  <2>2. stray' \subseteq RemoteHdrs
    BY <1>10, <2>1 DEF ProxyTypes
  <2>3. ProxyTypes'
    BY <1>1, <1>4, <1>6, <1>12, <2>2 DEF ProxyTypes
  <2>4. Proxy!Used' = Proxy!Used /\ Slotted' = Slotted
    BY <1>12 DEF Proxy!Used, Slotted
  <2>5. Roles'
    BY <1>1, <1>6, <1>7, <1>8, <1>12, <2>4 DEF Roles
  <2>6. Slots'
    <3>1. \A b \in remoteBufs' : b \in stray' \cup Slotted' \cup Agreed("UseBuffer")'
      <4>1. CASE g.ok /\ stray' = stray \cup {g.hdr}
        BY <1>1, <1>8, <1>10, <2>4, <4>1 DEF Slots
      <4>2. CASE ~g.ok /\ stray' = stray
        <5>1. Agreed("UseBuffer")' = Agreed("UseBuffer")
          BY <1>1, <1>4, <1>14, <4>2, ProxyNames DEF Agreed
        <5> QED
          BY <1>1, <1>8, <2>4, <4>2, <5>1 DEF Slots
      <4> QED
        BY <2>1, <4>1, <4>2
    <3>2. Agreed("UseBuffer")' \subseteq remoteBufs' \ Slotted'
      <4>1. Agreed("UseBuffer")' \subseteq Agreed("UseBuffer")
        <5>1. CASE f = "UseBuffer"
          BY <1>1, <1>4, <1>14, <5>1 DEF Agreed
        <5>2. CASE f # "UseBuffer"
          BY <1>1, <1>4, <5>2, ProxyNames DEF Agreed
        <5> QED
          BY <5>1, <5>2
      <4> QED
        BY <1>1, <1>8, <2>4, <4>1 DEF Slots
    <3>3. \A b \in Slotted' : b \in remoteBufs'
      BY <1>1, <1>7, <1>8, <2>4 DEF Slots
    <3>4. /\ nAllocatedBuffers' = Cardinality(Proxy!Used') /\ Proxy!Used' \subseteq 1 .. nTotalBuffers'
          /\ \A s, r \in Proxy!Used' : tBufList'[s] = tBufList'[r] => s = r
      BY <1>8, <1>12, <2>4 DEF Slots
    <3> QED
      BY <1>1, <1>6, <1>9, <3>1, <3>2, <3>3, <3>4 DEF Slots
  <2>7. OneToken'
    <3>1. \A b \in RemoteHdrs : Tokens(b)' <= Tokens(b)
      BY <1>11, <1>12
    <3>2. op'[Opener] # "free"
      BY <1>6
    <3> QED
      BY <1>1, <1>8, <2>3, <2>4, <3>1, <3>2, TokensKept
  <2>8. Proxy!CallbackFindsHeader'
    BY <1>1, <1>7, <1>8 DEF Proxy!CallbackFindsHeader
  <2> QED
    BY <1>6, <2>3, <2>5, <2>6, <2>7, <2>8
<1>13. CASE /\ g.ok /\ tBufList' = [tBufList EXCEPT ![slot] = g.hdr] /\ nAllocatedBuffers' = nAllocatedBuffers + 1
            /\ nTotalBuffers' = IF nTotalBuffers < nAllocatedBuffers' THEN nAllocatedBuffers' ELSE nTotalBuffers
            /\ client' = client \cup {g.hdr} /\ stray' = stray
  <2>1. Agreed("UseBuffer")' = {} /\ Agreed("UseBuffer") = {g.hdr} /\ g.hdr \in remoteBufs \ Slotted /\ g.hdr \in RemoteHdrs
    BY <1>10, <1>13 DEF ProxyTypes
  <2>2. /\ nAllocatedBuffers = Cardinality(Proxy!Used) /\ Proxy!Used \subseteq 1 .. nTotalBuffers
        /\ \A s, r \in Proxy!Used : tBufList[s] = tBufList[r] => s = r
        /\ \A b \in Slotted : b \in remoteBufs
        /\ \A b \in remoteBufs : b \in stray \cup Slotted \cup {g.hdr}
    BY <1>7, <1>8, <2>1 DEF Slots
  <2>3. /\ slot \in ProxySlots /\ tBufList[slot] = NoHeader /\ slot \notin Proxy!Used
        /\ \/ slot \in 1 .. nTotalBuffers
           \/ slot = nTotalBuffers + 1 /\ Proxy!Used = 1 .. nTotalBuffers
    BY <1>8, <2>2, SlotIsFree DEF slot
  <2>4. tBufList'[slot] = g.hdr /\ \A s \in ProxySlots \ {slot} : tBufList'[s] = tBufList[s]
    BY <1>13, <2>3 DEF ProxyTypes
  <2>5. g.hdr # NoHeader
    BY <2>1, ProxyNames
  <2>6. Proxy!Used' = Proxy!Used \cup {slot}
    BY <2>3, <2>4, <2>5 DEF Proxy!Used, NoHeader
  <2>7. Proxy!Used \subseteq ProxySlots /\ IsFiniteSet(Proxy!Used)
    <3>1. Proxy!Used \subseteq ProxySlots
      BY DEF Proxy!Used
    <3> QED
      BY <3>1, FS_Subset DEF ProxyConstants
  <2>8. Cardinality(Proxy!Used') = Cardinality(Proxy!Used) + 1
    BY <2>3, <2>6, <2>7, FS_AddElement
  <2>9. nTotalBuffers \in Nat /\ nAllocatedBuffers \in Nat /\ nAllocatedBuffers <= nTotalBuffers /\ Cardinality(ProxySlots) \in Nat
    BY SlotRange DEF ProxyTypes
  <2>10. nTotalBuffers' \in Nat /\ nTotalBuffers' >= nTotalBuffers /\ nAllocatedBuffers' <= nTotalBuffers'
         /\ nTotalBuffers' <= Cardinality(ProxySlots) /\ nAllocatedBuffers' \in Nat
    BY <1>8, <1>13, <2>9
  <2>11. Proxy!Used' \subseteq 1 .. nTotalBuffers'
    <3>1. CASE slot \in 1 .. nTotalBuffers
      BY <2>2, <2>6, <2>9, <2>10, <3>1
    <3>2. CASE slot = nTotalBuffers + 1 /\ Proxy!Used = 1 .. nTotalBuffers
      <4>1. Cardinality(1 .. nTotalBuffers) = nTotalBuffers
        BY <2>9, FS_Interval
      <4>2. nAllocatedBuffers' = nTotalBuffers + 1
        BY <1>13, <2>2, <3>2, <4>1
      <4>3. nTotalBuffers' = nTotalBuffers + 1
        BY <1>13, <2>9, <4>2
      <4> QED
        BY <2>6, <2>9, <3>2, <4>3
    <3> QED
      BY <2>3, <3>1, <3>2
  <2>12. Slotted' = Slotted \cup {g.hdr}
    <3>1. \A s \in Proxy!Used : tBufList'[s] = tBufList[s]
      BY <2>3, <2>4, <2>7
    <3> QED
      BY <2>4, <2>6, <3>1 DEF Slotted
  <2>13. \A s, r \in Proxy!Used' : tBufList'[s] = tBufList'[r] => s = r
    <3>1. \A s \in Proxy!Used : tBufList'[s] = tBufList[s] /\ tBufList[s] \in Slotted
      BY <2>3, <2>4, <2>7 DEF Slotted
    <3> QED
      BY <2>1, <2>2, <2>4, <2>6, <3>1
  <2>14. ProxyTypes'
    <3>1. tBufList' \in [ProxySlots -> Hdrs] /\ client' \subseteq RemoteHdrs
      BY <1>13, <2>1 DEF ProxyTypes, Hdrs
    <3>2. nTotalBuffers' \in 0 .. Cardinality(ProxySlots) /\ nAllocatedBuffers' \in 0 .. nTotalBuffers'
      BY <2>9, <2>10
    <3> QED
      BY <1>1, <1>4, <1>6, <1>13, <3>1, <3>2 DEF ProxyTypes
  <2>15. Roles'
    BY <1>1, <1>6, <1>7, <1>8 DEF Roles
  <2>16. Slots'
    <3>1. \A b \in remoteBufs' : b \in stray' \cup Slotted' \cup Agreed("UseBuffer")'
      BY <1>1, <1>13, <2>2, <2>12
    <3>2. \A b \in Slotted' : b \in remoteBufs'
      BY <1>1, <2>1, <2>2, <2>12
    <3>3. nAllocatedBuffers' = Cardinality(Proxy!Used')
      BY <1>13, <2>2, <2>8
    <3> QED
      BY <1>1, <1>6, <1>9, <2>1, <2>11, <2>13, <3>1, <3>2, <3>3 DEF Slots
  <2>17. OneToken'
    <3> SUFFICES ASSUME "crossed" \notin events
                 PROVE  \A b \in RemoteHdrs : Tokens(b)' <= 1 /\ (Tokens(b)' > 0 => b \in Slotted')
      BY <1>1, <1>6 DEF OneToken
    <3> TAKE b \in RemoteHdrs
    <3>1. Tokens(b) <= 1 /\ (Tokens(b) > 0 => b \in Slotted)
      BY <1>8 DEF OneToken
    <3>2. CASE b = g.hdr
      <4>1. Tokens(b) = 0
        BY <1>11, <2>1, <3>1, <3>2
      <4>2. Tokens(b)' + (IF b \in client THEN 1 ELSE 0) = Tokens(b) + 1
        BY <1>11, <1>13, <3>2
      <4>3. Tokens(b)' <= 1
        BY <1>11, <4>1, <4>2
      <4> QED
        BY <2>12, <3>2, <4>3
    <3>3. CASE b # g.hdr
      <4>1. Tokens(b)' = Tokens(b)
        BY <1>11, <1>13, <3>3
      <4> QED
        BY <2>12, <3>1, <4>1
    <3> QED
      BY <3>2, <3>3
  <2>18. Proxy!CallbackFindsHeader'
    BY <1>1, <1>7, <1>8 DEF Proxy!CallbackFindsHeader
  <2> QED
    BY <1>6, <2>14, <2>15, <2>16, <2>17, <2>18
<1> QED
  BY <1>2, <1>12, <1>13

(* FreeBuffer() ends: the slot is cleared.                                    *)
LEMMA ProxyEndFreeStep ==
  ASSUME ProxyConstants, ProxyInv, NEW t \in ProxyThreads, Proxy!EndFree(t)
  PROVE  ProxyInv'
<1> USE DEF ProxyInv
<1> DEFINE g == Proxy!Got(t)
           f == rpcs[t][1]
           u == "FreeBuffer"
           b == opBuf[Opener]
<1>1. /\ Proxy!Ends(t, "free")
      /\ tBufList' = [s \in ProxySlots |-> IF tBufList[s] = opBuf[t] THEN NoHeader ELSE tBufList[s]]
      /\ nAllocatedBuffers' = nAllocatedBuffers - 1
      /\ stray' = IF g.ok THEN stray ELSE stray \cup {opBuf[t]}
      /\ UNCHANGED <<proxy, cbThread, remote, toRemote, toHost, nTotalBuffers, remoteBufs, remoteHolds, client, events>>
  BY DEF Proxy!EndFree, Proxy!remoteVars, Proxy!Cleared, NoHeader
<1>2. "free" \in Ops /\ "free" \notin MakeOps
  BY DEF Ops, MakeOps
<1> HIDE DEF g, f
<1>3. /\ Proxy!HasAnswer(t) /\ Proxy!TakeAnswer(t) /\ Proxy!Return(t) /\ op[t] = "free" /\ rpcs[t] # <<>>
      /\ f = u /\ f \in Fns /\ g \in Answers /\ g.fn = f
      /\ Len(pMsgPipe[u]) \in Nat \ {0} /\ Len(pMsgPipe'[u]) = Len(pMsgPipe[u]) - 1
      /\ pMsgPipe' \in [Fns -> Seq(Answers)]
      /\ \A h \in Fns \ {u} : pMsgPipe'[h] = pMsgPipe[h]
      /\ \A P : /\ Count(pMsgPipe'[f], P) \in Nat
                /\ Count(pMsgPipe[f], P) = Count(pMsgPipe'[f], P) + (IF g \in P THEN 1 ELSE 0)
      /\ g.ok => Good(pMsgPipe[u], u) = Good(pMsgPipe'[u], u) \cup {g.hdr}
  <2>1. g = Proxy!Got(t) /\ f = rpcs[t][1] /\ Proxy!RemoteCalls["free"][1] = u
    BY CallTable DEF g, f
  <2>2. f = u
    BY <1>1, <1>2, <2>1, ProxyEndsStep
  <2>3. /\ Proxy!HasAnswer(t) /\ Proxy!TakeAnswer(t) /\ Proxy!Return(t) /\ op[t] = "free" /\ rpcs[t] # <<>>
        /\ f \in Fns /\ g \in Answers /\ g.fn = f
        /\ Len(pMsgPipe[f]) \in Nat \ {0} /\ Len(pMsgPipe'[f]) = Len(pMsgPipe[f]) - 1
        /\ pMsgPipe' \in [Fns -> Seq(Answers)]
        /\ \A h \in Fns \ {f} : pMsgPipe'[h] = pMsgPipe[h]
    BY <1>1, <1>2, <2>1, ProxyEndsStep
  <2>4. \A P : /\ Count(pMsgPipe'[f], P) \in Nat
               /\ Count(pMsgPipe[f], P) = Count(pMsgPipe'[f], P) + (IF g \in P THEN 1 ELSE 0)
    BY <1>1, <1>2, <2>1, ProxyEndsStep
  <2>5. g.ok => Good(pMsgPipe[f], f) = Good(pMsgPipe'[f], f) \cup {g.hdr}
    BY <2>1, <2>3, EndsGood
  <2> QED
    BY <2>2, <2>3, <2>4, <2>5
<1>4. t = Opener /\ Opener \in ProxyThreads /\ b \in RemoteHdrs
  BY <1>3 DEF Roles, Named, ProxyConstants
<1>5. /\ op'[Opener] = "idle" /\ opBuf'[Opener] = NoHeader
      /\ \A v \in ProxyThreads \ {Opener} : op'[v] = op[v] /\ opBuf'[v] = opBuf[v]
      /\ op' \in [ProxyThreads -> Ops \cup {"idle"}] /\ opBuf' \in [ProxyThreads -> Hdrs]
      /\ rpcs' \in [ProxyThreads -> Seq(Fns)]
      /\ Named' /\ CallsLeft' /\ Conserved'
  BY <1>1, <1>3, <1>4, ProxyEndStep
<1>6. InUse /\ InUse' /\ "handle" \in events /\ proxy # "none" /\ proxy # "closed"
  BY <1>1, <1>3, <1>4, <1>5 DEF InUse, Roles
<1>7. /\ Agreed(u)' = {} /\ (g.ok => g.hdr \in Agreed(u)) /\ \A i \in 1 .. Len(toRemote) : toRemote[i].fn # u
  <2> DEFINE n == Len(pMsgPipe[u])
             x == Count(toRemote, PacketsOf(u))
             y == Count(toHost, AnswersOf(u))
  <2>1. u \in Fns \ {"FillThisBuffer"} /\ rpcs[Opener] # <<>> /\ rpcs[Opener][1] = u
    BY <1>3, <1>4 DEF f
  <2>2. x + y + n = 1
    BY <2>1, OpenersPackets
  <2>3. x \in Nat /\ y \in Nat
    BY <2>1, InFlight
  <2>4. n \in Nat \ {0} /\ Len(pMsgPipe'[u]) = n - 1
    BY <1>3, <2>1
  <2>5. x = 0 /\ y = 0 /\ n = 1 /\ Len(pMsgPipe'[u]) = 0
    <3> HIDE DEF x, y, n
    <3> QED
      BY <2>2, <2>3, <2>4
  <2>6. Good(toHost, u) = {} /\ \A i \in 1 .. Len(toRemote) : toRemote[i].fn # u
    BY <2>1, <2>5, NoPackets
  <2>7. Good(pMsgPipe'[u], u) = {}
    BY <2>5 DEF Good
  <2>8. Agreed(u)' = {}
    BY <1>1, <2>6, <2>7 DEF Agreed
  <2>9. ASSUME g.ok PROVE g.hdr \in Agreed(u)
    BY <1>3, <2>9 DEF Agreed
  <2> QED
    BY <2>6, <2>8, <2>9
<1>8. Agreed("UseBuffer") = {} /\ Agreed("UseBuffer")' = {}
  <2>1. "UseBuffer" \in Fns \ {"FillThisBuffer"} /\ ~(rpcs[Opener] # <<>> /\ rpcs[Opener][1] = "UseBuffer")
    BY <1>3, <1>4, ProxyNames DEF f
  <2>2. Agreed("UseBuffer") = {}
    BY <2>1, NotCalled
  <2>3. pMsgPipe'["UseBuffer"] = pMsgPipe["UseBuffer"]
    BY <1>3, <2>1
  <2> QED
    BY <1>1, <2>2, <2>3 DEF Agreed
<1>9. /\ nAllocatedBuffers = Cardinality(Proxy!Used) /\ Proxy!Used \subseteq 1 .. nTotalBuffers
      /\ \A s, r \in Proxy!Used : tBufList[s] = tBufList[r] => s = r
      /\ b \in Slotted
      /\ \A c \in Slotted : c \in remoteBufs \/ c = b
      /\ \A c \in remoteBufs : c \in stray \cup Slotted
      /\ Agreed(u) \subseteq {b} \ remoteBufs
  <2>1. op[Opener] = "free"
    BY <1>3, <1>4
  <2> QED
    BY <1>6, <1>8, <2>1 DEF Slots
<1>10. PICK s \in Proxy!Used : tBufList[s] = b
  BY <1>9 DEF Slotted
<1>11. b # NoHeader
  BY <1>4, ProxyNames
<1>12. Proxy!Used' = Proxy!Used \ {s} /\ \A r \in Proxy!Used \ {s} : tBufList'[r] = tBufList[r]
  <2>1. \A r \in ProxySlots : tBufList'[r] = IF tBufList[r] = b THEN NoHeader ELSE tBufList[r]
    BY <1>1, <1>4
  <2>2. \A r \in Proxy!Used : tBufList[r] = b <=> r = s
    BY <1>9, <1>10
  <2> QED
    BY <1>10, <1>11, <2>1, <2>2 DEF Proxy!Used, NoHeader
<1>13. Slotted' = Slotted \ {b}
  BY <1>9, <1>10, <1>12 DEF Slotted
<1>14. IsFiniteSet(Proxy!Used) /\ Cardinality(Proxy!Used) \in Nat /\ Cardinality(Proxy!Used') = Cardinality(Proxy!Used) - 1
       /\ Cardinality(Proxy!Used') \in Nat
  <2>1. Proxy!Used \subseteq ProxySlots
    BY DEF Proxy!Used
  <2>2. IsFiniteSet(Proxy!Used) /\ Cardinality(Proxy!Used) \in Nat
    BY <2>1, FS_Subset, FS_CardinalityType DEF ProxyConstants
  <2>3. Cardinality(Proxy!Used \ {s}) = Cardinality(Proxy!Used) - 1
    BY <1>10, <2>2, FS_RemoveElement
  <2>4. IsFiniteSet(Proxy!Used \ {s}) /\ Cardinality(Proxy!Used \ {s}) \in Nat
    BY <2>2, FS_Subset, FS_CardinalityType
  <2> QED
    BY <1>12, <2>2, <2>3, <2>4
<1>15. ProxyTypes'
  <2>1. tBufList' \in [ProxySlots -> Hdrs]
    BY <1>1 DEF ProxyTypes, Hdrs
  <2>2. stray' \subseteq RemoteHdrs
    BY <1>1, <1>4 DEF ProxyTypes
  <2>3. nTotalBuffers' \in 0 .. Cardinality(ProxySlots) /\ nAllocatedBuffers' \in 0 .. nTotalBuffers'
    <3>1. nTotalBuffers \in 0 .. Cardinality(ProxySlots) /\ nAllocatedBuffers \in 0 .. nTotalBuffers
      BY DEF ProxyTypes
    <3>2. nAllocatedBuffers' = Cardinality(Proxy!Used') /\ nAllocatedBuffers' = nAllocatedBuffers - 1
      BY <1>1, <1>9, <1>14
    <3>3. nTotalBuffers' = nTotalBuffers /\ nTotalBuffers \in Nat /\ nAllocatedBuffers \in Nat /\ nAllocatedBuffers <= nTotalBuffers
      BY <1>1, <3>1, SlotRange
    <3> QED
      BY <1>14, <3>1, <3>2, <3>3
  <2> QED
    BY <1>1, <1>3, <1>5, <2>1, <2>2, <2>3 DEF ProxyTypes
<1>16. Roles'
  <2>1. \A v \in ProxyThreads \ {Opener} : op'[v] \in {"idle", "fill"}
    BY <1>5 DEF Roles
  <2> QED
    BY <1>1, <1>5, <1>6, <2>1 DEF Roles, MakeOps
<1>17. Slots'
  <2>1. \A c \in remoteBufs' : c \in stray' \cup Slotted' \cup Agreed("UseBuffer")'
    <3>1. CASE g.ok
      <4>1. b \notin remoteBufs
        BY <1>7, <1>9, <3>1
      <4> QED
        BY <1>1, <1>9, <1>13, <3>1, <4>1
    <3>2. CASE ~g.ok
      BY <1>1, <1>4, <1>9, <1>13, <3>2
    <3> QED
      BY <3>1, <3>2
  <2>2. \A c \in Slotted' : c \in remoteBufs'
    BY <1>1, <1>9, <1>13
  <2>3. \A r, v \in Proxy!Used' : tBufList'[r] = tBufList'[v] => r = v
    BY <1>9, <1>12
  <2>4. nAllocatedBuffers' = Cardinality(Proxy!Used') /\ Proxy!Used' \subseteq 1 .. nTotalBuffers'
    BY <1>1, <1>9, <1>12, <1>14
  <2> QED
    BY <1>1, <1>5, <1>7, <1>8, <2>1, <2>2, <2>3, <2>4 DEF Slots
<1>18. OneToken'
  <2> SUFFICES ASSUME "crossed" \notin events, NEW c \in RemoteHdrs
               PROVE  Tokens(c)' <= 1 /\ (Tokens(c)' > 0 => c \in Slotted')
    BY <1>1, <1>5 DEF OneToken
  <2>1. Tokens(c) <= 1 /\ (Tokens(c) > 0 => c \in Slotted) /\ (c = b => Tokens(c) = 0)
    BY <1>3, <1>4, <1>6 DEF OneToken
  <2>2. Tokens(c)' = Tokens(c) /\ Tokens(c) \in Nat
    <3>1. g \notin Refused(c)
      BY <1>3 DEF Refused, Gives
    <3>2. /\ Tokens(c) \in Nat /\ Tokens(c)' \in Nat
          /\ Tokens(c)' + (IF g \in Refused(c) THEN 1 ELSE 0) + (IF c \in client THEN 1 ELSE 0)
               = Tokens(c) + (IF c \in client' THEN 1 ELSE 0)
      BY <1>1, <1>3, EndTokens
    <3>3. client' = client
      BY <1>1
    <3> QED
      BY <3>1, <3>2, <3>3
  <2> QED
    BY <1>13, <2>1, <2>2
<1>19. Proxy!CallbackFindsHeader'
  <2>1. op[Opener] # "close"
    BY <1>3, <1>4
  <2> QED
    BY <1>1, <1>6, <2>1 DEF Proxy!CallbackFindsHeader
<1> QED
  BY <1>5, <1>15, <1>16, <1>17, <1>18, <1>19

(* The opener opens or closes the component: nobody else calls.               *)
LEMMA LastCall ==
  ASSUME ProxyConstants, ProxyInv, op[Opener] \in {"open", "close"}, Proxy!HasAnswer(Opener), NEW f \in Fns
  PROVE  Count(toRemote, PacketsOf(f)) = 0 /\ Count(toHost, AnswersOf(f)) = 0
<1> USE DEF ProxyInv
<1> DEFINE u == rpcs[Opener][1]
           x == Count(toRemote, PacketsOf(f))
           y == Count(toHost, AnswersOf(f))
           n == Len(pMsgPipe[f])
<1>1. Opener \in ProxyThreads /\ \A v \in ProxyThreads \ {Opener} : rpcs[v] = <<>>
  BY DEF Roles, CallsLeft, ProxyConstants
<1>2. rpcs[Opener] # <<>> /\ rpcs[Opener] \in Seq(Fns) /\ u \in Fns /\ pMsgPipe[u] # <<>> /\ pMsgPipe[u] \in Seq(Answers)
  <2>1. rpcs[Opener] # <<>> /\ rpcs[Opener] \in Seq(Fns) /\ pMsgPipe[u] # <<>>
    BY <1>1 DEF Proxy!HasAnswer, Proxy!Waiting, Proxy!PipeOf, ProxyTypes
  <2>2. u \in Fns
    BY <2>1
  <2> QED
    BY <2>1, <2>2 DEF ProxyTypes
<1> HIDE DEF u
<1>3. Waiters(f) = IF f = u THEN {Opener} ELSE {}
  BY <1>1, <1>2 DEF Waiters, u
<1>4. Cardinality({Opener}) = 1 /\ Cardinality({}) = 0
  BY FS_Singleton, FS_EmptySet
<1>5. x \in Nat /\ y \in Nat /\ n \in Nat /\ x + y + n = Cardinality(Waiters(f))
  BY InFlight
<1>6. f = u => n # 0
  <2>1. Len(pMsgPipe[u]) # 0
    BY <1>2
  <2> QED
    BY <2>1
<1> HIDE DEF x, y, n
<1>7. x = 0 /\ y = 0
  <2>1. CASE f = u
    <3>1. x + y + n = 1 /\ n # 0
      BY <1>3, <1>4, <1>5, <1>6, <2>1
    <3> QED
      BY <1>5, <3>1
  <2>2. CASE f # u
    <3>1. x + y + n = 0
      BY <1>3, <1>4, <1>5, <2>2
    <3> QED
      BY <1>5, <3>1
  <2> QED
    BY <2>1, <2>2
<1> QED
  BY <1>7 DEF x, y

(* The instance is taken down.                                                *)
LEMMA ProxyDownStep ==
  ASSUME ProxyConstants, ProxyInv, NEW o \in {"open", "close"}, Proxy!Ends(Opener, o), Proxy!InstanceDeInit,
         UNCHANGED <<remote, tBufList, nTotalBuffers, nAllocatedBuffers, remoteBufs, remoteHolds, client, stray, events>>
  PROVE  ProxyInv'
<1> USE DEF ProxyInv
<1>1. Proxy!HasAnswer(Opener) /\ Proxy!TakeAnswer(Opener) /\ Proxy!Return(Opener) /\ op[Opener] = o /\ Opener \in ProxyThreads
  BY DEF Proxy!Ends, ProxyConstants
<1>2. proxy' = "closed" /\ cbThread' = "gone" /\ toRemote' = <<>> /\ toHost' = <<>>
  BY DEF Proxy!InstanceDeInit
<1>3. \A f \in Fns : Count(toRemote, PacketsOf(f)) = 0 /\ Count(toHost, AnswersOf(f)) = 0
  BY <1>1, LastCall
<1>4. /\ op'[Opener] = "idle" /\ opBuf'[Opener] = NoHeader
      /\ \A v \in ProxyThreads \ {Opener} : op'[v] = op[v] /\ opBuf'[v] = opBuf[v]
      /\ op' \in [ProxyThreads -> Ops \cup {"idle"}] /\ opBuf' \in [ProxyThreads -> Hdrs]
      /\ rpcs' \in [ProxyThreads -> Seq(Fns)]
      /\ Named' /\ CallsLeft' /\ Conserved'
  BY <1>1, <1>2, <1>3, ProxyEndStep
<1>5. pMsgPipe' \in [Fns -> Seq(Answers)]
  BY <1>1, ProxyTakeStep
<1>6. ProxyTypes'
  <2>1. toRemote' \in Seq(Packets) /\ toHost' \in Seq(Answers \cup Returns \cup Notices)
    BY <1>2
  <2> QED
    BY <1>2, <1>4, <1>5, <2>1 DEF ProxyTypes
<1>7. Roles'
  <2>1. \A v \in ProxyThreads : op'[v] = "idle"
    BY <1>1, <1>4 DEF Roles
  <2>2. "handle" \notin events => client = {} /\ nTotalBuffers = 0
    BY DEF Roles
  <2> QED
    BY <1>1, <1>2, <2>1, <2>2 DEF Roles, MakeOps
<1>8. Slots' /\ OneToken'
  BY <1>2 DEF Slots, OneToken, InUse
<1>9. Proxy!CallbackFindsHeader'
  BY <1>2 DEF Proxy!CallbackFindsHeader
<1> QED
  BY <1>4, <1>6, <1>7, <1>8, <1>9

LEMMA ProxyEndCloseStep ==
  ASSUME ProxyConstants, ProxyInv, NEW t \in ProxyThreads, Proxy!EndClose(t)
  PROVE  ProxyInv'
<1>1. /\ Proxy!Ends(t, "close") /\ Proxy!InstanceDeInit
      /\ UNCHANGED <<remote, tBufList, nTotalBuffers, nAllocatedBuffers, remoteBufs, remoteHolds, client, stray, events>>
  BY DEF Proxy!EndClose, Proxy!slotVars, Proxy!remoteVars
<1>2. t = Opener
  <2>1. op[t] = "close"
    BY <1>1 DEF Proxy!Ends
  <2> QED
    BY <2>1 DEF ProxyInv, Roles
<1> QED
  BY <1>1, <1>2, ProxyDownStep

LEMMA ProxyEndOpenStep ==
  ASSUME ProxyConstants, ProxyInv, NEW t \in ProxyThreads, Proxy!EndOpen(t)
  PROVE  ProxyInv'
<1> USE DEF ProxyInv
<1> DEFINE g == Proxy!Got(t)
           f == rpcs[t][1]
<1>1. /\ Proxy!Ends(t, "open")
      /\ UNCHANGED <<remote, tBufList, nTotalBuffers, nAllocatedBuffers, remoteBufs, remoteHolds, client, stray>>
      /\ \/ events' = events \cup {"handle"} /\ UNCHANGED <<proxy, cbThread, toRemote, toHost>>
         \/ Proxy!InstanceDeInit /\ events' = events
  BY DEF Proxy!EndOpen, Proxy!slotVars, Proxy!remoteVars
<1>2. op[t] = "open" /\ t = Opener /\ Opener \in ProxyThreads
  <2>1. op[t] = "open"
    BY <1>1 DEF Proxy!Ends
  <2> QED
    BY <2>1 DEF Roles, ProxyConstants
<1>3. CASE Proxy!InstanceDeInit /\ events' = events
  BY <1>1, <1>2, <1>3, ProxyDownStep
<1>4. CASE events' = events \cup {"handle"} /\ UNCHANGED <<proxy, cbThread, toRemote, toHost>>
  <2> HIDE DEF f, g
  <2>1. /\ Proxy!HasAnswer(t) /\ Proxy!TakeAnswer(t) /\ Proxy!Return(t)
        /\ f = "GetHandle" /\ f \in Fns /\ g \in Answers /\ g.fn = f
        /\ pMsgPipe' \in [Fns -> Seq(Answers)]
        /\ \A h \in Fns \ {f} : pMsgPipe'[h] = pMsgPipe[h]
    <3>1. g = Proxy!Got(t) /\ f = rpcs[t][1] /\ Proxy!RemoteCalls["open"][1] = "GetHandle"
      BY CallTable DEF g, f
    <3>2. "open" \in Ops /\ "open" \notin MakeOps
      BY DEF Ops, MakeOps
    <3> QED
      BY <1>1, <3>1, <3>2, ProxyEndsStep
  <2>2. \A P : /\ Count(pMsgPipe'[f], P) \in Nat
               /\ Count(pMsgPipe[f], P) = Count(pMsgPipe'[f], P) + (IF g \in P THEN 1 ELSE 0)
    <3>1. g = Proxy!Got(t) /\ f = rpcs[t][1] /\ "open" \in Ops
      BY DEF g, f, Ops
    <3> QED
      BY <1>1, <3>1, ProxyEndsStep
  <2>3. /\ op'[Opener] = "idle" /\ opBuf'[Opener] = NoHeader
        /\ \A v \in ProxyThreads \ {Opener} : op'[v] = op[v] /\ opBuf'[v] = opBuf[v]
        /\ op' \in [ProxyThreads -> Ops \cup {"idle"}] /\ opBuf' \in [ProxyThreads -> Hdrs]
        /\ rpcs' \in [ProxyThreads -> Seq(Fns)]
        /\ Named' /\ CallsLeft' /\ Conserved'
    BY <1>2, <1>4, <2>1, ProxyEndStep
  <2>4. ProxyTypes'
    BY <1>1, <1>4, <2>1, <2>3 DEF ProxyTypes
  <2>5. Proxy!Used' = Proxy!Used /\ Slotted' = Slotted /\ InUse /\ InUse' /\ proxy # "none" /\ proxy # "closed"
    BY <1>1, <1>2, <1>4, <2>3 DEF Proxy!Used, Slotted, InUse, Roles
  <2>6. Roles'
    <3>1. \A v \in ProxyThreads \ {Opener} : op'[v] = "idle"
      BY <1>2, <2>3 DEF Roles
    <3>2. "handle" \in events' /\ proxy' # "none" /\ proxy' # "closed"
      BY <1>4, <2>5
    <3> QED
      BY <2>3, <3>1, <3>2 DEF Roles, MakeOps
  <2>7. Slots'
    <3>1. Agreed("UseBuffer")' = Agreed("UseBuffer") /\ Agreed("FreeBuffer")' = Agreed("FreeBuffer")
      BY <1>4, <2>1, ProxyNames DEF Agreed
    <3>2. "FreeBuffer" \in Fns \ {"FillThisBuffer"} /\ ~(rpcs[Opener] # <<>> /\ rpcs[Opener][1] = "FreeBuffer")
      BY <1>2, <2>1, ProxyNames DEF f
    <3>3. Agreed("FreeBuffer") = {} /\ \A i \in 1 .. Len(toRemote) : toRemote[i].fn # "FreeBuffer"
      BY <3>2, NotCalled
    <3>4. op[Opener] # "free" /\ op'[Opener] # "free"
      BY <1>2, <2>3
    <3> QED
      BY <1>1, <1>4, <2>5, <3>1, <3>3, <3>4, SlotsKept
  <2>8. OneToken'
    <3>1. ASSUME NEW b \in RemoteHdrs PROVE Tokens(b)' <= Tokens(b)
      <4>1. g \notin Refused(b)
        BY <2>1 DEF Refused, Gives
      <4>2. /\ Tokens(b) \in Nat /\ Tokens(b)' \in Nat
            /\ Tokens(b)' + (IF g \in Refused(b) THEN 1 ELSE 0) + (IF b \in client THEN 1 ELSE 0)
                 = Tokens(b) + (IF b \in client' THEN 1 ELSE 0)
        BY <1>1, <1>4, <2>1, <2>2, EndTokens
      <4>3. client' = client
        BY <1>1
      <4> QED
        BY <4>1, <4>2, <4>3
    <3>2. op'[Opener] # "free" /\ ("crossed" \in events => "crossed" \in events')
      BY <1>4, <2>3
    <3> QED
      BY <2>4, <2>5, <3>1, <3>2, TokensKept
  <2>9. Proxy!CallbackFindsHeader'
    <3>1. "unknown header" \in events' => "unknown header" \in events
      BY <1>4
    <3>2. op[Opener] # "close"
      BY <1>2
    <3> QED
      BY <1>4, <2>5, <3>1, <3>2 DEF Proxy!CallbackFindsHeader
  <2> QED
    BY <2>3, <2>4, <2>6, <2>7, <2>8, <2>9
<1> QED
  BY <1>1, <1>3, <1>4

LEMMA ProxyInvInit == ASSUME ProxyConstants, Proxy!Init PROVE ProxyInv
<1>1. /\ proxy = "none" /\ cbThread = "none" /\ remote = "alive"
      /\ op = [t \in ProxyThreads |-> "idle"] /\ opBuf = [t \in ProxyThreads |-> NoHeader] /\ rpcs = [t \in ProxyThreads |-> <<>>]
      /\ toRemote = <<>> /\ toHost = <<>> /\ pMsgPipe = [f \in Fns |-> <<>>] /\ tBufList = [s \in ProxySlots |-> NoHeader]
      /\ nTotalBuffers = 0 /\ nAllocatedBuffers = 0
      /\ client = {} /\ remoteBufs = {} /\ remoteHolds = {} /\ stray = {} /\ events = {}
  BY DEF Proxy!Init, NoHeader, Fns
<1>2. ProxyTypes
  <2>1. Cardinality(ProxySlots) \in Nat
    BY FS_CardinalityType DEF ProxyConstants
  <2>2. remoteHolds \subseteq [fn : Gives, by : ProxyThreads, hdr : RemoteHdrs] /\ IsFiniteSet(remoteHolds)
    BY <1>1, FS_EmptySet
  <2> QED
    BY <1>1, <2>1, <2>2 DEF ProxyTypes, Hdrs
<1>3. Named
  BY <1>1 DEF Named
<1>4. CallsLeft
  <2>1. "idle" \notin MakeOps
    BY DEF MakeOps
  <2> QED
    BY <1>1, <2>1 DEF CallsLeft
<1>5. Proxy!Used = {}
  BY <1>1 DEF Proxy!Used, NoHeader
<1>6. Roles
  <2>1. Opener \in ProxyThreads
    BY DEF ProxyConstants
  <2> QED
    BY <1>1, <1>5, <2>1 DEF Roles, MakeOps
<1>7. \A P : Count(<<>>, P) = 0
  <2>1. \A P : Marks(<<>>, P) = {}
    BY DEF Marks
  <2> QED
    BY <2>1, FS_EmptySet DEF Count
<1>8. Conserved
  <2> SUFFICES ASSUME NEW f \in Fns
      PROVE Count(toRemote, PacketsOf(f)) + Count(toHost, AnswersOf(f)) + Len(pMsgPipe[f]) = Cardinality(Waiters(f))
    BY DEF Conserved
  <2>1. Waiters(f) = {}
    BY <1>1 DEF Waiters
  <2>2. pMsgPipe[f] = <<>>
    BY <1>1
  <2> QED
    BY <1>1, <1>7, <2>1, <2>2, FS_EmptySet
<1>9. \A f \in Fns : Agreed(f) = {}
  BY <1>1 DEF Agreed, Good
<1>10. Slotted = {}
  BY <1>5 DEF Slotted
<1>11. Opener \in ProxyThreads /\ {"UseBuffer", "FreeBuffer", "FillThisBuffer", "EmptyThisBuffer"} \subseteq Fns
  BY ProxyNames DEF ProxyConstants
<1>12. Slots
  <2>1. Cardinality(Proxy!Used) = 0
    BY <1>5, FS_EmptySet
  <2>2. op[Opener] = "idle"
    BY <1>1, <1>11
  <2>3. Agreed("UseBuffer") = {} /\ Agreed("FreeBuffer") = {}
    BY <1>9, <1>11
  <2> QED
    BY <1>1, <1>5, <1>10, <2>1, <2>2, <2>3 DEF Slots
<1>13. OneToken
  <2>1. \A b : Tokens(b) = 0
    <3> SUFFICES ASSUME NEW b PROVE Tokens(b) = 0
      OBVIOUS
    <3>1. Held(b) = {} /\ Cardinality({}) = 0
      BY <1>1, FS_EmptySet DEF Held
    <3>2. pMsgPipe["FillThisBuffer"] = <<>> /\ pMsgPipe["EmptyThisBuffer"] = <<>>
      BY <1>1, <1>11
    <3> QED
      BY <1>1, <1>7, <3>1, <3>2 DEF Tokens
  <2> QED
    BY <2>1 DEF OneToken
<1>14. Proxy!CallbackFindsHeader
  BY <1>1 DEF Proxy!CallbackFindsHeader
<1> QED
  BY <1>2, <1>3, <1>4, <1>6, <1>8, <1>12, <1>13, <1>14 DEF ProxyInv

LEMMA ProxyStutter == ProxyInv /\ UNCHANGED Proxy!proxyVars => ProxyInv'
<1> SUFFICES ASSUME ProxyInv, UNCHANGED Proxy!proxyVars PROVE ProxyInv'
  OBVIOUS
<1>1. UNCHANGED <<proxy, cbThread, remote, pMsgPipe, toRemote, toHost, tBufList, nTotalBuffers, nAllocatedBuffers,
                  remoteBufs, remoteHolds, op, opBuf, rpcs, client, stray, events>>
  BY DEF Proxy!proxyVars, Proxy!rpcVars, Proxy!slotVars, Proxy!remoteVars
<1>2. ProxyTypes' /\ Named' /\ CallsLeft'
  BY <1>1 DEF ProxyInv, ProxyTypes, Named, CallsLeft
<1>3. Roles' /\ Conserved'
  BY <1>1 DEF ProxyInv, Roles, Conserved, Waiters, Proxy!Used
<1>4. Proxy!Used' = Proxy!Used /\ Slotted' = Slotted /\ InUse' = InUse /\ (\A f : Agreed(f)' = Agreed(f)) /\ (\A b : Tokens(b)' = Tokens(b))
  BY <1>1 DEF Proxy!Used, Slotted, InUse, Agreed, Tokens, Held
<1>5. Slots'
  BY <1>1, <1>4 DEF ProxyInv, Slots
<1>6. OneToken'
  BY <1>1, <1>4 DEF ProxyInv, OneToken
<1>7. Proxy!CallbackFindsHeader'
  BY <1>1 DEF ProxyInv, Proxy!CallbackFindsHeader
<1> QED
  BY <1>2, <1>3, <1>5, <1>6, <1>7 DEF ProxyInv

LEMMA ProxyInvStep == ASSUME ProxyConstants, ProxyInv, [Proxy!Next]_(Proxy!proxyVars) PROVE ProxyInv'
<1>1. CASE UNCHANGED Proxy!proxyVars
  BY <1>1, ProxyStutter
<1>2. ASSUME NEW t \in ProxyThreads, Proxy!Begin(t) PROVE ProxyInv'
  <2>1. \/ Proxy!ProxyInit(t)
        \/ \E o \in MakeOps : Proxy!UseBuffer(t, o)
        \/ \E o \in {"fill", "empty", "free"} : \E b \in client : Proxy!Give(t, o, b) /\ (o # "fill" => t = Opener)
        \/ \E f \in {"SetParameter", "GetParameterOnly", "SetConfig", "GetConfig", "GetState", "GetComponentVersion",
                     "GetExtensionIndex", "SendCommand"} : Proxy!Plain(t, f)
        \/ Proxy!ComponentDeInit(t)
    BY <1>2 DEF Proxy!Begin, MakeOps, Proxy!FillThisBuffer, Proxy!EmptyThisBuffer, Proxy!FreeBuffer,
         Proxy!SetParameter, Proxy!GetParameter, Proxy!SetConfig, Proxy!GetConfig, Proxy!GetState,
         Proxy!GetComponentVersion, Proxy!GetExtensionIndex, Proxy!SendCommand
  <2>2. CASE Proxy!ProxyInit(t)
    BY <2>2, ProxyInitStep
  <2>3. ASSUME NEW o \in MakeOps, Proxy!UseBuffer(t, o) PROVE ProxyInv'
    BY <2>3, ProxyUseBufferStep
  <2>4. ASSUME NEW o \in {"fill", "empty", "free"}, NEW b \in client, Proxy!Give(t, o, b), o # "fill" => t = Opener PROVE ProxyInv'
    BY <2>4, ProxyGiveStep
  <2>5. ASSUME NEW f, Proxy!Plain(t, f) PROVE ProxyInv'
    BY <2>5, ProxyPlainStep
  <2>6. CASE Proxy!ComponentDeInit(t)
    BY <2>6, ProxyDeInitStep
  <2> QED
    BY <2>1, <2>2, <2>3, <2>4, <2>5, <2>6
<1>3. ASSUME NEW t \in ProxyThreads, Proxy!End(t) PROVE ProxyInv'
  <2>1. \/ \E o \in PlainCalls \cup GiveOps : Proxy!EndPlain(t, o)
        \/ \E o \in MakeOps : Proxy!EndUse(t, o)
        \/ Proxy!EndFree(t) \/ Proxy!EndOpen(t) \/ Proxy!EndClose(t) \/ Proxy!Continue(t)
    BY <1>3 DEF Proxy!End, Proxy!EndSet, Proxy!EndGet, MakeOps, GiveOps
  <2>2. ASSUME NEW o \in PlainCalls \cup GiveOps, Proxy!EndPlain(t, o) PROVE ProxyInv'
    BY <2>2, ProxyPlainEndStep
  <2>3. ASSUME NEW o \in MakeOps, Proxy!EndUse(t, o) PROVE ProxyInv'
    BY <2>3, ProxyEndUseStep
  <2>4. CASE Proxy!EndFree(t)
    BY <2>4, ProxyEndFreeStep
  <2>5. CASE Proxy!EndOpen(t)
    BY <2>5, ProxyEndOpenStep
  <2>6. CASE Proxy!EndClose(t)
    BY <2>6, ProxyEndCloseStep
  <2>7. CASE Proxy!Continue(t)
    BY <2>7, ProxyContinueStep
  <2> QED
    BY <2>1, <2>2, <2>3, <2>4, <2>5, <2>6, <2>7
<1>4. CASE Proxy!Serve
  BY <1>4, ProxyServeStep
<1>5. CASE Proxy!RemoteReturns
  BY <1>5, ProxyRemoteReturnsStep
<1>6. CASE Proxy!RemoteDies \/ Proxy!CbRemoteIsDead
  BY <1>6, ProxyDeathStep
<1>7. CASE Proxy!CbAnswer
  BY <1>7, ProxyAnswerStep
<1>8. CASE Proxy!EventHandler \/ Proxy!FillBufferDone \/ Proxy!EmptyBufferDone
  BY <1>8, ProxyCallbackStep
<1> QED
  BY <1>1, <1>2, <1>3, <1>4, <1>5, <1>6, <1>7, <1>8 DEF Proxy!Next, Proxy!Cb

(* The invariant gives the properties of the proxy.                           *)
LEMMA MarksAre ==
  ASSUME ProxyConstants, ProxyInv, NEW f \in Fns
  PROVE  /\ {i \in DOMAIN toRemote : toRemote[i].fn = f} = Marks(toRemote, PacketsOf(f))
         /\ {i \in DOMAIN toHost : toHost[i].fn = f} = Marks(toHost, AnswersOf(f))
<1>1. toRemote \in Seq(Packets) /\ toHost \in Seq(Answers \cup Returns \cup Notices)
  BY DEF ProxyInv, ProxyTypes
<1>2. DOMAIN toRemote = 1 .. Len(toRemote) /\ DOMAIN toHost = 1 .. Len(toHost)
  BY <1>1
<1>3. \A i \in 1 .. Len(toRemote) : toRemote[i].fn = f <=> toRemote[i] \in PacketsOf(f)
  BY <1>1 DEF PacketsOf
<1>4. ASSUME NEW i \in 1 .. Len(toHost) PROVE toHost[i].fn = f <=> toHost[i] \in AnswersOf(f)
  <2>1. toHost[i] \in Answers \cup Returns \cup Notices
    BY <1>1
  <2>2. CASE toHost[i] \in Answers
    BY <2>2 DEF AnswersOf
  <2>3. CASE toHost[i] \notin Answers
    <3>1. toHost[i].fn \in {"FillBufferDone", "EmptyBufferDone", "EventHandler"}
      BY <2>1, <2>3 DEF Returns, Notices
    <3>2. toHost[i].fn # f
      BY <3>1, ProxyNames
    <3> QED
      BY <2>3, <3>2 DEF AnswersOf
  <2> QED
    BY <2>2, <2>3
<1> QED
  BY <1>2, <1>3, <1>4 DEF Marks

LEMMA ProxyInvImplies ==
  ASSUME ProxyConstants, ProxyInv
  PROVE  Proxy!TypeOK /\ Proxy!SlotsMatchRemote /\ Proxy!AnswersConserved /\ Proxy!CallbackFindsHeader
<1> USE DEF ProxyInv
<1>1. Proxy!TypeOK
  <2>1. DOMAIN Proxy!RemoteCalls = Ops
    BY CallTable
  <2>2. \A t \in ProxyThreads : op[t] = "idle" <=> rpcs[t] = <<>>
    BY DEF CallsLeft
  <2>3. {p.hdr : p \in remoteHolds} \subseteq RemoteHdrs
    BY DEF ProxyTypes
  <2>4. Proxy!Cardinality(ProxySlots) = Cardinality(ProxySlots)
    BY ProxyNames
  <2> QED
    BY <2>1, <2>2, <2>3, <2>4 DEF Proxy!TypeOK, Proxy!Idle, ProxyTypes, Hdrs, NoHeader
<1>2. Proxy!SlotsMatchRemote
  <2> SUFFICES ASSUME proxy = "open", op[Opener] # "close"
               PROVE  /\ nAllocatedBuffers = Proxy!Cardinality(Proxy!Used) /\ Proxy!Used \subseteq 1 .. nTotalBuffers
                      /\ \A s, r \in Proxy!Used : tBufList[s] = tBufList[r] => s = r
                      /\ \A b \in remoteBufs : b \in stray \/ (\E s \in Proxy!Used : tBufList[s] = b)
                                                \/ (\E p \in Proxy!Making : p.hdr = b)
    BY DEF Proxy!SlotsMatchRemote
  <2>1. InUse
    BY DEF InUse
  <2>2. /\ nAllocatedBuffers = Proxy!Cardinality(Proxy!Used) /\ Proxy!Used \subseteq 1 .. nTotalBuffers
        /\ \A s, r \in Proxy!Used : tBufList[s] = tBufList[r] => s = r
    BY <2>1, ProxyNames DEF Slots
  <2>3. ASSUME NEW b \in remoteBufs
        PROVE  b \in stray \/ (\E s \in Proxy!Used : tBufList[s] = b) \/ (\E p \in Proxy!Making : p.hdr = b)
    <3>1. b \in stray \cup Slotted \cup Agreed("UseBuffer")
      BY <2>1 DEF Slots
    <3>2. CASE b \in Agreed("UseBuffer")
      <4> DEFINE u == "UseBuffer"
      <4>1. u \in Fns /\ toHost \in Seq(Answers \cup Returns \cup Notices) /\ pMsgPipe[u] \in Seq(Answers)
        BY ProxyNames DEF ProxyTypes
      <4>2. DOMAIN toHost = 1 .. Len(toHost) /\ DOMAIN pMsgPipe[u] = 1 .. Len(pMsgPipe[u])
        BY <4>1
      <4>3. \E p \in {toHost[i] : i \in DOMAIN toHost} \cup {pMsgPipe[u][i] : i \in DOMAIN pMsgPipe[u]} :
               p.fn = u /\ p.ok /\ p.hdr = b
        BY <3>2, <4>2 DEF Agreed, Good
      <4>4. PICK p \in {toHost[i] : i \in DOMAIN toHost} \cup {pMsgPipe[u][i] : i \in DOMAIN pMsgPipe[u]} :
               p.fn = u /\ p.ok /\ p.hdr = b
        BY <4>3
      <4>5. p \in {toHost[i] : i \in DOMAIN toHost} \cup UNION {{pMsgPipe[f][i] : i \in DOMAIN pMsgPipe[f]} : f \in Proxy!Functions}
        BY <4>1, <4>4 DEF Fns
      <4>6. p \in Proxy!Making
        BY <4>4, <4>5 DEF Proxy!Making
      <4> QED
        BY <4>4, <4>6
    <3>3. CASE b \in Slotted
      BY <3>3 DEF Slotted
    <3> QED
      BY <3>1, <3>2, <3>3
  <2> QED
    BY <2>2, <2>3
<1>3. Proxy!AnswersConserved
  <2> SUFFICES ASSUME NEW f \in Fns
      PROVE Proxy!InFlight(f) = Proxy!Cardinality({t \in ProxyThreads : Proxy!Waiting(t) /\ rpcs[t][1] = f})
    BY DEF Proxy!AnswersConserved, Fns
  <2>1. {t \in ProxyThreads : Proxy!Waiting(t) /\ rpcs[t][1] = f} = Waiters(f)
    BY DEF Waiters, Proxy!Waiting
  <2>2. Proxy!InFlight(f) = Count(toRemote, PacketsOf(f)) + Count(toHost, AnswersOf(f)) + Len(pMsgPipe[f])
    BY MarksAre, ProxyNames DEF Proxy!InFlight, Count
  <2> QED
    BY <2>1, <2>2, ProxyNames DEF Conserved
<1> QED
  BY <1>1, <1>2, <1>3

(* The slots of a proxy are the headers of the remote component, no answer of *)
(* a remote call is lost or left over, and the callback of a buffer finds its *)
(* header as long as no two threads have crossed their answers.               *)
THEOREM ProxyConserves ==
  ASSUME ProxyConstants
  PROVE  Proxy!Spec => [](Proxy!TypeOK /\ Proxy!SlotsMatchRemote /\ Proxy!AnswersConserved /\ Proxy!CallbackFindsHeader)
<1>1. Proxy!Init => ProxyInv
  BY ProxyInvInit
<1>2. ProxyInv /\ [Proxy!Next]_(Proxy!proxyVars) => ProxyInv'
  BY ProxyInvStep
<1>3. ProxyInv => Proxy!TypeOK /\ Proxy!SlotsMatchRemote /\ Proxy!AnswersConserved /\ Proxy!CallbackFindsHeader
  BY ProxyInvImplies
<1> QED
  BY <1>1, <1>2, <1>3, PTL DEF Proxy!Spec
=============================================================================
