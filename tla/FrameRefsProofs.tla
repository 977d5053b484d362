-------------------------- MODULE FrameRefsProofs --------------------------
(***************************************************************************)
(* Proofs about FrameRefs, for any number of buffers and preview           *)
(* callbacks.  A theorem that is Undisturbed fails without it: the         *)
(* recording is not stopped under a frame's delivery, and no snapshot is   *)
(* taken while it goes on.  What is promised for a first stop only leaves  *)
(* out the snapshots, and the types and the late releases need neither.    *)
(***************************************************************************)
EXTENDS FrameRefs, FiniteSetTheorems, TLAPS

Undisturbed == ~MayStop /\ ~VideoSnapshots

(* The recording thread only ever starts a recording.                       *)
ControlInv ==
  /\ ~crashed
  /\ ctl \in {"idle", "start", "recording"}
  /\ toStop = {} /\ reclaimed = {}
  /\ recording <=> ctl = "recording"
  /\ recording => videoKeys = Bufs

(* Every type a frame can have is subscribed to.                            *)
SubsInv ==
  /\ Display \in subs["PREVIEW"] /\ Display \in subs["SNAPSHOT"]
  /\ ctl # "idle" => Encoder \in subs["VIDEO"]

(* The types a frame is sent as, and those that are left of them.           *)
MaskInv ==
  /\ pc # "return"
  /\ pc # "idle" =>
       \/ mask \in {{"PREVIEW"}, {"SNAPSHOT"}} /\ todo = mask
       \/ /\ mask = {"PREVIEW", "VIDEO"} /\ recording
          /\ todo \in {mask, {"VIDEO"}}

(* A type that is still to be counted or sent has no holders yet.           *)
Unsent(b, t) == b = frame /\ (pc = "count" \/ t \in todo)
Counted(t) == t \in mask /\ (pc = "send" \/ t \notin todo)

CountInv ==
  \A b \in Bufs, t \in Types :
    IF Unsent(b, t)
    THEN /\ Holders(b, t) = {}
         /\ refs[t][b] = IF Counted(t) THEN Cardinality(subs[t]) ELSE 0
    ELSE refs[t][b] = Cardinality(Holders(b, t))

(* A buffer is out as a snapshot, or as a preview and maybe video frame.    *)
TypesInv ==
  \A b \in Bufs :
    /\ refs["SNAPSHOT"][b] > 0 => refs["PREVIEW"][b] = 0 /\ refs["VIDEO"][b] = 0
    /\ ~recording => refs["VIDEO"][b] = 0

Free(b) == fills[b] > 0 \/ \E t \in Threads : filling[t] = b

FreeInv ==
  \A b \in Bufs : Free(b) => \A t \in Types : refs[t][b] = 0

IInv == /\ TypeOK /\ ControlInv /\ SubsInv /\ MaskInv /\ CountInv
        /\ TypesInv /\ ExclusiveOwnership /\ FreeInv

-----------------------------------------------------------------------------
(* Cardinalities of sets of clients                                         *)

(* A set of clients has a cardinality between zero and that of all clients, *)
(* zero only when it is empty.                                              *)
LEMMA ClientSets ==
  ASSUME NEW S \in SUBSET Clients
  PROVE  /\ IsFiniteSet(S)
         /\ Cardinality(S) \in 0..Max0
         /\ Cardinality(S) = 0 <=> S = {}
         /\ Max0 \in Nat
<1>1. IsFiniteSet({Display}) /\ IsFiniteSet({Display} \cup {Encoder})
  BY FS_Singleton, FS_AddElement
<1>2. IsFiniteSet(Clients)
  BY <1>1, FS_Union, FrameAssumption DEF Clients
<1>3. IsFiniteSet(S) /\ Cardinality(S) <= Cardinality(Clients)
  BY <1>2, FS_Subset
<1>4. Cardinality(S) \in Nat /\ Cardinality(Clients) \in Nat
  BY <1>2, <1>3, FS_CardinalityType
<1> QED
  BY <1>3, <1>4, FS_EmptySet DEF Max0

(* One client less.                                                         *)
LEMMA OneHolderLess ==
  ASSUME NEW S \in SUBSET Clients, NEW c \in S
  PROVE  Cardinality(S \ {c}) = Cardinality(S) - 1
BY ClientSets, FS_RemoveElement

(* A type with a subscriber is counted at least once, and the holders of a *)
(* buffer are clients.                                                      *)
LEMMA SubscribedTypes ==
  ASSUME IInv, NEW t \in Types, t = "VIDEO" => recording
  PROVE  Cardinality(subs[t]) \in 1..Max0
<1>1. subs[t] \in SUBSET Clients
  BY DEF IInv, TypeOK
<1>2. subs[t] # {}
  BY DEF IInv, SubsInv, ControlInv, Types
<1> QED
  BY <1>1, <1>2, ClientSets

LEMMA HoldersAreClients ==
  ASSUME NEW b, NEW t
  PROVE  Holders(b, t) \in SUBSET Clients
BY DEF Holders

(* A buffer none of whose types has a holder is held by nobody.             *)
LEMMA NoHolders ==
  ASSUME NEW b \in Bufs, held[b] \in SUBSET (Clients \X Types),
         \A t \in Types : Holders(b, t) = {}
  PROVE  held[b] = {}
BY DEF Holders

-----------------------------------------------------------------------------
(* The invariant holds initially and every action keeps it.                 *)

LEMMA InitIInv == Init => IInv
<1> SUFFICES ASSUME Init PROVE IInv
  OBVIOUS
<1> USE DEF Init
<1>1. Max0 \in Nat
  BY ClientSets
<1>2. TypeOK
  <2>1. /\ subs \in [Types -> SUBSET Clients]
        /\ held \in [Bufs -> SUBSET (Clients \X Types)]
    BY DEF Clients, Types
  <2>2. /\ refs \in [Types -> [Bufs -> 0..Max0]]
        /\ recordings \in 0..MaxRecordings
    BY <1>1, FrameAssumption
  <2> QED
    BY <2>1, <2>2 DEF TypeOK, Types
<1>3. \A b \in Bufs, t \in Types : Holders(b, t) = {}
  BY DEF Holders
<1>4. CountInv
  BY <1>3, FS_EmptySet, FrameAssumption DEF CountInv, Unsent
<1>5. TypesInv
  BY DEF TypesInv, Types
<1>6. ExclusiveOwnership
  BY FrameAssumption DEF ExclusiveOwnership
<1>7. FreeInv
  BY DEF FreeInv
<1>8. ControlInv /\ SubsInv /\ MaskInv
  BY DEF ControlInv, SubsInv, MaskInv, Types
<1> QED
  BY <1>2, <1>4, <1>5, <1>6, <1>7, <1>8 DEF IInv

(* A callback arrives: the buffer was free, so nobody holds it.             *)
LEMMA FillBufferDoneIInv ==
  ASSUME ~VideoSnapshots, IInv, NEW b \in Bufs, FillBufferDone(b)
  PROVE  IInv'
<1> USE DEF IInv, FillBufferDone, Ready
<1>1. mask' \in {{"PREVIEW"}, {"SNAPSHOT"}} \/ (mask' = {"PREVIEW", "VIDEO"} /\ recording)
  OBVIOUS
<1>2. TypeOK'
  <2>1. fills' \in [Bufs -> Nat]
    BY DEF TypeOK
  <2>2. mainType' \in {"PREVIEW", "SNAPSHOT"} /\ mask' \subseteq Types /\ todo' = mask'
    BY DEF Types
  <2>3. frame' \in Bufs \cup {NoBuf} /\ (frame' = NoBuf <=> pc' = "idle")
    BY FrameAssumption
  <2> QED
    BY <2>1, <2>2, <2>3 DEF TypeOK, ctlVars
<1>3. ControlInv' /\ SubsInv'
  BY DEF ControlInv, SubsInv, ctlVars
<1>4. MaskInv'
  BY <1>1 DEF MaskInv
<1>5. \A x \in Bufs, t \in Types : Holders(x, t)' = Holders(x, t)
  BY DEF Holders
<1>6. frame = NoBuf /\ Free(b) /\ held[b] = {}
  BY DEF TypeOK, Free, ExclusiveOwnership
<1>7. \A t \in Types : Holders(b, t) = {} /\ refs[t][b] = 0 /\ ~Counted(t)'
  BY <1>6 DEF Holders, FreeInv, Counted
<1>8. CountInv'
  BY <1>5, <1>6, <1>7, FrameAssumption DEF CountInv, Unsent
<1>9. TypesInv'
  BY DEF TypesInv
<1>10. ExclusiveOwnership'
  BY <1>6, FrameAssumption DEF ExclusiveOwnership, TypeOK
<1>11. FreeInv'
  BY DEF FreeInv, Free, TypeOK
<1> QED
  BY <1>2, <1>3, <1>4, <1>8, <1>9, <1>10, <1>11

(* One type of the frame is counted: it becomes the number of subscribers.  *)
LEMMA SetInitFrameRefCountIInv ==
  ASSUME IInv, SetInitFrameRefCount
  PROVE  IInv'
<1> PICK t : t = First(todo)
  OBVIOUS
<1> USE DEF IInv, SetInitFrameRefCount, Ready
<1>1. /\ frame \in Bufs /\ t \in todo /\ t \in Types /\ todo \subseteq mask
      /\ mask \subseteq Types
      /\ t = "VIDEO" => recording
      /\ "PREVIEW" \in todo => t = "PREVIEW"
      /\ pc = "count"
  BY DEF TypeOK, MaskInv, First, Types
<1>2. /\ refs' = [refs EXCEPT ![t][frame] = Cardinality(subs[t])]
      /\ UNCHANGED <<fills, subs, held, filling, recording, frame, mask, unsent>>
      /\ \/ pc' = "send" /\ todo = {t} /\ todo' = mask
         \/ pc' = "count" /\ todo # {t} /\ todo' = todo \ {t}
  BY <1>1 DEF Advance
<1>0. /\ TypeOK /\ ControlInv /\ SubsInv /\ MaskInv /\ CountInv
      /\ TypesInv /\ ExclusiveOwnership /\ FreeInv
  OBVIOUS
<1>30. /\ UNCHANGED <<crashed, ctl, toStop, reclaimed, recordings, mainType>>
       /\ videoKeys' \in {videoKeys, videoKeys \cup {frame}}
  BY DEF ctlVars
<1> HIDE DEF IInv, SetInitFrameRefCount, Ready
<1>3. \A u \in Types : Cardinality(subs[u]) \in 0..Max0
  BY <1>0, ClientSets DEF TypeOK
<1>4. TypeOK'
  <2>1. refs' \in [Types -> [Bufs -> 0..Max0]]
    BY <1>0, <1>1, <1>2, <1>3 DEF TypeOK
  <2>2. videoKeys' \subseteq Bufs
    BY <1>0, <1>1, <1>30 DEF TypeOK
  <2>3. pc' \in {"count", "send"} /\ todo' \subseteq mask
    BY <1>0, <1>1, <1>2
  <2>4. frame' # NoBuf /\ pc' # "idle" /\ mask' \subseteq Types
    BY <1>1, <1>2, FrameAssumption
  <2>5. toStop' \subseteq Bufs /\ reclaimed' \subseteq Bufs
    BY <1>0, <1>30 DEF TypeOK
  <2> QED
    BY <1>0, <1>2, <1>30, <2>1, <2>2, <2>3, <2>4, <2>5 DEF TypeOK
<1>5. ControlInv' /\ SubsInv'
  BY <1>0, <1>1, <1>2, <1>30 DEF ControlInv, SubsInv
<1>6. MaskInv'
  BY <1>0, <1>1, <1>2 DEF MaskInv
<1>7. \A x \in Bufs, u \in Types : Holders(x, u)' = Holders(x, u)
  BY <1>2 DEF Holders
<1>8. \A u \in Types : /\ Holders(frame, u) = {}
                       /\ u # t => refs'[u][frame] = refs[u][frame]
                       /\ refs[u][frame] = IF Counted(u) THEN Cardinality(subs[u])
                                                      ELSE 0
  BY <1>0, <1>1, <1>2 DEF CountInv, Unsent, TypeOK
<1>9. \A u \in Types : /\ Counted(u)' <=> Counted(u) \/ u = t
                       /\ Unsent(frame, u)' <=> pc' = "count" \/ u \in mask
  BY <1>0, <1>1, <1>2 DEF Counted, Unsent
<1>20. \A u \in Types :
         refs'[u][frame] = IF Counted(u)' THEN Cardinality(subs[u]) ELSE 0
  <2> SUFFICES ASSUME NEW u \in Types
               PROVE  refs'[u][frame] = IF Counted(u)' THEN Cardinality(subs[u])
                                                       ELSE 0
    OBVIOUS
  <2>1. CASE u = t
    <3>1. refs'[t][frame] = Cardinality(subs[t])
      BY <1>0, <1>1, <1>2 DEF TypeOK
    <3>2. Counted(t)'
      BY <1>1, <1>9
    <3> QED
      BY <2>1, <3>1, <3>2
  <2>2. CASE u # t
    <3>1. Counted(u)' <=> Counted(u)
      BY <2>2, <1>9
    <3>2. refs'[u][frame] = IF Counted(u) THEN Cardinality(subs[u]) ELSE 0
      BY <2>2, <1>8
    <3> QED
      BY <3>1, <3>2
  <2> QED
    BY <2>1, <2>2
<1>10. CountInv'
  <2> SUFFICES ASSUME NEW x \in Bufs, NEW u \in Types
               PROVE  IF Unsent(x, u)'
                      THEN /\ Holders(x, u)' = {}
                           /\ refs'[u][x] = IF Counted(u)' THEN Cardinality(subs'[u])
                                                          ELSE 0
                      ELSE refs'[u][x] = Cardinality(Holders(x, u)')
    BY DEF CountInv
  <2>1. CASE x # frame
    BY <1>0, <2>1, <1>1, <1>2, <1>7 DEF CountInv, Unsent, TypeOK
  <2>2. CASE x = frame /\ Unsent(x, u)'
    <3>1. Holders(x, u)' = Holders(frame, u)
      BY <2>2, <1>7
    <3>2. Holders(x, u)' = {}
      BY <3>1, <1>8
    <3>3. subs'[u] = subs[u]
      BY <1>2
    <3> QED
      BY <2>2, <3>2, <3>3, <1>20
  <2>3. CASE x = frame /\ ~Unsent(x, u)'
    <3>1. ~Counted(u)'
      BY <2>3, <1>2, <1>9 DEF Counted
    <3> QED
      <4>3. Holders(x, u)' = Holders(frame, u)
        BY <2>3, <1>7
      <4>4. Holders(x, u)' = {}
        BY <4>3, <1>8
      <4>1. Cardinality(Holders(x, u)') = 0
        BY <4>4, FS_EmptySet
      <4>2. refs'[u][x] = 0
        BY <3>1, <2>3, <1>20
      <4> QED
        BY <2>3, <4>1, <4>2
  <2> QED
    BY <2>1, <2>2, <2>3
<1>11. TypesInv'
  <2> SUFFICES ASSUME NEW x \in Bufs
               PROVE  /\ refs'["SNAPSHOT"][x] > 0 =>
                           refs'["PREVIEW"][x] = 0 /\ refs'["VIDEO"][x] = 0
                      /\ ~recording => refs'["VIDEO"][x] = 0
    BY <1>0, <1>2 DEF TypesInv
  <2>1. CASE x # frame
    BY <1>0, <2>1, <1>1, <1>2 DEF TypesInv, TypeOK, Types
  <2>2. CASE x = frame
    <3>1. Counted("SNAPSHOT")' => ~Counted("PREVIEW")' /\ ~Counted("VIDEO")'
      BY <1>0, <1>1, <1>2 DEF MaskInv, Counted
    <3>2. ~recording => ~Counted("VIDEO")'
      BY <1>0, <1>1, <1>2 DEF MaskInv, Counted
    <3> QED
      BY <1>0, <2>2, <3>1, <3>2, <1>20 DEF Types
  <2> QED
    BY <2>1, <2>2
<1>12. ExclusiveOwnership'
  BY <1>0, <1>2 DEF ExclusiveOwnership
<1>13. ~Free(frame)
  BY <1>0, <1>1 DEF ExclusiveOwnership, Free
<1>14. FreeInv'
  BY <1>0, <1>1, <1>2, <1>13 DEF FreeInv, Free, TypeOK
<1> QED
  BY <1>4, <1>5, <1>6, <1>10, <1>11, <1>12, <1>14 DEF IInv

(* A frame is sent as one of its types: its subscribers become holders.     *)
LEMMA SendFrameToSubscribersIInv ==
  ASSUME IInv, SendFrameToSubscribers
  PROVE  IInv'
<1> DEFINE t == First(todo)
<1> USE DEF IInv, SendFrameToSubscribers, Ready
<1>1. /\ frame \in Bufs /\ t \in todo /\ t \in Types /\ todo \subseteq mask
      /\ pc = "send"
  BY DEF TypeOK, MaskInv, First, Types
<1> PICK S \in SUBSET subs[t] :
           /\ Cardinality(S) = refs[t][frame]
           /\ held' = [held EXCEPT ![frame] = @ \cup (S \X {t})]
  OBVIOUS
<1>2. /\ UNCHANGED <<fills, refs, subs, filling, recording, mask>>
      /\ \/ pc' = "idle" /\ todo = {t} /\ todo' = {} /\ frame' = NoBuf
         \/ pc' = "send" /\ todo # {t} /\ todo' = todo \ {t} /\ frame' = frame
  BY <1>1 DEF Advance
<1>3. S \subseteq Clients /\ NoBuf \notin Bufs
  BY <1>1, FrameAssumption DEF TypeOK
<1>4. TypeOK'
  <2>1. held' \in [Bufs -> SUBSET (Clients \X Types)]
    BY <1>1, <1>3 DEF TypeOK
  <2>2. /\ pc' \in {"idle", "send"} /\ todo' \subseteq mask
        /\ frame' \in Bufs \cup {NoBuf} /\ (frame' = NoBuf <=> pc' = "idle")
    BY <1>1, <1>2, <1>3
  <2> QED
    BY <1>2, <2>1, <2>2 DEF TypeOK, ctlVars
<1>5. ControlInv' /\ SubsInv'
  BY DEF ControlInv, SubsInv, ctlVars
<1>6. MaskInv'
  BY <1>1, <1>2 DEF MaskInv, First
<1>7. Holders(frame, t) = {}
  BY <1>1 DEF CountInv, Unsent
<1>8. \A x \in Bufs, u \in Types :
        Holders(x, u)' = IF x = frame /\ u = t THEN S ELSE Holders(x, u)
  BY <1>1, <1>3, <1>7 DEF Holders, TypeOK
<1>9. CountInv'
  <2> SUFFICES ASSUME NEW x \in Bufs, NEW u \in Types
               PROVE  IF Unsent(x, u)'
                      THEN /\ Holders(x, u)' = {}
                           /\ refs'[u][x] = IF Counted(u)' THEN Cardinality(subs'[u])
                                                          ELSE 0
                      ELSE refs'[u][x] = Cardinality(Holders(x, u)')
    BY DEF CountInv
  <2>1. CASE x = frame /\ u = t
    BY <2>1, <1>1, <1>2, <1>3, <1>8 DEF Unsent
  <2>2. CASE ~(x = frame /\ u = t)
    BY <2>2, <1>1, <1>2, <1>3, <1>8 DEF CountInv, Unsent, Counted
  <2> QED
    BY <2>1, <2>2
<1>10. TypesInv'
  BY <1>2 DEF TypesInv
<1>11. ~Free(frame)
  BY <1>1 DEF ExclusiveOwnership, Free
<1>12. ExclusiveOwnership' /\ FreeInv'
  BY <1>1, <1>2, <1>3, <1>11 DEF ExclusiveOwnership, FreeInv, Free, TypeOK
<1> QED
  BY <1>4, <1>5, <1>6, <1>9, <1>10, <1>12

(* Sending never fails: every type of the frame has a subscriber.           *)
LEMMA SendFrameNeverFails == IInv => ~SendFrameFails /\ ~ReturnUnsentFrame
<1> SUFFICES ASSUME IInv, pc = "send" PROVE ~SendFrameFails
  BY DEF IInv, MaskInv, SendFrameFails, ReturnUnsentFrame
<1> DEFINE t == First(todo)
<1>1. /\ frame \in Bufs /\ t \in todo /\ t \in mask /\ t \in Types
      /\ t = "VIDEO" => recording
  BY DEF IInv, TypeOK, MaskInv, First, Types
<1>2. refs[t][frame] = Cardinality(subs[t])
  BY <1>1 DEF IInv, CountInv, Unsent, Counted
<1>3. Cardinality(subs[t]) \in 1..Max0 /\ Max0 \in Nat
  BY <1>1, SubscribedTypes, ClientSets
<1>4. ~Missing(t, frame)
  BY <1>1 DEF IInv, ControlInv, Missing
<1> QED
  BY <1>2, <1>3, <1>4 DEF SendFrameFails

(* A client returns a frame.  It holds the frame, so its count is above     *)
(* zero and the buffer is not free; when the last count is gone, so is the  *)
(* last holder.                                                             *)
LEMMA ReturnFrameIInv ==
  ASSUME IInv, NEW c \in Clients, NEW t \in Types, NEW b \in Bufs,
         ReturnFrame(c, t, b)
  PROVE  IInv'
<1>1. /\ TypeOK /\ ControlInv /\ SubsInv /\ MaskInv /\ CountInv
      /\ TypesInv /\ ExclusiveOwnership /\ FreeInv
  BY DEF IInv
<1>2. /\ <<c, t>> \in held[b] /\ ReturnRef(c, b, t)
      /\ held' = [held EXCEPT ![b] = @ \ {<<c, t>>}]
      /\ UNCHANGED <<pc, frame, mainType, mask, todo, unsent, ctl, toStop, recordings,
                     reclaimed>>
      /\ filling[c] = NoBuf
  BY DEF ReturnFrame, Ready, cbVars, ctlVars
<1>3. c \in Holders(b, t)
  BY <1>2 DEF Holders
<1>4. Cardinality(Holders(b, t)) \in 1..Max0 /\ Max0 \in Nat
  BY <1>3, ClientSets, HoldersAreClients
<1>5. ~Unsent(b, t) /\ refs[t][b] = Cardinality(Holders(b, t))
  BY <1>1, <1>3 DEF CountInv
<1>6. refs[t][b] > 0 /\ ~Free(b)
  BY <1>1, <1>4, <1>5 DEF FreeInv
<1>7. ~Missing(t, b) /\ \A p \in Partners(t) : ~Missing(p, b)
  BY <1>1, <1>6 DEF Missing, Partners, ControlInv, TypesInv
<1>8. /\ refs' = [refs EXCEPT ![t][b] = @ - 1]
      /\ filling' = [filling EXCEPT ![c] =
                       IF refs[t][b] = 1 /\ \A p \in Partners(t) : refs[p][b] = 0
                       THEN b ELSE NoBuf]
      /\ UNCHANGED <<fills, videoKeys, subs, recording, crashed>>
  BY <1>2, <1>6, <1>7 DEF ReturnRef
<1>9. /\ refs'[t][b] = Cardinality(Holders(b, t)) - 1
      /\ \A x \in Bufs, u \in Types :
           ~(x = b /\ u = t) => refs'[u][x] = refs[u][x]
  BY <1>1, <1>5, <1>8 DEF TypeOK
<1>10. /\ Holders(b, t)' = Holders(b, t) \ {c}
       /\ \A x \in Bufs, u \in Types :
            ~(x = b /\ u = t) => Holders(x, u)' = Holders(x, u)
  BY <1>1, <1>2 DEF Holders, TypeOK
<1>11. TypeOK'
  <2>1. refs' \in [Types -> [Bufs -> 0..Max0]]
    BY <1>1, <1>4, <1>6, <1>8 DEF TypeOK
  <2>2. held' \in [Bufs -> SUBSET (Clients \X Types)]
    BY <1>1, <1>2 DEF TypeOK
  <2>3. filling' \in [Threads -> Bufs \cup {NoBuf}]
    BY <1>1, <1>8 DEF TypeOK
  <2> QED
    BY <1>1, <1>2, <1>8, <2>1, <2>2, <2>3 DEF TypeOK
<1>12. ControlInv' /\ SubsInv' /\ MaskInv'
  BY <1>1, <1>2, <1>8 DEF ControlInv, SubsInv, MaskInv
<1>13. CountInv'
  <2> SUFFICES ASSUME NEW x \in Bufs, NEW u \in Types
               PROVE  IF Unsent(x, u)'
                      THEN /\ Holders(x, u)' = {}
                           /\ refs'[u][x] = IF Counted(u)' THEN Cardinality(subs'[u])
                                                          ELSE 0
                      ELSE refs'[u][x] = Cardinality(Holders(x, u)')
    BY DEF CountInv
  <2>1. (Unsent(x, u)' <=> Unsent(x, u)) /\ (Counted(u)' <=> Counted(u))
    BY <1>2 DEF Unsent, Counted
  <2>2. CASE x = b /\ u = t
    <3>1. Cardinality(Holders(b, t) \ {c}) = Cardinality(Holders(b, t)) - 1
      BY <1>3, HoldersAreClients, OneHolderLess
    <3> QED
      BY <1>5, <1>9, <1>10, <2>1, <2>2, <3>1
  <2>3. CASE ~(x = b /\ u = t)
    <3>1. Holders(x, u)' = Holders(x, u) /\ refs'[u][x] = refs[u][x] /\ subs' = subs
      BY <1>8, <1>9, <1>10, <2>3
    <3> QED
      BY <1>1, <2>1, <3>1 DEF CountInv
  <2> QED
    BY <2>2, <2>3
<1>14. TypesInv'
  <2>1. \A x \in Bufs, u \in Types : refs[u][x] = 0 => refs'[u][x] = 0
    BY <1>6, <1>9
  <2>2. \A x \in Bufs, u \in Types : refs'[u][x] \in Nat /\ refs[u][x] \in Nat
    BY <1>1, <1>4, <1>11 DEF TypeOK
  <2> QED
    BY <1>1, <1>8, <2>1, <2>2 DEF TypesInv, Types
<1>15. ASSUME filling'[c] = b
       PROVE  /\ \A u \in Types : refs'[u][b] = 0
              /\ b # frame /\ held'[b] = {}
  <2>1. refs[t][b] = 1 /\ \A p \in Partners(t) : refs[p][b] = 0
    BY <1>1, <1>8, <1>15, FrameAssumption DEF TypeOK, Threads
  <2>2. \A u \in Types : u # t => refs[u][b] = 0
    BY <1>1, <1>4, <2>1 DEF TypesInv, TypeOK, Partners, Types
  <2>3. \A u \in Types : refs'[u][b] = 0
    BY <1>5, <1>9, <2>1, <2>2
  <2>4. b # frame
    <3> SUFFICES ASSUME b = frame PROVE FALSE
      OBVIOUS
    <3>1. pc = "send" /\ todo # {} /\ todo \subseteq mask /\ mask \subseteq Types
      BY <1>1, <1>5, FrameAssumption DEF MaskInv, TypeOK, Unsent
    <3>2. PICK u \in todo : TRUE
      BY <3>1
    <3>3. /\ u \in Types /\ u # t /\ (u = "VIDEO" => recording)
          /\ Unsent(b, u) /\ Counted(u)
      BY <1>1, <1>5, <3>1 DEF Unsent, Counted, MaskInv
    <3>4. refs[u][b] = Cardinality(subs[u])
      BY <1>1, <3>3 DEF CountInv
    <3>5. Cardinality(subs[u]) \in 1..Max0
      BY <3>3, SubscribedTypes
    <3> QED
      BY <2>2, <3>3, <3>4, <3>5, <1>4
  <2>5. \A u \in Types : Holders(b, u)' = {}
    <3> SUFFICES ASSUME NEW u \in Types PROVE Holders(b, u)' = {}
      OBVIOUS
    <3>1. ~Unsent(b, u)'
      BY <1>2, <2>4 DEF Unsent
    <3>2. Cardinality(Holders(b, u)') = 0
      BY <1>13, <2>3, <3>1 DEF CountInv
    <3>3. Holders(b, u)' \in SUBSET Clients
      BY DEF Holders
    <3> QED
      BY <3>2, <3>3, ClientSets
  <2>6. held'[b] = {}
    BY <1>11, <2>5 DEF TypeOK, Holders
  <2> QED
    BY <2>3, <2>4, <2>6
<1>16. \A x \in Bufs : held'[x] \subseteq held[x] /\ (x # b => held'[x] = held[x])
  BY <1>1, <1>2 DEF TypeOK
<1>17. /\ \A u \in Threads : u # c => filling'[u] = filling[u]
       /\ filling'[c] \in {b, NoBuf} /\ c \in Threads
  BY <1>1, <1>8 DEF TypeOK, Threads
<1>18. ExclusiveOwnership'
  BY <1>1, <1>2, <1>6, <1>8, <1>15, <1>16, <1>17, FrameAssumption
     DEF ExclusiveOwnership, Free, TypeOK
<1>19. FreeInv'
  <2> SUFFICES ASSUME NEW x \in Bufs, Free(x)' PROVE \A u \in Types : refs'[u][x] = 0
    BY DEF FreeInv
  <2>1. Free(x) \/ (x = b /\ filling'[c] = b)
    BY <1>8, <1>17, FrameAssumption DEF Free
  <2> QED
    BY <1>1, <1>6, <1>9, <1>15, <2>1 DEF FreeInv
<1> QED
  BY <1>11, <1>12, <1>13, <1>14, <1>18, <1>19 DEF IInv

(* A buffer that is queued was free, and still is.                          *)
LEMMA FillThisBufferIInv ==
  ASSUME IInv, NEW thread \in Threads, FillThisBuffer(thread)
  PROVE  IInv'
<1>1. /\ TypeOK /\ ControlInv /\ SubsInv /\ MaskInv /\ CountInv
      /\ TypesInv /\ ExclusiveOwnership /\ FreeInv
  BY DEF IInv
<1> PICK b : b = filling[thread]
  OBVIOUS
<1>2. /\ b \in Bufs /\ b # NoBuf
      /\ fills' = [fills EXCEPT ![b] = @ + 1]
      /\ filling' = [filling EXCEPT ![thread] = NoBuf]
      /\ UNCHANGED <<refs, videoKeys, subs, held, recording, crashed, reclaimed>>
      /\ UNCHANGED <<cbVars, ctlVars>>
  BY <1>1 DEF FillThisBuffer, TypeOK
<1>3. /\ fills[b] = 0 /\ Free(b)
      /\ \A u \in Threads : u # thread => filling[u] # b
      /\ held[b] = {} /\ frame # b
  BY <1>1, <1>2 DEF ExclusiveOwnership, Free
<1>4. /\ fills'[b] = 1 /\ \A x \in Bufs : x # b => fills'[x] = fills[x]
      /\ filling'[thread] = NoBuf
      /\ \A u \in Threads : u # thread => filling'[u] = filling[u]
  BY <1>1, <1>2, <1>3 DEF TypeOK
<1>5. TypeOK'
  <2>1. fills' \in [Bufs -> Nat] /\ filling' \in [Threads -> Bufs \cup {NoBuf}]
    BY <1>1, <1>2 DEF TypeOK
  <2> QED
    BY <1>1, <1>2, <2>1 DEF TypeOK, cbVars, ctlVars
<1>6. ControlInv' /\ SubsInv' /\ MaskInv' /\ TypesInv'
  BY <1>1, <1>2 DEF ControlInv, SubsInv, MaskInv, TypesInv, cbVars, ctlVars
<1>7. CountInv'
  BY <1>1, <1>2 DEF CountInv, Unsent, Counted, Holders, cbVars
<1>8. \A x \in Bufs : Free(x)' <=> Free(x)
  BY <1>2, <1>3, <1>4, FrameAssumption DEF Free
<1>9. FreeInv'
  BY <1>1, <1>2, <1>8 DEF FreeInv
<1>10. ExclusiveOwnership'
  BY <1>1, <1>2, <1>3, <1>4, FrameAssumption DEF ExclusiveOwnership, cbVars
<1> QED
  BY <1>5, <1>6, <1>7, <1>9, <1>10 DEF IInv

(* Subscriptions change only while no frame is being delivered.             *)
LEMMA SubscriptionIInv ==
  ASSUME IInv, ~SubscribersLocked, subs' \in [Types -> SUBSET Clients],
         SubsInv',
         ctl' \in {"idle", "start", "recording"},
         recording <=> ctl' = "recording", recordings' \in 0..MaxRecordings,
         UNCHANGED <<fills, refs, videoKeys, held, filling, recording, cbVars,
                     toStop, reclaimed, crashed>>
  PROVE  IInv'
<1>1. /\ TypeOK /\ ControlInv /\ SubsInv /\ MaskInv /\ CountInv
      /\ TypesInv /\ ExclusiveOwnership /\ FreeInv
  BY DEF IInv
<1>2. TypeOK' /\ ControlInv' /\ MaskInv'
  BY <1>1 DEF TypeOK, ControlInv, MaskInv, cbVars
<1>3. TypesInv' /\ ExclusiveOwnership' /\ FreeInv'
  BY <1>1 DEF TypesInv, ExclusiveOwnership, FreeInv, Free, cbVars
<1>4. CountInv'
  <2> SUFFICES ASSUME NEW x \in Bufs, NEW u \in Types
               PROVE  IF Unsent(x, u)'
                      THEN /\ Holders(x, u)' = {}
                           /\ refs'[u][x] = IF Counted(u)' THEN Cardinality(subs'[u])
                                                          ELSE 0
                      ELSE refs'[u][x] = Cardinality(Holders(x, u)')
    BY DEF CountInv
  <2>1. (Unsent(x, u)' <=> Unsent(x, u)) /\ (Counted(u)' <=> Counted(u))
    BY DEF Unsent, Counted, cbVars
  <2>2. Unsent(x, u) => ~Counted(u)
    BY <1>1, FrameAssumption
       DEF Unsent, Counted, SubscribersLocked, TypeOK, MaskInv
  <2>3. Holders(x, u)' = Holders(x, u)
    BY DEF Holders
  <2> QED
    BY <1>1, <2>1, <2>2, <2>3 DEF CountInv
<1> QED
  BY <1>1, <1>2, <1>3, <1>4 DEF IInv

LEMMA MsgTypeIInv ==
  ASSUME IInv, NEW c \in Apps, NEW t \in {"PREVIEW", "SNAPSHOT"},
         EnableMsgType(c, t) \/ DisableMsgType(c, t)
  PROVE  IInv'
<1>1. TypeOK /\ ControlInv /\ SubsInv
  BY DEF IInv
<1>2. /\ ~SubscribersLocked
      /\ UNCHANGED <<fills, refs, videoKeys, held, filling, recording, cbVars,
                     ctlVars, reclaimed, crashed>>
      /\ \/ subs' = [subs EXCEPT ![t] = @ \cup {c}]
         \/ subs' = [subs EXCEPT ![t] = @ \ {c}]
  BY DEF EnableMsgType, DisableMsgType
<1>3. c \in Clients /\ c # Display /\ t \in Types
  BY FrameAssumption DEF Clients, Types
<1>4. subs' \in [Types -> SUBSET Clients]
  BY <1>1, <1>2, <1>3 DEF TypeOK
<1>5. SubsInv'
  BY <1>1, <1>2, <1>3 DEF SubsInv, TypeOK, ctlVars, Types
<1>6. /\ UNCHANGED <<toStop, ctl, recordings>>
      /\ ctl \in {"idle", "start", "recording"}
      /\ recording <=> ctl = "recording"
      /\ recordings \in 0..MaxRecordings
  BY <1>1, <1>2 DEF ctlVars, ControlInv, TypeOK
<1> QED
  BY <1>2, <1>4, <1>5, <1>6, SubscriptionIInv

LEMMA SubscribeVideoIInv ==
  ASSUME IInv, SubscribeVideo
  PROVE  IInv'
<1>1. TypeOK /\ ControlInv /\ SubsInv
  BY DEF IInv
<1>2. subs' \in [Types -> SUBSET Clients]
  BY <1>1 DEF SubscribeVideo, TypeOK, Clients
<1>3. SubsInv'
  BY <1>1 DEF SubscribeVideo, SubsInv, TypeOK, Types
<1>4. ctl' = "start" /\ ~recording /\ recordings' \in 0..MaxRecordings
  BY <1>1, FrameAssumption DEF SubscribeVideo, ControlInv, TypeOK
<1> QED
  BY <1>2, <1>3, <1>4, SubscriptionIInv DEF SubscribeVideo

(* The counts a recording starts with are the ones there are: zero.         *)
LEMMA StartVideoCaptureIInv ==
  ASSUME IInv, StartVideoCapture
  PROVE  IInv'
<1>1. /\ TypeOK /\ ControlInv /\ SubsInv /\ MaskInv /\ CountInv
      /\ TypesInv /\ ExclusiveOwnership /\ FreeInv
  BY DEF IInv
<1>2. ~recording /\ \A b \in Bufs : refs["VIDEO"][b] = 0
  BY <1>1 DEF StartVideoCapture, ControlInv, TypesInv
<1>3. refs' = refs
  <2>1. refs["VIDEO"] = [b \in Bufs |-> 0]
    BY <1>1, <1>2 DEF TypeOK, Types
  <2> QED
    BY <1>1, <2>1 DEF StartVideoCapture, TypeOK
<1>4. /\ UNCHANGED <<fills, subs, held, filling, cbVars, toStop, recordings,
                     reclaimed, crashed>>
      /\ ctl' = "recording" /\ ctl = "start" /\ recording' = TRUE /\ videoKeys' = Bufs
  BY DEF StartVideoCapture
<1>5. TypeOK' /\ ControlInv' /\ SubsInv'
  BY <1>1, <1>3, <1>4 DEF TypeOK, ControlInv, SubsInv, cbVars
<1>6. MaskInv'
  BY <1>1, <1>2, <1>4 DEF MaskInv, cbVars
<1>7. CountInv'
  BY <1>1, <1>3, <1>4 DEF CountInv, Unsent, Counted, Holders, cbVars
<1>8. TypesInv' /\ ExclusiveOwnership' /\ FreeInv'
  BY <1>1, <1>3, <1>4 DEF TypesInv, ExclusiveOwnership, FreeInv, Free, cbVars
<1> QED
  BY <1>5, <1>6, <1>7, <1>8 DEF IInv

LEMMA StutterIInv ==
  ASSUME IInv, UNCHANGED vars
  PROVE  IInv'
<1>1. TypeOK' /\ ControlInv' /\ SubsInv' /\ MaskInv'
  BY DEF IInv, vars, cbVars, ctlVars, TypeOK, ControlInv, SubsInv, MaskInv
<1>2. TypesInv' /\ ExclusiveOwnership' /\ FreeInv'
  BY DEF IInv, vars, cbVars, TypesInv, ExclusiveOwnership, FreeInv, Free
<1>3. CountInv'
  BY DEF IInv, vars, cbVars, CountInv, Unsent, Counted, Holders
<1> QED
  BY <1>1, <1>2, <1>3 DEF IInv

-----------------------------------------------------------------------------
(* What never happens, and the theorems                                     *)

(* Until a recording is stopped nothing is taken back, and sending never    *)
(* fails.                                                                   *)
LEMMA NeverEnabled ==
  ASSUME IInv
  PROVE  /\ ~SendFrameFails /\ ~ReturnUnsentFrame
         /\ ~StopVideoClear /\ ~StopVideoDone
         /\ \A b \in Bufs :
              ~StopVideoReturn(b) /\ ~LateRelease(b) /\ ~ReleaseUnmapped(b)
<1>1. ~SendFrameFails /\ ~ReturnUnsentFrame
  BY SendFrameNeverFails
<1>2. ~StopVideoClear /\ ~StopVideoDone
  BY DEF IInv, ControlInv, StopVideoClear, StopVideoDone
<1>3. \A b \in Bufs :
        ~StopVideoReturn(b) /\ ~LateRelease(b) /\ ~ReleaseUnmapped(b)
  BY DEF IInv, ControlInv, StopVideoReturn, LateRelease, ReleaseUnmapped
<1> QED
  BY <1>1, <1>2, <1>3

(* The steps that are left.                                                 *)
LEMMA StepsBeforeAStop ==
  ASSUME IInv, Next, ~UnsubscribeVideo
  PROVE  \/ \E b \in Bufs : FillBufferDone(b)
         \/ SetInitFrameRefCount \/ SendFrameToSubscribers
         \/ \E c \in Clients, t \in Types, b \in Bufs : ReturnFrame(c, t, b)
         \/ \E thread \in Threads : FillThisBuffer(thread)
         \/ SubscribeVideo \/ StartVideoCapture
         \/ \E c \in Apps, t \in {"PREVIEW", "SNAPSHOT"} :
              EnableMsgType(c, t) \/ DisableMsgType(c, t)
BY NeverEnabled DEF Next, OmxStep, ControlStep, ClientStep, Threads

LEMMA NextIInv ==
  ASSUME ~VideoSnapshots, ~UnsubscribeVideo, IInv, [Next]_vars
  PROVE  IInv'
<1>1. CASE UNCHANGED vars
  BY <1>1, StutterIInv
<1>2. CASE Next
  BY <1>2, StepsBeforeAStop, FillBufferDoneIInv, SetInitFrameRefCountIInv,
     SendFrameToSubscribersIInv, ReturnFrameIInv, FillThisBufferIInv,
     SubscribeVideoIInv, StartVideoCaptureIInv, MsgTypeIInv
<1> QED
  BY <1>1, <1>2

(* The counts, the holders and the queue of the component agree in every    *)
(* state: setInitFrameRefCount(), __sendFrameToSubscribers(), returnFrame() *)
(* and fillThisBuffer() under any interleaving.                             *)
THEOREM Invariance ==
  ASSUME Undisturbed
  PROVE  Spec => []IInv
<1>1. Init => IInv
  BY InitIInv
<1>2. IInv /\ [Next]_vars => IInv'
  BY NextIInv DEF Undisturbed, UnsubscribeVideo
<1> QED
  BY <1>1, <1>2, PTL DEF Spec

(* A buffer that is at the component or on its way there is with nobody     *)
(* else, and never queued twice (returnFrame(), fillThisBuffer()).          *)
THEOREM BuffersExclusive ==
  ASSUME Undisturbed
  PROVE  Spec => []ExclusiveOwnership
<1>1. IInv => ExclusiveOwnership
  BY DEF IInv
<1> QED
  BY <1>1, Invariance, PTL

(* The count of a frame that is out is the number of clients that have it   *)
(* (setInitFrameRefCount(), returnFrame()).                                 *)
THEOREM CountsExact ==
  ASSUME Undisturbed
  PROVE  Spec => []RefsCountHolders
<1>1. IInv => RefsCountHolders
  BY DEF IInv, CountInv, Unsent, RefsCountHolders
<1> QED
  BY <1>1, Invariance, PTL

(* "check if someone is holding this buffer" finds nobody holding it        *)
(* (BaseCameraAdapter.cpp:387), while the recording is not stopped and no   *)
(* snapshot is taken in it.                                                 *)
THEOREM FilledBuffersAreFree ==
  ASSUME Undisturbed
  PROVE  Spec => []NobodyHoldsAFilledBuffer
<1>1. IInv => NobodyHoldsAFilledBuffer
  BY DEF IInv, TypeOK, ExclusiveOwnership, NobodyHoldsAFilledBuffer
<1> QED
  BY <1>1, Invariance, PTL

-----------------------------------------------------------------------------
(* No buffer is lost                                                        *)

(* A buffer that is neither free nor being delivered has a count that its   *)
(* last holder will bring to zero.                                          *)
KeptInv ==
  \A b \in Bufs : Free(b) \/ b = frame \/ \E t \in Types : refs[t][b] > 0

LEMMA KeptStep ==
  ASSUME ~VideoSnapshots, ~UnsubscribeVideo, IInv, KeptInv, [Next]_vars
  PROVE  KeptInv'
<1>1. TypeOK /\ ControlInv /\ MaskInv /\ CountInv /\ TypesInv /\ ExclusiveOwnership
  BY DEF IInv
<1>2. ASSUME UNCHANGED <<fills, filling, refs, frame>>
      PROVE  KeptInv'
  BY <1>2 DEF KeptInv, Free
<1>3. ASSUME NEW b \in Bufs, FillBufferDone(b)
      PROVE  KeptInv'
  <2>1. /\ refs' = refs /\ filling' = filling /\ frame' = b /\ frame = NoBuf
        /\ \A x \in Bufs : x # b => fills'[x] = fills[x]
    BY <1>1, <1>3 DEF FillBufferDone, TypeOK
  <2> QED
    BY <2>1, FrameAssumption DEF KeptInv, Free
<1>4. ASSUME SetInitFrameRefCount
      PROVE  KeptInv'
  <2> PICK t : t = First(todo)
    OBVIOUS
  <2>1. t \in Types /\ frame \in Bufs
    BY <1>1, <1>4 DEF SetInitFrameRefCount, First, TypeOK, MaskInv, Types
  <2>2. /\ refs' = [refs EXCEPT ![t][frame] = Cardinality(subs[t])]
        /\ UNCHANGED <<fills, filling, frame>>
    BY <1>4 DEF SetInitFrameRefCount
  <2> QED
    BY <1>1, <2>1, <2>2 DEF KeptInv, Free, TypeOK
<1>5. ASSUME SendFrameToSubscribers
      PROVE  KeptInv'
  <2> PICK t : t = First(todo)
    OBVIOUS
  <2>1. t \in Types /\ refs[t][frame] > 0
    BY <1>1, <1>5 DEF SendFrameToSubscribers, First, TypeOK, MaskInv, Types
  <2>2. UNCHANGED <<fills, filling, refs>> /\ frame' \in {frame, NoBuf}
    BY <1>5 DEF SendFrameToSubscribers
  <2> QED
    BY <2>1, <2>2, FrameAssumption DEF KeptInv, Free
<1>6. ASSUME NEW c \in Clients, NEW t \in Types, NEW b \in Bufs, ReturnFrame(c, t, b)
      PROVE  KeptInv'
  <2>1. c \in Holders(b, t)
    BY <1>6 DEF ReturnFrame, Holders
  <2>2. refs[t][b] > 0
    <3>1. refs[t][b] = Cardinality(Holders(b, t))
      BY <1>1, <2>1 DEF CountInv
    <3> QED
      BY <2>1, <3>1, HoldersAreClients, ClientSets
  <2>3. ~Missing(t, b) /\ \A p \in Partners(t) : ~Missing(p, b)
    BY <1>1, <2>2 DEF Missing, Partners, ControlInv, TypesInv
  <2>4. /\ refs' = [refs EXCEPT ![t][b] = @ - 1]
        /\ filling' = [filling EXCEPT ![c] =
                         IF refs[t][b] = 1 /\ \A p \in Partners(t) : refs[p][b] = 0
                         THEN b ELSE NoBuf]
        /\ UNCHANGED <<fills, frame>> /\ filling[c] = NoBuf
    BY <1>6, <2>2, <2>3 DEF ReturnFrame, ReturnRef, Ready, cbVars
  <2>5. c \in Threads /\ \A u \in Threads : u # c => filling'[u] = filling[u]
    BY <1>1, <2>4 DEF TypeOK, Threads
  <2>6. ASSUME NEW x \in Bufs, x # b
        PROVE  Free(x)' \/ x = frame' \/ \E u \in Types : refs'[u][x] > 0
    BY <1>1, <2>4, <2>5, <2>6, FrameAssumption DEF KeptInv, Free, TypeOK
  <2>7. Free(b)' \/ \E u \in Types : refs'[u][b] > 0
    <3>1. CASE refs[t][b] = 1 /\ \A p \in Partners(t) : refs[p][b] = 0
      BY <1>1, <2>4, <2>5, <3>1 DEF Free, TypeOK
    <3>2. CASE refs[t][b] # 1
      <4>1. refs'[t][b] > 0
        BY <1>1, <2>2, <2>4, <3>2, ClientSets DEF TypeOK
      <4> QED
        BY <4>1
    <3>3. CASE \E p \in Partners(t) : refs[p][b] # 0
      <4>1. PICK p \in Types : p # t /\ refs[p][b] # 0
        BY <3>3 DEF Partners, Types
      <4>2. refs'[p][b] > 0
        BY <1>1, <2>4, <4>1, ClientSets DEF TypeOK
      <4> QED
        BY <4>2
    <3> QED
      BY <3>1, <3>2, <3>3
  <2> QED
    BY <2>6, <2>7 DEF KeptInv
<1>7. ASSUME NEW thread \in Threads, FillThisBuffer(thread)
      PROVE  KeptInv'
  <2>1. \A x \in Bufs : Free(x) => Free(x)'
    BY <1>1, <1>7 DEF FillThisBuffer, Free, TypeOK
  <2> QED
    BY <1>7, <2>1 DEF FillThisBuffer, cbVars, KeptInv
<1>8. ASSUME StartVideoCapture
      PROVE  KeptInv'
  <2>1. ~recording /\ \A b \in Bufs : refs["VIDEO"][b] = 0
    BY <1>1, <1>8 DEF StartVideoCapture, ControlInv, TypesInv
  <2>2. \A b \in Bufs, t \in Types : refs'[t][b] = refs[t][b]
    BY <1>1, <1>8, <2>1 DEF StartVideoCapture, TypeOK
  <2> QED
    BY <1>8, <2>2 DEF StartVideoCapture, cbVars, KeptInv, Free
<1>9. CASE UNCHANGED vars
  BY <1>2, <1>9 DEF vars, cbVars
<1>10. CASE SubscribeVideo \/ \E c \in Apps, t \in {"PREVIEW", "SNAPSHOT"} :
                                EnableMsgType(c, t) \/ DisableMsgType(c, t)
  BY <1>2, <1>10 DEF SubscribeVideo, EnableMsgType, DisableMsgType, cbVars
<1> QED
  BY <1>3, <1>4, <1>5, <1>6, <1>7, <1>8, <1>9, <1>10, StepsBeforeAStop

(* Every buffer is at the component, on its way there, being delivered or   *)
(* with a client that will return it: returnFrame() loses none.             *)
THEOREM BuffersKept ==
  ASSUME Undisturbed
  PROVE  Spec => []NoBufferLost
<1>1. Init => KeptInv
  BY DEF Init, KeptInv, Free
<1>2. IInv /\ KeptInv /\ [Next]_vars => KeptInv'
  BY KeptStep DEF Undisturbed, UnsubscribeVideo
<1>3. IInv /\ KeptInv => NoBufferLost
  <2> SUFFICES ASSUME IInv, KeptInv, NEW b \in Bufs, ~Free(b), b # frame
               PROVE  held[b] # {}
    BY DEF NoBufferLost, Free
  <2>1. PICK t \in Types : refs[t][b] > 0
    BY DEF KeptInv
  <2>2. refs[t][b] = Cardinality(Holders(b, t))
    BY DEF IInv, CountInv, Unsent
  <2>3. Holders(b, t) # {}
    BY <2>1, <2>2, FS_EmptySet
  <2> QED
    BY <2>3 DEF Holders
<1> QED
  BY <1>1, <1>2, <1>3, Invariance, PTL DEF Spec

-----------------------------------------------------------------------------
(* The reference counts implement the loan                                  *)

LEMMA LoanStep ==
  ASSUME ~UnsubscribeVideo, IInv, [Next]_vars
  PROVE  [Loan!Next]_<<{b \in Bufs : fills[b] > 0}, held>>
<1> DEFINE component == {b \in Bufs : fills[b] > 0}
<1>1. TypeOK /\ ExclusiveOwnership
  BY DEF IInv
<1>2. ASSUME UNCHANGED <<fills, held>>
      PROVE  UNCHANGED <<component, held>>
  BY <1>2
<1>3. ASSUME NEW b \in Bufs, FillBufferDone(b)
      PROVE  Loan!Take(b)
  BY <1>1, <1>3 DEF FillBufferDone, TypeOK, ExclusiveOwnership, Loan!Take
<1>4. ASSUME SendFrameToSubscribers
      PROVE  \E b \in Bufs, hs \in SUBSET (Clients \X Types) : Loan!Lend(b, hs)
  <2> PICK t : t = First(todo)
    OBVIOUS
  <2> PICK b : b = frame
    OBVIOUS
  <2>1. t \in Types /\ b \in Bufs
    BY <1>4 DEF IInv, SendFrameToSubscribers, First, TypeOK, MaskInv, Types
  <2>2. PICK S \in SUBSET subs[t] : held' = [held EXCEPT ![b] = @ \cup (S \X {t})]
    BY <1>4 DEF SendFrameToSubscribers
  <2>3. S \X {t} \in SUBSET (Clients \X Types)
    BY <1>1, <2>1, <2>2 DEF TypeOK
  <2>4. b \notin component /\ component' = component
    BY <1>1, <1>4, <2>1 DEF ExclusiveOwnership, SendFrameToSubscribers
  <2> QED
    BY <2>1, <2>2, <2>3, <2>4 DEF Loan!Lend
<1>5. ASSUME NEW c \in Clients, NEW t \in Types, NEW b \in Bufs, ReturnFrame(c, t, b)
      PROVE  Loan!Release(b, <<c, t>>)
  <2>1. fills' = fills
    BY <1>5 DEF ReturnFrame, ReturnRef, Crash
  <2> QED
    BY <1>5, <2>1 DEF ReturnFrame, Loan!Release
<1>6. ASSUME NEW thread \in Threads, FillThisBuffer(thread)
      PROVE  \E b \in Bufs : Loan!Refill(b)
  <2> PICK b : b = filling[thread]
    OBVIOUS
  <2>1. b \in Bufs /\ fills' = [fills EXCEPT ![b] = @ + 1] /\ held' = held
    BY <1>1, <1>6 DEF FillThisBuffer, TypeOK
  <2>2. fills[b] = 0 /\ held[b] = {}
    BY <1>1, <2>1 DEF ExclusiveOwnership
  <2>3. component' = component \cup {b}
    BY <1>1, <2>1, <2>2 DEF TypeOK
  <2> QED
    BY <2>1, <2>2, <2>3 DEF Loan!Refill
<1>7. CASE UNCHANGED vars
  BY <1>2, <1>7 DEF vars
<1>8. CASE \/ SetInitFrameRefCount \/ SubscribeVideo \/ StartVideoCapture
           \/ \E c \in Apps, t \in {"PREVIEW", "SNAPSHOT"} :
                EnableMsgType(c, t) \/ DisableMsgType(c, t)
  BY <1>2, <1>8 DEF SetInitFrameRefCount, SubscribeVideo, StartVideoCapture,
                    EnableMsgType, DisableMsgType
<1> QED
  <2>1. CASE \E b \in Bufs : FillBufferDone(b)
    BY <1>3, <2>1 DEF Loan!Next
  <2>2. CASE SendFrameToSubscribers
    BY <1>4, <2>2 DEF Loan!Next
  <2>3. CASE \E c \in Clients, t \in Types, b \in Bufs : ReturnFrame(c, t, b)
    BY <1>5, <2>3 DEF Loan!Next
  <2>4. CASE \E thread \in Threads : FillThisBuffer(thread)
    BY <1>6, <2>4 DEF Loan!Next
  <2>5. CASE Next
    BY <1>8, <2>1, <2>2, <2>3, <2>4, <2>5, StepsBeforeAStop
  <2> QED
    BY <1>7, <2>5

(* What the clients and the component see is a loan of buffers: handed out  *)
(* only from the component, queued again only when every hold is released   *)
(* (FillBufferDone, sendCallBacks(), returnFrame(), fillThisBuffer()).      *)
THEOREM Implementation ==
  ASSUME Undisturbed
  PROVE  Spec => ImplementsLoan
<1>1. Init => Loan!Init
  BY DEF Init, Loan!Init
<1>2. IInv /\ [Next]_vars => [Loan!Next]_<<{b \in Bufs : fills[b] > 0}, held>>
  BY LoanStep DEF Undisturbed, UnsubscribeVideo
<1> QED
  BY <1>1, <1>2, Invariance, PTL DEF Spec, ImplementsLoan, Loan!Spec
-----------------------------------------------------------------------------
(* Whatever is stopped, taken and subscribed: the types and the video       *)
(* counts                                                                   *)

TypeInv == /\ TypeOK
           /\ pc \in {"count", "send"} => todo # {} /\ mainType \in mask

(* At most one reference to a video frame is ever out, that of the encoder; *)
(* what the first stopVideoCapture() has taken back has none, and later a   *)
(* reference belongs to a delivery, unless a frame could not be sent.       *)
Delivered(b) == \/ <<Encoder, "VIDEO">> \in held[b]
                \/ /\ b = frame /\ "VIDEO" \in mask
                   /\ pc = "count" \/ (pc = "send" /\ "VIDEO" \in todo)

VideoInv ==
  /\ subs["VIDEO"] = IF ctl \in {"start", "recording"} THEN {Encoder} ELSE {}
  /\ recordings = 0 => ctl = "idle" /\ reclaimed = {}
  /\ recordings < 2 /\ reclaimed # {} => ctl \notin {"start", "recording"}
  /\ pc = "return" => unsent
  /\ \A b \in Bufs :
       /\ refs["VIDEO"][b] <= 1
       /\ \A c \in Clients : <<c, "VIDEO">> \in held[b] => c = Encoder
       /\ recordings < 2 /\ b \in reclaimed /\ ~crashed => refs["VIDEO"][b] = 0
       /\ ~unsent /\ ~crashed /\ refs["VIDEO"][b] > 0 => Delivered(b)

(* Counts are numbers.                                                      *)
LEMMA Numbers ==
  ASSUME TypeOK
  PROVE  \A b \in Bufs, t \in Types : /\ refs[t][b] \in Nat
                                      /\ Cardinality(Holders(b, t)) \in Nat
                                      /\ Cardinality(subs[t]) \in Nat
<1> SUFFICES ASSUME NEW b \in Bufs, NEW t \in Types
             PROVE  /\ refs[t][b] \in Nat
                    /\ Cardinality(Holders(b, t)) \in Nat
                    /\ Cardinality(subs[t]) \in Nat
  OBVIOUS
<1>4. Max0 \in Nat
  BY ClientSets
<1>1. Max0 \in Nat /\ refs[t][b] \in 0..Max0
  BY <1>4 DEF TypeOK
<1>2. subs[t] \in SUBSET Clients
  BY DEF TypeOK
<1>3. Cardinality(Holders(b, t)) \in 0..Max0 /\ Cardinality(subs[t]) \in 0..Max0
  BY <1>2, HoldersAreClients, ClientSets
<1> QED
  BY <1>1, <1>3

(* returnFrame() either aborts, finds the count at zero, or takes one off.  *)
LEMMA ReturnRefEffect ==
  ASSUME TypeOK, NEW thread \in Threads, NEW b \in Bufs, NEW t \in Types,
         ReturnRef(thread, b, t)
  PROVE  /\ UNCHANGED <<fills, videoKeys, subs, recording>>
         /\ refs' \in [Types -> [Bufs -> 0..Max0]]
         /\ filling' \in [Threads -> Bufs \cup {NoBuf}]
         /\ crashed' \in BOOLEAN
         /\ ~crashed' => crashed' = crashed
         /\ \A u \in Types, x \in Bufs : refs'[u][x] <= refs[u][x]
         /\ \/ UNCHANGED <<refs, filling>>
            \/ /\ refs[t][b] > 0 /\ refs'[t][b] = refs[t][b] - 1
               /\ refs' = [refs EXCEPT ![t][b] = @ - 1]
               /\ ~crashed' \/ crashed
<1>1. Max0 \in Nat
  BY ClientSets
<1>2. refs[t][b] \in 0..Max0
  BY DEF TypeOK
<1>3. CASE UNCHANGED <<refs, filling>>
  <2>1. /\ UNCHANGED <<fills, videoKeys, subs, recording>>
        /\ crashed' = TRUE \/ UNCHANGED crashed
    BY DEF ReturnRef, Crash
  <2>2. \A u \in Types, x \in Bufs : refs[u][x] \in 0..Max0
    BY DEF TypeOK
  <2>3. \A u \in Types, x \in Bufs : refs'[u][x] <= refs[u][x]
    BY <1>1, <1>3, <2>2
  <2> QED
    BY <1>3, <2>1, <2>3 DEF TypeOK
<1>4. CASE ~UNCHANGED <<refs, filling>>
  <2>1. /\ refs[t][b] > 0
        /\ refs' = [refs EXCEPT ![t][b] = @ - 1]
        /\ filling' = [filling EXCEPT ![thread] =
                         IF /\ refs[t][b] = 1
                            /\ \A p \in Partners(t) : refs[p][b] = 0
                         THEN b ELSE NoBuf]
        /\ UNCHANGED <<fills, videoKeys, subs, recording, crashed>>
    BY <1>4 DEF ReturnRef, Crash
  <2>2. refs[t][b] - 1 \in 0..Max0
    BY <1>1, <1>2, <2>1
  <2>3. refs' \in [Types -> [Bufs -> 0..Max0]]
    BY <2>1, <2>2 DEF TypeOK
  <2>4. filling' \in [Threads -> Bufs \cup {NoBuf}]
    BY <2>1 DEF TypeOK
  <2>5. \A u \in Types, x \in Bufs :
          refs'[u][x] = IF u = t /\ x = b THEN refs[t][b] - 1 ELSE refs[u][x]
    BY <2>1 DEF TypeOK
  <2>6. \A u \in Types, x \in Bufs : refs[u][x] \in 0..Max0
    BY DEF TypeOK
  <2>7. \A u \in Types, x \in Bufs : refs'[u][x] <= refs[u][x]
    BY <1>1, <2>5, <2>6
  <2> QED
    BY <2>1, <2>3, <2>4, <2>5, <2>7 DEF TypeOK
<1> QED
  BY <1>3, <1>4

(* The type that is counted or sent next is one of those that are left.     *)
LEMMA FirstIsLeft ==
  ASSUME TypeInv, pc \in {"count", "send"}
  PROVE  /\ First(todo) \in todo /\ First(todo) \in Types /\ frame \in Bufs
         /\ First(todo) \in mask
BY DEF TypeInv, TypeOK, First, Types

LEMMA InitGeneral == Init => TypeInv /\ VideoInv
<1> SUFFICES ASSUME Init PROVE TypeInv /\ VideoInv
  OBVIOUS
<1>1. TypeOK /\ pc = "idle"
  BY InitIInv DEF IInv, Init
<1>2. VideoInv
  BY DEF Init, VideoInv, Types
<1> QED
  BY <1>1, <1>2 DEF TypeInv

LEMMA OmxTypes ==
  ASSUME TypeInv, OmxStep
  PROVE  TypeInv'
<1>1. TypeOK /\ (pc \in {"count", "send"} => todo # {} /\ mainType \in mask) /\ NoBuf \notin Bufs
  BY FrameAssumption DEF TypeInv
<1>2. \A u \in Types : Cardinality(subs[u]) \in 0..Max0
  BY <1>1, ClientSets DEF TypeOK
<1>3. ASSUME SetInitFrameRefCount PROVE TypeInv'
  <2> PICK t : t = First(todo)
    OBVIOUS
  <2>1. t \in todo /\ t \in Types /\ frame \in Bufs /\ todo \subseteq mask
    BY <1>1, <1>3, FirstIsLeft DEF SetInitFrameRefCount, TypeOK
  <2>2. /\ refs' = [refs EXCEPT ![t][frame] = Cardinality(subs[t])]
        /\ videoKeys' \in {videoKeys, videoKeys \cup {frame}}
        /\ Advance(t, "send") /\ pc = "count"
        /\ UNCHANGED <<fills, subs, held, filling, recording, frame, mainType,
                       mask, unsent, ctl, toStop, recordings, reclaimed, crashed>>
    BY <1>3 DEF SetInitFrameRefCount, ctlVars
  <2>3. /\ pc' \in {"count", "send"} /\ todo' \subseteq mask' /\ todo' # {}
    BY <2>1, <2>2 DEF Advance
  <2>4. refs' \in [Types -> [Bufs -> 0..Max0]]
    BY <1>1, <1>2, <2>1, <2>2 DEF TypeOK
  <2>5. videoKeys' \subseteq Bufs
    BY <1>1, <2>1, <2>2 DEF TypeOK
  <2>6. frame' = NoBuf <=> pc' = "idle"
    BY <1>1, <2>1, <2>2, <2>3
  <2> QED
    BY <1>1, <2>2, <2>3, <2>4, <2>5, <2>6 DEF TypeInv, TypeOK
<1>4. ASSUME SendFrameToSubscribers PROVE TypeInv'
  <2> PICK t : t = First(todo)
    OBVIOUS
  <2>1. t \in todo /\ t \in Types /\ frame \in Bufs /\ todo \subseteq mask
    BY <1>1, <1>4, FirstIsLeft DEF SendFrameToSubscribers, TypeOK
  <2>2. PICK S \in SUBSET subs[t] : held' = [held EXCEPT ![frame] = @ \cup (S \X {t})]
    BY <1>4 DEF SendFrameToSubscribers
  <2>3. /\ Advance(t, "idle") /\ pc = "send"
        /\ frame' = IF pc' = "idle" THEN NoBuf ELSE frame
        /\ UNCHANGED <<fills, refs, videoKeys, subs, filling, recording, mainType,
                       mask, unsent, ctl, toStop, recordings, reclaimed, crashed>>
    BY <1>4 DEF SendFrameToSubscribers, ctlVars
  <2>4. S \subseteq Clients
    BY <1>1, <2>1 DEF TypeOK
  <2>5. held' \in [Bufs -> SUBSET (Clients \X Types)]
    BY <1>1, <2>1, <2>2, <2>4 DEF TypeOK
  <2>6. /\ pc' \in {"idle", "send"} /\ todo' \subseteq mask'
        /\ pc' = "send" => todo' # {}
    BY <2>1, <2>3 DEF Advance
  <2>7. frame' \in Bufs \cup {NoBuf} /\ (frame' = NoBuf <=> pc' = "idle")
    BY <1>1, <2>1, <2>3
  <2> QED
    BY <1>1, <2>3, <2>5, <2>6, <2>7 DEF TypeInv, TypeOK
<1>5. ASSUME SendFrameFails PROVE TypeInv'
  <2>1. /\ pc = "send" /\ todo # {}
        /\ UNCHANGED <<held, frame, mainType, mask, ctl, toStop, recordings, reclaimed>>
        /\ UNCHANGED <<fills, refs, videoKeys, subs, filling, recording>>
        /\ \/ crashed' = TRUE /\ UNCHANGED <<pc, todo>>
           \/ UNCHANGED crashed /\ pc' = "return" /\ todo' = {}
        /\ unsent' \in BOOLEAN
    BY <1>1, <1>5 DEF SendFrameFails, Crash, ctlVars, TypeOK
  <2> QED
    BY <1>1, <2>1 DEF TypeInv, TypeOK
<1>6. ASSUME ReturnUnsentFrame PROVE TypeInv'
  <2>1. /\ frame \in Bufs /\ mainType \in Types /\ Omx \in Threads
        /\ ReturnRef(Omx, frame, mainType)
    BY <1>1, <1>6 DEF ReturnUnsentFrame, TypeOK, Types, Threads
  <2>2. /\ pc' = "idle" /\ frame' = NoBuf
        /\ UNCHANGED <<held, mainType, mask, todo, unsent, ctl, toStop, recordings, reclaimed>>
    BY <1>6 DEF ReturnUnsentFrame, ctlVars
  <2> QED
    BY <1>1, <2>1, <2>2, ReturnRefEffect DEF TypeInv, TypeOK
<1>7. ASSUME NEW b \in Bufs, FillBufferDone(b) PROVE TypeInv'
  <2>1. /\ fills[b] > 0 /\ fills' = [fills EXCEPT ![b] = @ - 1]
        /\ frame' = b /\ pc' = "count" /\ todo' = mask'
        /\ mainType' \in {"PREVIEW", "SNAPSHOT"}
        /\ mask' = {mainType'} \cup (IF recording THEN {"VIDEO"} ELSE {})
        /\ UNCHANGED <<refs, videoKeys, subs, held, filling, recording, unsent, ctl,
                       toStop, recordings, reclaimed, crashed>>
    BY <1>7 DEF FillBufferDone, ctlVars
  <2>2. fills' \in [Bufs -> Nat]
    BY <1>1, <2>1 DEF TypeOK
  <2>3. mask' \subseteq Types /\ mask' # {}
    BY <2>1 DEF Types
  <2>4. frame' # NoBuf /\ frame' \in Bufs
    BY <1>1, <2>1
  <2> QED
    BY <1>1, <2>1, <2>2, <2>3, <2>4 DEF TypeInv, TypeOK
<1> QED
  BY <1>3, <1>4, <1>5, <1>6, <1>7 DEF OmxStep

(* The steps of the clients and of the recording thread.                    *)
LEMMA OtherTypes ==
  ASSUME TypeInv, Next, ~OmxStep
  PROVE  TypeInv'
<1>1. TypeOK /\ (pc \in {"count", "send"} => todo # {} /\ mainType \in mask)
  BY DEF TypeInv
<1>2. ASSUME NEW thread \in Threads, FillThisBuffer(thread) PROVE TypeInv'
  <2>1. /\ fills' \in [Bufs -> Nat] /\ filling' \in [Threads -> Bufs \cup {NoBuf}]
        /\ UNCHANGED <<refs, videoKeys, subs, held, recording, pc, frame, mainType,
                       mask, todo, unsent, ctl, toStop, recordings, reclaimed, crashed>>
    BY <1>1, <1>2 DEF FillThisBuffer, TypeOK, cbVars, ctlVars
  <2> QED
    BY <1>1, <2>1 DEF TypeInv, TypeOK
<1>3. ASSUME NEW c \in Clients, NEW t \in Types, NEW b \in Bufs, ReturnFrame(c, t, b)
      PROVE TypeInv'
  <2>1. /\ ReturnRef(c, b, t) /\ c \in Threads
        /\ held' \in [Bufs -> SUBSET (Clients \X Types)]
        /\ UNCHANGED <<pc, frame, mainType, mask, todo, unsent, ctl, toStop, recordings,
                       reclaimed>>
    BY <1>1, <1>3 DEF ReturnFrame, TypeOK, cbVars, ctlVars, Threads
  <2> QED
    BY <1>1, <2>1, ReturnRefEffect DEF TypeInv, TypeOK
<1>4. ASSUME NEW b \in Bufs, LateRelease(b) \/ ReleaseUnmapped(b) PROVE TypeInv'
  <2>1. /\ reclaimed' \subseteq Bufs
        /\ UNCHANGED <<held, pc, frame, mainType, mask, todo, unsent, ctl, toStop,
                       recordings>>
    BY <1>1, <1>4 DEF LateRelease, ReleaseUnmapped, TypeOK, cbVars, ctlVars
  <2>2. /\ Encoder \in Threads /\ "VIDEO" \in Types
        /\ \/ ReturnRef(Encoder, b, "VIDEO")
           \/ /\ UNCHANGED <<fills, refs, videoKeys, subs, filling, recording>>
              /\ crashed' \in {TRUE, crashed}
    BY <1>4 DEF LateRelease, ReleaseUnmapped, Crash, Threads, Clients, Types
  <2>3. CASE ReturnRef(Encoder, b, "VIDEO")
    BY <1>1, <2>1, <2>2, <2>3, ReturnRefEffect DEF TypeInv, TypeOK
  <2>4. CASE ~ReturnRef(Encoder, b, "VIDEO")
    BY <1>1, <2>1, <2>2, <2>4 DEF TypeInv, TypeOK
  <2> QED
    BY <2>3, <2>4
<1>5. ASSUME NEW b \in Bufs, StopVideoReturn(b) PROVE TypeInv'
  <2>1. /\ toStop' \subseteq Bufs
        /\ UNCHANGED <<pc, frame, mainType, mask, todo, unsent, ctl, recordings>>
        /\ Control \in Threads /\ "VIDEO" \in Types
    BY <1>1, <1>5 DEF StopVideoReturn, TypeOK, cbVars, Threads, Types
  <2>2. CASE refs["VIDEO"][b] > 0
    <3>1. ReturnRef(Control, b, "VIDEO") /\ reclaimed' \subseteq Bufs
      BY <1>1, <1>5, <2>2 DEF StopVideoReturn, TypeOK
    <3>2. held' \in [Bufs -> SUBSET (Clients \X Types)]
      BY <1>1, <1>5, <2>2 DEF StopVideoReturn, TypeOK
    <3> QED
      BY <1>1, <2>1, <3>1, <3>2, ReturnRefEffect DEF TypeInv, TypeOK
  <2>3. CASE ~(refs["VIDEO"][b] > 0)
    BY <1>1, <1>5, <2>1, <2>3 DEF StopVideoReturn, TypeInv, TypeOK
  <2> QED
    BY <2>2, <2>3
<1>6. ASSUME StopVideoClear \/ StartVideoCapture PROVE TypeInv'
  <2> PICK zero : zero = [b \in Bufs |-> 0]
    OBVIOUS
  <2>2. Max0 \in Nat
    BY ClientSets
  <2>3. zero \in [Bufs -> 0..Max0]
    BY <2>2
  <2>4. refs' = [refs EXCEPT !["VIDEO"] = zero]
    BY <1>6 DEF StopVideoClear, StartVideoCapture
  <2>1. refs' \in [Types -> [Bufs -> 0..Max0]]
    BY <1>1, <2>3, <2>4 DEF TypeOK
  <2> QED
    BY <1>1, <1>6, <2>1 DEF StopVideoClear, StartVideoCapture, TypeInv, TypeOK, cbVars
<1>7. ASSUME StopVideoDone PROVE TypeInv'
  BY <1>1, <1>7 DEF StopVideoDone, TypeInv, TypeOK, cbVars
<1>8. ASSUME SubscribeVideo \/ UnsubscribeVideo PROVE TypeInv'
  <2>2. Encoder \in Clients
    BY DEF Clients
  <2>5. \/ subs' = [subs EXCEPT !["VIDEO"] = {Encoder}]
        \/ subs' = [subs EXCEPT !["VIDEO"] = {}]
    BY <1>8 DEF SubscribeVideo, UnsubscribeVideo
  <2>6. {Encoder} \in SUBSET Clients /\ {} \in SUBSET Clients
    BY <2>2
  <2>3. subs' \in [Types -> SUBSET Clients]
    BY <1>1, <2>5, <2>6 DEF TypeOK
  <2>4. recordings' \in 0..MaxRecordings
    BY <1>1, <1>8, FrameAssumption DEF SubscribeVideo, UnsubscribeVideo, TypeOK
  <2>1. subs' \in [Types -> SUBSET Clients] /\ recordings' \in 0..MaxRecordings
    BY <2>3, <2>4
  <2> QED
    BY <1>1, <1>8, <2>1 DEF SubscribeVideo, UnsubscribeVideo, TypeInv, TypeOK, cbVars
<1>9. ASSUME NEW c \in Apps, NEW t \in {"PREVIEW", "SNAPSHOT"},
             EnableMsgType(c, t) \/ DisableMsgType(c, t)
      PROVE  TypeInv'
  <2>1. subs' \in [Types -> SUBSET Clients]
    BY <1>1, <1>9 DEF EnableMsgType, DisableMsgType, TypeOK, Clients
  <2> QED
    BY <1>1, <1>9, <2>1 DEF EnableMsgType, DisableMsgType, TypeInv, TypeOK, cbVars,
                            ctlVars
<1> QED
  BY <1>2, <1>3, <1>4, <1>5, <1>6, <1>7, <1>8, <1>9
     DEF Next, ControlStep, ClientStep, Threads

(* What a step that gives up references, and reclaims nothing, keeps.       *)
LEMMA ReturnVideo ==
  ASSUME TypeInv, VideoInv, NEW thread \in Threads, NEW b \in Bufs, NEW t \in Types,
         ReturnRef(thread, b, t), UNCHANGED <<ctl, recordings>>,
         reclaimed' \subseteq reclaimed,
         pc' = "return" => unsent', unsent => unsent',
         \A x \in Bufs : held'[x] \subseteq held[x],
         \A x \in Bufs : ~unsent' /\ ~crashed' /\ refs'["VIDEO"][x] > 0 /\ Delivered(x)
                           => Delivered(x)'
  PROVE  VideoInv'
<1>1. TypeOK /\ "VIDEO" \in Types
  BY DEF TypeInv, Types
<1>2. /\ UNCHANGED subs /\ (~crashed' => ~crashed)
      /\ refs' \in [Types -> [Bufs -> 0..Max0]]
      /\ \A x \in Bufs : refs'["VIDEO"][x] <= refs["VIDEO"][x]
  <2>1. crashed \in BOOLEAN
    BY <1>1 DEF TypeOK
  <2> QED
    BY <1>1, <2>1, ReturnRefEffect
<1>3. \A x \in Bufs : refs'["VIDEO"][x] \in Nat /\ refs["VIDEO"][x] \in Nat
  BY <1>1, <1>2, ClientSets DEF TypeOK
<1>4. \A x \in Bufs : /\ refs["VIDEO"][x] <= 1 => refs'["VIDEO"][x] <= 1
                      /\ refs["VIDEO"][x] = 0 => refs'["VIDEO"][x] = 0
                      /\ refs'["VIDEO"][x] > 0 => refs["VIDEO"][x] > 0
  BY <1>2, <1>3
<1>5. subs'["VIDEO"] = IF ctl' \in {"start", "recording"} THEN {Encoder} ELSE {}
  BY <1>2 DEF VideoInv
<1>6. /\ recordings' = 0 => ctl' = "idle" /\ reclaimed' = {}
      /\ recordings' < 2 /\ reclaimed' # {} => ctl' \notin {"start", "recording"}
  BY DEF VideoInv
<1>7. ASSUME NEW x \in Bufs
      PROVE  /\ refs'["VIDEO"][x] <= 1
             /\ \A c \in Clients : <<c, "VIDEO">> \in held'[x] => c = Encoder
             /\ recordings' < 2 /\ x \in reclaimed' /\ ~crashed'
                  => refs'["VIDEO"][x] = 0
  BY <1>2, <1>4 DEF VideoInv
<1>8. ASSUME NEW x \in Bufs, ~unsent', ~crashed', refs'["VIDEO"][x] > 0
      PROVE  Delivered(x)'
  BY <1>2, <1>4, <1>8 DEF VideoInv
<1> QED
  BY <1>5, <1>6, <1>7, <1>8 DEF VideoInv

(* The video counts: the callback thread.                                   *)
LEMMA OmxVideo ==
  ASSUME TypeInv, VideoInv, OmxStep
  PROVE  VideoInv'
<1>1. TypeOK /\ "VIDEO" \in Types /\ Omx \in Threads
  BY DEF TypeInv, Types, Threads
<1>2. /\ subs["VIDEO"] \subseteq {Encoder} /\ Cardinality(subs["VIDEO"]) \in {0, 1}
      /\ ctl \notin {"start", "recording"} => Cardinality(subs["VIDEO"]) = 0
      /\ Cardinality({}) = 0
  BY FS_EmptySet, FS_Singleton DEF VideoInv
<1>3. ASSUME SetInitFrameRefCount PROVE VideoInv'
  <2> PICK t : t = First(todo)
    OBVIOUS
  <2>1. t \in Types /\ frame \in Bufs /\ t \in mask
    BY <1>3, FirstIsLeft DEF SetInitFrameRefCount
  <2>2. /\ refs' = [refs EXCEPT ![t][frame] = Cardinality(subs[t])]
        /\ UNCHANGED <<subs, held, frame, mask, unsent, ctl, recordings, reclaimed, crashed>>
        /\ pc = "count" /\ Advance(t, "send")
    BY <1>3 DEF SetInitFrameRefCount, ctlVars
  <2>8. pc' = "count" \/ (pc' = "send" /\ todo' = mask)
    BY <2>2 DEF Advance
  <2>3. \A b \in Bufs : \/ refs'["VIDEO"][b] = refs["VIDEO"][b]
                        \/ /\ refs'["VIDEO"][b] = Cardinality(subs["VIDEO"])
                           /\ t = "VIDEO" /\ b = frame
    BY <1>1, <2>1, <2>2 DEF TypeOK
  <2>4. \A b \in Bufs : Delivered(b) => Delivered(b)'
    BY <2>2, <2>8 DEF Delivered
  <2>5. t = "VIDEO" => Delivered(frame)'
    BY <2>1, <2>2, <2>8 DEF Delivered
  <2>6. ASSUME NEW b \in Bufs
        PROVE  /\ refs'["VIDEO"][b] <= 1
               /\ \A c \in Clients : <<c, "VIDEO">> \in held'[b] => c = Encoder
               /\ recordings' < 2 /\ b \in reclaimed' /\ ~crashed'
                    => refs'["VIDEO"][b] = 0
    BY <1>2, <2>2, <2>3 DEF VideoInv
  <2>7. ASSUME NEW b \in Bufs, ~unsent', ~crashed', refs'["VIDEO"][b] > 0
        PROVE  Delivered(b)'
    BY <2>2, <2>3, <2>4, <2>5, <2>7 DEF VideoInv
  <2> QED
    BY <2>2, <2>6, <2>7, <2>8 DEF VideoInv
<1>4. ASSUME SendFrameToSubscribers PROVE VideoInv'
  <2> PICK t : t = First(todo)
    OBVIOUS
  <2>1. t \in Types /\ frame \in Bufs
    BY <1>4, FirstIsLeft DEF SendFrameToSubscribers
  <2>2. PICK S \in SUBSET subs[t] : /\ held' = [held EXCEPT ![frame] = @ \cup (S \X {t})]
                                    /\ Cardinality(S) = refs[t][frame]
    BY <1>4 DEF SendFrameToSubscribers
  <2>3. /\ UNCHANGED <<refs, subs, ctl, recordings, reclaimed, crashed, mask, unsent>>
        /\ pc = "send" /\ refs[t][frame] > 0
        /\ \/ pc' = "idle" /\ todo = {t}
           \/ pc' = pc /\ todo' = todo \ {t} /\ frame' = frame
    BY <1>4 DEF SendFrameToSubscribers, ctlVars, Advance
  <2>4. \A b \in Bufs, c \in Clients :
          <<c, "VIDEO">> \in held'[b] => <<c, "VIDEO">> \in held[b] \/ c = Encoder
    BY <1>1, <1>2, <2>1, <2>2 DEF TypeOK
  <2>5. \A b \in Bufs : <<Encoder, "VIDEO">> \in held[b] => <<Encoder, "VIDEO">> \in held'[b]
    BY <1>1, <2>1, <2>2 DEF TypeOK
  <2>6. t = "VIDEO" => <<Encoder, "VIDEO">> \in held'[frame]
    <3> SUFFICES ASSUME t = "VIDEO" PROVE <<Encoder, "VIDEO">> \in held'[frame]
      OBVIOUS
    <3>1. S # {}
      BY <1>2, <2>2, <2>3
    <3>2. Encoder \in S
      BY <1>2, <2>2, <3>1
    <3> QED
      BY <1>1, <2>1, <2>2, <3>2 DEF TypeOK
  <2>7. \A b \in Bufs : Delivered(b) => Delivered(b)'
    <3> SUFFICES ASSUME NEW b \in Bufs, Delivered(b), <<Encoder, "VIDEO">> \notin held'[b]
                 PROVE  Delivered(b)'
      BY DEF Delivered
    <3>1. b = frame /\ "VIDEO" \in mask /\ "VIDEO" \in todo
      BY <2>3, <2>5 DEF Delivered
    <3>2. t # "VIDEO"
      BY <2>6, <3>1
    <3>3. pc' = pc /\ todo' = todo \ {t} /\ frame' = frame
      BY <2>3, <3>1, <3>2
    <3> QED
      BY <2>3, <3>1, <3>2, <3>3 DEF Delivered
  <2>8. ASSUME NEW b \in Bufs, ~unsent', ~crashed', refs'["VIDEO"][b] > 0
        PROVE  Delivered(b)'
    BY <2>3, <2>7, <2>8 DEF VideoInv
  <2> QED
    BY <2>3, <2>4, <2>8 DEF VideoInv
<1>5. ASSUME SendFrameFails PROVE VideoInv'
  <2>1. /\ UNCHANGED <<held, ctl, recordings, reclaimed, frame, mask>>
        /\ UNCHANGED <<refs, subs>>
        /\ \/ crashed' = TRUE /\ UNCHANGED <<pc, todo, unsent>>
           \/ UNCHANGED crashed /\ unsent' = TRUE
    BY <1>5 DEF SendFrameFails, Crash, ctlVars
  <2>2. CASE crashed' = TRUE /\ UNCHANGED <<pc, todo, unsent>>
    BY <2>1, <2>2 DEF VideoInv
  <2>3. CASE UNCHANGED crashed /\ unsent' = TRUE
    BY <2>1, <2>3 DEF VideoInv
  <2> QED
    BY <2>1, <2>2, <2>3
<1>6. ASSUME ReturnUnsentFrame PROVE VideoInv'
  <2>1. /\ frame \in Bufs /\ mainType \in Types
        /\ ReturnRef(Omx, frame, mainType)
        /\ UNCHANGED <<held, ctl, recordings, reclaimed, unsent>>
        /\ pc = "return" /\ pc' = "idle"
    BY <1>1, <1>6 DEF ReturnUnsentFrame, TypeOK, Types, ctlVars
  <2>2. unsent
    BY <2>1 DEF VideoInv
  <2> QED
    BY <1>1, <2>1, <2>2, ReturnVideo
<1>7. ASSUME NEW b \in Bufs, FillBufferDone(b) PROVE VideoInv'
  <2>1. /\ UNCHANGED <<refs, subs, held, ctl, recordings, reclaimed, crashed, unsent>>
        /\ pc = "idle" /\ pc' = "count"
    BY <1>7 DEF FillBufferDone, ctlVars
  <2>2. \A x \in Bufs : Delivered(x) => Delivered(x)'
    BY <2>1 DEF Delivered
  <2> QED
    BY <2>1, <2>2 DEF VideoInv
<1> QED
  BY <1>3, <1>4, <1>5, <1>6, <1>7 DEF OmxStep

(* The video counts: the clients and the recording thread.  What is taken   *)
(* back from the encoder had one reference, which is given up.              *)
LEMMA OtherVideo ==
  ASSUME TypeInv, VideoInv, Next, ~OmxStep
  PROVE  VideoInv'
<1>1. TypeOK /\ "VIDEO" \in Types /\ Encoder \in Clients /\ Encoder \in Threads
      /\ Control \in Threads /\ recordings \in Nat
  BY FrameAssumption DEF TypeInv, TypeOK, Types, Threads, Clients
<1>2. \A b \in Bufs : refs["VIDEO"][b] \in Nat
  BY <1>1, ClientSets DEF TypeOK
<1>4. ASSUME NEW thread \in Threads, FillThisBuffer(thread) PROVE VideoInv'
  BY <1>4 DEF FillThisBuffer, VideoInv, Delivered, cbVars, ctlVars
<1>5. ASSUME NEW c \in Clients, NEW t \in Types, NEW b \in Bufs, ReturnFrame(c, t, b)
      PROVE VideoInv'
  <2>1. /\ ReturnRef(c, b, t) /\ c \in Threads
        /\ UNCHANGED <<ctl, recordings, reclaimed, unsent, pc, frame, mask, todo>>
        /\ held' = [held EXCEPT ![b] = @ \ {<<c, t>>}]
        /\ <<c, t>> \in held[b] /\ ~crashed
    BY <1>1, <1>5 DEF ReturnFrame, TypeOK, cbVars, ctlVars, Threads, Ready
  <2>2. \A x \in Bufs : held'[x] \subseteq held[x]
    BY <1>1, <2>1 DEF TypeOK
  <2>3. \A x \in Bufs : x # b \/ t # "VIDEO" =>
          (Delivered(x) => Delivered(x)')
    BY <1>1, <2>1 DEF Delivered, TypeOK
  <2>4. t = "VIDEO" /\ ~crashed' => refs'["VIDEO"][b] = 0
    <3>1. refs["VIDEO"][b] \in {0, 1}
      BY <1>2 DEF VideoInv
    <3>2. t = "VIDEO" /\ ~crashed' /\ refs["VIDEO"][b] = 1 =>
            refs' = [refs EXCEPT !["VIDEO"][b] = @ - 1]
      BY <2>1 DEF ReturnRef, Crash
    <3>3. t = "VIDEO" /\ ~crashed' /\ refs["VIDEO"][b] = 0 => UNCHANGED refs
      BY <2>1 DEF ReturnRef, Crash
    <3> QED
      BY <1>1, <3>1, <3>2, <3>3 DEF TypeOK
  <2>5. \A x \in Bufs : ~crashed' /\ refs'["VIDEO"][x] > 0 => (Delivered(x) => Delivered(x)')
    BY <2>3, <2>4
  <2>6. pc' = "return" => unsent'
    BY <2>1 DEF VideoInv
  <2> QED
    BY <2>1, <2>2, <2>5, <2>6, ReturnVideo
<1>6. ASSUME NEW b \in Bufs, LateRelease(b) \/ ReleaseUnmapped(b) PROVE VideoInv'
  <2>1. /\ UNCHANGED <<ctl, recordings, held, unsent, pc, frame, mask, todo>>
        /\ reclaimed' \subseteq reclaimed
        /\ \/ ReturnRef(Encoder, b, "VIDEO")
           \/ UNCHANGED <<refs, subs>> /\ crashed' \in {TRUE, crashed}
    BY <1>6 DEF LateRelease, ReleaseUnmapped, Crash, cbVars, ctlVars
  <2>2. \A x \in Bufs : Delivered(x) => Delivered(x)'
    BY <2>1 DEF Delivered
  <2>3. pc' = "return" => unsent'
    BY <2>1 DEF VideoInv
  <2>4. CASE ReturnRef(Encoder, b, "VIDEO")
    BY <1>1, <2>1, <2>2, <2>3, <2>4, ReturnVideo
  <2>5. CASE UNCHANGED <<refs, subs>> /\ crashed' \in {TRUE, crashed}
    <3>1. crashed \in BOOLEAN /\ (~crashed' => ~crashed)
      BY <1>1, <2>5 DEF TypeOK
    <3>2. recordings = 0 => reclaimed' = {}
      BY <2>1 DEF VideoInv
    <3> QED
      BY <2>1, <2>2, <2>3, <2>5, <3>1, <3>2 DEF VideoInv
  <2> QED
    BY <2>1, <2>4, <2>5
<1>7. ASSUME NEW b \in Bufs, StopVideoReturn(b), refs["VIDEO"][b] > 0 PROVE VideoInv'
  <2>1. /\ ReturnRef(Control, b, "VIDEO") /\ ctl = "returning"
        /\ UNCHANGED <<ctl, recordings, unsent, pc, frame, mask, todo>>
        /\ reclaimed' \subseteq reclaimed \cup {b}
        /\ held' = [held EXCEPT ![b] = @ \ {<<Encoder, "VIDEO">>}]
        /\ ~crashed
    BY <1>7 DEF StopVideoReturn, Ready, cbVars
  <2>2. \A x \in Bufs : held'[x] \subseteq held[x]
    BY <1>1, <2>1 DEF TypeOK
  <2>3. /\ UNCHANGED subs
        /\ refs' \in [Types -> [Bufs -> 0..Max0]]
        /\ \A x \in Bufs : refs'["VIDEO"][x] <= refs["VIDEO"][x]
    BY <1>1, <2>1, ReturnRefEffect
  <2>4. \A x \in Bufs : refs'["VIDEO"][x] \in Nat
    BY <1>1, <2>3, ClientSets
  <2>5. ~crashed' => refs'["VIDEO"][b] = 0
    <3>1. ~crashed' => refs'["VIDEO"][b] = refs["VIDEO"][b] - 1
      BY <1>1, <1>2, <1>7, <2>1 DEF ReturnRef, Crash, TypeOK
    <3>2. refs["VIDEO"][b] = 1
      BY <1>2, <1>7 DEF VideoInv
    <3> QED
      BY <3>1, <3>2
  <2>6. \A x \in Bufs : /\ refs["VIDEO"][x] <= 1 => refs'["VIDEO"][x] <= 1
                        /\ refs["VIDEO"][x] = 0 => refs'["VIDEO"][x] = 0
                        /\ refs'["VIDEO"][x] > 0 => refs["VIDEO"][x] > 0
    BY <1>2, <2>3, <2>4
  <2>7. \A x \in Bufs : x # b => (Delivered(x) => Delivered(x)')
    BY <1>1, <2>1 DEF Delivered, TypeOK
  <2>8. ASSUME NEW x \in Bufs
        PROVE  /\ refs'["VIDEO"][x] <= 1
               /\ \A c \in Clients : <<c, "VIDEO">> \in held'[x] => c = Encoder
               /\ recordings' < 2 /\ x \in reclaimed' /\ ~crashed'
                    => refs'["VIDEO"][x] = 0
    BY <2>1, <2>2, <2>5, <2>6 DEF VideoInv
  <2>9. ASSUME NEW x \in Bufs, ~unsent', ~crashed', refs'["VIDEO"][x] > 0
        PROVE  Delivered(x)'
    BY <2>1, <2>5, <2>6, <2>7, <2>9 DEF VideoInv
  <2> QED
    BY <2>1, <2>3, <2>8, <2>9 DEF VideoInv
<1>8. ASSUME NEW b \in Bufs, StopVideoReturn(b), ~(refs["VIDEO"][b] > 0) PROVE VideoInv'
  <2>1. UNCHANGED <<refs, subs, held, ctl, recordings, reclaimed, crashed, unsent, pc, frame,
                    mask, todo>>
    BY <1>8 DEF StopVideoReturn, cbVars
  <2> QED
    BY <2>1 DEF VideoInv, Delivered
<1>9. ASSUME StopVideoClear \/ StartVideoCapture PROVE VideoInv'
  <2>1. /\ refs'["VIDEO"] = [b \in Bufs |-> 0]
        /\ UNCHANGED <<subs, held, reclaimed, crashed, recordings, pc, unsent>>
        /\ \/ ctl = "returning" /\ ctl' = "cleared"
           \/ ctl = "start" /\ ctl' = "recording"
    BY <1>1, <1>9 DEF StopVideoClear, StartVideoCapture, TypeOK, cbVars
  <2>2. \A b \in Bufs : refs'["VIDEO"][b] = 0
    BY <2>1
  <2> QED
    BY <2>1, <2>2 DEF VideoInv
<1>10. ASSUME StopVideoDone PROVE VideoInv'
  <2>1. /\ UNCHANGED <<refs, subs, held, recordings, reclaimed, crashed, unsent, pc, frame,
                       mask, todo>>
        /\ ctl = "cleared" /\ ctl' = "idle"
    BY <1>10 DEF StopVideoDone, cbVars
  <2> QED
    BY <2>1 DEF VideoInv, Delivered
<1>11. ASSUME SubscribeVideo \/ UnsubscribeVideo PROVE VideoInv'
  <2>1. /\ UNCHANGED <<refs, held, reclaimed, crashed, unsent, pc, frame, mask, todo>>
        /\ \/ /\ ctl = "idle" /\ ctl' = "start" /\ subs'["VIDEO"] = {Encoder}
              /\ recordings' = recordings + 1
           \/ /\ ctl = "recording" /\ ctl' = "returning" /\ subs'["VIDEO"] = {}
              /\ recordings' = recordings
    BY <1>1, <1>11 DEF SubscribeVideo, UnsubscribeVideo, TypeOK, cbVars
  <2>2. recordings' # 0 /\ (recordings' < 2 => recordings < 2)
    BY <1>1, <2>1 DEF VideoInv
  <2>3. recordings' < 2 /\ reclaimed' # {} => ctl' \notin {"start", "recording"}
    BY <1>1, <2>1 DEF VideoInv
  <2> QED
    BY <2>1, <2>2, <2>3 DEF VideoInv, Delivered
<1>12. ASSUME NEW c \in Apps, NEW t \in {"PREVIEW", "SNAPSHOT"},
              EnableMsgType(c, t) \/ DisableMsgType(c, t)
       PROVE  VideoInv'
  <2>1. /\ subs'["VIDEO"] = subs["VIDEO"]
        /\ UNCHANGED <<refs, held, ctl, recordings, reclaimed, crashed, unsent, pc, frame,
                       mask, todo>>
    BY <1>1, <1>12 DEF EnableMsgType, DisableMsgType, TypeOK, ctlVars, cbVars
  <2> QED
    BY <2>1 DEF VideoInv, Delivered
<1> QED
  BY <1>4, <1>5, <1>6, <1>7, <1>8, <1>9, <1>10, <1>11, <1>12
     DEF Next, ControlStep, ClientStep, Threads

LEMMA GeneralStep == TypeInv /\ VideoInv /\ [Next]_vars => TypeInv' /\ VideoInv'
<1> SUFFICES ASSUME TypeInv, VideoInv, [Next]_vars PROVE TypeInv' /\ VideoInv'
  OBVIOUS
<1>1. CASE UNCHANGED vars
  BY <1>1 DEF vars, cbVars, ctlVars, TypeInv, TypeOK, VideoInv, Delivered
<1>2. CASE Next
  BY <1>2, OmxTypes, OtherTypes, OmxVideo, OtherVideo
<1> QED
  BY <1>1, <1>2

(* Every variable keeps its type, however recordings are started and        *)
(* stopped and snapshots taken.                                             *)
THEOREM TypeCorrect == Spec => []TypeOK
<1>1. TypeInv => TypeOK
  BY DEF TypeInv
<1> QED
  BY <1>1, InitGeneral, GeneralStep, PTL DEF Spec

(* The application's release of a video frame that stopVideoCapture() has   *)
(* taken back finds its count at zero, or aborts on a key that is gone; in  *)
(* a later recording, where mRecordingEnabled lets the release pass, it     *)
(* takes at most the reference of a new delivery of the buffer, unless a    *)
(* frame could not be sent (releaseRecordingFrame(), returnFrame()).        *)
THEOREM LateReleases == Spec => LateReleaseTakesNothing
<1>1. ASSUME TypeInv, VideoInv, NEW b \in Bufs, LateRelease(b)
      PROVE  \/ UNCHANGED <<refs, filling>>
             \/ OutAgain(b)
             \/ recordings > 1 /\ unsent
  <2>1. b \in reclaimed /\ ~crashed /\ recordings \in Nat /\ refs["VIDEO"][b] \in Nat
    BY <1>1, Numbers, FrameAssumption DEF LateRelease, Ready, TypeInv, TypeOK, Types
  <2>2. CASE ReturnRef(Encoder, b, "VIDEO")
    <3>1. CASE refs["VIDEO"][b] = 0
      BY <2>2, <3>1 DEF ReturnRef, Crash
    <3>2. CASE refs["VIDEO"][b] > 0
      <4>1. recordings > 1 /\ (unsent \/ Delivered(b))
        BY <1>1, <2>1, <3>2 DEF VideoInv
      <4> QED
        BY <4>1 DEF Delivered, OutAgain
    <3> QED
      BY <2>1, <3>1, <3>2
  <2>3. CASE ~ReturnRef(Encoder, b, "VIDEO")
    BY <1>1, <2>3 DEF LateRelease, Crash
  <2> QED
    BY <2>2, <2>3
<1>2. TypeInv /\ VideoInv =>
        [\A b \in Bufs : LateRelease(b) =>
           \/ UNCHANGED <<refs, filling>>
           \/ OutAgain(b)
           \/ recordings > 1 /\ unsent]_vars
  BY <1>1
<1> QED
  BY <1>2, InitGeneral, GeneralStep, PTL DEF Spec, LateReleaseTakesNothing

-----------------------------------------------------------------------------
(* A recording is stopped: the first one loses no buffer                    *)

(* The recording that is stopped is the first, and nothing of it has been   *)
(* stopped yet.                                                             *)
Before == recordings = 0 \/ ctl \in {"start", "recording"}

(* From the moment the encoder is unsubscribed the counts are no longer the *)
(* numbers of holders: a video frame that is still counted cannot be sent,  *)
(* and FillBufferDone gives up a preview reference that was lent already.   *)
StopControl ==
  /\ recording <=> ctl # "idle"
  /\ ctl = "returning" => videoKeys = Bufs
  /\ Display \in subs["PREVIEW"] /\ Display \in subs["SNAPSHOT"]

StopMask ==
  /\ pc \in {"count", "send"} =>
       \/ mask = {mainType} /\ todo = mask
       \/ /\ mask = {"PREVIEW", "VIDEO"} /\ mainType = "PREVIEW"
          /\ todo \in {mask, {"VIDEO"}}
  /\ pc = "return" => todo = {}

(* The video references that are left are those that are still to be taken  *)
(* back.                                                                    *)
StopVideo ==
  \A b \in Bufs : IF refs["VIDEO"][b] = 0 THEN Holders(b, "VIDEO") = {}
                  ELSE ctl = "returning" /\ b \in toStop

(* What remains of CountInv: a count is never above the number of those who *)
(* will give a reference back.                                              *)
BoundInv ==
  \A b \in Bufs, t \in Types :
    refs[t][b] <= IF ~Unsent(b, t) THEN Cardinality(Holders(b, t))
                  ELSE IF Counted(t) THEN Cardinality(subs[t]) ELSE 0

(* What remains of ExclusiveOwnership: one thread queues a buffer, once.    *)
QueuedOnce ==
  \A b \in Bufs :
    /\ fills[b] <= 1
    /\ \A t \in Threads : filling[t] = b =>
         fills[b] = 0 /\ \A u \in Threads : filling[u] = b => u = t

Uncounted(b) == b = frame /\ pc = "count" /\ todo = mask
Referenced(b) == \E t \in Types : refs[t][b] > 0

StopKept ==
  \A b \in Bufs : IF Uncounted(b) THEN ~Free(b) ELSE Free(b) \/ Referenced(b)

StopInv ==
  /\ StopControl /\ StopMask /\ StopVideo /\ BoundInv
  /\ TypesInv /\ FreeInv /\ QueuedOnce /\ StopKept

FirstStopInv ==
  recordings < 2 =>
    IF crashed THEN VideoFramesReclaimed
    ELSE IF Before THEN IInv /\ KeptInv /\ (recordings = 0 => ctl = "idle")
    ELSE StopInv

(* A frame whose first type is still to be counted has no reference.        *)
LEMMA UncountedHasNone ==
  ASSUME TypeInv, BoundInv, NEW b \in Bufs, Uncounted(b)
  PROVE  \A t \in Types : refs[t][b] = 0
<1>1. \A t \in Types : Unsent(b, t) /\ ~Counted(t)
  BY DEF Uncounted, Unsent, Counted
<1>2. \A t \in Types : refs[t][b] <= 0
  BY <1>1 DEF BoundInv
<1> QED
  BY <1>2, Numbers DEF TypeInv

(* A call of returnFrame() that does not abort, while a recording is being  *)
(* stopped: it takes one reference if there is one, and the buffer it frees *)
(* has none left.                                                           *)
LEMMA StopReturnRef ==
  ASSUME TypeInv, StopInv, NEW thread \in Threads, NEW b \in Bufs, NEW t \in Types,
         filling[thread] = NoBuf, ReturnRef(thread, b, t), ~crashed'
  PROVE  /\ UNCHANGED <<fills, videoKeys, subs, recording>>
         /\ TypesInv' /\ FreeInv' /\ QueuedOnce'
         /\ \A x \in Bufs : Free(x) \/ Referenced(x) => (Free(x) \/ Referenced(x))'
         /\ \A x \in Bufs : ~Free(x) /\ ~Referenced(x) => ~Free(x)'
         /\ \A x \in Bufs, u \in Types : x # b \/ u # t => refs'[u][x] = refs[u][x]
         /\ refs'[t][b] = IF refs[t][b] = 0 THEN 0 ELSE refs[t][b] - 1
<1>1. TypeOK /\ TypesInv /\ FreeInv /\ QueuedOnce /\ NoBuf \notin Bufs
  BY FrameAssumption DEF TypeInv, StopInv
<1>2. \A x \in Bufs, u \in Types : refs[u][x] \in Nat
  BY <1>1, Numbers
<1>3. CASE refs[t][b] = 0
  <2>1. UNCHANGED <<fills, refs, videoKeys, subs, filling, recording>>
    BY <1>3 DEF ReturnRef, Crash
  <2> QED
    BY <1>1, <1>3, <2>1 DEF TypesInv, FreeInv, QueuedOnce, Free, Referenced
<1>4. CASE refs[t][b] > 0
  <2>1. /\ refs' = [refs EXCEPT ![t][b] = @ - 1]
        /\ filling' = [filling EXCEPT ![thread] =
                         IF /\ refs[t][b] = 1
                            /\ \A p \in Partners(t) : refs[p][b] = 0
                         THEN b ELSE NoBuf]
        /\ UNCHANGED <<fills, videoKeys, subs, recording, crashed>>
    BY <1>4 DEF ReturnRef, Crash
  <2>2. \A x \in Bufs, u \in Types :
          refs'[u][x] = IF x = b /\ u = t THEN refs[t][b] - 1 ELSE refs[u][x]
    BY <1>1, <2>1 DEF TypeOK
  <2>3. /\ \A u \in Threads : u # thread => filling'[u] = filling[u]
        /\ filling'[thread] = IF /\ refs[t][b] = 1
                                 /\ \A p \in Partners(t) : refs[p][b] = 0
                              THEN b ELSE NoBuf
    BY <1>1, <2>1 DEF TypeOK
  <2>4. ~Free(b) /\ \A x \in Bufs : x # b => (Free(x)' <=> Free(x))
    BY <1>1, <1>4, <2>1, <2>3 DEF FreeInv, Free
  <2>5. Free(b)' <=> refs[t][b] = 1 /\ \A p \in Partners(t) : refs[p][b] = 0
    BY <1>1, <2>1, <2>3, <2>4 DEF Free
  <2>6. TypesInv'
    <3>1. \A x \in Bufs, u \in Types : refs[u][x] = 0 => refs'[u][x] = 0
      BY <1>4, <2>2
    <3>2. \A x \in Bufs, u \in Types : refs'[u][x] \in Nat
      BY <1>2, <1>4, <2>2
    <3> QED
      BY <1>1, <1>2, <2>1, <3>1, <3>2 DEF TypesInv, Types
  <2>7. Free(b)' => \A u \in Types : refs'[u][b] = 0
    <3>1. \A u \in Types : u # t /\ u \notin Partners(t) => refs[u][b] = 0
      BY <1>1, <1>2, <1>4 DEF TypesInv, Partners, Types
    <3> QED
      BY <2>2, <2>5, <3>1
  <2>8. ~Free(b)' => Referenced(b)'
    <3>1. CASE refs[t][b] # 1
      <4>1. refs'[t][b] > 0
        BY <1>2, <1>4, <2>2, <3>1
      <4> QED
        BY <4>1 DEF Referenced
    <3>2. CASE \E p \in Partners(t) : refs[p][b] # 0
      <4>1. PICK p \in Types : p # t /\ refs[p][b] # 0
        BY <3>2 DEF Partners, Types
      <4>2. refs'[p][b] > 0
        BY <1>2, <2>2, <4>1
      <4> QED
        BY <4>2 DEF Referenced
    <3> QED
      BY <2>5, <3>1, <3>2
  <2>9. \A x \in Bufs : x # b => (Referenced(x)' <=> Referenced(x))
    BY <2>2 DEF Referenced
  <2>10. FreeInv'
    BY <1>1, <2>2, <2>4, <2>7 DEF FreeInv
  <2>11. Referenced(b)
    BY <1>4 DEF Referenced
  <2>12. QueuedOnce'
    <3>1. fills[b] <= 1 /\ fills[b] = 0 /\ \A u \in Threads : filling[u] # b
      BY <1>1, <2>4 DEF QueuedOnce, Free, TypeOK
    <3>2. \A u \in Threads : filling'[u] = b => u = thread
      BY <2>3, <3>1
    <3>3. \A x \in Bufs, u \in Threads : x # b /\ filling'[u] = x => filling[u] = x
      BY <1>1, <2>3
    <3> QED
      BY <1>1, <2>1, <3>1, <3>2, <3>3 DEF QueuedOnce
  <2> QED
    BY <1>4, <2>1, <2>2, <2>4, <2>6, <2>8, <2>9, <2>10, <2>11, <2>12
<1> QED
  BY <1>2, <1>3, <1>4

LEMMA StopReturnFrame ==
  ASSUME TypeInv, VideoInv, StopInv, ~crashed', NEW c \in Clients, NEW t \in Types,
         NEW b \in Bufs, ReturnFrame(c, t, b)
  PROVE  StopInv'
<1>1. TypeOK /\ c \in Threads
  BY DEF TypeInv, Threads
<1>2. /\ <<c, t>> \in held[b] /\ ReturnRef(c, b, t) /\ filling[c] = NoBuf
      /\ held' = [held EXCEPT ![b] = @ \ {<<c, t>>}]
      /\ UNCHANGED <<pc, frame, mainType, mask, todo, unsent, ctl, toStop, recordings,
                     reclaimed>>
  BY DEF ReturnFrame, Ready, cbVars, ctlVars
<1>3. /\ UNCHANGED <<fills, videoKeys, subs, recording>>
      /\ TypesInv' /\ FreeInv' /\ QueuedOnce'
      /\ \A x \in Bufs : Free(x) \/ Referenced(x) => (Free(x) \/ Referenced(x))'
      /\ \A x \in Bufs : ~Free(x) /\ ~Referenced(x) => ~Free(x)'
      /\ \A x \in Bufs, u \in Types : x # b \/ u # t => refs'[u][x] = refs[u][x]
      /\ refs'[t][b] = IF refs[t][b] = 0 THEN 0 ELSE refs[t][b] - 1
  BY <1>1, <1>2, StopReturnRef
<1>4. /\ Holders(b, t)' = Holders(b, t) \ {c} /\ c \in Holders(b, t)
      /\ \A x \in Bufs, u \in Types :
           x # b \/ u # t => Holders(x, u)' = Holders(x, u)
  BY <1>1, <1>2 DEF Holders, TypeOK
<1>5. \A x \in Bufs, u \in Types : /\ refs[u][x] \in Nat
                                   /\ Cardinality(Holders(x, u)) \in Nat
                                   /\ Cardinality(subs[u]) \in Nat
  BY <1>1, Numbers
<1>6. StopControl' /\ StopMask'
  BY <1>2, <1>3 DEF StopInv, StopControl, StopMask
<1>7. StopVideo'
  <2>1. ASSUME NEW x \in Bufs, x # b \/ t # "VIDEO"
        PROVE  IF refs'["VIDEO"][x] = 0 THEN Holders(x, "VIDEO")' = {}
               ELSE ctl' = "returning" /\ x \in toStop'
    BY <1>2, <1>3, <1>4, <2>1 DEF StopInv, StopVideo, Types
  <2>2. CASE t = "VIDEO"
    <3>1. refs["VIDEO"][b] = 1
      BY <1>4, <1>5, <2>2 DEF StopInv, StopVideo, VideoInv
    <3>2. refs'["VIDEO"][b] = 0
      BY <1>3, <2>2, <3>1
    <3>3. Holders(b, "VIDEO") \subseteq {Encoder} /\ c = Encoder
      BY <1>4, <2>2 DEF VideoInv, Holders
    <3> QED
      BY <1>4, <2>1, <2>2, <3>2, <3>3 DEF StopVideo
  <2> QED
    BY <2>1, <2>2 DEF StopVideo
<1>8. BoundInv'
  <2> SUFFICES ASSUME NEW x \in Bufs, NEW u \in Types
               PROVE  refs'[u][x] <= IF ~Unsent(x, u)' THEN Cardinality(Holders(x, u)')
                                     ELSE IF Counted(u)' THEN Cardinality(subs'[u])
                                     ELSE 0
    BY DEF BoundInv
  <2>1. /\ (Unsent(x, u)' <=> Unsent(x, u)) /\ (Counted(u)' <=> Counted(u))
        /\ subs' = subs
    BY <1>2, <1>3 DEF Unsent, Counted
  <2>2. refs[u][x] <= IF ~Unsent(x, u) THEN Cardinality(Holders(x, u))
                      ELSE IF Counted(u) THEN Cardinality(subs[u]) ELSE 0
    BY DEF StopInv, BoundInv
  <2>3. CASE x # b \/ u # t
    BY <1>3, <1>4, <2>1, <2>2, <2>3
  <2>4. CASE x = b /\ u = t
    <3>1. Cardinality(Holders(x, u)') = Cardinality(Holders(x, u)) - 1
      BY <1>4, <2>4, HoldersAreClients, OneHolderLess
    <3>2. Cardinality(Holders(x, u)) # 0
      BY <1>4, <2>4, HoldersAreClients, ClientSets
    <3>3. refs'[u][x] = IF refs[u][x] = 0 THEN 0 ELSE refs[u][x] - 1
      BY <1>3, <2>4
    <3>4. /\ refs[u][x] \in Nat /\ Cardinality(Holders(x, u)) \in Nat
          /\ Cardinality(subs[u]) \in Nat
      BY <1>5
    <3> QED
      BY <2>1, <2>2, <3>1, <3>2, <3>3, <3>4
  <2> QED
    BY <2>3, <2>4
<1>9. StopKept'
  <2> SUFFICES ASSUME NEW x \in Bufs
               PROVE  IF Uncounted(x)' THEN ~Free(x)' ELSE (Free(x) \/ Referenced(x))'
    BY DEF StopKept
  <2>1. Uncounted(x)' <=> Uncounted(x)
    BY <1>2 DEF Uncounted
  <2>2. Uncounted(x) => ~Referenced(x)
    BY UncountedHasNone DEF Referenced, StopInv
  <2> QED
    BY <1>3, <2>1, <2>2 DEF StopInv, StopKept
<1> QED
  BY <1>3, <1>6, <1>7, <1>8, <1>9 DEF StopInv

(* stopVideoCapture() takes back one video frame.                           *)
LEMMA StopVideoReturnStop ==
  ASSUME TypeInv, VideoInv, StopInv, ~crashed', NEW b \in Bufs, StopVideoReturn(b)
  PROVE  StopInv'
<1>1. TypeOK /\ Control \in Threads /\ "VIDEO" \in Types
  BY DEF TypeInv, Threads, Types
<1>2. /\ ctl = "returning" /\ toStop' = toStop \ {b} /\ filling[Control] = NoBuf
      /\ UNCHANGED <<pc, frame, mainType, mask, todo, unsent, ctl, recordings>>
  BY DEF StopVideoReturn, Ready, cbVars
<1>5. \A x \in Bufs, u \in Types : /\ refs[u][x] \in Nat
                                   /\ Cardinality(Holders(x, u)) \in Nat
                                   /\ Cardinality(subs[u]) \in Nat
  BY <1>1, Numbers
<1>3. CASE refs["VIDEO"][b] > 0
  <2>1. /\ ReturnRef(Control, b, "VIDEO")
        /\ held' = [held EXCEPT ![b] = @ \ {<<Encoder, "VIDEO">>}]
    BY <1>3 DEF StopVideoReturn
  <2>2. /\ UNCHANGED <<fills, videoKeys, subs, recording>>
        /\ TypesInv' /\ FreeInv' /\ QueuedOnce'
        /\ \A x \in Bufs : Free(x) \/ Referenced(x) => (Free(x) \/ Referenced(x))'
        /\ \A x \in Bufs : ~Free(x) /\ ~Referenced(x) => ~Free(x)'
        /\ \A x \in Bufs, u \in Types :
             x # b \/ u # "VIDEO" => refs'[u][x] = refs[u][x]
        /\ refs'["VIDEO"][b] = IF refs["VIDEO"][b] = 0 THEN 0
                                                       ELSE refs["VIDEO"][b] - 1
    BY <1>1, <1>2, <2>1, StopReturnRef
  <2>3. /\ Holders(b, "VIDEO")' = Holders(b, "VIDEO") \ {Encoder}
        /\ \A x \in Bufs, u \in Types :
             x # b \/ u # "VIDEO" => Holders(x, u)' = Holders(x, u)
    BY <1>1, <2>1 DEF Holders, TypeOK
  <2>4. refs'["VIDEO"][b] = 0
    BY <1>1, <1>3, <1>5, <2>2 DEF VideoInv
  <2>5. Holders(b, "VIDEO")' = {}
    <3>1. Holders(b, "VIDEO") \subseteq {Encoder}
      BY DEF VideoInv, Holders
    <3> QED
      BY <2>3, <3>1
  <2>6. StopControl' /\ StopMask'
    BY <1>2, <2>2 DEF StopInv, StopControl, StopMask
  <2>7. StopVideo'
    <3>1. ASSUME NEW x \in Bufs, x # b
          PROVE  IF refs'["VIDEO"][x] = 0 THEN Holders(x, "VIDEO")' = {}
                 ELSE ctl' = "returning" /\ x \in toStop'
      BY <1>1, <1>2, <2>2, <2>3, <3>1 DEF StopInv, StopVideo
    <3> QED
      BY <2>4, <2>5, <3>1 DEF StopVideo
  <2>8. BoundInv'
    <3> SUFFICES ASSUME NEW x \in Bufs, NEW u \in Types
                 PROVE  refs'[u][x] <= IF ~Unsent(x, u)' THEN Cardinality(Holders(x, u)')
                                       ELSE IF Counted(u)' THEN Cardinality(subs'[u])
                                       ELSE 0
      BY DEF BoundInv
    <3>1. /\ (Unsent(x, u)' <=> Unsent(x, u)) /\ (Counted(u)' <=> Counted(u))
          /\ subs' = subs
      BY <1>2, <2>2 DEF Unsent, Counted
    <3>2. CASE x # b \/ u # "VIDEO"
      <4>1. refs[u][x] <= IF ~Unsent(x, u) THEN Cardinality(Holders(x, u))
                          ELSE IF Counted(u) THEN Cardinality(subs[u]) ELSE 0
        BY DEF StopInv, BoundInv
      <4>2. refs'[u][x] = refs[u][x]
        BY <2>2, <3>2
      <4>3. Holders(x, u)' = Holders(x, u)
        BY <2>3, <3>2
      <4> QED
        BY <3>1, <4>1, <4>2, <4>3
    <3>3. CASE x = b /\ u = "VIDEO"
      <4>1. Cardinality(Holders(x, u)') = 0
        BY <2>5, <3>3, FS_EmptySet
      <4> QED
        BY <1>5, <2>4, <3>1, <3>3, <4>1
    <3> QED
      BY <3>2, <3>3
  <2>9. StopKept'
    <3> SUFFICES ASSUME NEW x \in Bufs
                 PROVE  IF Uncounted(x)' THEN ~Free(x)' ELSE (Free(x) \/ Referenced(x))'
      BY DEF StopKept
    <3>1. Uncounted(x)' <=> Uncounted(x)
      BY <1>2 DEF Uncounted
    <3>2. Uncounted(x) => ~Referenced(x)
      BY UncountedHasNone DEF Referenced, StopInv
    <3> QED
      BY <2>2, <3>1, <3>2 DEF StopInv, StopKept
  <2> QED
    BY <2>2, <2>6, <2>7, <2>8, <2>9 DEF StopInv
<1>4. CASE ~(refs["VIDEO"][b] > 0)
  <2>1. UNCHANGED <<fills, refs, videoKeys, subs, held, filling, recording>>
    BY <1>4 DEF StopVideoReturn
  <2>2. refs["VIDEO"][b] = 0
    BY <1>1, <1>4, <1>5
  <2>3. StopControl' /\ StopMask' /\ TypesInv' /\ FreeInv' /\ QueuedOnce' /\ StopKept'
      /\ BoundInv'
    BY <1>2, <2>1 DEF StopInv, StopControl, StopMask, TypesInv, FreeInv, QueuedOnce, StopKept,
                      BoundInv, Free, Referenced, Uncounted, Unsent, Counted, Holders
  <2>4. StopVideo'
    BY <1>2, <2>1, <2>2 DEF StopInv, StopVideo, Holders
  <2> QED
    BY <2>3, <2>4 DEF StopInv
<1> QED
  BY <1>3, <1>4

(* The counts that are cleared are zero already: nothing is forgotten.      *)
LEMMA StopVideoClearStop ==
  ASSUME TypeInv, StopInv, StopVideoClear
  PROVE  StopInv'
<1>1. TypeOK /\ "VIDEO" \in Types
  BY DEF TypeInv, Types
<1>2. /\ UNCHANGED <<fills, subs, held, filling, recording, toStop, recordings>>
      /\ UNCHANGED cbVars
      /\ ctl = "returning" /\ ctl' = "cleared" /\ toStop = {}
      /\ refs' = [refs EXCEPT !["VIDEO"] = [b \in Bufs |-> 0]]
  BY DEF StopVideoClear
<1>3. \A b \in Bufs : refs["VIDEO"][b] = 0
  BY <1>2 DEF StopInv, StopVideo
<1>4. refs' = refs
  <2>1. refs["VIDEO"] = [b \in Bufs |-> 0]
    BY <1>1, <1>3 DEF TypeOK
  <2> QED
    BY <1>1, <1>2, <2>1 DEF TypeOK
<1>5. StopControl' /\ StopMask' /\ TypesInv' /\ FreeInv' /\ QueuedOnce' /\ StopKept'
      /\ BoundInv'
  BY <1>2, <1>4 DEF StopInv, StopControl, StopMask, TypesInv, FreeInv, QueuedOnce, StopKept,
                    BoundInv, Free, Referenced, Uncounted, Unsent, Counted, Holders, cbVars
<1>6. StopVideo'
  BY <1>2, <1>3, <1>4 DEF StopInv, StopVideo, Holders
<1> QED
  BY <1>5, <1>6 DEF StopInv

LEMMA StopVideoDoneStop ==
  ASSUME TypeInv, StopInv, StopVideoDone
  PROVE  StopInv'
<1>2. /\ UNCHANGED <<fills, refs, subs, held, filling, toStop, recordings>>
      /\ UNCHANGED cbVars
      /\ ctl = "cleared" /\ ctl' = "idle" /\ recording' = FALSE
  BY DEF StopVideoDone
<1>3. \A b \in Bufs : refs["VIDEO"][b] = 0
  BY <1>2 DEF StopInv, StopVideo
<1>5. StopControl' /\ StopMask' /\ FreeInv' /\ QueuedOnce' /\ StopKept' /\ BoundInv'
  BY <1>2 DEF StopInv, StopControl, StopMask, FreeInv, QueuedOnce, StopKept,
              BoundInv, Free, Referenced, Uncounted, Unsent, Counted, Holders, cbVars
<1>6. StopVideo' /\ TypesInv'
  BY <1>2, <1>3 DEF StopInv, StopVideo, TypesInv, Holders
<1> QED
  BY <1>5, <1>6 DEF StopInv

(* A late release that does not abort finds nothing to give up.             *)
LEMMA LateReleaseStop ==
  ASSUME TypeInv, VideoInv, StopInv, ~crashed', recordings < 2,
         NEW b \in Bufs, LateRelease(b)
  PROVE  StopInv'
<1>1. /\ refs["VIDEO"][b] = 0
      /\ ReturnRef(Encoder, b, "VIDEO")
         \/ UNCHANGED <<fills, refs, videoKeys, subs, filling, recording>>
      /\ UNCHANGED held /\ UNCHANGED cbVars /\ UNCHANGED ctlVars
  <2>1. ~crashed /\ b \in reclaimed /\ refs["VIDEO"][b] = 0
    BY DEF LateRelease, VideoInv, Ready
  <2> QED
    BY <2>1 DEF LateRelease, Crash
<1>2. UNCHANGED <<fills, refs, videoKeys, subs, filling, recording>>
  BY <1>1 DEF ReturnRef, Crash
<1>3. StopControl' /\ StopMask' /\ StopVideo'
  BY <1>1, <1>2 DEF StopInv, StopControl, StopMask, StopVideo, Holders, cbVars, ctlVars
<1>4. TypesInv' /\ FreeInv' /\ QueuedOnce'
  BY <1>2 DEF StopInv, TypesInv, FreeInv, QueuedOnce, Free
<1>5. StopKept' /\ BoundInv'
  BY <1>1, <1>2 DEF StopInv, StopKept, BoundInv, Free, Referenced, Uncounted,
                    Unsent, Counted, Holders, cbVars
<1> QED
  BY <1>3, <1>4, <1>5 DEF StopInv

LEMMA StopFillThisBuffer ==
  ASSUME TypeInv, StopInv, NEW thread \in Threads, FillThisBuffer(thread)
  PROVE  StopInv'
<1> PICK b : b = filling[thread]
  OBVIOUS
<1>1. TypeOK /\ NoBuf \notin Bufs
  BY FrameAssumption DEF TypeInv
<1>2. /\ b \in Bufs
      /\ fills' = [fills EXCEPT ![b] = @ + 1]
      /\ filling' = [filling EXCEPT ![thread] = NoBuf]
      /\ UNCHANGED <<refs, videoKeys, subs, held, recording>>
      /\ UNCHANGED <<cbVars, ctlVars>>
  BY <1>1 DEF FillThisBuffer, TypeOK
<1>3. /\ fills'[b] = fills[b] + 1 /\ fills[b] \in Nat /\ filling'[thread] = NoBuf
      /\ \A x \in Bufs : x # b => fills'[x] = fills[x]
      /\ \A u \in Threads : u # thread => filling'[u] = filling[u]
  BY <1>1, <1>2 DEF TypeOK
<1>4. \A x \in Bufs : Free(x)' <=> Free(x)
  BY <1>1, <1>2, <1>3 DEF Free
<1>5. StopControl' /\ StopMask' /\ StopVideo' /\ TypesInv' /\ BoundInv'
  BY <1>2 DEF StopInv, StopControl, StopMask, StopVideo, TypesInv, BoundInv,
              Unsent, Counted, Holders, cbVars, ctlVars
<1>7. QueuedOnce'
  BY <1>1, <1>2, <1>3 DEF StopInv, QueuedOnce
<1>6. FreeInv' /\ StopKept'
  BY <1>2, <1>4 DEF StopInv, FreeInv, StopKept, Referenced, Uncounted, cbVars
<1> QED
  BY <1>5, <1>6, <1>7 DEF StopInv

LEMMA StopMsgType ==
  ASSUME TypeInv, StopInv, NEW c \in Apps, NEW t \in {"PREVIEW", "SNAPSHOT"},
         EnableMsgType(c, t) \/ DisableMsgType(c, t)
  PROVE  StopInv'
<1>1. TypeOK /\ t \in Types /\ c # Display /\ (pc \in {"count", "send"} => todo # {} /\ mainType \in mask)
  BY FrameAssumption DEF TypeInv, Types
<1>2. /\ ~SubscribersLocked
      /\ UNCHANGED <<fills, refs, videoKeys, held, filling, recording>>
      /\ UNCHANGED <<cbVars, ctlVars>>
      /\ \/ subs' = [subs EXCEPT ![t] = @ \cup {c}]
         \/ subs' = [subs EXCEPT ![t] = @ \ {c}]
  BY DEF EnableMsgType, DisableMsgType
<1>3. StopMask' /\ StopVideo' /\ TypesInv' /\ FreeInv' /\ QueuedOnce' /\ StopKept'
  BY <1>2 DEF StopInv, StopMask, StopVideo, TypesInv, FreeInv, QueuedOnce, StopKept,
              Free, Referenced, Uncounted, Holders, cbVars, ctlVars
<1>4. StopControl'
  BY <1>1, <1>2 DEF StopInv, StopControl, TypeOK, ctlVars, Types
<1>5. \A x \in Bufs, u \in Types : Unsent(x, u) => ~Counted(u)
  BY <1>1, <1>2, FrameAssumption DEF Unsent, Counted, SubscribersLocked, TypeOK
<1>6. BoundInv'
  BY <1>2, <1>5 DEF StopInv, BoundInv, Unsent, Counted, Holders, cbVars
<1> QED
  BY <1>3, <1>4, <1>6 DEF StopInv

(* A type is counted.  Each type of a new frame has a subscriber, except    *)
(* the video type, which has none and no reference.                         *)
LEMMA StopSetInit ==
  ASSUME TypeInv, VideoInv, StopInv, ctl \notin {"start", "recording"},
         SetInitFrameRefCount
  PROVE  StopInv'
<1> PICK t : t = First(todo)
  OBVIOUS
<1>1. /\ TypeOK /\ NoBuf \notin Bufs /\ "VIDEO" \in Types
      /\ StopControl /\ StopMask /\ StopVideo /\ BoundInv /\ TypesInv /\ FreeInv
      /\ QueuedOnce /\ StopKept
  BY FrameAssumption DEF TypeInv, StopInv, Types
<1>2. /\ t \in todo /\ t \in Types /\ frame \in Bufs /\ t \in mask /\ pc = "count"
      /\ todo \subseteq mask /\ mask \subseteq Types
  BY <1>1, FirstIsLeft DEF SetInitFrameRefCount, TypeOK
<1>3. /\ refs' = [refs EXCEPT ![t][frame] = Cardinality(subs[t])]
      /\ videoKeys' = IF t = "VIDEO" THEN videoKeys \cup {frame} ELSE videoKeys
      /\ Advance(t, "send")
      /\ UNCHANGED <<fills, subs, held, filling, recording, frame, mainType, mask>>
      /\ UNCHANGED <<ctl, toStop, recordings>>
  BY DEF SetInitFrameRefCount, ctlVars
<1>4. \/ /\ mask = {t} /\ t = mainType /\ t # "VIDEO" /\ todo = mask
         /\ pc' = "send" /\ todo' = mask
      \/ /\ mask = {"PREVIEW", "VIDEO"} /\ t = "PREVIEW" /\ mainType = t /\ todo = mask
         /\ pc' = "count" /\ todo' = {"VIDEO"}
      \/ /\ mask = {"PREVIEW", "VIDEO"} /\ t = "VIDEO" /\ todo = {"VIDEO"}
         /\ mainType = "PREVIEW" /\ pc' = "send" /\ todo' = mask
  <2>1. mainType \in {"PREVIEW", "SNAPSHOT"}
    BY <1>1 DEF TypeOK
  <2> QED
    BY <1>1, <1>2, <1>3, <2>1 DEF StopMask, Advance, First
<1>5. \A x \in Bufs, u \in Types :
        refs'[u][x] = IF x = frame /\ u = t THEN Cardinality(subs[t]) ELSE refs[u][x]
  BY <1>1, <1>2, <1>3 DEF TypeOK
<1>6. \A x \in Bufs, u \in Types : /\ refs[u][x] \in Nat
                                   /\ Cardinality(Holders(x, u)) \in Nat
                                   /\ Cardinality(subs[u]) \in Nat
  BY <1>1, Numbers
<1>7. \A u \in Types : refs[u][frame] <= IF Counted(u) THEN Cardinality(subs[u]) ELSE 0
  BY <1>1, <1>2 DEF BoundInv, Unsent
<1>8. \A u \in Types : ~Counted(u) => refs[u][frame] = 0
  BY <1>6, <1>7, <1>2
<1>9. Cardinality(subs["VIDEO"]) = 0
  BY FS_EmptySet DEF VideoInv
<1>10. t # "VIDEO" => Cardinality(subs[t]) > 0 /\ ~Free(frame)
  <2> SUFFICES ASSUME t # "VIDEO" PROVE Cardinality(subs[t]) > 0 /\ ~Free(frame)
    OBVIOUS
  <2>1. Display \in subs[t] /\ subs[t] \in SUBSET Clients
    BY <1>1, <1>2 DEF StopControl, TypeOK, Types
  <2>2. Cardinality(subs[t]) # 0
    BY <2>1, ClientSets
  <2>3. Uncounted(frame)
    BY <1>2, <1>4 DEF Uncounted
  <2> QED
    BY <1>1, <1>2, <1>6, <2>2, <2>3 DEF StopKept
<1>11. t = "VIDEO" => refs["VIDEO"][frame] = 0
  BY <1>2, <1>4, <1>8 DEF Counted
<1>12. \A x \in Bufs : refs'["VIDEO"][x] = refs["VIDEO"][x]
  BY <1>1, <1>5, <1>9, <1>11
<1>13. StopControl'
  BY <1>1, <1>2, <1>3 DEF StopControl, TypeOK
<1>14. StopMask'
  BY <1>3, <1>4 DEF StopMask
<1>15. StopVideo'
  BY <1>1, <1>3, <1>12 DEF StopVideo, Holders
<1>16. TypesInv'
  <2> SUFFICES ASSUME NEW x \in Bufs
               PROVE  /\ refs'["SNAPSHOT"][x] > 0 =>
                           refs'["PREVIEW"][x] = 0 /\ refs'["VIDEO"][x] = 0
                      /\ ~recording => refs'["VIDEO"][x] = 0
    BY <1>3 DEF TypesInv
  <2>1. ~recording => refs'["VIDEO"][x] = 0
    BY <1>1, <1>12 DEF TypesInv
  <2>2. CASE x # frame \/ t = "VIDEO"
    BY <1>1, <1>5, <1>12, <2>1, <2>2 DEF TypesInv, Types
  <2>3. CASE x = frame /\ t # "VIDEO"
    <3>1. \A u \in Types : ~Counted(u)
      BY <1>2, <1>4, <2>3 DEF Counted
    <3>2. \A u \in Types : u # t => refs'[u][x] = 0
      BY <1>5, <1>8, <2>3, <3>1
    <3> QED
      BY <1>2, <2>1, <2>3, <3>2 DEF Types
  <2> QED
    BY <2>2, <2>3
<1>17. \A x \in Bufs : Free(x)' <=> Free(x)
  BY <1>3 DEF Free
<1>18. FreeInv'
  BY <1>1, <1>2, <1>5, <1>9, <1>10, <1>17 DEF FreeInv
<1>19. QueuedOnce'
  BY <1>1, <1>3 DEF QueuedOnce
<1>20. BoundInv'
  <2> SUFFICES ASSUME NEW x \in Bufs, NEW u \in Types
               PROVE  refs'[u][x] <= IF ~Unsent(x, u)' THEN Cardinality(Holders(x, u))
                                     ELSE IF Counted(u)' THEN Cardinality(subs[u])
                                     ELSE 0
    BY <1>3 DEF BoundInv, Holders
  <2>1. CASE x # frame
    BY <1>1, <1>3, <1>5, <2>1 DEF BoundInv, Unsent
  <2>2. CASE x = frame /\ u = t
    <3>1. Counted(t)'
      BY <1>2, <1>3, <1>4 DEF Counted
    <3>2. Unsent(x, t)'
      BY <1>2, <1>3, <1>4, <2>2 DEF Unsent
    <3> QED
      BY <1>5, <1>6, <2>2, <3>1, <3>2
  <2>3. CASE x = frame /\ u # t
    <3>1. refs'[u][x] = refs[u][frame]
      BY <1>5, <2>3
    <3>2. CASE ~Counted(u)
      BY <1>6, <1>8, <2>3, <3>1, <3>2
    <3>3. CASE Counted(u)
      <4>1. u = "PREVIEW" /\ t = "VIDEO"
        BY <1>2, <1>4, <2>3, <3>3 DEF Counted
      <4>2. Counted(u)' /\ Unsent(x, u)'
        BY <1>3, <1>4, <2>3, <4>1 DEF Counted, Unsent
      <4> QED
        BY <1>7, <3>1, <3>3, <4>2
    <3> QED
      BY <3>2, <3>3
  <2> QED
    BY <2>1, <2>2, <2>3
<1>21. StopKept'
  <2> SUFFICES ASSUME NEW x \in Bufs
               PROVE  IF Uncounted(x)' THEN ~Free(x)' ELSE (Free(x) \/ Referenced(x))'
    BY DEF StopKept
  <2>1. ~Uncounted(x)'
    BY <1>3, <1>4 DEF Uncounted
  <2>2. CASE x = frame /\ t # "VIDEO"
    <3>1. refs'[t][x] > 0
      BY <1>2, <1>5, <1>10, <2>2
    <3> QED
      BY <1>2, <2>1, <3>1 DEF Referenced
  <2>3. CASE x # frame \/ t = "VIDEO"
    <3>1. ~Uncounted(x)
      BY <1>4, <2>3 DEF Uncounted
    <3>2. \A u \in Types : refs'[u][x] = refs[u][x]
      BY <1>2, <1>5, <1>9, <1>11, <2>3
    <3> QED
      BY <1>1, <1>17, <2>1, <3>1, <3>2 DEF StopKept, Referenced
  <2> QED
    BY <2>2, <2>3
<1> QED
  BY <1>13, <1>14, <1>15, <1>16, <1>18, <1>19, <1>20, <1>21 DEF StopInv

(* What is sent has a reference, so it is no video frame.                   *)
LEMMA StopSendFrame ==
  ASSUME TypeInv, VideoInv, StopInv, ctl \notin {"start", "recording"},
         SendFrameToSubscribers
  PROVE  StopInv'
<1> PICK t : t = First(todo)
  OBVIOUS
<1>1. /\ TypeOK /\ NoBuf \notin Bufs /\ "VIDEO" \in Types
      /\ StopControl /\ StopMask /\ StopVideo /\ BoundInv /\ TypesInv /\ FreeInv
      /\ QueuedOnce /\ StopKept
  BY FrameAssumption DEF TypeInv, StopInv, Types
<1>2. /\ t \in todo /\ t \in Types /\ frame \in Bufs /\ t \in mask /\ pc = "send"
      /\ todo \subseteq mask /\ mask \subseteq Types
  BY <1>1, FirstIsLeft DEF SendFrameToSubscribers, TypeOK
<1>3. /\ Advance(t, "idle") /\ refs[t][frame] > 0
      /\ frame' = IF pc' = "idle" THEN NoBuf ELSE frame
      /\ UNCHANGED <<fills, refs, videoKeys, subs, filling, recording, mainType, mask>>
      /\ UNCHANGED <<ctl, toStop, recordings>>
  BY DEF SendFrameToSubscribers, ctlVars
<1> PICK S \in SUBSET subs[t] :
           /\ Cardinality(S) = refs[t][frame]
           /\ held' = [held EXCEPT ![frame] = @ \cup (S \X {t})]
  BY DEF SendFrameToSubscribers
<1>4. \A x \in Bufs, u \in Types : /\ refs[u][x] \in Nat
                                   /\ Cardinality(Holders(x, u)) \in Nat
                                   /\ Cardinality(subs[u]) \in Nat
  BY <1>1, Numbers
<1>5. t # "VIDEO"
  <2>1. Cardinality(subs["VIDEO"]) = 0
    BY FS_EmptySet DEF VideoInv
  <2>2. refs[t][frame] <= Cardinality(subs[t])
    BY <1>2 DEF SendFrameToSubscribers
  <2> QED
    BY <1>2, <1>3, <1>4, <2>1, <2>2
<1>6. \/ pc' = "idle" /\ todo = {t} /\ todo' = {} /\ frame' = NoBuf
      \/ /\ pc' = "send" /\ todo' = {"VIDEO"} /\ frame' = frame
         /\ mask = {"PREVIEW", "VIDEO"} /\ todo = mask /\ t = "PREVIEW"
         /\ mainType = "PREVIEW"
  BY <1>1, <1>2, <1>3, <1>5 DEF StopMask, Advance
<1>7. S \in SUBSET Clients
  BY <1>1, <1>2 DEF TypeOK
<1>8. \A x \in Bufs, u \in Types :
        Holders(x, u)' = IF x = frame /\ u = t THEN Holders(x, u) \cup S
                                               ELSE Holders(x, u)
  BY <1>1, <1>2, <1>7 DEF Holders, TypeOK
<1>9. StopControl' /\ StopMask'
  BY <1>1, <1>3, <1>6 DEF StopControl, StopMask
<1>10. StopVideo'
  BY <1>1, <1>3, <1>5, <1>8 DEF StopVideo
<1>11. TypesInv' /\ FreeInv' /\ QueuedOnce'
  BY <1>1, <1>3 DEF TypesInv, FreeInv, QueuedOnce, Free
<1>12. BoundInv'
  <2> SUFFICES ASSUME NEW x \in Bufs, NEW u \in Types
               PROVE  refs[u][x] <= IF ~Unsent(x, u)' THEN Cardinality(Holders(x, u)')
                                    ELSE IF Counted(u)' THEN Cardinality(subs[u])
                                    ELSE 0
    BY <1>3 DEF BoundInv
  <2>1. CASE x = frame /\ u = t
    <3>1. ~Unsent(x, u)'
      BY <1>1, <1>2, <1>6, <2>1 DEF Unsent
    <3>2. Holders(x, u)' = Holders(x, u) \cup S /\ Holders(x, u)' \in SUBSET Clients
      BY <1>7, <1>8, <2>1 DEF Holders
    <3>3. Cardinality(S) <= Cardinality(Holders(x, u)')
      BY <3>2, ClientSets, FS_Subset
    <3> QED
      BY <2>1, <3>1, <3>3
  <2>2. CASE ~(x = frame /\ u = t)
    <3>1. Holders(x, u)' = Holders(x, u)
      BY <1>8, <2>2
    <3>2. Unsent(x, u)' <=> Unsent(x, u)
      BY <1>1, <1>2, <1>6, <2>2 DEF Unsent
    <3>3. Unsent(x, u)' => (Counted(u)' <=> Counted(u))
      BY <1>1, <1>2, <1>3, <1>6, <2>2 DEF Unsent, Counted
    <3>4. refs[u][x] <= IF ~Unsent(x, u) THEN Cardinality(Holders(x, u))
                        ELSE IF Counted(u) THEN Cardinality(subs[u]) ELSE 0
      BY <1>1 DEF BoundInv
    <3> QED
      BY <3>1, <3>2, <3>3, <3>4
  <2> QED
    BY <2>1, <2>2
<1>13. StopKept'
  BY <1>1, <1>2, <1>3, <1>6 DEF StopKept, Uncounted, Free, Referenced
<1> QED
  BY <1>9, <1>10, <1>11, <1>12, <1>13 DEF StopInv

(* What cannot be sent has no reference, and neither have the types behind  *)
(* it.                                                                      *)
LEMMA StopSendFails ==
  ASSUME TypeInv, VideoInv, StopInv, ctl \notin {"start", "recording"},
         SendFrameFails, ~crashed'
  PROVE  StopInv'
<1> PICK t : t = First(todo)
  OBVIOUS
<1>1. /\ TypeOK /\ NoBuf \notin Bufs /\ "VIDEO" \in Types
      /\ StopControl /\ StopMask /\ StopVideo /\ BoundInv /\ TypesInv /\ FreeInv
      /\ QueuedOnce /\ StopKept
  BY FrameAssumption DEF TypeInv, StopInv, Types
<1>2. /\ t \in todo /\ t \in Types /\ frame \in Bufs /\ t \in mask /\ pc = "send"
      /\ todo \subseteq mask /\ mask \subseteq Types
  BY <1>1, FirstIsLeft DEF SendFrameFails, TypeOK
<1>3. /\ refs[t][frame] \notin 1..Cardinality(subs[t])
      /\ pc' = "return" /\ todo' = {}
      /\ UNCHANGED <<fills, refs, videoKeys, subs, filling, recording>>
      /\ UNCHANGED <<held, frame, mainType, mask>>
      /\ UNCHANGED <<ctl, toStop, recordings>>
  BY DEF SendFrameFails, Crash, ctlVars
<1>4. \A x \in Bufs, u \in Types : /\ refs[u][x] \in Nat
                                   /\ Cardinality(Holders(x, u)) \in Nat
                                   /\ Cardinality(subs[u]) \in Nat
  BY <1>1, Numbers
<1>5. Cardinality(subs["VIDEO"]) = 0
  BY FS_EmptySet DEF VideoInv
<1>6. \A u \in todo : refs[u][frame] = 0
  <2> SUFFICES ASSUME NEW u \in todo PROVE refs[u][frame] = 0
    OBVIOUS
  <2>1. u \in Types /\ Unsent(frame, u) /\ Counted(u)
    BY <1>2 DEF Unsent, Counted
  <2>2. refs[u][frame] <= Cardinality(subs[u])
    BY <1>1, <1>2, <2>1 DEF BoundInv
  <2>3. u = t \/ u = "VIDEO"
    BY <1>1, <1>2 DEF StopMask, First
  <2> QED
    BY <1>2, <1>3, <1>4, <1>5, <2>1, <2>2, <2>3
<1>7. StopControl' /\ StopMask'
  BY <1>1, <1>3 DEF StopControl, StopMask
<1>8. StopVideo'
  BY <1>1, <1>3 DEF StopVideo, Holders
<1>9. TypesInv' /\ FreeInv' /\ QueuedOnce'
  BY <1>1, <1>3 DEF TypesInv, FreeInv, QueuedOnce, Free
<1>10. BoundInv'
  <2> SUFFICES ASSUME NEW x \in Bufs, NEW u \in Types
               PROVE  refs[u][x] <= Cardinality(Holders(x, u))
    BY <1>3 DEF BoundInv, Unsent, Holders
  <2>1. CASE x = frame /\ u \in todo
    BY <1>4, <1>6, <2>1
  <2>2. CASE ~(x = frame /\ u \in todo)
    BY <1>1, <1>2, <2>2 DEF BoundInv, Unsent
  <2> QED
    BY <2>1, <2>2
<1>11. StopKept'
  BY <1>1, <1>2, <1>3 DEF StopKept, Uncounted, Free, Referenced
<1> QED
  BY <1>7, <1>8, <1>9, <1>10, <1>11 DEF StopInv

(* FillBufferDone returns a frame it could not send: at most the reference  *)
(* of a holder is given up, never one that nobody would give back.          *)
LEMMA StopReturnUnsent ==
  ASSUME TypeInv, VideoInv, StopInv, ReturnUnsentFrame, ~crashed'
  PROVE  StopInv'
<1>1. /\ TypeOK /\ NoBuf \notin Bufs /\ "VIDEO" \in Types /\ Omx \in Threads
      /\ StopControl /\ StopMask /\ StopVideo /\ BoundInv /\ StopKept
  BY FrameAssumption DEF TypeInv, StopInv, Types, Threads
<1>2. /\ pc = "return" /\ filling[Omx] = NoBuf /\ ReturnRef(Omx, frame, mainType)
      /\ pc' = "idle" /\ frame' = NoBuf /\ todo = {}
      /\ UNCHANGED <<held, mask, mainType, todo>> /\ UNCHANGED <<ctl, toStop, recordings>>
  BY <1>1 DEF ReturnUnsentFrame, Ready, StopMask, ctlVars
<1>3. frame \in Bufs /\ mainType \in Types /\ mainType # "VIDEO"
  BY <1>1, <1>2 DEF TypeOK, Types
<1>4. /\ UNCHANGED <<fills, videoKeys, subs, recording>>
      /\ TypesInv' /\ FreeInv' /\ QueuedOnce'
      /\ \A x \in Bufs : Free(x) \/ Referenced(x) => (Free(x) \/ Referenced(x))'
      /\ \A x \in Bufs, u \in Types :
           x # frame \/ u # mainType => refs'[u][x] = refs[u][x]
      /\ refs'[mainType][frame] =
           IF refs[mainType][frame] = 0 THEN 0 ELSE refs[mainType][frame] - 1
  BY <1>1, <1>2, <1>3, StopReturnRef
<1>5. \A x \in Bufs, u \in Types : /\ refs[u][x] \in Nat
                                   /\ Cardinality(Holders(x, u)) \in Nat
  BY <1>1, Numbers
<1>6. StopControl' /\ StopMask'
  BY <1>1, <1>2, <1>4 DEF StopControl, StopMask
<1>7. StopVideo'
  BY <1>1, <1>2, <1>3, <1>4 DEF StopVideo, Holders
<1>8. BoundInv'
  <2> SUFFICES ASSUME NEW x \in Bufs, NEW u \in Types
               PROVE  refs'[u][x] <= Cardinality(Holders(x, u))
    BY <1>1, <1>2 DEF BoundInv, Unsent, Holders
  <2>1. refs[u][x] <= Cardinality(Holders(x, u))
    BY <1>1, <1>2 DEF BoundInv, Unsent
  <2>2. refs'[u][x] = refs[u][x] \/ refs'[u][x] = 0 \/ refs'[u][x] = refs[u][x] - 1
    BY <1>4
  <2>3. refs[u][x] \in Nat /\ Cardinality(Holders(x, u)) \in Nat
    BY <1>5
  <2> QED
    BY <2>1, <2>2, <2>3
<1>9. StopKept'
  BY <1>1, <1>2, <1>4 DEF StopKept, Uncounted
<1> QED
  BY <1>4, <1>6, <1>7, <1>8, <1>9 DEF StopInv

(* A callback arrives while or after the recording is stopped.              *)
LEMMA StopFillBufferDone ==
  ASSUME ~VideoSnapshots, TypeInv, VideoInv, StopInv, NEW b \in Bufs, FillBufferDone(b)
  PROVE  StopInv'
<1>1. /\ TypeOK /\ NoBuf \notin Bufs /\ "VIDEO" \in Types
      /\ StopControl /\ StopMask /\ StopVideo /\ BoundInv /\ TypesInv /\ FreeInv
      /\ QueuedOnce /\ StopKept
  BY FrameAssumption DEF TypeInv, StopInv, Types
<1>2. /\ pc = "idle" /\ fills[b] > 0 /\ fills' = [fills EXCEPT ![b] = @ - 1]
      /\ frame' = b /\ todo' = mask' /\ pc' = "count"
      /\ mainType' \in IF recording THEN {"PREVIEW"} ELSE {"PREVIEW", "SNAPSHOT"}
      /\ mask' = {mainType'} \cup (IF recording THEN {"VIDEO"} ELSE {})
      /\ UNCHANGED <<refs, videoKeys, subs, held, filling, recording>>
      /\ UNCHANGED <<ctl, toStop, recordings>>
  BY DEF FillBufferDone, ctlVars
<1>3. /\ frame = NoBuf /\ Free(b) /\ \A u \in Types : refs[u][b] = 0
  BY <1>1, <1>2 DEF TypeOK, Free, FreeInv
<1>4. /\ fills[b] = 1 /\ fills'[b] = 0 /\ \A x \in Bufs : x # b => fills'[x] = fills[x]
      /\ \A u \in Threads : filling[u] # b
  BY <1>1, <1>2 DEF TypeOK, QueuedOnce
<1>5. StopControl' /\ StopVideo' /\ TypesInv'
  BY <1>1, <1>2 DEF StopControl, StopVideo, TypesInv, Holders
<1>6. StopMask'
  BY <1>2 DEF StopMask
<1>7. ~Free(b)' /\ \A x \in Bufs : x # b => (Free(x)' <=> Free(x))
  BY <1>2, <1>4 DEF Free
<1>8. FreeInv' /\ QueuedOnce'
  <2>1. FreeInv'
    BY <1>1, <1>2, <1>7 DEF FreeInv
  <2>2. QueuedOnce'
    BY <1>1, <1>2, <1>4 DEF QueuedOnce
  <2> QED
    BY <2>1, <2>2
<1>9. BoundInv'
  <2> SUFFICES ASSUME NEW x \in Bufs, NEW u \in Types
               PROVE  refs[u][x] <= IF ~Unsent(x, u)' THEN Cardinality(Holders(x, u))
                                    ELSE IF Counted(u)' THEN Cardinality(subs[u])
                                    ELSE 0
    BY <1>2 DEF BoundInv, Holders
  <2>1. CASE x = b
    <3>1. refs[u][x] = 0 /\ Unsent(x, u)' /\ ~Counted(u)'
      BY <1>2, <1>3, <2>1 DEF Unsent, Counted
    <3> QED
      BY <3>1
  <2>2. CASE x # b
    <3>1. ~Unsent(x, u)' /\ ~Unsent(x, u)
      BY <1>1, <1>2, <1>3, <2>2 DEF Unsent
    <3> QED
      BY <1>1, <3>1 DEF BoundInv
  <2> QED
    BY <2>1, <2>2
<1>10. StopKept'
  <2>1. \A x \in Bufs : (Uncounted(x)' <=> x = b) /\ ~Uncounted(x)
    BY <1>2 DEF Uncounted
  <2>2. \A x \in Bufs : Referenced(x)' <=> Referenced(x)
    BY <1>2 DEF Referenced
  <2> QED
    BY <1>1, <1>7, <2>1, <2>2 DEF StopKept
<1> QED
  BY <1>5, <1>6, <1>8, <1>9, <1>10 DEF StopInv

(* The encoder is unsubscribed: from here on the counts are only bounds.    *)
LEMMA UnsubscribeStop ==
  ASSUME TypeInv, IInv, KeptInv, UnsubscribeVideo
  PROVE  StopInv'
<1>1. /\ TypeOK /\ ControlInv /\ SubsInv /\ MaskInv /\ CountInv /\ TypesInv
      /\ ExclusiveOwnership /\ FreeInv /\ NoBuf \notin Bufs
  BY FrameAssumption DEF IInv
<1>2. /\ ctl = "recording" /\ recording /\ ~SubscribersLocked
      /\ ctl' = "returning" /\ toStop' = videoKeys /\ videoKeys = Bufs
      /\ subs' = [subs EXCEPT !["VIDEO"] = {}]
      /\ UNCHANGED <<fills, refs, videoKeys, held, filling, recording, recordings>>
      /\ UNCHANGED <<pc, frame, mainType, mask, todo>>
  BY <1>1 DEF UnsubscribeVideo, ControlInv, cbVars
<1>3. pc = "idle" \/ (pc = "count" /\ todo = mask)
  BY <1>1, <1>2 DEF SubscribersLocked, TypeOK, MaskInv
<1>4. \A x \in Bufs, u \in Types : refs[u][x] \in Nat /\ Cardinality(Holders(x, u)) \in Nat
  BY <1>1, Numbers
<1>5. StopControl'
  BY <1>1, <1>2 DEF StopControl, SubsInv, TypeOK
<1>6. StopMask'
  <2>1. pc = "count" => mask = {mainType} \/ (mask = {"PREVIEW", "VIDEO"} /\ mainType = "PREVIEW")
    BY <1>1 DEF TypeInv, TypeOK, MaskInv
  <2> QED
    BY <1>2, <1>3, <2>1 DEF StopMask
<1>7. \A x \in Bufs, u \in Types :
        /\ Unsent(x, u) => Holders(x, u) = {} /\ refs[u][x] = 0
        /\ ~Unsent(x, u) => refs[u][x] = Cardinality(Holders(x, u))
        /\ ~Counted(u) \/ ~Unsent(x, u)
  BY <1>1, <1>3, FrameAssumption DEF CountInv, Unsent, Counted, TypeOK
<1>8. StopVideo'
  <2> SUFFICES ASSUME NEW x \in Bufs, refs["VIDEO"][x] = 0
               PROVE  Holders(x, "VIDEO") = {}
    BY <1>2 DEF StopVideo, Holders
  <2>1. "VIDEO" \in Types
    BY DEF Types
  <2>2. Cardinality(Holders(x, "VIDEO")) = 0 \/ Holders(x, "VIDEO") = {}
    BY <1>7, <2>1
  <2> QED
    BY <2>2, HoldersAreClients, ClientSets
<1>9. BoundInv'
  <2> SUFFICES ASSUME NEW x \in Bufs, NEW u \in Types
               PROVE  refs[u][x] <= IF ~Unsent(x, u) THEN Cardinality(Holders(x, u))
                                    ELSE IF Counted(u) THEN Cardinality(subs'[u]) ELSE 0
    BY <1>2 DEF BoundInv, Unsent, Counted, Holders
  <2>1. refs[u][x] \in Nat
    BY <1>4
  <2> QED
    BY <1>7, <2>1
<1>10. TypesInv' /\ FreeInv' /\ QueuedOnce'
  BY <1>1, <1>2 DEF TypesInv, FreeInv, QueuedOnce, ExclusiveOwnership, Free
<1>11. StopKept'
  <2> SUFFICES ASSUME NEW x \in Bufs
               PROVE  IF Uncounted(x) THEN ~Free(x) ELSE Free(x) \/ Referenced(x)
    BY <1>2 DEF StopKept, Uncounted, Free, Referenced
  <2>1. CASE Uncounted(x)
    BY <1>1, <2>1 DEF Uncounted, ExclusiveOwnership, Free
  <2>2. CASE ~Uncounted(x)
    <3>1. x # frame
      BY <1>1, <1>3, <2>2 DEF Uncounted, TypeOK
    <3> QED
      BY <2>2, <3>1 DEF KeptInv, Referenced
  <2> QED
    BY <2>1, <2>2
<1> QED
  BY <1>5, <1>6, <1>8, <1>9, <1>10, <1>11 DEF StopInv

(* An abort ends everything, and changes neither the recording nor who      *)
(* holds what, but for the hold that is being given up.                     *)
LEMMA AbortStep ==
  ASSUME TypeInv, Next, ~crashed, crashed'
  PROVE  UNCHANGED <<ctl, recordings>> /\ \A b \in Bufs : held'[b] \subseteq held[b]
<1>1. TypeOK
  BY DEF TypeInv
<1>2. CASE SendFrameFails \/ ReturnUnsentFrame
  BY <1>2 DEF SendFrameFails, ReturnUnsentFrame, ctlVars
<1>3. CASE \E c \in Clients, t \in Types, b \in Bufs : ReturnFrame(c, t, b)
  BY <1>1, <1>3 DEF ReturnFrame, TypeOK, ctlVars
<1>4. CASE \E b \in Bufs : StopVideoReturn(b)
  <2>1. PICK b \in Bufs : StopVideoReturn(b)
    BY <1>4
  <2>2. \/ held' = [held EXCEPT ![b] = @ \ {<<Encoder, "VIDEO">>}]
        \/ held' = held
    BY <2>1 DEF StopVideoReturn
  <2>3. \A x \in Bufs : held'[x] \subseteq held[x]
    BY <1>1, <2>2 DEF TypeOK
  <2> QED
    BY <2>1, <2>3 DEF StopVideoReturn
<1>5. CASE \E b \in Bufs : LateRelease(b) \/ ReleaseUnmapped(b)
  BY <1>5 DEF LateRelease, ReleaseUnmapped, ctlVars
<1>6. ~UNCHANGED crashed
  OBVIOUS
<1>7. \/ SendFrameFails \/ ReturnUnsentFrame
      \/ \E c \in Clients, t \in Types, b \in Bufs : ReturnFrame(c, t, b)
      \/ \E b \in Bufs : StopVideoReturn(b)
      \/ \E b \in Bufs : LateRelease(b) \/ ReleaseUnmapped(b)
  BY <1>6 DEF Next, OmxStep, ControlStep, ClientStep, SetInitFrameRefCount,
         SendFrameToSubscribers, FillBufferDone, FillThisBuffer, StartVideoCapture,
         StopVideoClear, StopVideoDone, SubscribeVideo, UnsubscribeVideo,
         EnableMsgType, DisableMsgType
<1> QED
  BY <1>2, <1>3, <1>4, <1>5, <1>7

LEMMA AbortEnds == Next => ~crashed
BY DEF Next, OmxStep, ControlStep, ClientStep, SetInitFrameRefCount, Ready,
       SendFrameToSubscribers, FillBufferDone, FillThisBuffer, StartVideoCapture,
       StopVideoClear, StopVideoDone, SubscribeVideo, UnsubscribeVideo,
       EnableMsgType, DisableMsgType, SendFrameFails, ReturnUnsentFrame,
       ReturnFrame, StopVideoReturn, LateRelease, ReleaseUnmapped

(* Recordings are only counted up, by the step that starts one.             *)
LEMMA RecordingsGrow ==
  ASSUME TypeInv, Next
  PROVE  UNCHANGED recordings \/ (SubscribeVideo /\ recordings' = recordings + 1)
BY DEF Next, OmxStep, ControlStep, ClientStep, SetInitFrameRefCount,
       SendFrameToSubscribers, FillBufferDone, FillThisBuffer, StartVideoCapture,
       StopVideoClear, StopVideoDone, SubscribeVideo, UnsubscribeVideo,
       EnableMsgType, DisableMsgType, SendFrameFails, ReturnUnsentFrame,
       ReturnFrame, StopVideoReturn, LateRelease, ReleaseUnmapped, ctlVars

(* While and after the first recording is stopped.                          *)
LEMMA StopStep ==
  ASSUME ~VideoSnapshots, TypeInv, VideoInv, StopInv, ~Before,
         Next, ~crashed', recordings' < 2
  PROVE  StopInv' /\ ~Before'
<1>1. recordings \in Nat /\ recordings # 0 /\ ctl \notin {"start", "recording"}
  BY FrameAssumption DEF TypeInv, TypeOK, Before
<1>2. ~SubscribeVideo /\ UNCHANGED recordings
  BY <1>1, RecordingsGrow DEF SubscribeVideo
<1>3. ~StartVideoCapture /\ ~UnsubscribeVideo
  BY <1>1 DEF StartVideoCapture, UnsubscribeVideo
<1>7. recordings < 2 /\ \A b \in Bufs : ~ReleaseUnmapped(b)
  BY <1>2 DEF ReleaseUnmapped, Crash
<1>4. StopInv'
  BY <1>1, <1>2, <1>3, StopReturnFrame, StopVideoReturnStop, StopVideoClearStop,
     StopVideoDoneStop, LateReleaseStop, StopFillThisBuffer, StopMsgType, StopSetInit,
     StopSendFrame, StopSendFails, StopReturnUnsent, StopFillBufferDone, <1>7
     DEF Next, OmxStep, ControlStep, ClientStep, Threads
<1>5. ctl' \notin {"start", "recording"}
  BY <1>1, <1>2, <1>3
     DEF Next, OmxStep, ControlStep, ClientStep, SetInitFrameRefCount,
         SendFrameToSubscribers, FillBufferDone, FillThisBuffer,
         StopVideoClear, StopVideoDone, EnableMsgType, DisableMsgType, SendFrameFails,
         ReturnUnsentFrame, ReturnFrame, StopVideoReturn, LateRelease,
         ReleaseUnmapped, ctlVars
<1> QED
  BY <1>1, <1>2, <1>4, <1>5 DEF Before

(* Up to the step that stops it.                                            *)
LEMMA BeforeStep ==
  ASSUME ~VideoSnapshots, TypeInv, IInv, KeptInv, Before,
         recordings = 0 => ctl = "idle", Next
  PROVE  IF Before' THEN IInv' /\ KeptInv' /\ (recordings' = 0 => ctl' = "idle")
                    ELSE StopInv'
<1>1. recordings \in Nat
  BY FrameAssumption DEF TypeInv, TypeOK
<1>2. CASE UnsubscribeVideo
  <2>1. ctl = "recording" /\ ctl' = "returning" /\ UNCHANGED recordings
    BY <1>2 DEF UnsubscribeVideo
  <2> QED
    BY <1>2, <2>1, UnsubscribeStop DEF Before
<1>3. CASE ~UnsubscribeVideo
  <2>1. IInv' /\ KeptInv'
    BY <1>3, NextIInv, KeptStep
  <2>2. \/ UNCHANGED <<ctl, recordings>>
        \/ SubscribeVideo \/ StartVideoCapture
    BY <1>3, StepsBeforeAStop
       DEF FillBufferDone, SetInitFrameRefCount, SendFrameToSubscribers, ReturnFrame,
           FillThisBuffer, EnableMsgType, DisableMsgType, ctlVars
  <2>3. SubscribeVideo => ctl' = "start" /\ recordings' = recordings + 1
    BY DEF SubscribeVideo
  <2>4. StartVideoCapture => ctl = "start" /\ ctl' = "recording" /\ UNCHANGED recordings
    BY DEF StartVideoCapture
  <2>5. Before' /\ (recordings' = 0 => ctl' = "idle")
    BY <1>1, <2>2, <2>3, <2>4 DEF Before
  <2> QED
    BY <2>1, <2>5
<1> QED
  BY <1>2, <1>3

(* The encoder has no frame when no recording is on.                        *)
LEMMA NoneOut ==
  ASSUME TypeInv, IF Before THEN IInv ELSE StopInv, ctl \in {"cleared", "idle"}
  PROVE  \A b \in Bufs : <<Encoder, "VIDEO">> \notin held[b]
<1> SUFFICES ASSUME NEW b \in Bufs PROVE Holders(b, "VIDEO") = {}
  BY DEF Holders, Clients
<1>1. "VIDEO" \in Types
  BY DEF Types
<1>2. CASE ~Before
  BY <1>2 DEF StopInv, StopVideo
<1>3. CASE Before
  <2>1. refs["VIDEO"][b] = 0
    BY <1>3 DEF IInv, ControlInv, TypesInv
  <2>2. Holders(b, "VIDEO") = {} \/ refs["VIDEO"][b] = Cardinality(Holders(b, "VIDEO"))
    BY <1>1, <1>3 DEF IInv, CountInv
  <2> QED
    BY <2>1, <2>2, HoldersAreClients, ClientSets
<1> QED
  BY <1>2, <1>3

LEMMA FirstStopStep ==
  ASSUME ~VideoSnapshots, TypeInv, VideoInv, FirstStopInv, [Next]_vars
  PROVE  FirstStopInv'
<1>1. CASE UNCHANGED vars
  <2>1. IInv => IInv'
    BY <1>1, StutterIInv
  <2>2. StopInv => StopInv'
    BY <1>1 DEF vars, cbVars, ctlVars, StopInv, StopControl, StopMask, StopVideo,
                BoundInv, TypesInv, FreeInv, QueuedOnce, StopKept, Free, Referenced,
                Uncounted, Unsent, Counted, Holders
  <2>3. (KeptInv => KeptInv') /\ (VideoFramesReclaimed => VideoFramesReclaimed')
    BY <1>1 DEF vars, cbVars, ctlVars, KeptInv, VideoFramesReclaimed, Free
  <2> QED
    BY <1>1, <2>1, <2>2, <2>3 DEF FirstStopInv, Before, vars, ctlVars
<1>2. CASE Next
  <2> SUFFICES ASSUME recordings' < 2
               PROVE  IF crashed' THEN VideoFramesReclaimed'
                      ELSE IF Before' THEN /\ IInv' /\ KeptInv'
                                           /\ recordings' = 0 => ctl' = "idle"
                      ELSE StopInv'
    BY DEF FirstStopInv
  <2>1. recordings < 2 /\ ~crashed
    <3>1. recordings \in Nat
      BY FrameAssumption DEF TypeInv, TypeOK
    <3> QED
      BY <1>2, <3>1, RecordingsGrow, AbortEnds
  <2>2. IF Before THEN IInv /\ KeptInv /\ (recordings = 0 => ctl = "idle")
                  ELSE StopInv
    BY <2>1 DEF FirstStopInv
  <2>3. CASE crashed'
    <3>1. ctl \in {"cleared", "idle"} =>
            \A b \in Bufs : <<Encoder, "VIDEO">> \notin held[b]
      BY <2>2, NoneOut
    <3> QED
      BY <1>2, <2>1, <2>3, <3>1, AbortStep DEF VideoFramesReclaimed
  <2>4. CASE ~crashed'
    BY <1>2, <2>2, <2>4, BeforeStep, StopStep
  <2> QED
    BY <2>3, <2>4
<1> QED
  BY <1>1, <1>2

LEMMA FirstStopInvariance ==
  ASSUME ~VideoSnapshots
  PROVE  Spec => [](TypeInv /\ VideoInv /\ FirstStopInv)
<1>1. Init => TypeInv /\ VideoInv /\ FirstStopInv
  <2>1. Init => KeptInv /\ Before /\ ctl = "idle" /\ ~crashed
    BY DEF Init, KeptInv, Free, Before
  <2> QED
    BY <2>1, InitGeneral, InitIInv DEF FirstStopInv
<1>2. TypeInv /\ VideoInv /\ FirstStopInv /\ [Next]_vars
        => TypeInv' /\ VideoInv' /\ FirstStopInv'
  BY GeneralStep, FirstStopStep
<1> QED
  BY <1>1, <1>2, PTL DEF Spec

(* stopRecording() under the delivery of frames loses no buffer, for any    *)
(* number of buffers and preview callbacks: up to the second recording      *)
(* every buffer is at the component, on its way there, being delivered or   *)
(* with a client that will return it, although the counts are no longer the *)
(* numbers of holders (stopVideoCapture(), OMXCameraAdapterFillBufferDone). *)
THEOREM FirstStopKeepsBuffers ==
  ASSUME ~VideoSnapshots
  PROVE  Spec => []StopLosesNoBuffer
<1>1. TypeInv /\ FirstStopInv => StopLosesNoBuffer
  <2> SUFFICES ASSUME TypeInv, FirstStopInv, recordings < 2, ~crashed, NEW b \in Bufs,
                      ~Free(b), b # frame
               PROVE  held[b] # {}
    BY DEF StopLosesNoBuffer, NoBufferLost, Free
  <2>1. \E t \in Types : refs[t][b] > 0
    BY DEF FirstStopInv, KeptInv, StopInv, StopKept, Uncounted, Referenced
  <2>2. PICK t \in Types : refs[t][b] > 0
    BY <2>1
  <2>3. refs[t][b] <= Cardinality(Holders(b, t))
    <3>1. CASE Before
      <4>1. refs[t][b] = Cardinality(Holders(b, t))
        BY <3>1 DEF FirstStopInv, IInv, CountInv, Unsent
      <4> QED
        BY <4>1, Numbers DEF TypeInv
    <3>2. CASE ~Before
      BY <3>2 DEF FirstStopInv, StopInv, BoundInv, Unsent
    <3> QED
      BY <3>1, <3>2
  <2>4. Holders(b, t) # {}
    <3>1. Cardinality(Holders(b, t)) # 0
      BY <2>2, <2>3, Numbers DEF TypeInv
    <3> QED
      BY <3>1, FS_EmptySet
  <2> QED
    BY <2>4 DEF Holders
<1> QED
  BY <1>1, FirstStopInvariance, PTL

(* When stopVideoCapture() of the first recording has gone through the      *)
(* frames, the encoder has none that it did not take back, whatever was     *)
(* being counted or sent meanwhile.                                         *)
THEOREM FirstStopTakesAllBack ==
  ASSUME ~VideoSnapshots
  PROVE  Spec => []VideoFramesReclaimed
<1>1. TypeInv /\ FirstStopInv => VideoFramesReclaimed
  BY NoneOut DEF FirstStopInv, VideoFramesReclaimed
<1> QED
  BY <1>1, FirstStopInvariance, PTL
=============================================================================
