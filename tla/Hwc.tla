-------------------------------- MODULE Hwc --------------------------------
(* The hardware composer (hwc.c): four overlay pipes shared by the panel and  *)
(* the HDMI display.  The surface flinger calls prepare(), which assigns the  *)
(* pipes, then set(), which posts them; the hdmi thread handles hotplug and   *)
(* the idle time out between the two.  Each holds hwc_dev->lock throughout.   *)
(* Geometry, colours and modes are left out.                                  *)
EXTENDS Integers, FiniteSets, Sequences, SequencesExt

CONSTANTS
  HwcKinds,       \* kinds of layers that occur, names of Layer
  HwcLists,       \* longest list of layers
  FbIsBGR,        \* is the framebuffer BGR
  OnTv,           \* is the external display a TV
  Transformed,    \* is the external picture rotated or flipped
  HwcFaults       \* mode settings and buffer swaps that may fail

VARIABLES
  hdmiState, forceDock,        \* the switches
  dockEnabled, mirrorEnabled,  \* what handle_hotplug() made of them
  current,                     \* ext->current: is it enabled, does it dock
  lastDocking,                 \* ext->last.docking
  lastExt, lastInt,            \* pipes of the last composition
  extOvls, extWanted, post2,   \* of the composition prepared last
  ovls,                        \* its overlays: pipe, z-order, manager
  numMgrs,                     \* how many displays it is for
  useSgx, ovlsBlending, forceSgx,
  skewed,                      \* compositions whose GFX layer went to the pipe past the end
  hidden,                      \* a layer nobody shows
  tilerFull,                   \* the layers fill the TILER slot exactly
  posted,                      \* pipes in use on either display
  hwcPc,                       \* the surface flinger: "idle", "prepared"
  redraw,                      \* invalidate() has been called
  timer,                       \* the idle time out is armed
  hwcFaults

hwcVars == <<hdmiState, forceDock, dockEnabled, mirrorEnabled, current, lastDocking, lastExt,
             lastInt, extOvls, extWanted, post2, ovls, numMgrs, useSgx, ovlsBlending, forceSgx, skewed,
             hidden, tilerFull, posted, hwcPc, redraw, timer, hwcFaults>>
switchVars == <<hdmiState, forceDock, dockEnabled, mirrorEnabled>>
compositionVars == <<extOvls, extWanted, post2, ovls, numMgrs, useSgx, hidden, tilerFull>>
preparedVars == <<compositionVars, lastDocking, ovlsBlending>>

MAX_HW_OVERLAYS == 4
NUM_NONSCALING_OVERLAYS == 1
MAX_TILER_SLOT == 10    \* in units of MemOf

Least(a, b) == IF a < b THEN a ELSE b
Most(a, b) == IF a < b THEN b ELSE a

(* A layer: format, scaled, blended, dockable, memory.  "skip" is one that    *)
(* is not valid: skipped, of another format, transformed or scaled too far.   *)
Layer(k) ==
  LET l(f, s, b, d, m) == [format |-> f, scaled |-> s, blended |-> b, dockable |-> d, mem |-> m]
  IN CASE k = "ui"     -> l("RGB", FALSE, FALSE, FALSE, 1)
       [] k = "blend"  -> l("RGB", FALSE, TRUE, FALSE, 1)
       [] k = "scaled" -> l("RGB", TRUE, FALSE, FALSE, 1)
       [] k = "bgr"    -> l("BGR", FALSE, FALSE, FALSE, 1)
       [] k = "big"    -> l("RGB", FALSE, FALSE, FALSE, 5)
       [] k = "video"  -> l("NV12", TRUE, FALSE, TRUE, 0)
       [] k = "skip"   -> l("other", FALSE, FALSE, FALSE, 0)

Lists == UNION {[1 .. n -> HwcKinds] : n \in 0 .. HwcLists}
Valid(l) == l.format # "other"
Scales(l) == l.scaled \/ l.format = "NV12"
Pipes(os, mgr) == {o.ix : o \in {p \in os : p.mgr = mgr}}

Init ==
  /\ hdmiState \in BOOLEAN /\ forceDock = FALSE /\ dockEnabled = FALSE /\ mirrorEnabled = FALSE
  /\ current = [enabled |-> FALSE, docking |-> FALSE] /\ lastDocking = FALSE
  /\ lastExt = 0 /\ lastInt = 0 /\ extOvls = 0 /\ extWanted = 0 /\ post2 = 0
  /\ ovls = {} /\ numMgrs = 0 /\ useSgx = FALSE /\ ovlsBlending = FALSE /\ forceSgx = 0
  /\ skewed = {} /\ hidden = FALSE /\ tilerFull = FALSE /\ posted = [mgr \in {0, 1} |-> {}]
  /\ hwcPc = "opening" /\ redraw = FALSE /\ timer = FALSE /\ hwcFaults = 0
-----------------------------------------------------------------------------
(* prepare().                                                                 *)

Count(chosen) == Cardinality({i \in DOMAIN chosen : chosen[i]})
Memory(ls) == FoldLeft(LAMBDA m, l : m + l.mem, 0, ls)

(* gather_layer_statistics().                                                 *)
Statistics(ls) ==
  [possible |-> Count([i \in DOMAIN ls |-> Valid(ls[i])]), composited |-> Len(ls),
   scaled   |-> Count([i \in DOMAIN ls |-> Valid(ls[i]) /\ Scales(ls[i])]),
   RGB      |-> Count([i \in DOMAIN ls |-> ls[i].format = "RGB"]),
   BGR      |-> Count([i \in DOMAIN ls |-> ls[i].format = "BGR"]),
   NV12     |-> Count([i \in DOMAIN ls |-> ls[i].format = "NV12"]),
   dockable |-> Count([i \in DOMAIN ls |-> ls[i].dockable]), mem |-> Memory(ls)]

(* decide_supported_cloning(): a pipe cannot go from one display to the other *)
(* at once, so the external display only gets pipes that the last composition *)
(* left free, and the panel none that the external display had.               *)
Cloning(num) ==
  LET docks == dockEnabled /\ ~(mirrorEnabled /\ num.dockable = 0 /\ ~forceDock)
      ext == IF docks THEN IF num.dockable > 0 \/ forceDock THEN 1 ELSE 0
             ELSE IF mirrorEnabled THEN MAX_HW_OVERLAYS - MAX_HW_OVERLAYS \div 2 ELSE 0
      share == IF docks THEN MAX_HW_OVERLAYS - Most(ext, lastExt)
               ELSE IF mirrorEnabled THEN MAX_HW_OVERLAYS \div 2 ELSE MAX_HW_OVERLAYS - lastExt
      spared == Least(MAX_HW_OVERLAYS - lastInt, ext)
      mirrors == mirrorEnabled /\ ~docks
      max == IF mirrors /\ spared > 0 THEN spared ELSE share
  IN [enabled |-> docks \/ mirrorEnabled, docking |-> docks, wanted |-> ext, ext |-> spared,
      max |-> max,
      scaling |-> max - IF mirrors THEN NUM_NONSCALING_OVERLAYS \div 2 ELSE NUM_NONSCALING_OVERLAYS]

Tform(c) == c.enabled /\ Transformed
CanRenderAll(num, c, force) ==
  /\ force = 0 /\ num.possible > 0 /\ num.possible <= c.max /\ num.possible = num.composited
  /\ num.scaled <= c.scaling /\ num.NV12 <= c.scaling /\ num.mem <= MAX_TILER_SLOT
  /\ Tform(c) => num.NV12 = num.possible
  /\ num.BGR = 0 \/ (num.RGB = 0 /\ ~(OnTv /\ c.enabled))

CanRenderLayer(l, c, swapRb) ==
  /\ Valid(l) /\ (Tform(c) => l.format = "NV12")
  /\ l.format # IF swapRb THEN "RGB" ELSE "BGR"
  /\ ~(OnTv /\ c.enabled /\ l.format = "BGR")

(* One turn of the loop over the layers: an overlay of its own, or the        *)
(* framebuffer, whose z-order rises above the overlays below.  The first one  *)
(* gets the GFX pipe, 0, which cannot scale, until one that need not turns up.*)
Takes(a, l, c, swapRb, force) ==
  /\ a.num < c.max /\ CanRenderLayer(l, c, swapRb)
  /\ force = 0 \/ (c.docking /\ c.enabled /\ l.dockable)
  /\ a.mem + l.mem < MAX_TILER_SLOT /\ ~(l.blended /\ a.fbz >= 0)

Overlay(a, l) ==
  LET swap == a.num > 0 /\ a.gfx /\ ~Scales(l)
      older == IF swap THEN {IF o.n = 0 THEN [o EXCEPT !.ix = a.num] ELSE o : o \in a.ovls} ELSE a.ovls
  IN [a EXCEPT !.ovls = older \cup {[n |-> a.num, ix |-> IF swap THEN 0 ELSE a.num, z |-> a.z, mgr |-> 0]},
               !.num = @ + 1, !.z = @ + 1, !.mem = @ + l.mem, !.i = @ + 1,
               !.gfx = IF a.num = 0 THEN Scales(l) ELSE @ /\ ~swap,
               !.dock = @ \/ l.dockable, !.blending = @ \/ (l.blended /\ a.i > 0)]

Framebuffer(a) ==
  [a EXCEPT !.i = @ + 1, !.fbz = IF @ < 0 THEN a.z ELSE a.z - 1, !.z = IF a.fbz < 0 THEN @ + 1 ELSE @,
            !.ovls = IF a.fbz < 0 THEN @ ELSE {IF o.z > a.fbz THEN [o EXCEPT !.z = @ - 1] ELSE o : o \in @}]

Assign(ls, c, sgx, swapRb, force) ==
  LET start == [i |-> 0, num |-> IF sgx THEN 1 ELSE 0, z |-> 0, fbz |-> -1, mem |-> 0, gfx |-> FALSE,
                dock |-> FALSE, blending |-> FALSE, hidden |-> FALSE, ovls |-> {}]
      turn(a, l) == IF Takes(a, l, c, swapRb, force) THEN Overlay(a, l)
                    ELSE IF sgx THEN Framebuffer(a) ELSE [a EXCEPT !.i = @ + 1, !.hidden = TRUE]
  IN FoldLeft(turn, start, ls)

(* The framebuffer gets its place, a scaled layer that no other has replaced  *)
(* leaves the GFX pipe.                                                       *)
Internal(a, sgx) ==
  IF sgx THEN a.ovls \cup {[n |-> 0, ix |-> 0, z |-> IF a.fbz < 0 THEN a.z ELSE a.fbz, mgr |-> 0]}
  ELSE IF a.gfx THEN {IF o.n = 0 THEN [o EXCEPT !.ix = a.num] ELSE o : o \in a.ovls} ELSE a.ovls

(* clone_layer(): external pipes are taken from the end.                      *)
Clone(o, k, post) == [n |-> post + k, ix |-> MAX_HW_OVERLAYS - 1 - k, z |-> o.z + post, mgr |-> 1]
Mirrored(os, post) == {Clone(o, o.n, post) : o \in {p \in os : p.n < MAX_HW_OVERLAYS - post}}
Docked(os, post) ==
  IF post < MAX_HW_OVERLAYS THEN {[n |-> post, ix |-> MAX_HW_OVERLAYS - 1, z |-> post, mgr |-> 1]} ELSE {}

Fails == hwcFaults < HwcFaults /\ hwcFaults' = hwcFaults + 1
Works == UNCHANGED hwcFaults

(* omap4_hwc_set_best_hdmi_mode(): the display has a mode that the pipes can  *)
(* scale to, or has none.                                                     *)
ModeFits == Works
NoModeFits == Fails

Prepare(ls) ==
  LET num == Statistics(ls)
      c == Cloning(num)
      force == IF num.composited <= 1 THEN 0 ELSE forceSgx
      all == CanRenderAll(num, c, force)
      a == Assign(ls, c, ~all, IF all THEN num.BGR # 0 ELSE FbIsBGR, force)
      os == Internal(a, ~all)
      now == IF c.enabled THEN [enabled |-> TRUE, docking |-> c.docking] ELSE [current EXCEPT !.enabled = FALSE]
      docks == now.enabled /\ c.ext > 0 /\ now.docking /\ (a.dock \/ forceDock)
      mirrors == now.enabled /\ c.ext > 0 /\ ~now.docking
  IN /\ hwcPc = "idle" /\ hwcPc' = "prepared" /\ redraw' = FALSE
     /\ forceSgx' = force /\ useSgx' = ~all /\ ovlsBlending' = a.blending
     /\ hidden' = a.hidden /\ tilerFull' = (num.mem = MAX_TILER_SLOT)
     /\ skewed' = (skewed \cap {"posted"}) \cup (IF ~all \/ ~a.gfx THEN {} ELSE {"prepared"})
     /\ extWanted' = c.wanted /\ post2' = Cardinality(os) /\ lastDocking' = now.docking
     /\ \/ /\ docks /\ ModeFits /\ current' = now
           /\ ovls' = os \cup Docked(os, Cardinality(os))
        \/ docks /\ NoModeFits /\ current' = [now EXCEPT !.enabled = FALSE] /\ ovls' = os
        \/ mirrors /\ Works /\ current' = now /\ ovls' = os \cup Mirrored(os, Cardinality(os))
        \/ mirrors /\ lastDocking /\ NoModeFits /\ current' = now /\ ovls' = os
        \/ ~docks /\ ~mirrors /\ Works /\ current' = now /\ ovls' = os
     /\ numMgrs' = IF current'.enabled \/ lastExt > 0 THEN 2 ELSE 1
     /\ extOvls' = IF numMgrs' = 2 THEN Cardinality(ovls' \ os) ELSE c.ext
     /\ UNCHANGED <<switchVars, lastExt, lastInt, posted, timer>>
-----------------------------------------------------------------------------
(* set() posts the composition and tells the hdmi thread that it has, which   *)
(* arms its time out if it finds SGX not forced; when no pipe could be spared *)
(* for a display that wants some, set() asks for another composition.         *)
Invalid == extWanted > 0 /\ extOvls = 0

(* The next prepare() clears the composition before anybody reads it.         *)
Forget ==
  /\ ovls' = {} /\ extOvls' = 0 /\ extWanted' = 0 /\ post2' = 0 /\ numMgrs' = 0
  /\ useSgx' = FALSE /\ hidden' = FALSE /\ tilerFull' = FALSE

Post ==
  /\ hwcPc = "prepared" /\ hwcPc' = "idle" /\ Forget
  /\ posted' = [posted EXCEPT ![0] = Pipes(ovls, 0), ![1] = IF numMgrs = 2 THEN Pipes(ovls, 1) ELSE @]
  /\ skewed' = IF "prepared" \in skewed THEN {"posted"} ELSE {}
  /\ lastExt' = extOvls /\ lastInt' = post2
  /\ forceSgx' = IF forceSgx > 0 THEN forceSgx - 1 ELSE 0
  /\ timer' \in {timer \/ forceSgx = 0, timer \/ forceSgx' = 0} /\ redraw' = (redraw \/ Invalid)
  /\ UNCHANGED <<switchVars, current, lastDocking, ovlsBlending, hwcFaults>>

(* eglSwapBuffers() fails: nothing is posted.                                 *)
SwapFails ==
  /\ hwcPc = "prepared" /\ useSgx /\ Fails /\ Forget
  /\ hwcPc' = "idle" /\ redraw' = (redraw \/ Invalid) /\ skewed' = skewed \cap {"posted"}
  /\ UNCHANGED <<switchVars, current, lastDocking, ovlsBlending, lastExt, lastInt, forceSgx, posted,
                 timer>>
-----------------------------------------------------------------------------
(* The hdmi thread.                                                           *)

(* handle_hotplug(): mirroring needs a mode of the display that fits.         *)
HandleHotplug(state, force) ==
  /\ dockEnabled' = state
  /\ IF state /\ ~force
     THEN /\ current' = [enabled |-> TRUE, docking |-> FALSE]
          /\ \/ mirrorEnabled' = TRUE /\ ModeFits
             \/ mirrorEnabled' = FALSE /\ NoModeFits
     ELSE mirrorEnabled' = FALSE /\ Works /\ UNCHANGED current
  /\ redraw' = TRUE

Uevent ==
  /\ hwcPc \in {"idle", "prepared"}
  /\ \/ hdmiState' = ~hdmiState /\ UNCHANGED forceDock
     \/ forceDock' = ~forceDock /\ UNCHANGED hdmiState
  /\ HandleHotplug(hdmiState', forceDock')
  /\ UNCHANGED <<preparedVars, lastExt, lastInt, skewed, forceSgx, posted, hwcPc, timer>>

(* device_open(): the thread runs before the idle time is known.              *)
DeviceOpen ==
  /\ hwcPc = "opening" /\ hwcPc' = "idle" /\ timer' \in BOOLEAN
  /\ HandleHotplug(hdmiState, forceDock)
  /\ UNCHANGED <<hdmiState, forceDock, preparedVars, lastExt, lastInt, skewed, forceSgx, posted>>

(* Nothing posted for a while: overlays that blend give way to the SGX.       *)
IdleTimeout ==
  /\ timer /\ forceSgx = 0 /\ ovlsBlending
  /\ forceSgx' = 2 /\ redraw' = TRUE /\ timer' = FALSE
  /\ UNCHANGED <<switchVars, current, preparedVars, lastExt, lastInt, skewed, posted, hwcPc,
                 hwcFaults>>

Redraws == redraw /\ \E ls \in Lists : Prepare([i \in DOMAIN ls |-> Layer(ls[i])])
Composes == \E ls \in Lists : Prepare([i \in DOMAIN ls |-> Layer(ls[i])])

Next == DeviceOpen \/ Composes \/ Post \/ SwapFails \/ Uevent \/ IdleTimeout

(* The surface flinger composes again when it is asked to, and ends what it   *)
(* has begun.                                                                 *)
SurfaceFlinger == Redraws \/ Post
Spec == Init /\ [][Next]_hwcVars /\ WF_hwcVars(SurfaceFlinger)
-----------------------------------------------------------------------------
TypeOK ==
  /\ extWanted \in 0 .. 2 /\ extOvls \in 0 .. 2 /\ lastExt \in 0 .. 2
  /\ post2 \in 0 .. MAX_HW_OVERLAYS /\ lastInt \in 0 .. MAX_HW_OVERLAYS
  /\ forceSgx \in 0 .. 2 /\ numMgrs \in 0 .. 2
  /\ \A o \in ovls : o.mgr \in {0, 1} /\ o.n \in 0 .. MAX_HW_OVERLAYS - 1

(* "verify all z-orders and overlay indices are distinct" (hwc.c:1351).       *)
OverlaysDistinct ==
  \A o, p \in ovls : o # p => o.ix # p.ix /\ o.z # p.z /\ o.n # p.n

(* The same, and no pipe is missing, but for a scaled layer that had to leave *)
(* the GFX pipe.                                                              *)
OverlaysFit ==
  /\ Cardinality({o.z : o \in ovls}) = Cardinality(ovls)
  /\ skewed = {} => OverlaysDistinct /\ \A o \in ovls : o.ix < MAX_HW_OVERLAYS

(* No pipe is given to one display while the other one still shows it.        *)
NoPipeSwitchedAtOnce ==
  hwcPc = "prepared" /\ skewed = {} =>
    \A mgr \in {0, 1} : Pipes(ovls, mgr) \cap posted[1 - mgr] = {}

(* Every layer is an overlay or part of the framebuffer, unless the layers    *)
(* fill the TILER slot exactly.                                               *)
EveryLayerShown == hidden => tilerFull

(* A display that is mirrored shows something, one that is unplugged is       *)
(* cleared, once the switches have come to rest and unless a swap fails.      *)
MirrorIsDue == mirrorEnabled /\ ~lastDocking /\ hwcFaults = 0 /\ posted[1] = {}
MirrorArrives == MirrorIsDue ~> ~MirrorIsDue
LeftOnScreen == hwcPc # "opening" /\ ~dockEnabled /\ hwcFaults = 0 /\ posted[1] # {}
UnpluggedIsCleared == LeftOnScreen ~> ~LeftOnScreen
=============================================================================
