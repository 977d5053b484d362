-------------------------- MODULE CameraHalProofs --------------------------
(* Proofs about CameraHal.  A call is what is left of it to do, so that most  *)
(* of the invariant says what such sequences of steps look like (Program):    *)
(* every call and every step that turns into others is shown to leave one     *)
(* that is put together in the right way (Fit, Ahead), and every step is then *)
(* shown to find the adapter, the flags and the buffers as it needs them      *)
(* (PictureHeads, PreviewHeads), and to leave them as the next one does.      *)
EXTENDS CameraHal, SequenceTheorems, WellFoundedInduction, TLAPS

(* The steps that there are: a command is either sent for its result or not.  *)
MustCommands ==
  {"QUERY_RESOLUTION_PREVIEW", "USE_BUFFERS_PREVIEW", "START_PREVIEW",
   "QUERY_BUFFER_SIZE_IMAGE_CAPTURE", "USE_BUFFERS_IMAGE_CAPTURE", "START_IMAGE_CAPTURE",
   "START_BRACKET_CAPTURE", "USE_BUFFERS_REPROCESS", "START_VIDEO"}
TryCommands ==
  {"STOP_IMAGE_CAPTURE", "STOP_BRACKET_CAPTURE", "STOP_PREVIEW", "PERFORM_AUTOFOCUS",
   "CANCEL_AUTOFOCUS", "STOP_VIDEO", "START_SMOOTH_ZOOM", "STOP_SMOOTH_ZOOM"}
Doings ==
  {"allocate image buffers", "allocate preview buffers", "allocate video buffers", "bracket",
   "bracketing is on", "check", "cleaned up", "destroy", "disable bracketing", "disable display",
   "drop display", "drop tap", "enable bracketing", "end capture", "free preview buffers",
   "initialization", "initialized", "lock", "pause preview", "preview is off", "preview is on",
   "recording is on", "refuse", "resume display", "rollback", "set tap", "start callbacks",
   "start recording", "stop bracketing", "stop callbacks", "stop recording", "unlock",
   "wait for window"}
Functions ==
  {"startPreview", "stopPreview", "setPreviewWindow", "setParameters", "setParameters restart",
   "takePicture", "cancelPicture", "autoFocus", "cancelAutoFocus", "startRecording",
   "stopRecording", "setBufferSource", "reprocess", "sendCommand", "release",
   "startImageBracketing", "__takePicture"}
StepSet ==
  ({"must"} \X MustCommands) \cup ({"try"} \X TryCommands) \cup ({"do"} \X Doings)
  \cup ({"end"} \X Functions) \cup ({"take"} \X {"single", "burst"})

(* A call takes one picture at most, and starts no preview before it frees    *)
(* the buffers of the one there was.                                          *)
Shoots(a) == \/ a[1] = "take"
             \/ a \in {Do("bracket"), Must("START_IMAGE_CAPTURE"), Must("START_BRACKET_CAPTURE")}
Starts(a) == a \in {Do("initialization"), Do("allocate preview buffers"),
                    Must("USE_BUFFERS_PREVIEW"), Do("start callbacks")}
Frees(a)  == a = Do("free preview buffers")
Apart(a, b) == ~(Shoots(a) /\ Shoots(b)) /\ ~(Starts(a) /\ Frees(b))

(* The steps of a picture, once it is agreed to.                              *)
Picture ==
  {Do("pause preview"), Do("bracketing is on"), Must("QUERY_BUFFER_SIZE_IMAGE_CAPTURE"),
   Do("allocate image buffers"), Must("USE_BUFFERS_IMAGE_CAPTURE"),
   Must("START_IMAGE_CAPTURE"), Must("START_BRACKET_CAPTURE")}

(* What comes right before a step, and what comes right after it.             *)
Before(a, b) ==
  /\ b = Do("allocate image buffers") => a = Must("QUERY_BUFFER_SIZE_IMAGE_CAPTURE")
  /\ b = Must("USE_BUFFERS_IMAGE_CAPTURE") => a = Do("allocate image buffers")
  /\ b \in Picture => a \in Picture
  /\ b = Do("free preview buffers") => a = Do("rollback")
  /\ b = Do("preview is off") => a = Do("free preview buffers")
  /\ b \in {Do("allocate preview buffers"), Do("wait for window")}
       => a = Must("QUERY_RESOLUTION_PREVIEW")
  /\ b = Must("USE_BUFFERS_PREVIEW") => a = Do("allocate preview buffers")
  /\ b = Do("start callbacks") => a = Must("USE_BUFFERS_PREVIEW")
  /\ b = Must("START_PREVIEW") => a = Do("initialized")
  /\ b = Do("preview is on") => a = Must("START_PREVIEW")
  /\ b \notin {Do("pause preview"), Do("resume display"), Must("QUERY_RESOLUTION_PREVIEW")}
After(a, b) ==
  /\ a = Must("USE_BUFFERS_IMAGE_CAPTURE")
       => b \in {Must("START_IMAGE_CAPTURE"), Must("START_BRACKET_CAPTURE")}
  /\ a = Do("rollback") => b = Do("free preview buffers")
  /\ a = Do("allocate preview buffers") => b = Must("USE_BUFFERS_PREVIEW")
  /\ a = Must("USE_BUFFERS_PREVIEW") => b = Do("start callbacks")
  /\ a \in {Do("initialization"), Do("start callbacks")} => b \in {Do("initialized"), End("sendCommand")}
  /\ a = Do("initialized") => b = Must("START_PREVIEW")
  /\ a = Must("START_PREVIEW") => b = Do("preview is on")
  /\ a # End("sendCommand")

(* Nothing cleans up after an error when there was none.                      *)
Calm(n, a, b) == n = 0 /\ Frees(a) => b = Do("preview is off")
Plain(n, a)   == n = 0 => a \notin {Try("STOP_PREVIEW"), Do("cleaned up")}

Link(n, a, b) == Before(a, b) /\ After(a, b) /\ Calm(n, a, b)
Steps(n) == {a \in StepSet : Plain(n, a)}
Wired(n, s) ==
  /\ s \in Seq(Steps(n))
  /\ \A i \in 1..Len(s) - 1 : Link(n, s[i], s[i + 1])
  /\ \A i, j \in 1..Len(s) : i < j => Apart(s[i], s[j])

(* What a sequence begins with only after the right step, and ends with only  *)
(* before the right one.                                                      *)
Needs == Picture \cup
  {Do("free preview buffers"), Do("preview is off"), Do("allocate preview buffers"),
   Do("wait for window"), Must("USE_BUFFERS_PREVIEW"), Do("start callbacks"), Must("START_PREVIEW"),
   Do("preview is on"), Do("resume display"), Must("QUERY_RESOLUTION_PREVIEW")}
Opens ==
  {Must("USE_BUFFERS_IMAGE_CAPTURE"), Do("rollback"), Do("free preview buffers"),
   Do("allocate preview buffers"), Must("USE_BUFFERS_PREVIEW"), Do("initialization"),
   Do("start callbacks"), Do("initialized"), Must("START_PREVIEW"), End("sendCommand")}

Shut(n, a) == \A b : b \notin Needs => Link(n, a, b)

(* Which of the three a sequence may contain.                                 *)
Within(C, a) ==
  (Shoots(a) => "shoots" \in C) /\ (Starts(a) => "starts" \in C) /\ (Frees(a) => "frees" \in C)
Ahead(n, s, C) ==
  /\ Wired(n, s) /\ \A i \in 1..Len(s) : Within(C, s[i])
  /\ s # <<>> => Shut(n, s[Len(s)])
Fit(n, s, C) == Ahead(n, s, C) /\ (s # <<>> => s[1] \notin Needs)

Simple ==
  {a \in StepSet : /\ a \notin Needs /\ a \notin Opens /\ ~Shoots(a) /\ ~Starts(a) /\ ~Frees(a)
                   /\ a \notin {Try("STOP_PREVIEW"), Do("cleaned up")}}

Ended(s, c) == s # <<>> => s[Len(s)] = End(c)

Program == Wired(faults, todo) /\ Ended(todo, call)
NoShots(s) == \A i \in 1..Len(s) : ~Shoots(s[i])
NoFrees(s) == \A i \in 1..Len(s) : ~Frees(s[i])

(* A call shoots once at most.                                                *)
Counts == shot =< calls /\ (NoShots(todo) \/ shot < calls) /\ display.made =< calls

Asks == {s \in States : Accepts(s, "QUERY_BUFFER_SIZE_IMAGE_CAPTURE")}
On(X) == todo # <<>> /\ todo[1] \in X

PictureHeads ==
  /\ On({Do("allocate image buffers"), Must("USE_BUFFERS_IMAGE_CAPTURE")}) => adapter \in Asks
  /\ On({Must("USE_BUFFERS_IMAGE_CAPTURE")}) => buffers["image"] # Nobody
  /\ adapter # "BRACKETING_ZOOM"

Seen == Is("mPreviewEnabled") \/ Is("mDisplayPaused")
Loaded == buffers["preview"] # Nobody
Parked == {"INITIALIZED"} \cup Stranded
Done == Is("mPreviewInitializationDone")
InProgress == Is("mPreviewStartInProgress")
Waiting == InProgress /\ ~Seen /\ display.alive

(* What is true of the preview before the steps that depend on it.            *)
PreviewHeads ==
  /\ On({Do("free preview buffers")}) => adapter \in Parked
  /\ On({Do("allocate preview buffers"), Must("USE_BUFFERS_PREVIEW"), Do("start callbacks"),
         Must("QUERY_RESOLUTION_PREVIEW")}) => ~Seen
  /\ On({Do("allocate preview buffers"), Must("USE_BUFFERS_PREVIEW")}) => adapter = "INITIALIZED"
  /\ On({Must("USE_BUFFERS_PREVIEW"), Do("start callbacks"), Must("START_PREVIEW"),
         Do("preview is on")}) => Loaded
  /\ On({Do("start callbacks"), Must("START_PREVIEW")}) => adapter = "LOADED_PREVIEW"
  /\ On({Do("wait for window")}) => ~display.alive /\ (Seen \/ adapter = "INITIALIZED")
  /\ On({Do("preview is on")}) => adapter \notin {"INITIALIZED", "LOADED_PREVIEW"}
  /\ On({Must("START_PREVIEW"), Do("preview is on"), Must("QUERY_RESOLUTION_PREVIEW"),
         Do("allocate preview buffers"), Must("USE_BUFFERS_PREVIEW"), Do("start callbacks"),
         Do("wait for window")}) => ~Done
  /\ On(Picture) => Seen \/ InProgress
  /\ On({Do("pause preview"), Do("resume display")}) => Seen
  /\ On({Do("allocate preview buffers"), Must("USE_BUFFERS_PREVIEW"), Do("start callbacks")})
       => display.alive
  /\ On({Must("QUERY_RESOLUTION_PREVIEW")}) /\ Len(todo) > 1
       => /\ todo[2] = Do("wait for window") => ~display.alive
          /\ todo[2] = Do("allocate preview buffers") => display.alive

(* What the flags say of the adapter and the buffers, and where the calls     *)
(* are when they do not yet.                                                  *)
PreviewFlags ==
  /\ Done /\ InProgress => On({Do("initialized")})
  /\ Seen => adapter \notin {"INITIALIZED", "LOADED_PREVIEW"}
             \/ On({Do("rollback"), Do("free preview buffers"), Do("preview is off")})
  /\ Seen => Loaded \/ On({Do("preview is off")})
  /\ Done => adapter = "LOADED_PREVIEW" /\ Loaded /\ ~Seen /\ NoFrees(todo)
  /\ InProgress =>
       Seen \/ adapter = "INITIALIZED" \/ Done
       \/ On({Do("start callbacks"), Must("START_PREVIEW"), Do("preview is on")})
  /\ Waiting => /\ call # "sendCommand"
                /\ On({Do("initialization"), Do("allocate preview buffers"),
                       Must("USE_BUFFERS_PREVIEW"), Do("start callbacks"), Do("initialized"),
                       Must("START_PREVIEW"), Do("preview is on")})
                /\ On({Do("initialized")}) => Done
  /\ ~Loaded => adapter \in Parked
  /\ adapter = "LOADED_CAPTURE" =>
       On({Must("START_IMAGE_CAPTURE"), Must("START_BRACKET_CAPTURE")})

Windowed == display.alive => Is("mSetPreviewWindowCalled") /\ display.made > 0

Pictures  == PictureHeads /\ PicturesHaveBuffers
Preview   == faults = 0 => PreviewHeads /\ PreviewFlags
HalInv == TypeOK /\ Program /\ Counts /\ Pictures /\ Windowed /\ Preview

(* PreviewFlags, where a call is at none of these steps.                      *)
Loose ==
  {Do("rollback"), Do("free preview buffers"), Do("preview is off"), Do("initialization"),
   Do("allocate preview buffers"), Must("USE_BUFFERS_PREVIEW"), Do("start callbacks"),
   Do("initialized"), Must("START_PREVIEW"), Do("preview is on"), Must("START_IMAGE_CAPTURE"),
   Must("START_BRACKET_CAPTURE")}
Key == Needs \cup {Do("rollback"), Do("initialization"), Do("initialized")}
Settled ==
  /\ Seen => adapter \notin {"INITIALIZED", "LOADED_PREVIEW"} /\ Loaded
  /\ Done => adapter = "LOADED_PREVIEW" /\ Loaded /\ ~Seen /\ ~InProgress
  /\ InProgress => Seen \/ adapter = "INITIALIZED"
  /\ ~Loaded => adapter \in Parked
  /\ adapter # "LOADED_CAPTURE"

(* Steps that change nothing of it.                                           *)
Watched == {"mPreviewEnabled", "mDisplayPaused", "mPreviewStartInProgress",
            "mPreviewInitializationDone", "mSetPreviewWindowCalled"}
Kept ==
  /\ \A f \in Watched : f \in flags' <=> f \in flags
  /\ Loaded' <=> Loaded
  /\ display'.alive = display.alive /\ display'.made = display.made
Steady == \/ adapter' = adapter
          \/ /\ adapter \notin Parked
             /\ adapter' \notin {"INITIALIZED", "LOADED_PREVIEW", "LOADED_CAPTURE"}

-----------------------------------------------------------------------------
(* Sequences of steps.                                                        *)

(* What anything that needs nothing may follow.                               *)
LEMMA Free ==
  ASSUME NEW n \in Nat, NEW a, a \notin Opens
  PROVE  Shut(n, a)
<1> SUFFICES ASSUME NEW b, b \notin Needs PROVE Link(n, a, b)
  BY DEF Shut
<1>1. Before(a, b)
  BY DEF Needs, Before, Picture
<1>2. After(a, b) /\ Calm(n, a, b)
  BY DEF Opens, After, Calm, Frees
<1> QED
  BY <1>1, <1>2 DEF Link

(* A sequence of plain steps fits anywhere.                                   *)
LEMMA SimpleFits ==
  ASSUME NEW n \in Nat, NEW s \in Seq(Simple)
  PROVE  Fit(n, s, {})
<1>1. Simple \subseteq Steps(n)
  BY DEF Simple, Steps, Plain
<1>2. s \in Seq(Steps(n)) /\ \A i \in 1..Len(s) : s[i] \in Simple
  BY <1>1
<1>3. \A a, b \in Simple : Link(n, a, b) /\ Apart(a, b) /\ Within({}, a)
  <2>1. ASSUME NEW a \in Simple, NEW b \in Simple PROVE Link(n, a, b)
    <3>1. Before(a, b)
      BY DEF Simple, Needs, Before, Picture
    <3>2. After(a, b) /\ Calm(n, a, b)
      BY DEF Simple, Opens, After, Calm, Frees
    <3> QED
      BY <3>1, <3>2 DEF Link
  <2>2. ASSUME NEW a \in Simple PROVE ~Shoots(a) /\ ~Starts(a) /\ ~Frees(a)
    BY DEF Simple, Opens, Needs, Shoots, Starts, Frees
  <2> QED
    BY <2>1, <2>2 DEF Apart, Within
<1>4. s # <<>> => s[1] \in Simple /\ s[Len(s)] \in Simple
  BY <1>2
<1>5. Wired(n, s)
  <2>1. \A i \in 1..Len(s) - 1 : s[i] \in Simple /\ s[i + 1] \in Simple
    BY <1>2
  <2> QED
    BY <1>2, <1>3, <2>1 DEF Wired
<1>6. \A i \in 1..Len(s) : Within({}, s[i])
  BY <1>2, <1>3
<1>7. s # <<>> => s[1] \notin Needs /\ Shut(n, s[Len(s)])
  BY <1>4, Free DEF Simple
<1> QED
  BY <1>5, <1>6, <1>7 DEF Fit, Ahead

(* Two sequences, one after the other.                                        *)
LEMMA Linked ==
  ASSUME NEW n \in Nat, NEW s, NEW t, Wired(n, s), Wired(n, t),
         s # <<>> /\ t # <<>> => Link(n, s[Len(s)], t[1]),
         \A i \in 1..Len(s), j \in 1..Len(t) : Apart(s[i], t[j])
  PROVE  Wired(n, s \o t)
<1>1. s \in Seq(Steps(n)) /\ t \in Seq(Steps(n))
  BY DEF Wired
<1> DEFINE u == s \o t
<1>2. /\ u \in Seq(Steps(n)) /\ Len(u) = Len(s) + Len(t) /\ Len(s) \in Nat /\ Len(t) \in Nat
      /\ \A i \in 1..Len(s) : u[i] = s[i]
      /\ \A i \in Len(s) + 1..Len(s) + Len(t) : u[i] = t[i - Len(s)]
  BY <1>1
<1> HIDE DEF u
<1>3. ASSUME NEW i \in 1..Len(u) - 1 PROVE Link(n, u[i], u[i + 1])
  <2>1. CASE i + 1 =< Len(s)
    <3>1. i \in 1..Len(s) - 1 /\ u[i] = s[i] /\ u[i + 1] = s[i + 1]
      BY <1>2, <2>1
    <3> QED
      BY <3>1 DEF Wired
  <2>2. CASE i = Len(s)
    <3>1. s # <<>> /\ t # <<>> /\ u[i] = s[Len(s)] /\ u[i + 1] = t[1]
      BY <1>1, <1>2, <2>2
    <3> QED
      BY <3>1
  <2>3. CASE i > Len(s)
    <3>1. i - Len(s) \in 1..Len(t) - 1 /\ u[i] = t[i - Len(s)] /\ u[i + 1] = t[(i - Len(s)) + 1]
      BY <1>2, <2>3
    <3> QED
      BY <3>1 DEF Wired
  <2> QED
    BY <1>2, <2>1, <2>2, <2>3
<1>4. ASSUME NEW i \in 1..Len(u), NEW j \in 1..Len(u), i < j PROVE Apart(u[i], u[j])
  <2>1. CASE j =< Len(s)
    <3>1. i \in 1..Len(s) /\ j \in 1..Len(s) /\ u[i] = s[i] /\ u[j] = s[j]
      BY <1>2, <1>4, <2>1
    <3> QED
      BY <1>4, <3>1 DEF Wired
  <2>2. CASE i =< Len(s) /\ j > Len(s)
    <3>1. i \in 1..Len(s) /\ j - Len(s) \in 1..Len(t) /\ u[i] = s[i] /\ u[j] = t[j - Len(s)]
      BY <1>2, <2>2
    <3> QED
      BY <3>1
  <2>3. CASE i > Len(s)
    <3>1. /\ i - Len(s) \in 1..Len(t) /\ j - Len(s) \in 1..Len(t) /\ i - Len(s) < j - Len(s)
          /\ u[i] = t[i - Len(s)] /\ u[j] = t[j - Len(s)]
      BY <1>2, <1>4, <2>3
    <3> QED
      BY <3>1 DEF Wired
  <2> QED
    BY <1>2, <2>1, <2>2, <2>3
<1> QED
  BY <1>2, <1>3, <1>4 DEF Wired, u

(* Parts that fit make a whole that fits.                                     *)
LEMMA Joined ==
  ASSUME NEW n \in Nat, NEW s, NEW t, NEW C, NEW D, Ahead(n, s, C), Fit(n, t, D),
         ~("shoots" \in C /\ "shoots" \in D), ~("starts" \in C /\ "frees" \in D)
  PROVE  /\ Ahead(n, s \o t, C \cup D)
         /\ Fit(n, s, C) => Fit(n, s \o t, C \cup D)
<1>1. Wired(n, s) /\ Wired(n, t) /\ s \in Seq(Steps(n)) /\ t \in Seq(Steps(n))
  BY DEF Ahead, Fit, Wired
<1>2. s # <<>> /\ t # <<>> => Link(n, s[Len(s)], t[1])
  BY DEF Ahead, Fit, Shut
<1>3. \A i \in 1..Len(s), j \in 1..Len(t) : Apart(s[i], t[j])
  BY DEF Ahead, Fit, Within, Apart
<1>4. Wired(n, s \o t)
  BY <1>1, <1>2, <1>3, Linked
<1> DEFINE u == s \o t
<1>5. /\ u \in Seq(Steps(n)) /\ Len(u) = Len(s) + Len(t) /\ Len(s) \in Nat /\ Len(t) \in Nat
      /\ \A i \in 1..Len(s) : u[i] = s[i]
      /\ \A i \in Len(s) + 1..Len(s) + Len(t) : u[i] = t[i - Len(s)]
  BY <1>1
<1>6. (s = <<>> <=> Len(s) = 0) /\ (t = <<>> <=> Len(t) = 0) /\ (u = <<>> <=> Len(u) = 0)
  BY <1>1, <1>5
<1> HIDE DEF u
<1>7. \A i \in 1..Len(u) : Within(C \cup D, u[i])
  <2> TAKE i \in 1..Len(u)
  <2>1. CASE i =< Len(s)
    BY <1>5, <2>1 DEF Ahead, Within
  <2>2. CASE i > Len(s)
    <3>1. i - Len(s) \in 1..Len(t) /\ u[i] = t[i - Len(s)]
      BY <1>5, <2>2
    <3> QED
      BY <3>1 DEF Fit, Ahead, Within
  <2> QED
    BY <1>5, <2>1, <2>2
<1>8. u # <<>> => Shut(n, u[Len(u)])
  <2>1. CASE t = <<>>
    <3>1. Len(u) = Len(s) /\ (u # <<>> => s # <<>> /\ u[Len(u)] = s[Len(s)])
      BY <1>5, <1>6, <2>1
    <3> QED
      BY <3>1 DEF Ahead
  <2>2. CASE t # <<>>
    <3>1. u[Len(u)] = t[Len(t)]
      BY <1>5, <1>6, <2>2
    <3> QED
      BY <2>2, <3>1 DEF Fit, Ahead
  <2> QED
    BY <2>1, <2>2
<1>9. ASSUME Fit(n, s, C) PROVE u # <<>> => u[1] \notin Needs
  <2>1. CASE s = <<>>
    <3>1. u # <<>> => t # <<>> /\ u[1] = t[1]
      BY <1>5, <1>6, <2>1
    <3> QED
      BY <3>1 DEF Fit
  <2>2. CASE s # <<>>
    <3>1. u[1] = s[1]
      BY <1>5, <1>6, <2>2
    <3> QED
      BY <2>2, <3>1, <1>9 DEF Fit
  <2> QED
    BY <2>1, <2>2
<1> QED
  BY <1>4, <1>7, <1>8, <1>9 DEF Ahead, Fit, u

LEMMA Two ==
  ASSUME NEW n \in Nat, NEW a \in Steps(n), NEW b \in Steps(n),
         Link(n, a, b),
         Apart(a, b)
  PROVE  Wired(n, <<a, b>>)
<1> DEFINE s == <<a, b>>
<1>1. s \in Seq(Steps(n))
  OBVIOUS
<1>2. Len(s) = 2 /\ s[1] = a /\ s[2] = b
  OBVIOUS
<1> HIDE DEF s
<1>3. \A i \in 1..Len(s) - 1 : Link(n, s[i], s[i + 1])
  BY <1>2
<1>4. \A i, j \in 1..Len(s) : i < j => Apart(s[i], s[j])
  BY <1>2
<1> QED
  BY <1>1, <1>3, <1>4 DEF Wired, s

LEMMA Three ==
  ASSUME NEW n \in Nat, NEW a \in Steps(n), NEW b \in Steps(n), NEW c \in Steps(n),
         Link(n, a, b), Link(n, b, c),
         Apart(a, b), Apart(a, c), Apart(b, c)
  PROVE  Wired(n, <<a, b, c>>)
<1> DEFINE s == <<a, b, c>>
<1>1. s \in Seq(Steps(n))
  OBVIOUS
<1>2. Len(s) = 3 /\ s[1] = a /\ s[2] = b /\ s[3] = c
  OBVIOUS
<1> HIDE DEF s
<1>3. \A i \in 1..Len(s) - 1 : Link(n, s[i], s[i + 1])
  BY <1>2
<1>4. \A i, j \in 1..Len(s) : i < j => Apart(s[i], s[j])
  BY <1>2
<1> QED
  BY <1>1, <1>3, <1>4 DEF Wired, s

LEMMA Four ==
  ASSUME NEW n \in Nat, NEW a \in Steps(n), NEW b \in Steps(n), NEW c \in Steps(n), NEW d \in Steps(n),
         Link(n, a, b), Link(n, b, c), Link(n, c, d),
         Apart(a, b), Apart(a, c), Apart(a, d), Apart(b, c), Apart(b, d), Apart(c, d)
  PROVE  Wired(n, <<a, b, c, d>>)
<1> DEFINE s == <<a, b, c, d>>
<1>1. s \in Seq(Steps(n))
  OBVIOUS
<1>2. Len(s) = 4 /\ s[1] = a /\ s[2] = b /\ s[3] = c /\ s[4] = d
  OBVIOUS
<1> HIDE DEF s
<1>3. \A i \in 1..Len(s) - 1 : Link(n, s[i], s[i + 1])
  BY <1>2
<1>4. \A i, j \in 1..Len(s) : i < j => Apart(s[i], s[j])
  BY <1>2
<1> QED
  BY <1>1, <1>3, <1>4 DEF Wired, s

LEMMA Five ==
  ASSUME NEW n \in Nat, NEW a \in Steps(n), NEW b \in Steps(n), NEW c \in Steps(n), NEW d \in Steps(n),
         NEW e \in Steps(n),
         Link(n, a, b), Link(n, b, c), Link(n, c, d), Link(n, d, e),
         Apart(a, b), Apart(a, c), Apart(a, d), Apart(a, e), Apart(b, c), Apart(b, d), Apart(b, e),
         Apart(c, d), Apart(c, e), Apart(d, e)
  PROVE  Wired(n, <<a, b, c, d, e>>)
<1> DEFINE s == <<a, b, c, d, e>>
<1>1. s \in Seq(Steps(n))
  OBVIOUS
<1>2. Len(s) = 5 /\ s[1] = a /\ s[2] = b /\ s[3] = c /\ s[4] = d /\ s[5] = e
  OBVIOUS
<1> HIDE DEF s
<1>3. \A i \in 1..Len(s) - 1 : Link(n, s[i], s[i + 1])
  BY <1>2
<1>4. \A i, j \in 1..Len(s) : i < j => Apart(s[i], s[j])
  BY <1>2
<1> QED
  BY <1>1, <1>3, <1>4 DEF Wired, s

LEMMA Six ==
  ASSUME NEW n \in Nat, NEW a \in Steps(n), NEW b \in Steps(n), NEW c \in Steps(n), NEW d \in Steps(n),
         NEW e \in Steps(n), NEW f \in Steps(n),
         Link(n, a, b), Link(n, b, c), Link(n, c, d), Link(n, d, e), Link(n, e, f),
         Apart(a, b), Apart(a, c), Apart(a, d), Apart(a, e), Apart(a, f), Apart(b, c), Apart(b, d),
         Apart(b, e), Apart(b, f), Apart(c, d), Apart(c, e), Apart(c, f), Apart(d, e), Apart(d, f), Apart(e, f)
  PROVE  Wired(n, <<a, b, c, d, e, f>>)
<1> DEFINE s == <<a, b, c, d, e, f>>
<1>1. s \in Seq(Steps(n))
  OBVIOUS
<1>2. Len(s) = 6 /\ s[1] = a /\ s[2] = b /\ s[3] = c /\ s[4] = d /\ s[5] = e /\ s[6] = f
  OBVIOUS
<1> HIDE DEF s
<1>3. \A i \in 1..Len(s) - 1 : Link(n, s[i], s[i + 1])
  BY <1>2
<1>4. \A i, j \in 1..Len(s) : i < j => Apart(s[i], s[j])
  BY <1>2
<1> QED
  BY <1>1, <1>3, <1>4 DEF Wired, s

(* Steps that need nothing done before them, and after which anything may come. *)
SimpleDoings ==
  {"lock", "unlock", "end capture", "stop bracketing", "disable display", "stop callbacks",
   "refuse", "destroy", "set tap", "drop tap", "allocate video buffers", "start recording",
   "recording is on", "check", "enable bracketing", "disable bracketing", "stop recording",
   "drop display"}
SimpleTries == TryCommands \ {"STOP_PREVIEW"}
SimpleMusts == {"START_VIDEO", "USE_BUFFERS_REPROCESS"}
SimpleEnds  == Functions \ {"sendCommand"}

(* The steps that fit anywhere.                                             *)
LEMMA SimpleSteps ==
  /\ Do("lock") \in Simple
  /\ Do("unlock") \in Simple
  /\ Do("end capture") \in Simple
  /\ Do("stop bracketing") \in Simple
  /\ Do("disable display") \in Simple
  /\ Do("stop callbacks") \in Simple
  /\ Do("refuse") \in Simple
  /\ Do("destroy") \in Simple
  /\ Do("set tap") \in Simple
  /\ Do("drop tap") \in Simple
  /\ Do("allocate video buffers") \in Simple
  /\ Do("start recording") \in Simple
  /\ Must("START_VIDEO") \in Simple
  /\ Do("recording is on") \in Simple
  /\ Do("check") \in Simple
  /\ Do("enable bracketing") \in Simple
  /\ Do("disable bracketing") \in Simple
  /\ Do("stop recording") \in Simple
  /\ Must("USE_BUFFERS_REPROCESS") \in Simple
  /\ Do("drop display") \in Simple
  /\ Try("STOP_IMAGE_CAPTURE") \in Simple
  /\ Try("STOP_BRACKET_CAPTURE") \in Simple
  /\ Try("PERFORM_AUTOFOCUS") \in Simple
  /\ Try("CANCEL_AUTOFOCUS") \in Simple
  /\ Try("STOP_VIDEO") \in Simple
  /\ Try("START_SMOOTH_ZOOM") \in Simple
  /\ Try("STOP_SMOOTH_ZOOM") \in Simple
  /\ End("startPreview") \in Simple
  /\ End("stopPreview") \in Simple
  /\ End("setPreviewWindow") \in Simple
  /\ End("setParameters") \in Simple
  /\ End("setParameters restart") \in Simple
  /\ End("takePicture") \in Simple
  /\ End("cancelPicture") \in Simple
  /\ End("autoFocus") \in Simple
  /\ End("cancelAutoFocus") \in Simple
  /\ End("startRecording") \in Simple
  /\ End("stopRecording") \in Simple
  /\ End("setBufferSource") \in Simple
  /\ End("reprocess") \in Simple
  /\ End("release") \in Simple
  /\ End("startImageBracketing") \in Simple
  /\ End("__takePicture") \in Simple
<1>1. ASSUME NEW x \in SimpleDoings PROVE Do(x) \in Simple
  <2>1. Do(x) \in StepSet
    BY DEF SimpleDoings, StepSet, Doings, Functions, MustCommands, TryCommands, Do
  <2>2. Do(x) \notin Needs /\ Do(x) \notin Opens
    BY DEF SimpleDoings, TryCommands, Functions, Needs, Opens, Picture, Do, Must, Try, End
  <2>3. /\ ~Shoots(Do(x)) /\ ~Starts(Do(x)) /\ ~Frees(Do(x))
        /\ Do(x) \notin {Try("STOP_PREVIEW"), Do("cleaned up")}
    BY DEF SimpleDoings, TryCommands, Functions, Shoots, Starts, Frees, Do, Must, Try, End
  <2> QED
    BY <2>1, <2>2, <2>3 DEF Simple
<1>2. ASSUME NEW x \in SimpleTries PROVE Try(x) \in Simple
  <2>1. Try(x) \in StepSet
    BY DEF SimpleTries, StepSet, Doings, Functions, MustCommands, TryCommands, Try
  <2>2. Try(x) \notin Needs /\ Try(x) \notin Opens
    BY DEF SimpleTries, TryCommands, Functions, Needs, Opens, Picture, Do, Must, Try, End
  <2>3. /\ ~Shoots(Try(x)) /\ ~Starts(Try(x)) /\ ~Frees(Try(x))
        /\ Try(x) \notin {Try("STOP_PREVIEW"), Do("cleaned up")}
    BY DEF SimpleTries, TryCommands, Functions, Shoots, Starts, Frees, Do, Must, Try, End
  <2> QED
    BY <2>1, <2>2, <2>3 DEF Simple
<1>3. ASSUME NEW x \in SimpleMusts PROVE Must(x) \in Simple
  <2>1. Must(x) \in StepSet
    BY DEF SimpleMusts, StepSet, Doings, Functions, MustCommands, TryCommands, Must
  <2>2. Must(x) \notin Needs /\ Must(x) \notin Opens
    BY DEF SimpleMusts, TryCommands, Functions, Needs, Opens, Picture, Do, Must, Try, End
  <2>3. /\ ~Shoots(Must(x)) /\ ~Starts(Must(x)) /\ ~Frees(Must(x))
        /\ Must(x) \notin {Try("STOP_PREVIEW"), Do("cleaned up")}
    BY DEF SimpleMusts, TryCommands, Functions, Shoots, Starts, Frees, Do, Must, Try, End
  <2> QED
    BY <2>1, <2>2, <2>3 DEF Simple
<1>4. ASSUME NEW x \in SimpleEnds PROVE End(x) \in Simple
  <2>1. End(x) \in StepSet
    BY DEF SimpleEnds, StepSet, Doings, Functions, MustCommands, TryCommands, End
  <2>2. End(x) \notin Needs /\ End(x) \notin Opens
    BY DEF SimpleEnds, TryCommands, Functions, Needs, Opens, Picture, Do, Must, Try, End
  <2>3. /\ ~Shoots(End(x)) /\ ~Starts(End(x)) /\ ~Frees(End(x))
        /\ End(x) \notin {Try("STOP_PREVIEW"), Do("cleaned up")}
    BY DEF SimpleEnds, TryCommands, Functions, Shoots, Starts, Frees, Do, Must, Try, End
  <2> QED
    BY <2>1, <2>2, <2>3 DEF Simple
<1> QED
  BY <1>1, <1>2, <1>3, <1>4 DEF SimpleDoings, SimpleTries, SimpleMusts, SimpleEnds, TryCommands, Functions

LEMMA SimpleSequences ==
  ASSUME NEW n \in Nat
  PROVE  /\ Fit(n, <<>>, {})
         /\ \A a \in Simple : Fit(n, <<a>>, {})
         /\ \A a, b \in Simple : Fit(n, <<a, b>>, {})
         /\ \A a, b, c \in Simple : Fit(n, <<a, b, c>>, {})
<1>1. <<>> \in Seq(Simple) /\ \A a \in Simple : <<a>> \in Seq(Simple)
  OBVIOUS
<1>2. \A a, b \in Simple : <<a, b>> \in Seq(Simple)
  OBVIOUS
<1>3. \A a, b, c \in Simple : <<a, b, c>> \in Seq(Simple)
  OBVIOUS
<1> QED
  BY <1>1, <1>2, <1>3, SimpleFits

LEMMA One == ASSUME NEW n \in Nat, NEW a \in Steps(n) PROVE Wired(n, <<a>>)
<1> DEFINE s == <<a>>
<1>1. s \in Seq(Steps(n)) /\ Len(s) = 1
  OBVIOUS
<1> HIDE DEF s
<1> QED
  BY <1>1 DEF Wired, s

(* startPreview().                                                            *)
LEMMA FitStart ==
  ASSUME NEW n \in Nat
  PROVE  Fit(n, StartPreview, {"starts"})
<1> DEFINE a == Do("initialization")
           b == Do("initialized")
           c == Must("START_PREVIEW")
           d == Do("preview is on")
           e == End("startPreview")
<1>1. a \in Steps(n) /\ b \in Steps(n) /\ c \in Steps(n) /\ d \in Steps(n) /\ e \in Steps(n)
  BY DEF Steps, StepSet, Doings, Functions, MustCommands, TryCommands, Plain, Do, Must, Try, End
<1>2. Link(n, a, b) /\ Link(n, b, c) /\ Link(n, c, d) /\ Link(n, d, e)
  BY DEF Link, Calm, Frees, Before, After, Picture, Do, Must, Try, End
<1>3. Apart(a, b) /\ Apart(a, c) /\ Apart(a, d) /\ Apart(a, e) /\ Apart(b, c) /\ Apart(b, d) /\
      Apart(b, e) /\ Apart(c, d) /\ Apart(c, e) /\ Apart(d, e)
  BY DEF Apart, Shoots, Starts, Frees, Do, Must, Try, End
<1>4. Within({"starts"}, a) /\ Within({"starts"}, b) /\ Within({"starts"}, c) /\ Within({"starts"}, d) /\
      Within({"starts"}, e)
  BY DEF Within, Shoots, Starts, Frees, Do, Must, Try, End
<1>5. Shut(n, e)
  <2>1. e \notin Opens
    BY DEF Opens, Do, Must, Try, End
  <2> QED
    BY <2>1, Free
<1>6. a \notin Needs
  BY DEF Needs, Picture, Do, Must, Try, End
<1> HIDE DEF a, b, c, d, e
<1>7. Wired(n, <<a, b, c, d, e>>)
  BY <1>1, <1>2, <1>3, Five
<1>8. Fit(n, <<a, b, c, d, e>>, {"starts"})
  BY <1>4, <1>5, <1>6, <1>7 DEF Fit, Ahead
<1> QED
  BY <1>8 DEF a, b, c, d, e, StartPreview

(* What forceStopPreview() does in every case.                                *)
LEMMA FitStop5 ==
  ASSUME NEW n \in Nat
  PROVE  Fit(n, <<Do("disable display"), Do("stop callbacks"), Do("rollback"), Do("free preview buffers"),
                  Do("preview is off")>>, {"frees"})
<1> DEFINE a == Do("disable display")
           b == Do("stop callbacks")
           c == Do("rollback")
           d == Do("free preview buffers")
           e == Do("preview is off")
<1>1. a \in Steps(n) /\ b \in Steps(n) /\ c \in Steps(n) /\ d \in Steps(n) /\ e \in Steps(n)
  BY DEF Steps, StepSet, Doings, Functions, MustCommands, TryCommands, Plain, Do, Must, Try, End
<1>2. Link(n, a, b) /\ Link(n, b, c) /\ Link(n, c, d) /\ Link(n, d, e)
  BY DEF Link, Calm, Frees, Before, After, Picture, Do, Must, Try, End
<1>3. Apart(a, b) /\ Apart(a, c) /\ Apart(a, d) /\ Apart(a, e) /\ Apart(b, c) /\ Apart(b, d) /\
      Apart(b, e) /\ Apart(c, d) /\ Apart(c, e) /\ Apart(d, e)
  BY DEF Apart, Shoots, Starts, Frees, Do, Must, Try, End
<1>4. Within({"frees"}, a) /\ Within({"frees"}, b) /\ Within({"frees"}, c) /\ Within({"frees"}, d) /\
      Within({"frees"}, e)
  BY DEF Within, Shoots, Starts, Frees, Do, Must, Try, End
<1>5. Shut(n, e)
  <2>1. e \notin Opens
    BY DEF Opens, Do, Must, Try, End
  <2> QED
    BY <2>1, Free
<1>6. a \notin Needs
  BY DEF Needs, Picture, Do, Must, Try, End
<1> HIDE DEF a, b, c, d, e
<1>7. Wired(n, <<a, b, c, d, e>>)
  BY <1>1, <1>2, <1>3, Five
<1>8. Fit(n, <<a, b, c, d, e>>, {"frees"})
  BY <1>4, <1>5, <1>6, <1>7 DEF Fit, Ahead
<1> QED
  BY <1>8 DEF a, b, c, d, e

(* A picture, and one that pauses the preview.                                *)
LEMMA AheadPicture ==
  ASSUME NEW n \in Nat
  PROVE  Ahead(n, <<Must("QUERY_BUFFER_SIZE_IMAGE_CAPTURE"), Do("allocate image buffers"),
                    Must("USE_BUFFERS_IMAGE_CAPTURE"), Must("START_IMAGE_CAPTURE")>>, {"shoots"})
<1> DEFINE a == Must("QUERY_BUFFER_SIZE_IMAGE_CAPTURE")
           b == Do("allocate image buffers")
           c == Must("USE_BUFFERS_IMAGE_CAPTURE")
           d == Must("START_IMAGE_CAPTURE")
<1>1. a \in Steps(n) /\ b \in Steps(n) /\ c \in Steps(n) /\ d \in Steps(n)
  BY DEF Steps, StepSet, Doings, Functions, MustCommands, TryCommands, Plain, Do, Must, Try, End
<1>2. Link(n, a, b) /\ Link(n, b, c) /\ Link(n, c, d)
  BY DEF Link, Calm, Frees, Before, After, Picture, Do, Must, Try, End
<1>3. Apart(a, b) /\ Apart(a, c) /\ Apart(a, d) /\ Apart(b, c) /\ Apart(b, d) /\ Apart(c, d)
  BY DEF Apart, Shoots, Starts, Frees, Do, Must, Try, End
<1>4. Within({"shoots"}, a) /\ Within({"shoots"}, b) /\ Within({"shoots"}, c) /\ Within({"shoots"}, d)
  BY DEF Within, Shoots, Starts, Frees, Do, Must, Try, End
<1>5. Shut(n, d)
  <2>1. d \notin Opens
    BY DEF Opens, Do, Must, Try, End
  <2> QED
    BY <2>1, Free
<1> HIDE DEF a, b, c, d
<1>7. Wired(n, <<a, b, c, d>>)
  BY <1>1, <1>2, <1>3, Four
<1>8. Ahead(n, <<a, b, c, d>>, {"shoots"})
  BY <1>4, <1>5, <1>7 DEF Ahead
<1> QED
  BY <1>8 DEF a, b, c, d

(* A picture that pauses the preview.                                         *)
LEMMA AheadPaused ==
  ASSUME NEW n \in Nat
  PROVE  Ahead(n, <<Do("pause preview"), Must("QUERY_BUFFER_SIZE_IMAGE_CAPTURE"),
                    Do("allocate image buffers"), Must("USE_BUFFERS_IMAGE_CAPTURE"),
                    Must("START_IMAGE_CAPTURE")>>, {"shoots"})
<1> DEFINE a == Do("pause preview")
           b == Must("QUERY_BUFFER_SIZE_IMAGE_CAPTURE")
           c == Do("allocate image buffers")
           d == Must("USE_BUFFERS_IMAGE_CAPTURE")
           e == Must("START_IMAGE_CAPTURE")
<1>1. a \in Steps(n) /\ b \in Steps(n) /\ c \in Steps(n) /\ d \in Steps(n) /\ e \in Steps(n)
  BY DEF Steps, StepSet, Doings, Functions, MustCommands, TryCommands, Plain, Do, Must, Try, End
<1>2. Link(n, a, b) /\ Link(n, b, c) /\ Link(n, c, d) /\ Link(n, d, e)
  BY DEF Link, Calm, Frees, Before, After, Picture, Do, Must, Try, End
<1>3. Apart(a, b) /\ Apart(a, c) /\ Apart(a, d) /\ Apart(a, e) /\ Apart(b, c) /\ Apart(b, d) /\
      Apart(b, e) /\ Apart(c, d) /\ Apart(c, e) /\ Apart(d, e)
  BY DEF Apart, Shoots, Starts, Frees, Do, Must, Try, End
<1>4. Within({"shoots"}, a) /\ Within({"shoots"}, b) /\ Within({"shoots"}, c) /\ Within({"shoots"}, d) /\
      Within({"shoots"}, e)
  BY DEF Within, Shoots, Starts, Frees, Do, Must, Try, End
<1>5. Shut(n, e)
  <2>1. e \notin Opens
    BY DEF Opens, Do, Must, Try, End
  <2> QED
    BY <2>1, Free
<1> HIDE DEF a, b, c, d, e
<1>7. Wired(n, <<a, b, c, d, e>>)
  BY <1>1, <1>2, <1>3, Five
<1>8. Ahead(n, <<a, b, c, d, e>>, {"shoots"})
  BY <1>4, <1>5, <1>7 DEF Ahead
<1> QED
  BY <1>8 DEF a, b, c, d, e

(* Another shot.                                                              *)
LEMMA AheadAnother ==
  ASSUME NEW n \in Nat
  PROVE  Ahead(n, <<Must("START_IMAGE_CAPTURE")>>, {"shoots"})
<1> DEFINE a == Must("START_IMAGE_CAPTURE")
<1>1. a \in Steps(n)
  BY DEF Steps, StepSet, Doings, Functions, MustCommands, TryCommands, Plain, Do, Must, Try, End
<1>4. Within({"shoots"}, a)
  BY DEF Within, Shoots, Starts, Frees, Do, Must, Try, End
<1>5. Shut(n, a)
  <2>1. a \notin Opens
    BY DEF Opens, Do, Must, Try, End
  <2> QED
    BY <2>1, Free
<1> HIDE DEF a
<1>7. Wired(n, <<a>>)
  BY <1>1, One
<1>8. Ahead(n, <<a>>, {"shoots"})
  BY <1>4, <1>5, <1>7 DEF Ahead
<1> QED
  BY <1>8 DEF a

(* startImageBracketing().                                                    *)
LEMMA AheadBracket ==
  ASSUME NEW n \in Nat
  PROVE  Ahead(n, <<Do("bracketing is on"), Must("QUERY_BUFFER_SIZE_IMAGE_CAPTURE"),
                    Do("allocate image buffers"), Must("USE_BUFFERS_IMAGE_CAPTURE"),
                    Must("START_BRACKET_CAPTURE"), End("startImageBracketing")>>, {"shoots"})
<1> DEFINE a == Do("bracketing is on")
           b == Must("QUERY_BUFFER_SIZE_IMAGE_CAPTURE")
           c == Do("allocate image buffers")
           d == Must("USE_BUFFERS_IMAGE_CAPTURE")
           e == Must("START_BRACKET_CAPTURE")
           f == End("startImageBracketing")
<1>1. a \in Steps(n) /\ b \in Steps(n) /\ c \in Steps(n) /\ d \in Steps(n) /\ e \in Steps(n) /\ f \in Steps(n)
  BY DEF Steps, StepSet, Doings, Functions, MustCommands, TryCommands, Plain, Do, Must, Try, End
<1>2. Link(n, a, b) /\ Link(n, b, c) /\ Link(n, c, d) /\ Link(n, d, e) /\ Link(n, e, f)
  BY DEF Link, Calm, Frees, Before, After, Picture, Do, Must, Try, End
<1>3. Apart(a, b) /\ Apart(a, c) /\ Apart(a, d) /\ Apart(a, e) /\ Apart(a, f) /\ Apart(b, c) /\
      Apart(b, d) /\ Apart(b, e) /\ Apart(b, f) /\ Apart(c, d) /\ Apart(c, e) /\ Apart(c, f) /\
      Apart(d, e) /\ Apart(d, f) /\ Apart(e, f)
  BY DEF Apart, Shoots, Starts, Frees, Do, Must, Try, End
<1>4. Within({"shoots"}, a) /\ Within({"shoots"}, b) /\ Within({"shoots"}, c) /\ Within({"shoots"}, d) /\
      Within({"shoots"}, e) /\ Within({"shoots"}, f)
  BY DEF Within, Shoots, Starts, Frees, Do, Must, Try, End
<1>5. Shut(n, f)
  <2>1. f \notin Opens
    BY DEF Opens, Do, Must, Try, End
  <2> QED
    BY <2>1, Free
<1> HIDE DEF a, b, c, d, e, f
<1>7. Wired(n, <<a, b, c, d, e, f>>)
  BY <1>1, <1>2, <1>3, Six
<1>8. Ahead(n, <<a, b, c, d, e, f>>, {"shoots"})
  BY <1>4, <1>5, <1>7 DEF Ahead
<1> QED
  BY <1>8 DEF a, b, c, d, e, f

(* The resumed preview.                                                       *)
LEMMA AheadResume ==
  ASSUME NEW n \in Nat
  PROVE  Ahead(n, <<Do("resume display"), Do("lock"), Do("end capture"), Do("unlock")>>, {})
<1> DEFINE a == Do("resume display")
           b == Do("lock")
           c == Do("end capture")
           d == Do("unlock")
<1>1. a \in Steps(n) /\ b \in Steps(n) /\ c \in Steps(n) /\ d \in Steps(n)
  BY DEF Steps, StepSet, Doings, Functions, MustCommands, TryCommands, Plain, Do, Must, Try, End
<1>2. Link(n, a, b) /\ Link(n, b, c) /\ Link(n, c, d)
  BY DEF Link, Calm, Frees, Before, After, Picture, Do, Must, Try, End
<1>3. Apart(a, b) /\ Apart(a, c) /\ Apart(a, d) /\ Apart(b, c) /\ Apart(b, d) /\ Apart(c, d)
  BY DEF Apart, Shoots, Starts, Frees, Do, Must, Try, End
<1>4. Within({}, a) /\ Within({}, b) /\ Within({}, c) /\ Within({}, d)
  BY DEF Within, Shoots, Starts, Frees, Do, Must, Try, End
<1>5. Shut(n, d)
  <2>1. d \notin Opens
    BY DEF Opens, Do, Must, Try, End
  <2> QED
    BY <2>1, Free
<1> HIDE DEF a, b, c, d
<1>7. Wired(n, <<a, b, c, d>>)
  BY <1>1, <1>2, <1>3, Four
<1>8. Ahead(n, <<a, b, c, d>>, {})
  BY <1>4, <1>5, <1>7 DEF Ahead
<1> QED
  BY <1>8 DEF a, b, c, d

(* No window yet.                                                             *)
LEMMA AheadWait ==
  ASSUME NEW n \in Nat
  PROVE  Ahead(n, <<Do("wait for window")>>, {})
<1> DEFINE a == Do("wait for window")
<1>1. a \in Steps(n)
  BY DEF Steps, StepSet, Doings, Functions, MustCommands, TryCommands, Plain, Do, Must, Try, End
<1>4. Within({}, a)
  BY DEF Within, Shoots, Starts, Frees, Do, Must, Try, End
<1>5. Shut(n, a)
  <2>1. a \notin Opens
    BY DEF Opens, Do, Must, Try, End
  <2> QED
    BY <2>1, Free
<1> HIDE DEF a
<1>7. Wired(n, <<a>>)
  BY <1>1, One
<1>8. Ahead(n, <<a>>, {})
  BY <1>4, <1>5, <1>7 DEF Ahead
<1> QED
  BY <1>8 DEF a

(* No window yet, after the question for the resolution.                      *)
LEMMA AheadQueryWait ==
  ASSUME NEW n \in Nat
  PROVE  Ahead(n, <<Must("QUERY_RESOLUTION_PREVIEW"), Do("wait for window")>>, {})
<1> DEFINE a == Must("QUERY_RESOLUTION_PREVIEW")
           b == Do("wait for window")
<1>1. a \in Steps(n) /\ b \in Steps(n)
  BY DEF Steps, StepSet, Doings, Functions, MustCommands, TryCommands, Plain, Do, Must, Try, End
<1>2. Link(n, a, b)
  BY DEF Link, Calm, Frees, Before, After, Picture, Do, Must, Try, End
<1>3. Apart(a, b)
  BY DEF Apart, Shoots, Starts, Frees, Do, Must, Try, End
<1>4. Within({}, a) /\ Within({}, b)
  BY DEF Within, Shoots, Starts, Frees, Do, Must, Try, End
<1>5. Shut(n, b)
  <2>1. b \notin Opens
    BY DEF Opens, Do, Must, Try, End
  <2> QED
    BY <2>1, Free
<1> HIDE DEF a, b
<1>7. Wired(n, <<a, b>>)
  BY <1>1, <1>2, <1>3, Two
<1>8. Ahead(n, <<a, b>>, {})
  BY <1>4, <1>5, <1>7 DEF Ahead
<1> QED
  BY <1>8 DEF a, b

(* Buffers for the preview.                                                   *)
LEMMA WiredBuffers ==
  ASSUME NEW n \in Nat
  PROVE  Wired(n, <<Do("allocate preview buffers"), Must("USE_BUFFERS_PREVIEW"),
                    Do("start callbacks")>>) /\ \A i \in 1..3 : Within({"starts"},
                                                                       (<<Do("allocate preview buffers"),
                                                                          Must("USE_BUFFERS_PREVIEW"),
                                                                          Do("start callbacks")>>)[i])
<1> DEFINE a == Do("allocate preview buffers")
           b == Must("USE_BUFFERS_PREVIEW")
           c == Do("start callbacks")
<1>1. a \in Steps(n) /\ b \in Steps(n) /\ c \in Steps(n)
  BY DEF Steps, StepSet, Doings, Functions, MustCommands, TryCommands, Plain, Do, Must, Try, End
<1>2. Link(n, a, b) /\ Link(n, b, c)
  BY DEF Link, Calm, Frees, Before, After, Picture, Do, Must, Try, End
<1>3. Apart(a, b) /\ Apart(a, c) /\ Apart(b, c)
  BY DEF Apart, Shoots, Starts, Frees, Do, Must, Try, End
<1>4. Within({"starts"}, a) /\ Within({"starts"}, b) /\ Within({"starts"}, c)
  BY DEF Within, Shoots, Starts, Frees, Do, Must, Try, End
<1> HIDE DEF a, b, c
<1>7. Wired(n, <<a, b, c>>)
  BY <1>1, <1>2, <1>3, Three
<1>8. Wired(n, <<a, b, c>>) /\ \A i \in 1..3 : Within({"starts"}, <<a, b, c>>[i])
  BY <1>4, <1>7
<1> QED
  BY <1>8 DEF a, b, c

(* Buffers for the preview, after the question.                               *)
LEMMA WiredQueryBuffers ==
  ASSUME NEW n \in Nat
  PROVE  Wired(n, <<Must("QUERY_RESOLUTION_PREVIEW"), Do("allocate preview buffers"),
                    Must("USE_BUFFERS_PREVIEW"),
                    Do("start callbacks")>>) /\ \A i \in 1..4 : Within({"starts"},
                                                                       (<<Must("QUERY_RESOLUTION_PREVIEW"),
                                                                          Do("allocate preview buffers"),
                                                                          Must("USE_BUFFERS_PREVIEW"),
                                                                          Do("start callbacks")>>)[i])
<1> DEFINE a == Must("QUERY_RESOLUTION_PREVIEW")
           b == Do("allocate preview buffers")
           c == Must("USE_BUFFERS_PREVIEW")
           d == Do("start callbacks")
<1>1. a \in Steps(n) /\ b \in Steps(n) /\ c \in Steps(n) /\ d \in Steps(n)
  BY DEF Steps, StepSet, Doings, Functions, MustCommands, TryCommands, Plain, Do, Must, Try, End
<1>2. Link(n, a, b) /\ Link(n, b, c) /\ Link(n, c, d)
  BY DEF Link, Calm, Frees, Before, After, Picture, Do, Must, Try, End
<1>3. Apart(a, b) /\ Apart(a, c) /\ Apart(a, d) /\ Apart(b, c) /\ Apart(b, d) /\ Apart(c, d)
  BY DEF Apart, Shoots, Starts, Frees, Do, Must, Try, End
<1>4. Within({"starts"}, a) /\ Within({"starts"}, b) /\ Within({"starts"}, c) /\ Within({"starts"}, d)
  BY DEF Within, Shoots, Starts, Frees, Do, Must, Try, End
<1> HIDE DEF a, b, c, d
<1>7. Wired(n, <<a, b, c, d>>)
  BY <1>1, <1>2, <1>3, Four
<1>8. Wired(n, <<a, b, c, d>>) /\ \A i \in 1..4 : Within({"starts"}, <<a, b, c, d>>[i])
  BY <1>4, <1>7
<1> QED
  BY <1>8 DEF a, b, c, d

(* The look at the bracketing.                                                *)
LEMMA FitBracket ==
  ASSUME NEW n \in Nat
  PROVE  Fit(n, <<Do("bracket")>>, {"shoots"})
<1> DEFINE a == Do("bracket")
<1>1. a \in Steps(n)
  BY DEF Steps, StepSet, Doings, Functions, MustCommands, TryCommands, Plain, Do, Must, Try, End
<1>4. Within({"shoots"}, a)
  BY DEF Within, Shoots, Starts, Frees, Do, Must, Try, End
<1>5. Shut(n, a)
  <2>1. a \notin Opens
    BY DEF Opens, Do, Must, Try, End
  <2> QED
    BY <2>1, Free
<1>6. a \notin Needs
  BY DEF Needs, Picture, Do, Must, Try, End
<1> HIDE DEF a
<1>7. Wired(n, <<a>>)
  BY <1>1, One
<1>8. Fit(n, <<a>>, {"shoots"})
  BY <1>4, <1>5, <1>6, <1>7 DEF Fit, Ahead
<1> QED
  BY <1>8 DEF a

(* __takePicture() under mLock.                                               *)
LEMMA FitTake ==
  ASSUME NEW n \in Nat, NEW mode \in {"single", "burst"}
  PROVE  Fit(n, <<<<"take", mode>>, End("__takePicture"), Do("unlock")>>, {"shoots"})
<1> DEFINE a == <<"take", mode>>
           b == End("__takePicture")
           c == Do("unlock")
<1>1. a \in Steps(n) /\ b \in Steps(n) /\ c \in Steps(n)
  BY DEF Steps, StepSet, Doings, Functions, MustCommands, TryCommands, Plain, Do, Must, Try, End
<1>2. Link(n, a, b) /\ Link(n, b, c)
  BY DEF Link, Calm, Frees, Before, After, Picture, Do, Must, Try, End
<1>3. Apart(a, b) /\ Apart(a, c) /\ Apart(b, c)
  BY DEF Apart, Shoots, Starts, Frees, Do, Must, Try, End
<1>4. Within({"shoots"}, a) /\ Within({"shoots"}, b) /\ Within({"shoots"}, c)
  BY DEF Within, Shoots, Starts, Frees, Do, Must, Try, End
<1>5. Shut(n, c)
  <2>1. c \notin Opens
    BY DEF Opens, Do, Must, Try, End
  <2> QED
    BY <2>1, Free
<1>6. a \notin Needs
  BY DEF Needs, Picture, Do, Must, Try, End
<1> HIDE DEF a, b, c
<1>7. Wired(n, <<a, b, c>>)
  BY <1>1, <1>2, <1>3, Three
<1>8. Fit(n, <<a, b, c>>, {"shoots"})
  BY <1>4, <1>5, <1>6, <1>7 DEF Fit, Ahead
<1> QED
  BY <1>8 DEF a, b, c

(* The cleanup, which there is only after an error.                           *)
LEMMA AheadCleanup ==
  ASSUME NEW n \in Nat, n # 0
  PROVE  Ahead(n, Cleanup, {"frees"})
<1> DEFINE a == Do("free preview buffers")
           b == Try("STOP_PREVIEW")
           c == Do("drop display")
           d == Do("cleaned up")
<1>1. a \in Steps(n) /\ b \in Steps(n) /\ c \in Steps(n) /\ d \in Steps(n)
  BY DEF Steps, StepSet, Doings, Functions, MustCommands, TryCommands, Plain, Do, Must, Try, End
<1>2. Link(n, a, b) /\ Link(n, b, c) /\ Link(n, c, d)
  BY DEF Link, Calm, Frees, Before, After, Picture, Do, Must, Try, End
<1>3. Apart(a, b) /\ Apart(a, c) /\ Apart(a, d) /\ Apart(b, c) /\ Apart(b, d) /\ Apart(c, d)
  BY DEF Apart, Shoots, Starts, Frees, Do, Must, Try, End
<1>4. Within({"frees"}, a) /\ Within({"frees"}, b) /\ Within({"frees"}, c) /\ Within({"frees"}, d)
  BY DEF Within, Shoots, Starts, Frees, Do, Must, Try, End
<1>5. Shut(n, d)
  <2>1. d \notin Opens
    BY DEF Opens, Do, Must, Try, End
  <2> QED
    BY <2>1, Free
<1> HIDE DEF a, b, c, d
<1>7. Wired(n, <<a, b, c, d>>)
  BY <1>1, <1>2, <1>3, Four
<1>8. Ahead(n, <<a, b, c, d>>, {"frees"})
  BY <1>4, <1>5, <1>7 DEF Ahead
<1> QED
  BY <1>8 DEF a, b, c, d, Cleanup

LEMMA Fitting ==
  ASSUME NEW n \in Nat, NEW s, NEW t, NEW C, NEW D, NEW E, Fit(n, s, C), Fit(n, t, D),
         C \subseteq E, D \subseteq E,
         ~("shoots" \in C /\ "shoots" \in D), ~("starts" \in C /\ "frees" \in D)
  PROVE  Fit(n, s \o t, E)
<1>1. Fit(n, s \o t, C \cup D)
  BY Joined DEF Fit
<1> DEFINE u == s \o t
<1> HIDE DEF u
<1>2. Fit(n, u, C \cup D) => Fit(n, u, E)
  BY DEF Fit, Ahead, Within
<1> QED
  BY <1>1, <1>2 DEF u

LEMMA Widened ==
  ASSUME NEW n \in Nat, NEW s, NEW C, NEW E, Fit(n, s, C), C \subseteq E
  PROVE  Fit(n, s, E)
BY DEF Fit, Ahead, Within

(* forceStopPreview().                                                        *)
LEMMA FitStop ==
  ASSUME NEW n \in Nat
  PROVE  Fit(n, ForceStopPreview, {"frees"})
<1> DEFINE a == IF Is("mBracketingRunning") THEN <<Do("stop bracketing")>> ELSE <<>>
           b == <<Do("disable display"), Do("stop callbacks"), Do("rollback"),
               Do("free preview buffers"), Do("preview is off")>>
<1>1. Fit(n, a, {})
  BY SimpleSteps, SimpleSequences
<1>2. Fit(n, b, {"frees"})
  BY FitStop5
<1> HIDE DEF a, b
<1>3. Fit(n, a \o b, {"frees"})
  BY <1>1, <1>2, Fitting
<1> QED
  BY <1>3 DEF a, b, ForceStopPreview

(* restartPreview().                                                          *)
LEMMA FitRestart ==
  ASSUME NEW n \in Nat
  PROVE  Fit(n, RestartPreview, {"starts", "frees"})
<1> DEFINE a == ForceStopPreview
           b == <<Do("lock"), Do("unlock")>>
           c == StartPreview
<1>1. Fit(n, a, {"frees"})
  BY FitStop
<1>2. Fit(n, b, {})
  BY SimpleSteps, SimpleSequences
<1>3. Fit(n, c, {"starts"})
  BY FitStart
<1> HIDE DEF a, b, c
<1>4. Fit(n, a \o b, {"frees"})
  BY <1>1, <1>2, Fitting
<1>5. Fit(n, a \o b \o c, {"starts", "frees"})
  BY <1>4, <1>3, Fitting
<1> QED
  BY <1>5 DEF a, b, c, RestartPreview

(* signalEndImageCapture().                                                   *)
LEMMA FitSignal == ASSUME NEW n \in Nat PROVE Fit(n, SignalEndImageCapture, {})
BY SimpleSteps, SimpleSequences DEF SignalEndImageCapture

(* cancelAutoFocus().                                                         *)
LEMMA FitCancel == ASSUME NEW n \in Nat PROVE Fit(n, CancelAutoFocus, {})
BY SimpleSteps, SimpleSequences DEF CancelAutoFocus

(* Bracketing is switched off.                                                *)
LEMMA FitDisable ==
  ASSUME NEW n \in Nat
  PROVE  Fit(n, <<Do("disable bracketing")>>
             \o IF Is("mBracketingRunning") THEN <<Do("stop bracketing")>> ELSE <<>>, {})
<1> DEFINE a == <<Do("disable bracketing")>>
           b == IF Is("mBracketingRunning") THEN <<Do("stop bracketing")>> ELSE <<>>
<1>1. Fit(n, a, {})
  BY SimpleSteps, SimpleSequences
<1>2. Fit(n, b, {})
  BY SimpleSteps, SimpleSequences
<1> HIDE DEF a, b
<1>3. Fit(n, a \o b, {})
  BY <1>1, <1>2, Fitting
<1> QED
  BY <1>3 DEF a, b

LEMMA FitToggle ==
  ASSUME NEW n \in Nat, NEW bracketing \in BOOLEAN
  PROVE  Fit(n, IF bracketing THEN <<Do("enable bracketing")>>
                ELSE <<Do("disable bracketing")>>
                     \o IF Is("mBracketingRunning") THEN <<Do("stop bracketing")>> ELSE <<>>, {})
<1>1. Fit(n, <<Do("enable bracketing")>>, {})
  BY SimpleSteps, SimpleSequences
<1> QED
  BY <1>1, FitDisable

(* The end of setParameters().                                                *)
LEMMA FitUnlockBracket ==
  ASSUME NEW n \in Nat
  PROVE  Fit(n, <<Do("unlock"), Do("bracket")>>, {"shoots"})
<1> DEFINE a == Do("unlock")
           b == Do("bracket")
<1>1. a \in Steps(n) /\ b \in Steps(n)
  BY DEF Steps, StepSet, Doings, Functions, MustCommands, TryCommands, Plain, Do, Must, Try, End
<1>2. Link(n, a, b)
  BY DEF Link, Calm, Frees, Before, After, Picture, Do, Must, Try, End
<1>3. Apart(a, b)
  BY DEF Apart, Shoots, Starts, Frees, Do, Must, Try, End
<1>4. Within({"shoots"}, a) /\ Within({"shoots"}, b)
  BY DEF Within, Shoots, Starts, Frees, Do, Must, Try, End
<1>5. Shut(n, b)
  <2>1. b \notin Opens
    BY DEF Opens, Do, Must, Try, End
  <2> QED
    BY <2>1, Free
<1>6. a \notin Needs
  BY DEF Needs, Picture, Do, Must, Try, End
<1> HIDE DEF a, b
<1>7. Wired(n, <<a, b>>)
  BY <1>1, <1>2, <1>3, Two
<1>8. Fit(n, <<a, b>>, {"shoots"})
  BY <1>4, <1>5, <1>6, <1>7 DEF Fit, Ahead
<1> QED
  BY <1>8 DEF a, b

(* setParameters().                                                           *)
LEMMA FitParameters ==
  ASSUME NEW n \in Nat, NEW bracketing \in BOOLEAN
  PROVE  Fit(n, <<Do("lock")>>
             \o (IF bracketing THEN <<Do("enable bracketing")>>
                 ELSE <<Do("disable bracketing")>>
                      \o IF Is("mBracketingRunning") THEN <<Do("stop bracketing")>> ELSE <<>>)
             \o <<Do("unlock"), Do("bracket")>>, {"shoots"})
<1> DEFINE a == <<Do("lock")>>
           b == IF bracketing THEN <<Do("enable bracketing")>>
                 ELSE <<Do("disable bracketing")>>
                      \o IF Is("mBracketingRunning") THEN <<Do("stop bracketing")>> ELSE <<>>
           c == <<Do("unlock"), Do("bracket")>>
<1>1. Fit(n, a, {})
  BY SimpleSteps, SimpleSequences
<1>2. Fit(n, b, {})
  BY FitToggle
<1>3. Fit(n, c, {"shoots"})
  BY FitUnlockBracket
<1> HIDE DEF a, b, c
<1>4. Fit(n, a \o b, {})
  BY <1>1, <1>2, Fitting
<1>5. Fit(n, a \o b \o c, {"shoots"})
  BY <1>4, <1>3, Fitting
<1> QED
  BY <1>5 DEF a, b, c

LEMMA FitMaybeStop ==
  ASSUME NEW n \in Nat
  PROVE  Fit(n, IF Is("mRecordingEnabled") THEN <<>>
                ELSE IF PreviewEnabled THEN RestartPreview
                ELSE IF Is("mDisplayPaused") THEN ForceStopPreview
                ELSE <<>>, {"starts", "frees"})
<1>1. Fit(n, <<>>, {"starts", "frees"})
  BY SimpleSequences, Widened
<1>2. Fit(n, ForceStopPreview, {"starts", "frees"})
  BY FitStop, Widened
<1> QED
  BY <1>1, <1>2, FitRestart

(* setParameters(), when the preview has to be restarted.                     *)
LEMMA FitParametersRestart ==
  ASSUME NEW n \in Nat
  PROVE  Fit(n, <<Do("lock"), Do("unlock")>>
           \o (IF Is("mRecordingEnabled") THEN <<>>
               ELSE IF PreviewEnabled THEN RestartPreview
               ELSE IF Is("mDisplayPaused") THEN ForceStopPreview
               ELSE <<>>)
           \o <<Do("bracket")>>, {"shoots", "starts", "frees"})
<1> DEFINE a == <<Do("lock"), Do("unlock")>>
           b == IF Is("mRecordingEnabled") THEN <<>>
               ELSE IF PreviewEnabled THEN RestartPreview
               ELSE IF Is("mDisplayPaused") THEN ForceStopPreview
               ELSE <<>>
           c == <<Do("bracket")>>
<1>1. Fit(n, a, {})
  BY SimpleSteps, SimpleSequences
<1>2. Fit(n, b, {"starts", "frees"})
  BY FitMaybeStop
<1>3. Fit(n, c, {"shoots"})
  BY FitBracket
<1> HIDE DEF a, b, c
<1>4. Fit(n, a \o b, {"starts", "frees"})
  BY <1>1, <1>2, Fitting
<1>5. Fit(n, a \o b \o c, {"shoots", "starts", "frees"})
  BY <1>4, <1>3, Fitting
<1> QED
  BY <1>5 DEF a, b, c

(* takePicture().                                                             *)
LEMMA FitTakePicture ==
  ASSUME NEW n \in Nat, NEW mode \in {"single", "burst"}
  PROVE  Fit(n, <<Do("lock")>> \o CancelFocusFirst
               \o <<<<"take", mode>>, End("__takePicture"), Do("unlock")>>, {"shoots"})
<1> DEFINE a == <<Do("lock")>>
           b == CancelFocusFirst
           c == <<<<"take", mode>>, End("__takePicture"), Do("unlock")>>
<1>1. Fit(n, a, {})
  BY SimpleSteps, SimpleSequences
<1>2. Fit(n, b, {})
  BY SimpleSteps, SimpleSequences, FitCancel DEF CancelFocusFirst
<1>3. Fit(n, c, {"shoots"})
  BY FitTake
<1> HIDE DEF a, b, c
<1>4. Fit(n, a \o b, {})
  BY <1>1, <1>2, Fitting
<1>5. Fit(n, a \o b \o c, {"shoots"})
  BY <1>4, <1>3, Fitting
<1> QED
  BY <1>5 DEF a, b, c

(* autoFocus().                                                               *)
LEMMA FitAutoFocus ==
  ASSUME NEW n \in Nat
  PROVE  Fit(n, <<Do("lock")>> \o (IF adapter = "AF" THEN <<>> ELSE <<Try("PERFORM_AUTOFOCUS")>>)
               \o <<Do("unlock")>>, {})
<1> DEFINE a == <<Do("lock")>>
           b == IF adapter = "AF" THEN <<>> ELSE <<Try("PERFORM_AUTOFOCUS")>>
           c == <<Do("unlock")>>
<1>1. Fit(n, a, {})
  BY SimpleSteps, SimpleSequences
<1>2. Fit(n, b, {})
  BY SimpleSteps, SimpleSequences
<1>3. Fit(n, c, {})
  BY SimpleSteps, SimpleSequences
<1> HIDE DEF a, b, c
<1>4. Fit(n, a \o b, {})
  BY <1>1, <1>2, Fitting
<1>5. Fit(n, a \o b \o c, {})
  BY <1>4, <1>3, Fitting
<1> QED
  BY <1>5 DEF a, b, c

(* startRecording().                                                          *)
LEMMA FitStartRecording ==
  ASSUME NEW n \in Nat, NEW ownBuffers \in BOOLEAN
  PROVE  Fit(n, StartRecording(ownBuffers), {})
<1> DEFINE a == IF ownBuffers THEN <<Do("allocate video buffers")>> ELSE <<>>
           b == <<Do("start recording"), Must("START_VIDEO"), Do("recording is on")>>
<1>1. Fit(n, a, {})
  BY SimpleSteps, SimpleSequences
<1>2. Fit(n, b, {})
  BY SimpleSteps, SimpleSequences
<1> HIDE DEF a, b
<1>3. Fit(n, a \o b, {})
  BY <1>1, <1>2, Fitting
<1> QED
  BY <1>3 DEF a, b, StartRecording

(* The restart ahead of it, and what it came to.                              *)
LEMMA FitRestartCheck ==
  ASSUME NEW n \in Nat
  PROVE  Fit(n, RestartPreview \o <<Do("check")>>, {"starts", "frees"})
<1> DEFINE a == RestartPreview
           b == <<Do("check")>>
<1>1. Fit(n, a, {"starts", "frees"})
  BY FitRestart
<1>2. Fit(n, b, {})
  BY SimpleSteps, SimpleSequences
<1> HIDE DEF a, b
<1>3. Fit(n, a \o b, {"starts", "frees"})
  BY <1>1, <1>2, Fitting
<1> QED
  BY <1>3 DEF a, b

LEMMA FitMaybeRestart ==
  ASSUME NEW n \in Nat, NEW restart \in BOOLEAN
  PROVE  Fit(n, IF restart THEN RestartPreview \o <<Do("check")>> ELSE <<>>, {"starts", "frees"})
<1>1. Fit(n, <<>>, {"starts", "frees"})
  BY SimpleSequences, Widened
<1> QED
  BY <1>1, FitRestartCheck

(* startRecording(), from its restart of the preview.                         *)
LEMMA FitRecording ==
  ASSUME NEW n \in Nat, NEW restart \in BOOLEAN, NEW ownBuffers \in BOOLEAN
  PROVE  Fit(n, (IF restart THEN RestartPreview \o <<Do("check")>> ELSE <<>>)
               \o StartRecording(ownBuffers), {"starts", "frees"})
<1> DEFINE a == IF restart THEN RestartPreview \o <<Do("check")>> ELSE <<>>
           b == StartRecording(ownBuffers)
<1>1. Fit(n, a, {"starts", "frees"})
  BY FitMaybeRestart
<1>2. Fit(n, b, {})
  BY FitStartRecording
<1> HIDE DEF a, b
<1>3. Fit(n, a \o b, {"starts", "frees"})
  BY <1>1, <1>2, Fitting
<1> QED
  BY <1>3 DEF a, b

(* stopRecording().                                                           *)
LEMMA FitStopRecording ==
  ASSUME NEW n \in Nat
  PROVE  Fit(n, <<Do("lock")>>
               \o (IF adapter = "VIDEO_CAPTURE" THEN <<Try("STOP_IMAGE_CAPTURE")>> ELSE <<>>)
               \o <<Try("STOP_VIDEO"), Do("stop recording"), Do("unlock")>>, {})
<1> DEFINE a == <<Do("lock")>>
           b == IF adapter = "VIDEO_CAPTURE" THEN <<Try("STOP_IMAGE_CAPTURE")>> ELSE <<>>
           c == <<Try("STOP_VIDEO"), Do("stop recording"), Do("unlock")>>
<1>1. Fit(n, a, {})
  BY SimpleSteps, SimpleSequences
<1>2. Fit(n, b, {})
  BY SimpleSteps, SimpleSequences
<1>3. Fit(n, c, {})
  BY SimpleSteps, SimpleSequences
<1> HIDE DEF a, b, c
<1>4. Fit(n, a \o b, {})
  BY <1>1, <1>2, Fitting
<1>5. Fit(n, a \o b \o c, {})
  BY <1>4, <1>3, Fitting
<1> QED
  BY <1>5 DEF a, b, c

(* The tap is dropped after the end of the capture.                           *)
LEMMA FitDropTap ==
  ASSUME NEW n \in Nat
  PROVE  Fit(n, SignalEndImageCapture \o <<Do("drop tap")>>, {})
<1> DEFINE a == SignalEndImageCapture
           b == <<Do("drop tap")>>
<1>1. Fit(n, a, {})
  BY FitSignal
<1>2. Fit(n, b, {})
  BY SimpleSteps, SimpleSequences
<1> HIDE DEF a, b
<1>3. Fit(n, a \o b, {})
  BY <1>1, <1>2, Fitting
<1> QED
  BY <1>3 DEF a, b

(* reprocess().                                                               *)
LEMMA FitReprocess ==
  ASSUME NEW n \in Nat
  PROVE  Fit(n, <<Do("lock"), Must("USE_BUFFERS_REPROCESS"), <<"take", "burst">>, End("__takePicture"),
                  Do("unlock")>>, {"shoots"})
<1> DEFINE a == Do("lock")
           b == Must("USE_BUFFERS_REPROCESS")
           c == <<"take", "burst">>
           d == End("__takePicture")
           e == Do("unlock")
<1>1. a \in Steps(n) /\ b \in Steps(n) /\ c \in Steps(n) /\ d \in Steps(n) /\ e \in Steps(n)
  BY DEF Steps, StepSet, Doings, Functions, MustCommands, TryCommands, Plain, Do, Must, Try, End
<1>2. Link(n, a, b) /\ Link(n, b, c) /\ Link(n, c, d) /\ Link(n, d, e)
  BY DEF Link, Calm, Frees, Before, After, Picture, Do, Must, Try, End
<1>3. Apart(a, b) /\ Apart(a, c) /\ Apart(a, d) /\ Apart(a, e) /\ Apart(b, c) /\ Apart(b, d) /\
      Apart(b, e) /\ Apart(c, d) /\ Apart(c, e) /\ Apart(d, e)
  BY DEF Apart, Shoots, Starts, Frees, Do, Must, Try, End
<1>4. Within({"shoots"}, a) /\ Within({"shoots"}, b) /\ Within({"shoots"}, c) /\ Within({"shoots"}, d) /\
      Within({"shoots"}, e)
  BY DEF Within, Shoots, Starts, Frees, Do, Must, Try, End
<1>5. Shut(n, e)
  <2>1. e \notin Opens
    BY DEF Opens, Do, Must, Try, End
  <2> QED
    BY <2>1, Free
<1>6. a \notin Needs
  BY DEF Needs, Picture, Do, Must, Try, End
<1> HIDE DEF a, b, c, d, e
<1>7. Wired(n, <<a, b, c, d, e>>)
  BY <1>1, <1>2, <1>3, Five
<1>8. Fit(n, <<a, b, c, d, e>>, {"shoots"})
  BY <1>4, <1>5, <1>6, <1>7 DEF Fit, Ahead
<1> QED
  BY <1>8 DEF a, b, c, d, e

LEMMA FitMaybeStopped ==
  ASSUME NEW n \in Nat
  PROVE  Fit(n, IF Is("mPreviewEnabled") \/ Is("mDisplayPaused") THEN ForceStopPreview ELSE <<>>, {"frees"})
<1>1. Fit(n, <<>>, {"frees"})
  BY SimpleSequences, Widened
<1> QED
  BY <1>1, FitStop

(* release().                                                                 *)
LEMMA FitRelease ==
  ASSUME NEW n \in Nat
  PROVE  Fit(n, (IF Is("mPreviewEnabled") \/ Is("mDisplayPaused")
                       THEN ForceStopPreview ELSE <<>>) \o <<Do("destroy")>>, {"frees"})
<1> DEFINE a == IF Is("mPreviewEnabled") \/ Is("mDisplayPaused") THEN ForceStopPreview ELSE <<>>
           b == <<Do("destroy")>>
<1>1. Fit(n, a, {"frees"})
  BY FitMaybeStopped
<1>2. Fit(n, b, {})
  BY SimpleSteps, SimpleSequences
<1> HIDE DEF a, b
<1>3. Fit(n, a \o b, {"frees"})
  BY <1>1, <1>2, Fitting
<1> QED
  BY <1>3 DEF a, b

-----------------------------------------------------------------------------
(* What is left of a call, after a step of it.                                *)

LEMMA Weaker ==
  ASSUME NEW n \in Nat, NEW m \in Nat, m = 0 => n = 0, NEW s, Wired(n, s)
  PROVE  Wired(m, s)
<1>1. Steps(n) \subseteq Steps(m)
  BY DEF Steps, Plain
<1>2. s \in Seq(Steps(m))
  BY <1>1 DEF Wired
<1>3. \A a, b : Link(n, a, b) => Link(m, a, b)
  BY DEF Link, Calm
<1> QED
  BY <1>2, <1>3 DEF Wired

Cut(r, s, k)  == k \in 1..Len(s) /\ r = SubSeq(s, k, Len(s))
Glue(u, s, r) == u = s \o r

LEMMA Suffix ==
  ASSUME NEW n \in Nat, NEW s, NEW c, Wired(n, s), Ended(s, c), NEW k, NEW r, Cut(r, s, k)
  PROVE  /\ Wired(n, r) /\ Ended(r, c) /\ r # <<>> /\ r[1] = s[k]
         /\ \A i \in 1..Len(r) : \E j \in k..Len(s) : r[i] = s[j]
<1>1. s \in Seq(Steps(n)) /\ Len(s) \in Nat /\ k \in 1..Len(s) /\ r = SubSeq(s, k, Len(s))
  BY DEF Wired, Cut
<1>2. /\ r \in Seq(Steps(n)) /\ Len(r) = Len(s) - k + 1
      /\ \A i \in 1..Len(r) : i + k - 1 \in k..Len(s) /\ r[i] = s[i + k - 1]
  BY <1>1
<1>3. \A i \in 1..Len(r) - 1 : Link(n, r[i], r[i + 1])
  <2> TAKE i \in 1..Len(r) - 1
  <2> DEFINE j == i + k - 1
  <2>1. j \in 1..Len(s) - 1 /\ i \in 1..Len(r) /\ i + 1 \in 1..Len(r) /\ j + 1 = (i + 1) + k - 1
    BY <1>1, <1>2
  <2>2. r[i] = s[j] /\ r[i + 1] = s[j + 1]
    BY <1>2, <2>1
  <2> HIDE DEF j
  <2> QED
    BY <2>1, <2>2 DEF Wired
<1>4. \A i, j \in 1..Len(r) : i < j => Apart(r[i], r[j])
  <2> TAKE i, j \in 1..Len(r)
  <2> HAVE i < j
  <2>1. i + k - 1 \in 1..Len(s) /\ j + k - 1 \in 1..Len(s) /\ i + k - 1 < j + k - 1
    BY <1>1, <1>2
  <2> QED
    BY <1>2, <2>1 DEF Wired
<1>5. r # <<>> /\ r[1] = s[k] /\ r[Len(r)] = s[Len(s)]
  <2>1. Len(r) \in Nat /\ Len(r) > 0 /\ 1 \in 1..Len(r) /\ Len(r) \in 1..Len(r)
        /\ 1 + k - 1 = k /\ Len(r) + k - 1 = Len(s)
    <3>1. Len(r) = Len(s) - k + 1
      BY <1>2
    <3> QED
      BY <1>1, <3>1
  <2>2. r # <<>>
    BY <2>1
  <2>3. r[1] = s[k] /\ r[Len(r)] = s[Len(s)]
    BY <1>2, <2>1
  <2> QED
    BY <2>2, <2>3
<1>6. Ended(r, c)
  BY <1>1, <1>5 DEF Ended
<1>7. \A i \in 1..Len(r) : \E j \in k..Len(s) : r[i] = s[j]
  BY <1>2
<1> QED
  BY <1>2, <1>3, <1>4, <1>5, <1>6, <1>7 DEF Wired

(* The end of a function can come anywhere.                                   *)
LEMMA EndsAreFree == ASSUME NEW x, x[1] = "end" PROVE x \notin Needs
<1>1. x \notin {Do("pause preview"), Do("bracketing is on"), Do("allocate image buffers"),
               Do("free preview buffers"), Do("preview is off"), Do("allocate preview buffers"),
               Do("wait for window"), Do("start callbacks"), Do("preview is on"), Do("resume display")}
  <2>1. \A t : Do(t)[1] = "do"
    BY DEF Do
  <2> QED
    BY <2>1
<1>2. x \notin {Must("QUERY_BUFFER_SIZE_IMAGE_CAPTURE"), Must("USE_BUFFERS_IMAGE_CAPTURE"),
               Must("START_IMAGE_CAPTURE"), Must("START_BRACKET_CAPTURE"),
               Must("USE_BUFFERS_PREVIEW"), Must("START_PREVIEW"), Must("QUERY_RESOLUTION_PREVIEW")}
  <2>1. \A t : Must(t)[1] = "must"
    BY DEF Must
  <2> QED
    BY <2>1
<1> QED
  BY <1>1, <1>2 DEF Needs, Picture

(* What comes before the rest of a call.                                      *)
LEMMA Prefixed ==
  ASSUME NEW n \in Nat, NEW s, NEW C, NEW r, NEW c, Ahead(n, s, C), Wired(n, r), Ended(r, c),
         r # <<>>, r[1] \notin Needs, "shoots" \in C => NoShots(r), "starts" \in C => NoFrees(r),
         NEW u, Glue(u, s, r)
  PROVE  /\ Wired(n, u) /\ Ended(u, c) /\ u # <<>>
         /\ (s = <<>> => u[1] = r[1]) /\ (s # <<>> => u[1] = s[1])
         /\ "shoots" \notin C /\ NoShots(r) => NoShots(u)
         /\ "frees" \notin C /\ NoFrees(r) => NoFrees(u)
<1>1. Wired(n, s) /\ s \in Seq(Steps(n)) /\ r \in Seq(Steps(n))
  BY DEF Ahead, Wired
<1>2. s # <<>> /\ r # <<>> => Link(n, s[Len(s)], r[1])
  BY DEF Ahead, Shut
<1>3. \A i \in 1..Len(s), j \in 1..Len(r) : Apart(s[i], r[j])
  BY DEF Ahead, Within, Apart, NoShots, NoFrees
<1>4. Wired(n, u) /\ u = s \o r
  BY <1>1, <1>2, <1>3, Linked DEF Glue
<1>5. /\ u \in Seq(Steps(n)) /\ Len(u) = Len(s) + Len(r) /\ Len(s) \in Nat /\ Len(r) \in Nat /\ Len(r) > 0
      /\ \A i \in 1..Len(s) : u[i] = s[i]
      /\ \A i \in Len(s) + 1..Len(s) + Len(r) : u[i] = r[i - Len(s)]
  <2>1. Len(s) \in Nat /\ Len(r) \in Nat /\ Len(r) > 0
    BY <1>1
  <2>2. u \in Seq(Steps(n)) /\ Len(u) = Len(s) + Len(r)
    BY <1>1, <1>4
  <2>3. /\ \A i \in 1..Len(s) : u[i] = s[i]
        /\ \A i \in Len(s) + 1..Len(s) + Len(r) : u[i] = r[i - Len(s)]
    BY <1>1, <1>4
  <2> QED
    BY <2>1, <2>2, <2>3
<1>6. (s = <<>> <=> Len(s) = 0) /\ (u = <<>> <=> Len(u) = 0)
  BY <1>1, <1>5
<1>7. u # <<>> /\ (s = <<>> => u[1] = r[1]) /\ (s # <<>> => u[1] = s[1]) /\ u[Len(u)] = r[Len(r)]
  BY <1>5, <1>6
<1>8. Ended(u, c)
  BY <1>7 DEF Ended
<1>9. \A i \in 1..Len(u) : (i \in 1..Len(s) /\ u[i] = s[i]) \/ (\E j \in 1..Len(r) : u[i] = r[j])
  <2> TAKE i \in 1..Len(u)
  <2>1. i \in 1..Len(s) \/ (i - Len(s) \in 1..Len(r) /\ u[i] = r[i - Len(s)])
    BY <1>5
  <2> QED
    BY <1>5, <2>1
<1>10. "shoots" \notin C /\ NoShots(r) => NoShots(u)
  BY <1>5, <1>9 DEF NoShots, Ahead, Within
<1>11. "frees" \notin C /\ NoFrees(r) => NoFrees(u)
  BY <1>5, <1>9 DEF NoFrees, Ahead, Within
<1> QED
  BY <1>4, <1>7, <1>8, <1>10, <1>11

(* A call that begins.                                                        *)
LEMMA Begun ==
  ASSUME NEW c \in Functions, NEW s, NEW C, faults \in Nat, Fit(faults, s, C),
         todo' = s \o <<End(c)>>, call' = c, faults' = faults
  PROVE  /\ Program' /\ todo' # <<>> /\ todo'[1] = (IF s = <<>> THEN End(c) ELSE s[1])
         /\ todo'[1] \notin Needs
         /\ "shoots" \notin C => NoShots(todo')
         /\ "frees" \notin C => NoFrees(todo')
<1> DEFINE e == End(c)
           r == <<e>>
<1>1. e \in Steps(faults) /\ e \notin Needs /\ ~Shoots(e) /\ ~Frees(e)
  <2>1. e \in Steps(faults)
    BY DEF Steps, StepSet, Plain, Do, Try, End
  <2>2. e \notin Needs
    BY DEF Needs, Picture, Do, Must, End
  <2>3. ~Shoots(e) /\ ~Frees(e)
    BY DEF Shoots, Frees, Do, Must, End
  <2> QED
    BY <2>1, <2>2, <2>3
<1>2. Ended(r, c)
  BY DEF Ended
<1> HIDE DEF e
<1>3. Wired(faults, r) /\ r # <<>> /\ r[1] = e /\ NoShots(r) /\ NoFrees(r)
  BY <1>1, One DEF NoShots, NoFrees
<1> HIDE DEF r
<1>4. Ahead(faults, s, C)
  BY DEF Fit
<1> DEFINE u == s \o r
<1>10. Glue(u, s, r)
  BY DEF Glue
<1>6. todo' = u
  BY DEF u, r, e
<1> HIDE DEF u
<1>5. /\ Wired(faults, u) /\ Ended(u, c) /\ u # <<>>
      /\ (s = <<>> => u[1] = r[1]) /\ (s # <<>> => u[1] = s[1])
      /\ "shoots" \notin C => NoShots(u)
      /\ "frees" \notin C => NoFrees(u)
  BY <1>1, <1>2, <1>3, <1>4, <1>10, Prefixed
<1>7. u[1] \notin Needs /\ u[1] = (IF s = <<>> THEN e ELSE s[1])
  BY <1>1, <1>3, <1>5 DEF Fit
<1> QED
  BY <1>5, <1>6, <1>7 DEF Program, e

(* A step that is over.                                                       *)
LEMMA Advanced ==
  ASSUME Program, faults \in Nat, faults' \in Nat, faults' = 0 => faults = 0, todo # <<>>,
         todo' = Rest, todo' # <<>> => call' = call
  PROVE  /\ Program'
         /\ todo' # <<>> => Len(todo) > 1 /\ todo'[1] = todo[2] /\ Link(faults, todo[1], todo'[1])
         /\ todo' = <<>> => todo[1] = End(call)
         /\ NoFrees(todo) \/ Starts(todo[1]) => NoFrees(todo')
         /\ NoShots(todo) \/ Shoots(todo[1]) => NoShots(todo')
<1>1. todo \in Seq(Steps(faults)) /\ Len(todo) \in Nat /\ Len(todo) > 0 /\ Wired(faults, todo) /\
      Ended(todo, call)
  BY DEF Program, Wired
<1>2. CASE Len(todo) = 1
  <2>1. todo' = <<>>
    BY <1>1, <1>2 DEF Rest
  <2>2. Program' /\ NoFrees(todo') /\ NoShots(todo')
    BY <2>1 DEF Program, Wired, Ended, NoFrees, NoShots
  <2>3. todo[1] = End(call)
    BY <1>1, <1>2 DEF Ended
  <2> QED
    BY <2>1, <2>2, <2>3
<1>3. CASE Len(todo) > 1
  <2>1. Cut(todo', todo, 2)
    BY <1>1, <1>3, TailIsSubSeq DEF Rest, Cut
  <2>2. /\ Wired(faults, todo') /\ Ended(todo', call) /\ todo' # <<>> /\ todo'[1] = todo[2]
        /\ \A i \in 1..Len(todo') : \E j \in 2..Len(todo) : todo'[i] = todo[j]
    BY <1>1, <2>1, Suffix
  <2>3. Wired(faults', todo')
    BY <2>2, Weaker
  <2>4. Link(faults, todo[1], todo'[1])
    <3>1. 1 \in 1..Len(todo) - 1 /\ 1 + 1 = 2
      BY <1>1, <1>3
    <3> QED
      BY <1>1, <2>2, <3>1 DEF Wired
  <2>5. \A j \in 2..Len(todo) : Apart(todo[1], todo[j])
    BY <1>1 DEF Wired
  <2>6. NoFrees(todo) \/ Starts(todo[1]) => NoFrees(todo')
    BY <1>1, <2>2, <2>5 DEF NoFrees, Apart
  <2>7. NoShots(todo) \/ Shoots(todo[1]) => NoShots(todo')
    BY <1>1, <2>2, <2>5 DEF NoShots, Apart
  <2>8. Program'
    BY <2>2, <2>3 DEF Program
  <2> QED
    BY <1>3, <2>2, <2>4, <2>6, <2>7, <2>8
<1>4. Len(todo) = 1 \/ Len(todo) > 1
  <2>1. Len(todo) \in Nat /\ Len(todo) > 0
    BY <1>1
  <2>2. \A k \in Nat : k > 0 => k = 1 \/ k > 1
    OBVIOUS
  <2> QED
    BY <2>1, <2>2, Zenon
<1> QED
  BY <1>2, <1>3, <1>4

(* A step that turns into others.                                             *)
LEMMA Expanded ==
  ASSUME Program, faults \in Nat, faults' = faults, todo # <<>>, todo[1][1] # "end",
         NEW s, NEW C, Ahead(faults, s, C), todo' = s \o Rest, call' = call,
         \A b \in Needs : ~Link(faults, todo[1], b),
         "shoots" \in C => Shoots(todo[1]), "starts" \in C => Starts(todo[1])
  PROVE  /\ Program' /\ todo' # <<>>
         /\ IF s = <<>> THEN todo'[1] \notin Needs /\ Link(faults, todo[1], todo'[1]) ELSE todo'[1] = s[1]
         /\ "frees" \notin C /\ NoFrees(todo) => NoFrees(todo')
         /\ NoShots(todo) \/ Shoots(todo[1]) => NoShots(todo') \/ "shoots" \in C
<1>1. todo \in Seq(Steps(faults)) /\ Len(todo) \in Nat /\ Len(todo) > 0 /\ Wired(faults, todo) /\
      Ended(todo, call)
  <2>1. Wired(faults, todo) /\ Ended(todo, call)
    BY DEF Program
  <2>2. todo \in Seq(Steps(faults))
    BY <2>1 DEF Wired
  <2> QED
    BY <2>1, <2>2
<1>2. Len(todo) > 1
  <2>1. todo[Len(todo)][1] = "end"
    BY <1>1 DEF Ended, End
  <2> QED
    BY <1>1, <2>1
<1> DEFINE r == Rest
<1>3. Cut(r, todo, 2)
  BY <1>1, <1>2, TailIsSubSeq DEF Rest, Cut
<1> HIDE DEF r
<1>4. /\ Wired(faults, r) /\ Ended(r, call) /\ r # <<>> /\ r[1] = todo[2]
      /\ \A i \in 1..Len(r) : \E j \in 2..Len(todo) : r[i] = todo[j]
  BY <1>1, <1>3, Suffix
<1>5. Link(faults, todo[1], r[1])
  <2>1. 1 \in 1..Len(todo) - 1 /\ 1 + 1 = 2
    BY <1>1, <1>2
  <2> QED
    BY <1>1, <1>4, <2>1 DEF Wired
<1>6. \A j \in 2..Len(todo) : Apart(todo[1], todo[j])
  BY <1>1 DEF Wired
<1>7. r[1] \notin Needs
  BY <1>5
<1>8. NoFrees(todo) \/ Starts(todo[1]) => NoFrees(r)
  BY <1>1, <1>4, <1>6 DEF NoFrees, Apart
<1>9. NoShots(todo) \/ Shoots(todo[1]) => NoShots(r)
  BY <1>1, <1>4, <1>6 DEF NoShots, Apart
<1> DEFINE u == s \o r
<1>11. todo' = u /\ Glue(u, s, r)
  BY DEF r, Glue
<1> HIDE DEF u
<1>10. /\ Wired(faults, u) /\ Ended(u, call) /\ u # <<>>
       /\ (s = <<>> => u[1] = r[1]) /\ (s # <<>> => u[1] = s[1])
       /\ "shoots" \notin C /\ NoShots(r) => NoShots(u)
       /\ "frees" \notin C /\ NoFrees(r) => NoFrees(u)
  BY <1>4, <1>7, <1>8, <1>9, <1>11, Prefixed
<1> QED
  BY <1>5, <1>7, <1>8, <1>9, <1>10, <1>11 DEF Program

(* The function that is running has an end.                                   *)
LEMMA Returns ==
  ASSUME Program, faults \in Nat, todo # <<>>
  PROVE  \E e \in 1..Len(todo) : todo[e][1] = "end" /\ Return = SubSeq(todo, e, Len(todo))
<1>1. todo \in Seq(Steps(faults)) /\ Len(todo) \in Nat /\ Len(todo) > 0 /\ Ended(todo, call)
  BY DEF Program, Wired
<1> DEFINE T == {i \in 1..Len(todo) : todo[i][1] = "end"}
           Less == {ss \in Nat \X Nat : ss[1] < ss[2]}
<1>2. Len(todo) \in T
  BY <1>1 DEF Ended, End
<1>3. T \subseteq Nat /\ T # {}
  BY <1>1, <1>2
<1>4. IsWellFoundedOn(Less, Nat)
  BY NatLessThanWellFounded DEF OpToRel
<1>5. PICK e \in T : \A y \in T : ~(<<y, e>> \in Less)
  <2> HIDE DEF Less, T
  <2> QED
    BY <1>3, <1>4, WFMin
<1>6. \A j \in 1..e - 1 : todo[j][1] # "end"
  <2> SUFFICES ASSUME NEW j \in 1..e - 1, todo[j][1] = "end" PROVE FALSE
    OBVIOUS
  <2>1. j \in T /\ j \in Nat /\ e \in Nat /\ j < e
    BY <1>1, <1>3
  <2> QED
    BY <1>5, <2>1
<1> DEFINE P(i) == todo[i][1] = "end" /\ \A j \in 1..i - 1 : todo[j][1] # "end"
           f == CHOOSE i \in 1..Len(todo) : P(i)
<1>7. e \in 1..Len(todo) /\ P(e)
  BY <1>5, <1>6
<1>8. f \in 1..Len(todo) /\ P(f)
  <2> HIDE DEF P
  <2> QED
    BY <1>7
<1> QED
  BY <1>8 DEF Return

LEMMA Returned ==
  ASSUME Program, faults \in Nat, faults' \in Nat, faults' = 0 => faults = 0, todo # <<>>,
         NEW s, NEW C, Ahead(faults', s, C), todo' = s \o Return, call' = call,
         "shoots" \notin C, "starts" \notin C
  PROVE  /\ Program' /\ todo' # <<>>
         /\ IF s = <<>> THEN todo'[1][1] = "end" ELSE todo'[1] = s[1]
         /\ "frees" \notin C /\ NoFrees(todo) => NoFrees(todo')
         /\ NoShots(todo) => NoShots(todo')
<1>1. todo \in Seq(Steps(faults)) /\ Len(todo) \in Nat /\ Wired(faults, todo) /\ Ended(todo, call)
  BY DEF Program, Wired
<1>2. PICK e \in 1..Len(todo) : todo[e][1] = "end" /\ Return = SubSeq(todo, e, Len(todo))
  BY Returns
<1> DEFINE r == Return
<1>3. Cut(r, todo, e)
  BY <1>2 DEF Cut
<1> HIDE DEF r
<1>4. /\ Wired(faults, r) /\ Ended(r, call) /\ r # <<>> /\ r[1] = todo[e]
      /\ \A i \in 1..Len(r) : \E j \in e..Len(todo) : r[i] = todo[j]
  BY <1>1, <1>3, Suffix
<1>5. \A i \in 1..Len(r) : \E j \in 1..Len(todo) : r[i] = todo[j]
  BY <1>1, <1>4
<1>6. Wired(faults', r)
  BY <1>4, Weaker
<1>7. r[1][1] = "end"
  BY <1>2, <1>4
<1>8. r[1] \notin Needs
  BY <1>7, EndsAreFree
<1>9. (NoFrees(todo) => NoFrees(r)) /\ (NoShots(todo) => NoShots(r))
  BY <1>4, <1>5 DEF NoFrees, NoShots
<1> DEFINE u == s \o r
<1>11. todo' = u /\ Glue(u, s, r)
  BY DEF r, Glue
<1> HIDE DEF u
<1>10. /\ Wired(faults', u) /\ Ended(u, call) /\ u # <<>>
       /\ (s = <<>> => u[1] = r[1]) /\ (s # <<>> => u[1] = s[1])
       /\ "shoots" \notin C /\ NoShots(r) => NoShots(u)
       /\ "frees" \notin C /\ NoFrees(r) => NoFrees(u)
  BY <1>4, <1>6, <1>8, <1>11, Prefixed
<1> QED
  BY <1>7, <1>9, <1>10, <1>11 DEF Program

(* What a function does about a step that failed.                             *)
LEMMA AheadFree ==
  ASSUME NEW n \in Nat, n # 0
  PROVE  Ahead(n, <<Do("free preview buffers")>>, {"frees"})
<1> DEFINE a == Do("free preview buffers")
<1>1. a \in Steps(n)
  BY DEF Steps, StepSet, Doings, Functions, MustCommands, TryCommands, Plain, Do, Must, Try, End
<1>2. Within({"frees"}, a)
  BY DEF Within, Shoots, Starts, Frees, Do, Must, Try, End
<1>3. ASSUME NEW b, b \notin Needs PROVE Link(n, a, b)
  <2>1. Before(a, b)
    BY <1>3 DEF Needs, Before, Picture
  <2>2. After(a, b) /\ Calm(n, a, b)
    BY DEF After, Calm, Do, Must, End
  <2> QED
    BY <2>1, <2>2 DEF Link
<1> HIDE DEF a
<1>4. Wired(n, <<a>>) /\ Shut(n, a)
  BY <1>1, <1>3, One DEF Shut
<1>5. Ahead(n, <<a>>, {"frees"})
  BY <1>2, <1>4 DEF Ahead
<1> QED
  BY <1>5 DEF a

LEMMA AheadOnError ==
  ASSUME NEW n \in Nat, NEW x, n # 0 \/ x \notin {"allocate preview buffers", "START_PREVIEW",
                                                  "USE_BUFFERS_PREVIEW"}
  PROVE  Ahead(n, OnError(x), {"frees"})
<1>1. Ahead(n, <<>>, {"frees"})
  BY SimpleSequences, Widened DEF Fit
<1> QED
  BY <1>1, AheadFree, AheadCleanup DEF OnError

LEMMA JustReturned ==
  ASSUME Program, faults \in Nat, faults' \in Nat, faults' = 0 => faults = 0, todo # <<>>,
         todo' = Return, call' = call
  PROVE  /\ Program' /\ todo' # <<>> /\ todo'[1][1] = "end"
         /\ NoFrees(todo) => NoFrees(todo')
         /\ NoShots(todo) => NoShots(todo')
<1>1. PICK e \in 1..Len(todo) : todo[e][1] = "end" /\ Return = SubSeq(todo, e, Len(todo))
  BY Returns
<1>2. todo \in Seq(Steps(faults)) /\ Len(todo) \in Nat /\ Wired(faults, todo) /\ Ended(todo, call)
  BY DEF Program, Wired
<1>9. Cut(todo', todo, e)
  BY <1>1 DEF Cut
<1>3. /\ Wired(faults, todo') /\ Ended(todo', call) /\ todo' # <<>> /\ todo'[1] = todo[e]
      /\ \A i \in 1..Len(todo') : \E j \in e..Len(todo) : todo'[i] = todo[j]
  BY <1>2, <1>9, Suffix
<1>4. \A i \in 1..Len(todo') : \E j \in 1..Len(todo) : todo'[i] = todo[j]
  BY <1>2, <1>3
<1>5. Wired(faults', todo')
  BY <1>3, Weaker
<1>6. (NoFrees(todo) => NoFrees(todo')) /\ (NoShots(todo) => NoShots(todo'))
  BY <1>3, <1>4 DEF NoFrees, NoShots
<1> QED
  BY <1>1, <1>3, <1>5, <1>6 DEF Program

-----------------------------------------------------------------------------
(* What the invariant says when a call is at no step of interest.             *)

LEMMA StepsDiffer ==
  /\ \A x, y : Do(x) # Must(y) /\ Do(x) # Try(y) /\ Do(x) # End(y) /\ Must(x) # Try(y)
              /\ Must(x) # End(y) /\ Try(x) # End(y)
  /\ \A x, y : Do(x) = Do(y) => x = y
  /\ \A x, y : Must(x) = Must(y) => x = y
  /\ \A x, y : Try(x) = Try(y) => x = y
  /\ \A x, y : End(x) = End(y) => x = y
<1>1. \A x, y : Do(x) # Must(y) /\ Do(x) # Try(y) /\ Do(x) # End(y) /\ Must(x) # Try(y)
                /\ Must(x) # End(y) /\ Try(x) # End(y)
  BY DEF Do, Must, Try, End
<1>2. \A x, y : Do(x) = Do(y) => x = y
  BY DEF Do
<1>3. \A x, y : Must(x) = Must(y) => x = y
  BY DEF Must
<1>4. \A x, y : Try(x) = Try(y) => x = y
  BY DEF Try
<1>5. \A x, y : End(x) = End(y) => x = y
  BY DEF End
<1> QED
  BY <1>1, <1>2, <1>3, <1>4, <1>5

LEMMA ParkedStates ==
  /\ {"INITIALIZED", "LOADED_PREVIEW", "LOADED_CAPTURE", "LOADED_REPROCESS",
      "LOADED_REPROCESS_CAPTURE", "VIDEO_LOADED_CAPTURE"} \subseteq Parked
  /\ Parked \subseteq {"INITIALIZED", "LOADED_PREVIEW", "LOADED_CAPTURE", "LOADED_REPROCESS",
                       "LOADED_REPROCESS_CAPTURE", "VIDEO_LOADED_CAPTURE", "REPROCESS"}
  /\ CpCam => "REPROCESS" \notin Parked
<1>1. \A s \in {"LOADED_PREVIEW", "LOADED_CAPTURE", "LOADED_REPROCESS",
                "LOADED_REPROCESS_CAPTURE", "VIDEO_LOADED_CAPTURE"} : \A c : <<s, c>> \notin RollbackCommands
  BY DEF RollbackCommands
<1>2. {"LOADED_PREVIEW", "LOADED_CAPTURE", "LOADED_REPROCESS", "LOADED_REPROCESS_CAPTURE",
       "VIDEO_LOADED_CAPTURE"} \subseteq States
  BY DEF States, StillStates, VideoStates
<1>3. {"STOP_PREVIEW", "STOP_IMAGE_CAPTURE", "STOP_BRACKET_CAPTURE", "CANCEL_AUTOFOCUS", "STOP_SMOOTH_ZOOM",
       "STOP_VIDEO"} \subseteq Commands
  BY DEF Commands
<1>4. /\ <<"PREVIEW", "STOP_PREVIEW">> \in RollbackCommands
      /\ <<"CAPTURE", "STOP_IMAGE_CAPTURE">> \in RollbackCommands
      /\ <<"BRACKETING", "STOP_BRACKET_CAPTURE">> \in RollbackCommands
      /\ <<"AF", "CANCEL_AUTOFOCUS">> \in RollbackCommands
      /\ <<"ZOOM", "STOP_SMOOTH_ZOOM">> \in RollbackCommands
      /\ <<"VIDEO", "STOP_VIDEO">> \in RollbackCommands
      /\ <<"VIDEO_AF", "CANCEL_AUTOFOCUS">> \in RollbackCommands
      /\ <<"VIDEO_CAPTURE", "STOP_IMAGE_CAPTURE">> \in RollbackCommands
      /\ <<"AF_ZOOM", "STOP_SMOOTH_ZOOM">> \in RollbackCommands
      /\ <<"VIDEO_ZOOM", "STOP_SMOOTH_ZOOM">> \in RollbackCommands
      /\ <<"BRACKETING_ZOOM", "STOP_SMOOTH_ZOOM">> \in RollbackCommands
      /\ CpCam => <<"REPROCESS", "STOP_IMAGE_CAPTURE">> \in RollbackCommands
  BY DEF RollbackCommands
<1>5. {"LOADED_PREVIEW", "LOADED_CAPTURE", "LOADED_REPROCESS", "LOADED_REPROCESS_CAPTURE",
       "VIDEO_LOADED_CAPTURE"} \subseteq Stranded
  BY <1>1, <1>2 DEF Stranded
<1>6. \A s \in Stranded : s \in {"LOADED_PREVIEW", "LOADED_CAPTURE", "LOADED_REPROCESS",
                       "LOADED_REPROCESS_CAPTURE", "VIDEO_LOADED_CAPTURE", "REPROCESS"}
  BY <1>3, <1>4 DEF Stranded, States, StillStates, VideoStates
<1>7. CpCam => "REPROCESS" \notin Stranded
  BY <1>3, <1>4 DEF Stranded
<1> QED
  BY <1>5, <1>6, <1>7 DEF Parked

LEMMA AtRest ==
  ASSUME PreviewFlags, ~On(Loose)
  PROVE  Settled /\ ~Waiting /\ (Done => NoFrees(todo))
BY DEF PreviewFlags, On, Loose, Settled

LEMMA FlagsAtRest ==
  ASSUME Settled', ~Waiting', Done' => NoFrees(todo')
  PROVE  PreviewFlags'
BY DEF PreviewFlags, Settled

LEMMA FreeHead ==
  ASSUME todo' # <<>> => \/ todo'[1] \notin Needs
                         \/ todo'[1] \in Picture \ {Do("pause preview")} /\ (Seen' \/ InProgress')
  PROVE  PreviewHeads'
<1>1. Picture \cap {Do("free preview buffers"), Do("allocate preview buffers"), Do("wait for window"),
                    Must("USE_BUFFERS_PREVIEW"), Do("start callbacks"), Must("START_PREVIEW"),
                    Do("preview is on"), Do("resume display"), Must("QUERY_RESOLUTION_PREVIEW")} = {}
  BY StepsDiffer DEF Picture
<1>2. Picture \subseteq Needs
  BY DEF Needs
<1>3. {Do("free preview buffers"), Do("allocate preview buffers"), Do("wait for window"),
       Must("USE_BUFFERS_PREVIEW"), Do("start callbacks"), Must("START_PREVIEW"), Do("preview is on"),
       Do("resume display"), Must("QUERY_RESOLUTION_PREVIEW"), Do("pause preview")} \subseteq Needs
  BY DEF Needs, Picture
<1> QED
  BY <1>1, <1>2, <1>3 DEF PreviewHeads, On

LEMMA StillSettled ==
  ASSUME Settled, Kept, Steady
  PROVE  Settled' /\ (Done' <=> Done) /\ (Waiting' <=> Waiting) /\ (Seen' <=> Seen) /\
         (InProgress' <=> InProgress)
<1>1. (Done' <=> Done) /\ (Seen' <=> Seen) /\ (InProgress' <=> InProgress) /\ (Loaded' <=> Loaded)
  BY DEF Kept, Watched, Done, Seen, InProgress, Is
<1>2. Waiting' <=> Waiting
  BY <1>1 DEF Waiting, Kept
<1>3. "LOADED_PREVIEW" \in Parked /\ "INITIALIZED" \in Parked /\ (Parked' = Parked)
  BY ParkedStates DEF Parked
<1> QED
  BY <1>1, <1>2, <1>3 DEF Settled, Steady

LEMMA QuietLink == ASSUME NEW n, NEW a, NEW b, Link(n, a, b), a \notin Key PROVE b \notin Needs
<1>1. Before(a, b)
  BY DEF Link
<1> QED
  BY <1>1 DEF Before, Key, Needs, Picture

LEMMA PictureLink ==
  ASSUME NEW n, NEW a, NEW b, Link(n, a, b), a \in Picture
  PROVE  b \notin Needs \/ b \in Picture \ {Do("pause preview")}
<1>1. Before(a, b)
  BY DEF Link
<1>2. a \notin {Do("rollback"), Do("free preview buffers"), Must("QUERY_RESOLUTION_PREVIEW"),
                Do("allocate preview buffers"), Must("USE_BUFFERS_PREVIEW"), Do("initialized"),
                Must("START_PREVIEW")}
  BY StepsDiffer DEF Picture
<1> QED
  BY <1>1, <1>2 DEF Before, Needs

LEMMA LooseIsKey == Loose \subseteq Key /\ Needs \subseteq Key
BY DEF Loose, Key, Needs, Picture

LEMMA QuietSettled ==
  ASSUME Settled, ~Waiting, Done => NoFrees(todo'), Kept, Steady,
         todo' # <<>> => \/ todo'[1] \notin Needs
                         \/ todo'[1] \in Picture \ {Do("pause preview")} /\ (Seen \/ InProgress)
  PROVE  PreviewHeads' /\ PreviewFlags'
<1>1. Settled' /\ (Done' <=> Done) /\ (Waiting' <=> Waiting) /\ (Seen' <=> Seen) /\ (InProgress' <=> InProgress)
  BY StillSettled
<1>2. PreviewFlags'
  BY <1>1, FlagsAtRest
<1> QED
  BY <1>1, <1>2, FreeHead

(* A step of no interest, a return and the steps it is turned into.           *)
LEMMA Quiet ==
  ASSUME PreviewFlags, ~On(Loose), Kept, Steady, NoFrees(todo) => NoFrees(todo'),
         todo' # <<>> => \/ todo'[1] \notin Needs
                         \/ todo'[1] \in Picture \ {Do("pause preview")} /\ (Seen \/ InProgress)
  PROVE  PreviewHeads' /\ PreviewFlags'
<1>1. Settled /\ ~Waiting /\ (Done => NoFrees(todo))
  BY AtRest
<1> QED
  BY <1>1, QuietSettled

LEMMA Numbers ==
  ASSUME HalInv
  PROVE  /\ faults \in Nat /\ shot \in Nat /\ calls \in Nat /\ display.made \in Nat
         /\ Program /\ Counts /\ PictureHeads /\ PicturesHaveBuffers /\ Windowed /\ Preview /\ TypeOK
         /\ todo # <<>> => Head(todo) = todo[1] /\ todo[1] \in Steps(faults)
<1>1. TypeOK /\ Program
  BY DEF HalInv
<1>2. todo # <<>> => Head(todo) = todo[1] /\ todo[1] \in Steps(faults)
  <2>1. todo \in Seq(Steps(faults))
    BY <1>1 DEF Program, Wired
  <2>2. todo # <<>> => 1 \in 1..Len(todo)
    BY <2>1
  <2> QED
    BY <2>1, <2>2
<1>3. faults \in Nat /\ shot \in Nat /\ calls \in Nat
  BY <1>1, CameraHalAssumption DEF TypeOK
<1>4. display.made \in Nat
  BY <1>1, CameraHalAssumption DEF TypeOK
<1> QED
  BY <1>1, <1>2, <1>3, <1>4 DEF HalInv, Pictures

(* The call goes on.                                                          *)
LEMMA Onward ==
  ASSUME HalInv, todo # <<>>, todo' = Rest, todo' # <<>> => call' = call,
         faults' \in Nat, faults' = 0 => faults = 0
  PROVE  /\ Program'
         /\ todo' # <<>> => Len(todo) > 1 /\ todo'[1] = todo[2] /\ Link(faults, todo[1], todo'[1])
         /\ todo' = <<>> => todo[1] = End(call)
         /\ NoFrees(todo) \/ Starts(todo[1]) => NoFrees(todo')
         /\ NoShots(todo) \/ Shoots(todo[1]) => NoShots(todo')
BY Numbers, Advanced

LEMMA OnwardPictures ==
  ASSUME HalInv, todo # <<>>, todo' = Rest, todo' # <<>> => call' = call,
         faults' \in Nat, faults' = 0 => faults = 0,
         todo[1] \notin {Must("QUERY_BUFFER_SIZE_IMAGE_CAPTURE"), Do("allocate image buffers")},
         adapter' = adapter
  PROVE  PictureHeads'
<1>1. PictureHeads
  BY Numbers
<1>2. todo' # <<>> => Link(faults, todo[1], todo'[1])
  BY Onward
<1>3. todo' # <<>> => todo'[1] \notin {Do("allocate image buffers"), Must("USE_BUFFERS_IMAGE_CAPTURE")}
  BY <1>2 DEF Link, Before
<1> QED
  BY <1>1, <1>3 DEF PictureHeads, On

LEMMA OnwardCounts ==
  ASSUME HalInv, todo # <<>>, todo' = Rest, todo' # <<>> => call' = call,
         faults' \in Nat, faults' = 0 => faults = 0,
         shot' = shot, calls' = calls, display'.made = display.made
  PROVE  Counts'
<1>1. NoShots(todo) => NoShots(todo')
  BY Onward
<1> QED
  BY <1>1, Numbers DEF Counts

LEMMA OnwardPreview ==
  ASSUME HalInv, todo # <<>>, todo' = Rest, todo' # <<>> => call' = call,
         faults' \in Nat, faults' = 0 => faults = 0, Kept, Steady, todo[1] \notin Key
  PROVE  Windowed' /\ Preview'
<1>1. Windowed'
  BY Numbers DEF Windowed, Kept, Watched, Is
<1>2. ASSUME faults' = 0 PROVE PreviewHeads' /\ PreviewFlags'
  <2>1. PreviewFlags /\ ~On(Loose)
    BY <1>2, Numbers, LooseIsKey DEF Preview, On
  <2>2. NoFrees(todo) => NoFrees(todo')
    BY Onward
  <2>3. todo' # <<>> => Link(faults, todo[1], todo'[1])
    BY Onward
  <2>4. todo' # <<>> => todo'[1] \notin Needs
    BY <2>3, QuietLink
  <2> QED
    BY <2>1, <2>2, <2>4, Quiet
<1> QED
  BY <1>1, <1>2 DEF Preview

(* The function that is running returns.                                      *)
LEMMA Homeward ==
  ASSUME HalInv, todo # <<>>, todo' = Return, call' = call, faults' \in Nat, faults' = 0 => faults = 0
  PROVE  /\ Program' /\ todo' # <<>> /\ todo'[1] \notin Needs
         /\ NoFrees(todo) => NoFrees(todo')
         /\ NoShots(todo) => NoShots(todo')
<1>1. /\ Program' /\ todo' # <<>> /\ todo'[1][1] = "end"
      /\ NoFrees(todo) => NoFrees(todo')
      /\ NoShots(todo) => NoShots(todo')
  BY Numbers, JustReturned
<1>2. todo'[1] \notin Needs
  BY <1>1, EndsAreFree
<1> QED
  BY <1>1, <1>2

(* A call at a step that needs nothing leaves pictures alone.                 *)
LEMMA HeadPictures ==
  ASSUME HalInv, todo' # <<>> => todo'[1] \notin {Do("allocate image buffers"),
                                                  Must("USE_BUFFERS_IMAGE_CAPTURE")},
         adapter' = adapter
  PROVE  PictureHeads'
BY Numbers DEF PictureHeads, On

LEMMA KeepsPictures ==
  ASSUME HalInv, adapter' = adapter,
         buffers["image"] # Nobody \/ taken => buffers'["image"] # Nobody \/ taken'
  PROVE  PicturesHaveBuffers'
BY Numbers DEF PicturesHaveBuffers

LEMMA HomewardRest ==
  ASSUME HalInv, todo # <<>>, todo' = Return, call' = call, faults' \in Nat, faults' = 0 => faults = 0,
         shot' = shot, calls' = calls, Kept, adapter' = adapter, faults' = 0 => todo[1] \notin Loose
  PROVE  Counts' /\ PictureHeads' /\ Windowed' /\ Preview'
<1>1. Program' /\ todo' # <<>> /\ todo'[1] \notin Needs
      /\ (NoFrees(todo) => NoFrees(todo')) /\ (NoShots(todo) => NoShots(todo'))
  BY Homeward
<1>2. Counts'
  BY <1>1, Numbers DEF Counts, Kept
<1>3. PictureHeads'
  <2>1. todo'[1] \notin {Do("allocate image buffers"), Must("USE_BUFFERS_IMAGE_CAPTURE")}
    BY <1>1 DEF Needs, Picture
  <2> QED
    BY <2>1, HeadPictures
<1>4. Windowed'
  BY Numbers DEF Windowed, Kept, Watched, Is
<1>5. ASSUME faults' = 0 PROVE PreviewHeads' /\ PreviewFlags'
  <2>1. PreviewFlags /\ ~On(Loose)
    BY <1>5, Numbers DEF Preview, On
  <2> QED
    BY <1>1, <2>1, Quiet DEF Steady
<1> QED
  BY <1>2, <1>3, <1>4, <1>5 DEF Preview

LEMMA Nonempty == ASSUME NEW S, NEW s \in Seq(S), s # <<>> PROVE Len(s) \in Nat /\ 1 \in 1..Len(s)
OBVIOUS

(* A step turns into others.                                                  *)
LEMMA Unfolding ==
  ASSUME HalInv, todo # <<>>, todo[1][1] # "end", NEW s, NEW C, Ahead(faults, s, C),
         todo' = s \o Rest, call' = call, faults' = faults, shot' = shot, calls' = calls,
         Kept, adapter' = adapter,
         \A b \in Needs : ~Link(faults, todo[1], b), todo[1] \notin Loose,
         "shoots" \in C => Shoots(todo[1]), "starts" \notin C, "frees" \notin C,
         s # <<>> => \/ s[1] \notin Needs
                     \/ s[1] \in Picture \ {Do("pause preview"), Do("allocate image buffers"),
                                            Must("USE_BUFFERS_IMAGE_CAPTURE")} /\ (Seen \/ InProgress)
                     \/ s[1] = Do("pause preview") /\ (faults = 0 => Seen)
  PROVE  Program' /\ todo' # <<>> /\ Counts' /\ PictureHeads' /\ Windowed' /\ Preview'
<1>1. /\ Program' /\ todo' # <<>>
      /\ IF s = <<>> THEN todo'[1] \notin Needs /\ Link(faults, todo[1], todo'[1]) ELSE todo'[1] = s[1]
      /\ NoFrees(todo) => NoFrees(todo')
      /\ NoShots(todo) \/ Shoots(todo[1]) => NoShots(todo') \/ "shoots" \in C
  BY Numbers, Expanded
<1>2. Counts'
  <2>1. CASE "shoots" \in C
    <3>1. Len(todo) \in Nat /\ 1 \in 1..Len(todo)
      <4>1. todo \in Seq(Steps(faults))
        BY Numbers DEF Program, Wired
      <4> QED
        BY <4>1, Nonempty
    <3>2. ~NoShots(todo)
      BY <2>1, <3>1 DEF NoShots
    <3> QED
      BY <3>2, Numbers DEF Counts, Kept
  <2>2. CASE "shoots" \notin C
    BY <1>1, <2>2, Numbers DEF Counts, Kept
  <2> QED
    BY <2>1, <2>2
<1>3. PictureHeads'
  <2>1. todo'[1] \notin {Do("allocate image buffers"), Must("USE_BUFFERS_IMAGE_CAPTURE")}
    BY <1>1, StepsDiffer DEF Needs, Picture
  <2> QED
    BY <2>1, HeadPictures
<1>4. Windowed'
  BY Numbers DEF Windowed, Kept, Watched, Is
<1>5. ASSUME faults' = 0 PROVE PreviewHeads' /\ PreviewFlags'
  <2>1. PreviewFlags /\ ~On(Loose)
    BY <1>5, Numbers DEF Preview, On
  <2>2. CASE s = <<>> \/ s[1] # Do("pause preview")
    <3>1. \/ todo'[1] \notin Needs
          \/ todo'[1] \in Picture \ {Do("pause preview")} /\ (Seen \/ InProgress)
      BY <1>1, <2>2
    <3> QED
      BY <1>1, <2>1, <3>1, Quiet DEF Steady
  <2>3. CASE s # <<>> /\ s[1] = Do("pause preview")
    <3>1. todo'[1] = Do("pause preview") /\ Seen
      <4>1. s[1] \in Needs
        BY <2>3 DEF Needs, Picture
      <4> QED
        BY <1>1, <1>5, <2>3, <4>1
    <3>2. Settled /\ ~Waiting /\ (Done => NoFrees(todo))
      BY <2>1, AtRest
    <3>3. Settled' /\ (Done' <=> Done) /\ (Waiting' <=> Waiting) /\ (Seen' <=> Seen)
      BY <3>2, StillSettled DEF Steady
    <3>4. PreviewFlags'
      BY <1>1, <3>2, <3>3, FlagsAtRest
    <3>5. PreviewHeads'
      BY <3>1, <3>3, StepsDiffer DEF PreviewHeads, On
    <3> QED
      BY <3>4, <3>5
  <2> QED
    BY <2>2, <2>3
<1> QED
  BY <1>1, <1>2, <1>3, <1>4, <1>5 DEF Preview

-----------------------------------------------------------------------------
(* The steps that leave the preview alone.                                    *)

QuietDoings ==
  {"lock", "unlock", "allocate video buffers", "disable display", "drop display", "stop callbacks",
   "stop recording", "set tap", "drop tap", "start recording", "stop bracketing", "recording is on",
   "enable bracketing", "disable bracketing", "check", "bracket", "end capture", "refuse", "cleaned up",
   "destroy"}

LEMMA QuietHeads ==
  \A x \in QuietDoings :
    /\ Do(x) \notin Key /\ Do(x) \notin Loose /\ Do(x)[1] # "end" /\ (\A c : Do(x) # End(c))
    /\ Do(x) \notin {Must("QUERY_BUFFER_SIZE_IMAGE_CAPTURE"), Do("allocate image buffers")}
    /\ Do(x) \notin {Do("rollback"), Do("free preview buffers"), Do("initialized"), Do("initialization")}
<1> SUFFICES ASSUME NEW x \in QuietDoings
             PROVE  /\ Do(x) \notin Key /\ Do(x) \notin Loose /\ Do(x)[1] # "end"
                    /\ (\A c : Do(x) # End(c))
                    /\ Do(x) \notin {Must("QUERY_BUFFER_SIZE_IMAGE_CAPTURE"), Do("allocate image buffers")}
                    /\ Do(x) \notin {Do("rollback"), Do("free preview buffers"), Do("initialized"),
                                     Do("initialization")}
  OBVIOUS
<1>1. Do(x)[1] # "end"
  BY DEF Do
<1>2. \A y \in {"pause preview", "bracketing is on", "allocate image buffers", "free preview buffers",
                "preview is off", "allocate preview buffers", "wait for window", "start callbacks",
                "preview is on", "resume display", "rollback", "initialization", "initialized"} : Do(x) # Do(y)
  BY StepsDiffer DEF QuietDoings
<1>3. Do(x) \notin Key
  BY <1>2, StepsDiffer DEF Key, Needs, Picture
<1> QED
  BY <1>1, <1>2, <1>3, LooseIsKey, StepsDiffer

LEMMA QuietStep ==
  ASSUME HalInv, todo # <<>>, NEW x \in QuietDoings, Head(todo) = Do(x), todo' = Rest, call' = call,
         faults' \in Nat, faults' = 0 => faults = 0, shot' = shot, calls' = calls,
         Kept, adapter' = adapter,
         buffers["image"] # Nobody \/ taken => buffers'["image"] # Nobody \/ taken'
  PROVE  Program' /\ todo' # <<>> /\ Counts' /\ Pictures' /\ Windowed' /\ Preview'
<1>1. todo[1] = Do(x)
  BY Numbers
<1>2. /\ todo[1] \notin Key /\ (\A c : todo[1] # End(c))
      /\ todo[1] \notin {Must("QUERY_BUFFER_SIZE_IMAGE_CAPTURE"), Do("allocate image buffers")}
  BY <1>1, QuietHeads
<1>3. Program' /\ todo' # <<>>
  BY <1>2, Onward
<1>4. Counts'
  BY OnwardCounts DEF Kept
<1>5. PictureHeads'
  BY <1>2, OnwardPictures
<1>6. PicturesHaveBuffers'
  BY KeepsPictures
<1>7. Windowed' /\ Preview'
  BY <1>2, OnwardPreview DEF Steady
<1> QED
  BY <1>3, <1>4, <1>5, <1>6, <1>7 DEF Pictures

LEMMA QuietReturn ==
  ASSUME HalInv, todo # <<>>, NEW x \in QuietDoings, Head(todo) = Do(x), todo' = Return, call' = call,
         faults' \in Nat, faults' = 0 => faults = 0, shot' = shot, calls' = calls,
         Kept, adapter' = adapter, buffers' = buffers, taken' = taken
  PROVE  Program' /\ todo' # <<>> /\ Counts' /\ Pictures' /\ Windowed' /\ Preview'
<1>1. todo[1] \notin Loose
  BY Numbers, QuietHeads
<1>2. Program' /\ todo' # <<>>
  BY Homeward
<1>3. Counts' /\ PictureHeads' /\ Windowed' /\ Preview'
  BY <1>1, HomewardRest
<1>4. PicturesHaveBuffers'
  BY KeepsPictures
<1> QED
  BY <1>2, <1>3, <1>4 DEF Pictures

LEMMA Ongoing ==
  ASSUME HalInv, todo # <<>>
  PROVE  call # "none" /\ call \in Services \cup {"none"}
BY Numbers DEF TypeOK

LEMMA KeepsLock == ASSUME HalInv, Lock PROVE HalInv'
<1>1. /\ todo # <<>> /\ Head(todo) = Do("lock") /\ todo' = Rest /\ call' = call /\ calls' = calls
      /\ faults' = faults /\ shot' = shot /\ adapter' = adapter
  BY DEF Lock, Goes, At, Set, app, pics
<1>2. Kept /\ (buffers["image"] # Nobody \/ taken => buffers'["image"] # Nobody \/ taken')
  BY DEF Lock, Set, Goes, At, Kept, Watched, Loaded, hal, app, pics, taps
<1>3. "lock" \in QuietDoings
  BY DEF QuietDoings
<1>4. Program' /\ todo' # <<>> /\ Counts' /\ Pictures' /\ Windowed' /\ Preview'
  BY <1>1, <1>2, <1>3, Numbers, QuietStep
<1>5. TypeOK'
  BY <1>1, <1>4, Numbers, Ongoing DEF TypeOK, Lock, Set, Goes, At, hal, app, pics, taps
<1> QED
  BY <1>4, <1>5 DEF HalInv

LEMMA KeepsUnlock == ASSUME HalInv, Unlock PROVE HalInv'
<1>1. /\ todo # <<>> /\ Head(todo) = Do("unlock") /\ todo' = Rest /\ call' = call /\ calls' = calls
      /\ faults' = faults /\ shot' = shot /\ adapter' = adapter
  BY DEF Unlock, Goes, At, Set, app, pics
<1>2. Kept /\ (buffers["image"] # Nobody \/ taken => buffers'["image"] # Nobody \/ taken')
  BY DEF Unlock, Set, Goes, At, Kept, Watched, Loaded, hal, app, pics, taps
<1>3. "unlock" \in QuietDoings
  BY DEF QuietDoings
<1>4. Program' /\ todo' # <<>> /\ Counts' /\ Pictures' /\ Windowed' /\ Preview'
  BY <1>1, <1>2, <1>3, Numbers, QuietStep
<1>5. TypeOK'
  BY <1>1, <1>4, Numbers, Ongoing DEF TypeOK, Unlock, Set, Goes, At, hal, app, pics, taps
<1> QED
  BY <1>4, <1>5 DEF HalInv

LEMMA KeepsStopCallbacks == ASSUME HalInv, StopCallbacks PROVE HalInv'
<1>1. /\ todo # <<>> /\ Head(todo) = Do("stop callbacks") /\ todo' = Rest /\ call' = call /\ calls' = calls
      /\ faults' = faults /\ shot' = shot /\ adapter' = adapter
  BY DEF StopCallbacks, Goes, At, Set, app, pics
<1>2. Kept /\ (buffers["image"] # Nobody \/ taken => buffers'["image"] # Nobody \/ taken')
  BY DEF StopCallbacks, Set, Goes, At, Kept, Watched, Loaded, hal, app, pics, taps
<1>3. "stop callbacks" \in QuietDoings
  BY DEF QuietDoings
<1>4. Program' /\ todo' # <<>> /\ Counts' /\ Pictures' /\ Windowed' /\ Preview'
  BY <1>1, <1>2, <1>3, Numbers, QuietStep
<1>5. TypeOK'
  BY <1>1, <1>4, Numbers, Ongoing DEF TypeOK, StopCallbacks, Set, Goes, At, hal, app, pics, taps
<1> QED
  BY <1>4, <1>5 DEF HalInv

LEMMA KeepsStopNotifierRecording == ASSUME HalInv, StopNotifierRecording PROVE HalInv'
<1>1. /\ todo # <<>> /\ Head(todo) = Do("stop recording") /\ todo' = Rest /\ call' = call /\ calls' = calls
      /\ faults' = faults /\ shot' = shot /\ adapter' = adapter
  BY DEF StopNotifierRecording, Goes, At, Set, app, pics
<1>2. Kept /\ (buffers["image"] # Nobody \/ taken => buffers'["image"] # Nobody \/ taken')
  BY Numbers DEF StopNotifierRecording, Set, Goes, At, Kept, Watched, Loaded, hal, app, pics, taps, TypeOK,
                 Kinds
<1>3. "stop recording" \in QuietDoings
  BY DEF QuietDoings
<1>4. Program' /\ todo' # <<>> /\ Counts' /\ Pictures' /\ Windowed' /\ Preview'
  BY <1>1, <1>2, <1>3, Numbers, QuietStep
<1>5. TypeOK'
  BY <1>1, <1>4, Numbers, Ongoing DEF TypeOK, StopNotifierRecording, Set, Goes, At, hal, app, pics, taps,
                                      Flags, Kinds, Nobody, MemoryMgr, Gralloc, Tap, Is
<1> QED
  BY <1>4, <1>5 DEF HalInv

LEMMA ReturnIsSequence == ASSUME HalInv, todo # <<>> PROVE <<>> \o Return = Return
<1>1. PICK e \in 1..Len(todo) : Return = SubSeq(todo, e, Len(todo))
  BY Numbers, Returns
<1>2. todo \in Seq(Steps(faults))
  BY Numbers DEF Program, Wired
<1>3. Return \in Seq(Steps(faults))
  BY <1>1, <1>2
<1> DEFINE r == Return
<1> HIDE DEF r
<1>4. r \in Seq(Steps(faults)) => <<>> \o r = r
  OBVIOUS
<1> QED
  BY <1>3, <1>4 DEF r

LEMMA RestIsSequence == ASSUME HalInv, todo # <<>> PROVE <<>> \o Rest = Rest
<1>1. todo \in Seq(Steps(faults))
  BY Numbers DEF Program, Wired
<1>2. Rest \in Seq(Steps(faults))
  BY <1>1 DEF Rest
<1> DEFINE r == Rest
<1> HIDE DEF r
<1>3. r \in Seq(Steps(faults)) => <<>> \o r = r
  OBVIOUS
<1> QED
  BY <1>2, <1>3 DEF r

LEMMA KeepsDisableDisplay == ASSUME HalInv, DisableDisplay PROVE HalInv'
<1>1. PICK x \in {"disable display", "drop display"} : Head(todo) = Do(x)
  BY DEF DisableDisplay, Goes, At, Set
<1>2. /\ todo # <<>> /\ todo' = Rest /\ call' = call /\ calls' = calls
      /\ faults' = faults /\ shot' = shot /\ adapter' = adapter
  BY DEF DisableDisplay, Goes, At, Set, app, pics
<1>3. Kept /\ (buffers["image"] # Nobody \/ taken => buffers'["image"] # Nobody \/ taken')
  <2>1. \A f \in Watched : f \in flags' <=> f \in flags
    BY DEF DisableDisplay, Set, Watched
  <2>2. /\ buffers'["preview"] = buffers["preview"]
        /\ buffers["image"] # Nobody \/ taken => buffers'["image"] # Nobody \/ taken'
    BY Numbers DEF DisableDisplay, TypeOK, Kinds, taps
  <2>3. display'.alive = display.alive /\ display'.made = display.made
    BY Numbers DEF DisableDisplay, TypeOK
  <2> QED
    BY <2>1, <2>2, <2>3 DEF Kept, Loaded
<1>4. x \in QuietDoings
  BY DEF QuietDoings
<1>5. Program' /\ todo' # <<>> /\ Counts' /\ Pictures' /\ Windowed' /\ Preview'
  BY <1>1, <1>2, <1>3, <1>4, Numbers, QuietStep
<1>6. TypeOK'
  BY <1>2, <1>5, Numbers, Ongoing DEF TypeOK, DisableDisplay, Set, Goes, At, hal, app, pics, taps
<1> QED
  BY <1>5, <1>6 DEF HalInv

LEMMA BuffersAre ==
  ASSUME HalInv
  PROVE  /\ buffers \in [Kinds -> {Nobody, MemoryMgr, Gralloc, Tap} \cup (1..MaxCalls)]
         /\ "image" \in Kinds /\ "preview" \in Kinds /\ "video" \in Kinds
BY Numbers DEF TypeOK, Kinds

LEMMA ImageBuffersFreed ==
  ASSUME HalInv, FreeImageBufs
  PROVE  buffers'["preview"] = buffers["preview"] /\ buffers'["image"] = Nobody
         /\ buffers' \in [Kinds -> {Nobody, MemoryMgr, Gralloc, Tap} \cup (1..MaxCalls)]
BY BuffersAre DEF FreeImageBufs

LEMMA KeepsSetTap == ASSUME HalInv, SetTap PROVE HalInv'
<1>1. PICK x \in {"set tap", "drop tap"} : Head(todo) = Do(x)
  BY DEF SetTap, Goes, At
<1>2. /\ todo # <<>> /\ todo' = Rest /\ call' = call /\ calls' = calls
      /\ faults' = faults /\ shot' = shot /\ adapter' = adapter
  BY DEF SetTap, Goes, At, app, pics
<1>3. buffers'["preview"] = buffers["preview"] /\
      (buffers["image"] # Nobody \/ taken => buffers'["image"] # Nobody \/ taken')
      /\ buffers' \in [Kinds -> {Nobody, MemoryMgr, Gralloc, Tap} \cup (1..MaxCalls)]
  <2>1. CASE FreeImageBufs /\ taken' = TRUE
    BY <2>1, ImageBuffersFreed
  <2>2. CASE UNCHANGED <<buffers, taken>>
    BY <2>2, BuffersAre
  <2> QED
    BY <2>1, <2>2 DEF SetTap
<1>4. Kept
  BY <1>3 DEF Kept, SetTap, Loaded
<1>5. x \in QuietDoings
  BY DEF QuietDoings
<1>6. Program' /\ todo' # <<>> /\ Counts' /\ Pictures' /\ Windowed' /\ Preview'
  BY <1>1, <1>2, <1>3, <1>4, <1>5, Numbers, QuietStep
<1>7. tapout' \in BOOLEAN /\ taken' \in BOOLEAN /\ misfreed' \in BOOLEAN
  BY Numbers DEF SetTap, TypeOK, FreeImageBufs
<1>8. TypeOK'
  BY <1>2, <1>3, <1>6, <1>7, Numbers, Ongoing DEF TypeOK, SetTap, app, pics
<1> QED
  BY <1>6, <1>8 DEF HalInv

QuietFlags ==
  /\ \/ Set("recording is on", {"mRecordingEnabled"}, {})
     \/ Set("enable bracketing", {"mBracketingEnabled"}, {})
     \/ Set("disable bracketing", {}, {"mBracketingEnabled"})
  /\ UNCHANGED <<adapter, buffers, display, taps, notifier, mLock, ret, app, faults, pics, misfreed>>

LEMMA KeepsQuietFlags == ASSUME HalInv, QuietFlags PROVE HalInv'
<1>1. PICK x \in {"recording is on", "enable bracketing", "disable bracketing"} : Head(todo) = Do(x)
  BY DEF QuietFlags, Goes, At, Set
<1>2. /\ todo # <<>> /\ todo' = Rest /\ call' = call /\ calls' = calls
      /\ faults' = faults /\ shot' = shot /\ adapter' = adapter
  BY DEF QuietFlags, Goes, At, Set, app, pics
<1>3. Kept /\ (buffers["image"] # Nobody \/ taken => buffers'["image"] # Nobody \/ taken')
  <2>1. \A f \in Watched : f \in flags' <=> f \in flags
    BY DEF QuietFlags, Set, Watched
  <2>2. /\ buffers'["preview"] = buffers["preview"]
        /\ buffers["image"] # Nobody \/ taken => buffers'["image"] # Nobody \/ taken'
    BY Numbers DEF QuietFlags, TypeOK, Kinds, taps
  <2>3. display'.alive = display.alive /\ display'.made = display.made
    BY Numbers DEF QuietFlags, TypeOK
  <2> QED
    BY <2>1, <2>2, <2>3 DEF Kept, Loaded
<1>4. x \in QuietDoings
  BY DEF QuietDoings
<1>5. Program' /\ todo' # <<>> /\ Counts' /\ Pictures' /\ Windowed' /\ Preview'
  BY <1>1, <1>2, <1>3, <1>4, Numbers, QuietStep
<1>6. TypeOK'
  BY <1>2, <1>5, Numbers, Ongoing DEF TypeOK, QuietFlags, Set, Goes, At, hal, app, pics, taps, Flags
<1> QED
  BY <1>5, <1>6 DEF HalInv

LEMMA KeepsCleanedUp == ASSUME HalInv, CleanedUp PROVE HalInv'
<1>1. /\ todo # <<>> /\ todo[1] = Do("cleaned up") /\ todo' = Rest /\ call' = call /\ calls' = calls
      /\ faults' = faults /\ shot' = shot /\ adapter' = adapter /\ display' = display /\
         buffers' = buffers /\ taken' = taken
  BY Numbers DEF CleanedUp, Goes, At, Set, app, pics, taps
<1>2. /\ todo[1] \notin Key /\ (\A c : todo[1] # End(c))
      /\ todo[1] \notin {Must("QUERY_BUFFER_SIZE_IMAGE_CAPTURE"), Do("allocate image buffers")}
  BY <1>1, QuietHeads DEF QuietDoings
<1>3. Program' /\ todo' # <<>>
  BY <1>1, <1>2, Onward, Numbers
<1>4. Counts'
  BY <1>1, OnwardCounts, Numbers
<1>5. Pictures'
  BY <1>1, <1>2, OnwardPictures, KeepsPictures, Numbers DEF Pictures
<1>6. Windowed'
  BY <1>1, Numbers DEF CleanedUp, Set, Windowed, Is
<1>7. faults # 0
  BY <1>1, Numbers DEF Steps, Plain
<1>8. TypeOK'
  BY <1>1, <1>3, Numbers, Ongoing DEF TypeOK, CleanedUp, Set, Goes, At, app, pics, taps, Flags
<1> QED
  BY <1>1, <1>3, <1>4, <1>5, <1>6, <1>7, <1>8 DEF HalInv, Preview

LEMMA KeepsStartNotifierRecording == ASSUME HalInv, StartNotifierRecording PROVE HalInv'
<1>1. /\ todo # <<>> /\ Head(todo) = Do("start recording") /\ call' = call /\ calls' = calls
      /\ faults' = faults /\ shot' = shot /\ adapter' = adapter /\ buffers' = buffers /\ taken' = taken
      /\ todo' = Return \/ todo' = Rest
  BY DEF StartNotifierRecording, At, app, pics, taps
<1>2. Kept
  BY DEF StartNotifierRecording, Kept, Watched, Loaded
<1>3. "start recording" \in QuietDoings
  BY DEF QuietDoings
<1>4. Program' /\ todo' # <<>> /\ Counts' /\ Pictures' /\ Windowed' /\ Preview'
  BY <1>1, <1>2, <1>3, Numbers, QuietStep, QuietReturn
<1>5. TypeOK'
  BY <1>1, <1>4, Numbers, Ongoing DEF TypeOK, StartNotifierRecording, At, app, pics, taps
<1> QED
  BY <1>4, <1>5 DEF HalInv

LEMMA KeepsRefuseStep == ASSUME HalInv, RefuseStep PROVE HalInv'
<1>1. /\ todo # <<>> /\ Head(todo) = Do("refuse") /\ call' = call /\ calls' = calls
      /\ faults' = faults /\ shot' = shot /\ adapter' = adapter /\ buffers' = buffers /\ taken' = taken
      /\ todo' = Return
  BY DEF RefuseStep, At, app, pics, taps, hal
<1>2. Kept
  BY DEF RefuseStep, Kept, Watched, Loaded, hal
<1>3. "refuse" \in QuietDoings
  BY DEF QuietDoings
<1>4. Program' /\ todo' # <<>> /\ Counts' /\ Pictures' /\ Windowed' /\ Preview'
  BY <1>1, <1>2, <1>3, Numbers, QuietReturn
<1>5. TypeOK'
  BY <1>1, <1>4, Numbers, Ongoing DEF TypeOK, RefuseStep, At, app, pics, taps, hal
<1> QED
  BY <1>4, <1>5 DEF HalInv

LEMMA KeepsAllocVideoBufs == ASSUME HalInv, AllocVideoBufs PROVE HalInv'
<1>1. /\ todo # <<>> /\ Head(todo) = Do("allocate video buffers") /\ call' = call /\ calls' = calls
      /\ shot' = shot /\ adapter' = adapter /\ taken' = taken
  BY DEF AllocVideoBufs, Allocate, At, app, pics, taps
<1>7. faults' \in 0..MaxFaults /\ faults' \in Nat /\ (faults' = 0 => faults = 0)
  <2>1. faults \in Nat /\ MaxFaults \in Nat /\ faults \in 0..MaxFaults
    BY Numbers, CameraHalAssumption DEF TypeOK
  <2>2. faults' = faults \/ (faults < MaxFaults /\ faults' = faults + 1)
    BY DEF AllocVideoBufs, Allocate
  <2> QED
    BY <2>1, <2>2
<1>8. buffers'["image"] = buffers["image"] /\ buffers'["preview"] = buffers["preview"]
  BY Numbers DEF AllocVideoBufs, Allocate, TypeOK, Kinds
<1>9. Kept
  BY <1>8 DEF AllocVideoBufs, Allocate, Kept, Watched, Loaded
<1>2. todo' = Rest \/ (todo' = Return /\ buffers' = buffers)
  <2>1. OnError("allocate video buffers") = <<>>
    BY DEF OnError
  <2>2. todo' = Rest \/ (todo' = <<>> \o Return /\ buffers' = buffers)
    BY <2>1 DEF AllocVideoBufs, Allocate
  <2>3. <<>> \o Return = Return
    BY <1>1, ReturnIsSequence
  <2> QED
    BY <2>2, <2>3
<1>3. "allocate video buffers" \in QuietDoings
  BY DEF QuietDoings
<1>4. Program' /\ todo' # <<>> /\ Counts' /\ Pictures' /\ Windowed' /\ Preview'
  BY <1>1, <1>2, <1>3, <1>7, <1>8, <1>9, Numbers, QuietStep, QuietReturn
<1>5. buffers' \in [Kinds -> {Nobody, MemoryMgr, Gralloc, Tap} \cup (1..MaxCalls)]
  BY Numbers DEF AllocVideoBufs, Allocate, TypeOK, Kinds
<1>6. TypeOK'
  BY <1>1, <1>4, <1>5, <1>7, Numbers, Ongoing DEF TypeOK, AllocVideoBufs, Allocate, At, app, pics, taps
<1> QED
  BY <1>4, <1>6 DEF HalInv

-----------------------------------------------------------------------------
(* What the commands do to the adapter.                                       *)

QuietCommands == (TryCommands \ {"STOP_PREVIEW"}) \cup {"USE_BUFFERS_REPROCESS", "START_VIDEO"}
CaptureStates ==
  {"LOADED_CAPTURE", "CAPTURE", "BRACKETING", "VIDEO_LOADED_CAPTURE", "VIDEO_CAPTURE"}

LEMMA PreviewEdgesOnly ==
  ASSUME NEW s, NEW d
  PROVE  /\ <<s, "QUERY_RESOLUTION_PREVIEW", d>> \in Edges => s = "INITIALIZED" /\ d = s
         /\ <<s, "USE_BUFFERS_PREVIEW", d>> \in Edges => s = "INITIALIZED" /\ d = "LOADED_PREVIEW"
         /\ <<s, "START_PREVIEW", d>> \in Edges => s = "LOADED_PREVIEW" /\ d = "PREVIEW"
         /\ <<s, "STOP_PREVIEW", d>> \in Edges => d = "INITIALIZED"
BY DEF Edges, InitializedEdges, LoadedPreviewEdges, PreviewEdges, CaptureEdges, BracketingEdges,
       FocusZoomEdges, VideoEdges, LoadedReprocessEdges, ReprocessEdges

LEMMA PictureEdgesOnly ==
  ASSUME NEW s, NEW d
  PROVE  /\ <<s, "QUERY_BUFFER_SIZE_IMAGE_CAPTURE", d>> \in Edges => d = s
         /\ <<s, "USE_BUFFERS_IMAGE_CAPTURE", d>> \in Edges
              => <<s, d>> \in {<<"PREVIEW", "LOADED_CAPTURE">>, <<"VIDEO", "VIDEO_LOADED_CAPTURE">>,
                               <<"LOADED_REPROCESS", "LOADED_REPROCESS_CAPTURE">>}
         /\ <<s, "START_IMAGE_CAPTURE", d>> \in Edges
              => <<s, d>> \in {<<"LOADED_CAPTURE", "CAPTURE">>, <<"CAPTURE", "CAPTURE">>,
                               <<"BRACKETING", "CAPTURE">>, <<"VIDEO_LOADED_CAPTURE", "VIDEO_CAPTURE">>,
                               <<"LOADED_REPROCESS_CAPTURE", "REPROCESS">>, <<"REPROCESS", "REPROCESS">>}
         /\ <<s, "START_BRACKET_CAPTURE", d>> \in Edges => s = "LOADED_CAPTURE" /\ d = "BRACKETING"
BY DEF Edges, InitializedEdges, LoadedPreviewEdges, PreviewEdges, CaptureEdges, BracketingEdges,
       FocusZoomEdges, VideoEdges, LoadedReprocessEdges, ReprocessEdges

LEMMA QuietEdges ==
  ASSUME NEW s, NEW d, NEW c \in QuietCommands, <<s, c, d>> \in Edges
  PROVE  /\ s \notin {"INITIALIZED", "LOADED_PREVIEW", "LOADED_CAPTURE", "LOADED_REPROCESS",
                      "LOADED_REPROCESS_CAPTURE", "VIDEO_LOADED_CAPTURE"}
         /\ s = "REPROCESS" => CpCam
         /\ d \notin {"INITIALIZED", "LOADED_PREVIEW"}
         /\ d \in CaptureStates => s = "BRACKETING_ZOOM" /\ d = "BRACKETING"
<1>1. c \in {"STOP_IMAGE_CAPTURE", "STOP_BRACKET_CAPTURE", "PERFORM_AUTOFOCUS", "CANCEL_AUTOFOCUS",
             "STOP_VIDEO", "START_SMOOTH_ZOOM", "STOP_SMOOTH_ZOOM", "USE_BUFFERS_REPROCESS", "START_VIDEO"}
  BY DEF QuietCommands, TryCommands
<1>2. CpCam \in BOOLEAN
  BY CpCamIsBoolean
<1> QED
  BY <1>1, <1>2 DEF CaptureStates, Edges, InitializedEdges, LoadedPreviewEdges, PreviewEdges, CaptureEdges,
                    BracketingEdges,
       FocusZoomEdges, VideoEdges, LoadedReprocessEdges, ReprocessEdges

LEMMA NoBracketingZoom == ASSUME NEW s, NEW c, NEW d, <<s, c, d>> \in Edges PROVE d # "BRACKETING_ZOOM"
BY DEF Edges, InitializedEdges, LoadedPreviewEdges, PreviewEdges, CaptureEdges, BracketingEdges,
       FocusZoomEdges, VideoEdges, LoadedReprocessEdges, ReprocessEdges

LEMMA PreviewAccepts ==
  /\ Accepts("INITIALIZED", "USE_BUFFERS_PREVIEW")
  /\ Accepts("LOADED_PREVIEW", "START_PREVIEW")
  /\ Accepts("LOADED_CAPTURE", "START_IMAGE_CAPTURE")
  /\ Accepts("LOADED_CAPTURE", "START_BRACKET_CAPTURE")
<1>1. {"LOADED_PREVIEW", "PREVIEW", "CAPTURE", "BRACKETING"} \subseteq States
  BY DEF States, StillStates
<1>2. <<"INITIALIZED", "USE_BUFFERS_PREVIEW", "LOADED_PREVIEW">> \in Edges
  BY DEF Edges, InitializedEdges
<1>3. <<"LOADED_PREVIEW", "START_PREVIEW", "PREVIEW">> \in Edges
  BY DEF Edges, LoadedPreviewEdges
<1>4. <<"LOADED_CAPTURE", "START_IMAGE_CAPTURE", "CAPTURE">> \in Edges
      /\ <<"LOADED_CAPTURE", "START_BRACKET_CAPTURE", "BRACKETING">> \in Edges
  BY DEF Edges, CaptureEdges
<1> QED
  BY <1>1, <1>2, <1>3, <1>4 DEF Accepts

LEMMA EndsAreQuiet ==
  ASSUME NEW x, x[1] = "end"
  PROVE  x \notin Key /\ x \notin {Must("QUERY_BUFFER_SIZE_IMAGE_CAPTURE"), Do("allocate image buffers")}
<1>1. \A z : Do(z)[1] = "do" /\ Must(z)[1] = "must"
  BY DEF Do, Must
<1> QED
  BY <1>1, EndsAreFree DEF Key

LEMMA KeepsEndFunction == ASSUME HalInv, EndFunction PROVE HalInv'
<1>1. /\ todo # <<>> /\ todo[1][1] = "end" /\ todo' = Rest /\ calls' = calls
      /\ faults' = faults /\ shot' = shot /\ adapter' = adapter /\ buffers' = buffers /\ taken' = taken
      /\ call' = IF Rest = <<>> THEN "none" ELSE call
  BY Numbers DEF EndFunction, pics, hal, taps
<1>2. todo' # <<>> => call' = call
  BY <1>1
<1>3. Kept
  BY DEF EndFunction, hal, Kept, Watched, Loaded
<1>4. todo[1] \notin Key /\ todo[1] \notin {Must("QUERY_BUFFER_SIZE_IMAGE_CAPTURE"),
                                            Do("allocate image buffers")}
  BY <1>1, EndsAreQuiet
<1>5. Program'
  BY <1>1, <1>2, Onward, Numbers
<1>6. Counts'
  BY <1>1, <1>2, <1>3, OnwardCounts, Numbers DEF Kept
<1>7. Pictures'
  BY <1>1, <1>2, <1>4, OnwardPictures, KeepsPictures, Numbers DEF Pictures
<1>8. Windowed' /\ Preview'
  BY <1>1, <1>2, <1>3, <1>4, OnwardPreview, Numbers DEF Steady
<1>9. TypeOK'
  BY <1>1, Numbers, Ongoing DEF TypeOK, EndFunction, hal, pics, taps
<1> QED
  BY <1>5, <1>6, <1>7, <1>8, <1>9 DEF HalInv

(* The commands that are sent.                                                *)
LEMMA Sent ==
  ASSUME HalInv, todo # <<>>, Head(todo)[1] \in {"must", "try"}
  PROVE  LET c == Head(todo)[2]
         IN \/ todo[1] = Must(c) /\ Head(todo)[1] = "must" /\ c \in MustCommands
            \/ /\ todo[1] = Try(c) /\ Head(todo)[1] = "try" /\ c \in TryCommands
               /\ faults = 0 => c # "STOP_PREVIEW"
<1>1. todo[1] \in StepSet /\ Head(todo) = todo[1] /\ Plain(faults, todo[1])
  BY Numbers DEF Steps
<1>2. CASE todo[1] \in {"must"} \X MustCommands
  <2>1. Head(todo) = Must(Head(todo)[2]) /\ Head(todo)[1] = "must" /\ Head(todo)[2] \in MustCommands
    BY <1>1, <1>2 DEF Must
  <2> QED
    BY <1>1, <2>1
<1>3. CASE todo[1] \in {"try"} \X TryCommands
  <2>1. Head(todo) = Try(Head(todo)[2]) /\ Head(todo)[1] = "try" /\ Head(todo)[2] \in TryCommands
    BY <1>1, <1>3 DEF Try
  <2>2. faults = 0 => todo[1] # Try("STOP_PREVIEW")
    BY <1>1 DEF Plain
  <2> QED
    BY <1>1, <2>1, <2>2
<1>4. todo[1] \in ({"must"} \X MustCommands) \cup ({"try"} \X TryCommands)
  BY <1>1 DEF StepSet
<1> QED
  BY <1>2, <1>3, <1>4

LEMMA QuietSends ==
  /\ \A c : Try(c) \notin Key /\ Try(c) \notin Loose /\ (\A f : Try(c) # End(f))
            /\ Try(c) \notin {Must("QUERY_BUFFER_SIZE_IMAGE_CAPTURE"), Do("allocate image buffers")}
  /\ \A c \in {"USE_BUFFERS_REPROCESS", "START_VIDEO"} :
       Must(c) \notin Key /\ Must(c) \notin Loose /\ (\A f : Must(c) # End(f))
       /\ Must(c) \notin {Must("QUERY_BUFFER_SIZE_IMAGE_CAPTURE"), Do("allocate image buffers")}
<1>1. \A c : Try(c) \notin Key /\ (\A f : Try(c) # End(f))
         /\ Try(c) \notin {Must("QUERY_BUFFER_SIZE_IMAGE_CAPTURE"), Do("allocate image buffers")}
  BY StepsDiffer DEF Key, Needs, Picture
<1>2. ASSUME NEW c \in {"USE_BUFFERS_REPROCESS", "START_VIDEO"}
      PROVE  Must(c) \notin Key /\ (\A f : Must(c) # End(f))
         /\ Must(c) \notin {Must("QUERY_BUFFER_SIZE_IMAGE_CAPTURE"), Do("allocate image buffers")}
  <2>1. \A z \in {"QUERY_BUFFER_SIZE_IMAGE_CAPTURE", "USE_BUFFERS_IMAGE_CAPTURE", "START_IMAGE_CAPTURE",
                  "START_BRACKET_CAPTURE", "USE_BUFFERS_PREVIEW", "START_PREVIEW",
                  "QUERY_RESOLUTION_PREVIEW"} : Must(c) # Must(z)
    BY StepsDiffer
  <2> QED
    BY <2>1, StepsDiffer DEF Key, Needs, Picture
<1> QED
  BY <1>1, <1>2, LooseIsKey

LEMMA SentOk ==
  ASSUME HalInv, SendOk, NEW c, c = Head(todo)[2]
  PROVE  /\ todo # <<>> /\ Head(todo)[1] \in {"must", "try"} /\ todo' = Rest /\ call' = call /\ calls' = calls
         /\ faults' = faults /\ Accepted(c) /\ <<adapter, c, adapter'>> \in Edges /\ adapter' \in States
         /\ flags' = flags /\ display' = display /\ taken' = taken
         /\ buffers'["preview"] = buffers["preview"] /\ Kept
         /\ c \notin {"STOP_IMAGE_CAPTURE", "STOP_BRACKET_CAPTURE"} => buffers' = buffers
         /\ shot' = shot \/ (shot' = shot + 1 /\ c \in {"START_BRACKET_CAPTURE", "START_IMAGE_CAPTURE"})
         /\ buffers' \in [Kinds -> {Nobody, MemoryMgr, Gralloc, Tap} \cup (1..MaxCalls)]
         /\ misfreed' \in BOOLEAN
<1>1. /\ todo # <<>> /\ Head(todo)[1] \in {"must", "try"} /\ todo' = Rest /\ call' = call /\ calls' = calls
      /\ Accepted(c) /\ flags' = flags /\ display' = display /\ taken' = taken
  BY DEF SendOk, taps, app
<1>2. /\ faults' = faults /\ <<adapter, c, adapter'>> \in Edges /\ adapter' \in States
      /\ shot' = shot \/ (shot' = shot + 1 /\ c \in {"START_BRACKET_CAPTURE", "START_IMAGE_CAPTURE"})
  BY <1>1 DEF Accepted
<1>3. /\ FreeImageBufs \/ UNCHANGED <<buffers, misfreed>>
      /\ c \notin {"STOP_IMAGE_CAPTURE", "STOP_BRACKET_CAPTURE"} => buffers' = buffers
  BY <1>1 DEF Accepted
<1>4. /\ buffers'["preview"] = buffers["preview"]
      /\ buffers' \in [Kinds -> {Nobody, MemoryMgr, Gralloc, Tap} \cup (1..MaxCalls)]
  BY <1>3, BuffersAre, ImageBuffersFreed
<1>5. misfreed' \in BOOLEAN
  BY <1>3, Numbers DEF FreeImageBufs, TypeOK
<1>6. Kept
  BY <1>1, <1>4 DEF Kept, Loaded
<1> QED
  BY <1>1, <1>2, <1>3, <1>4, <1>5, <1>6

LEMMA SendQuiet ==
  ASSUME HalInv, SendOk, NEW c, c = Head(todo)[2], c \in QuietCommands \cup {"STOP_PREVIEW"},
         c = "STOP_PREVIEW" => faults # 0,
         todo[1] = Try(c) \/ (c \in {"USE_BUFFERS_REPROCESS", "START_VIDEO"} /\ todo[1] = Must(c))
  PROVE  Program' /\ todo' # <<>> /\ Counts' /\ Pictures' /\ Windowed' /\ Preview'
<1>1. /\ todo[1] \notin Key /\ (\A f : todo[1] # End(f))
      /\ todo[1] \notin {Must("QUERY_BUFFER_SIZE_IMAGE_CAPTURE"), Do("allocate image buffers")}
  BY QuietSends
<1>2. Program' /\ todo' # <<>> /\ (todo' # <<>> => Link(faults, todo[1],
                                                        todo'[1])) /\ (NoShots(todo) => NoShots(todo'))
  BY <1>1, Onward, SentOk, Numbers
<1>3. shot' = shot
  BY SentOk DEF QuietCommands, TryCommands
<1>4. Counts'
  BY <1>3, OnwardCounts, SentOk, Numbers
<1>5. adapter # "BRACKETING_ZOOM" /\ <<adapter, c, adapter'>> \in Edges
  BY SentOk, Numbers DEF PictureHeads
<1>6. adapter' \notin CaptureStates \cup {"BRACKETING_ZOOM"}
  <2>1. CASE c = "STOP_PREVIEW"
    BY <1>5, <2>1, PreviewEdgesOnly DEF CaptureStates
  <2>2. CASE c \in QuietCommands
    BY <1>5, <2>2, QuietEdges, NoBracketingZoom
  <2> QED
    BY <2>1, <2>2
<1>7. Pictures'
  <2>1. todo'[1] \notin {Do("allocate image buffers"), Must("USE_BUFFERS_IMAGE_CAPTURE")}
    BY <1>1, <1>2, QuietLink DEF Needs, Picture
  <2> QED
    BY <1>6, <2>1 DEF Pictures, PictureHeads, PicturesHaveBuffers, On, CaptureStates
<1>8. CASE c = "STOP_PREVIEW"
  <2>1. Windowed' /\ faults' # 0
    BY <1>8, SentOk, Numbers DEF Windowed, Is
  <2> QED
    BY <1>2, <1>4, <1>7, <2>1 DEF Preview
<1>9. CASE c \in QuietCommands
  <2>1. adapter \notin Parked /\ adapter' \notin {"INITIALIZED", "LOADED_PREVIEW", "LOADED_CAPTURE"}
    <3>1. /\ adapter \notin {"INITIALIZED", "LOADED_PREVIEW", "LOADED_CAPTURE", "LOADED_REPROCESS",
                           "LOADED_REPROCESS_CAPTURE", "VIDEO_LOADED_CAPTURE"}
          /\ adapter = "REPROCESS" => CpCam
          /\ adapter' \notin {"INITIALIZED", "LOADED_PREVIEW"}
      BY <1>5, <1>9, QuietEdges
    <3>2. adapter \notin Parked
      BY <3>1, ParkedStates
    <3>3. adapter' # "LOADED_CAPTURE"
      BY <1>6 DEF CaptureStates
    <3> QED
      BY <3>1, <3>2, <3>3
  <2>2. Windowed' /\ Preview'
    BY <1>1, <2>1, OnwardPreview, SentOk, Numbers DEF Steady
  <2> QED
    BY <1>2, <1>4, <1>7, <2>2
<1> QED
  BY <1>8, <1>9

LEMMA QuestionLink ==
  ASSUME NEW n, NEW b, Link(n, Must("QUERY_RESOLUTION_PREVIEW"), b)
  PROVE  b \notin Needs \/ b \in {Do("allocate preview buffers"), Do("wait for window")}
<1>1. Before(Must("QUERY_RESOLUTION_PREVIEW"), b)
  BY DEF Link
<1>2. \A x \in {"QUERY_BUFFER_SIZE_IMAGE_CAPTURE", "USE_BUFFERS_IMAGE_CAPTURE", "START_IMAGE_CAPTURE",
                "START_BRACKET_CAPTURE", "USE_BUFFERS_PREVIEW", "START_PREVIEW"} :
        Must("QUERY_RESOLUTION_PREVIEW") # Must(x)
  BY StepsDiffer
<1>3. Must("QUERY_RESOLUTION_PREVIEW") \notin Picture
  BY <1>2, StepsDiffer DEF Picture
<1> QED
  BY <1>1, <1>2, <1>3, StepsDiffer DEF Before, Needs

LEMMA MustsAreSteps ==
  /\ \A c, f : Must(c) # End(f)
  /\ Must("QUERY_RESOLUTION_PREVIEW") \notin Loose
  /\ Must("QUERY_BUFFER_SIZE_IMAGE_CAPTURE") \notin Loose
  /\ Must("USE_BUFFERS_IMAGE_CAPTURE") \notin Loose
<1>1. ASSUME NEW c \in {"QUERY_RESOLUTION_PREVIEW", "QUERY_BUFFER_SIZE_IMAGE_CAPTURE",
                        "USE_BUFFERS_IMAGE_CAPTURE"}
      PROVE  Must(c) \notin Loose
  <2>1. \A x \in {"START_IMAGE_CAPTURE", "START_BRACKET_CAPTURE", "USE_BUFFERS_PREVIEW", "START_PREVIEW"} :
          Must(c) # Must(x)
    BY StepsDiffer
  <2> QED
    BY <2>1, StepsDiffer DEF Loose
<1> QED
  BY <1>1, StepsDiffer

(* The question for the resolution of the preview.                            *)
LEMMA SendQuestion ==
  ASSUME HalInv, SendOk, todo[1] = Must("QUERY_RESOLUTION_PREVIEW"), Head(todo)[2] = "QUERY_RESOLUTION_PREVIEW"
  PROVE  Program' /\ todo' # <<>> /\ Counts' /\ Pictures' /\ Windowed' /\ Preview'
<1>1. /\ todo # <<>> /\ todo' = Rest /\ call' = call /\ calls' = calls /\ faults' = faults /\ buffers' = buffers
      /\ flags' = flags /\ display' = display /\ taken' = taken /\ shot' = shot /\ Kept
      /\ <<adapter, "QUERY_RESOLUTION_PREVIEW", adapter'>> \in Edges
  BY SentOk
<1>2. adapter = "INITIALIZED" /\ adapter' = adapter
  BY <1>1, PreviewEdgesOnly
<1>3. Program' /\ todo' # <<>> /\ Len(todo) > 1 /\ todo'[1] = todo[2] /\ Link(faults, todo[1], todo'[1])
      /\ (NoFrees(todo) => NoFrees(todo'))
  BY <1>1, Onward, Numbers, MustsAreSteps
<1>4. Counts'
  BY <1>1, OnwardCounts, Numbers
<1>5. Pictures'
  <2>1. todo[1] \notin {Must("QUERY_BUFFER_SIZE_IMAGE_CAPTURE"), Do("allocate image buffers")}
    BY StepsDiffer
  <2> QED
    BY <1>1, <1>2, <2>1, OnwardPictures, KeepsPictures, Numbers DEF Pictures
<1>6. Windowed'
  BY <1>1, Numbers DEF Windowed, Is
<1>7. ASSUME faults' = 0 PROVE PreviewHeads' /\ PreviewFlags'
  <2>1. PreviewHeads /\ PreviewFlags /\ ~On(Loose)
    BY <1>1, <1>7, Numbers, MustsAreSteps DEF Preview, On
  <2>2. ~Seen /\ ~Done /\ (todo[2] = Do("wait for window") => ~display.alive)
        /\ (todo[2] = Do("allocate preview buffers") => display.alive)
    BY <1>1, <1>3, <2>1 DEF PreviewHeads, On
  <2>3. Settled /\ ~Waiting /\ (Done => NoFrees(todo))
    BY <2>1, AtRest
  <2>4. Settled' /\ (Done' <=> Done) /\ (Waiting' <=> Waiting) /\ (Seen' <=> Seen)
    BY <1>1, <1>2, <2>3, StillSettled DEF Steady
  <2>5. PreviewFlags'
    BY <1>3, <2>3, <2>4, FlagsAtRest
  <2>6. CASE todo'[1] \notin Needs
    BY <2>5, <2>6, FreeHead
  <2>7. CASE todo'[1] = Do("allocate preview buffers")
    <3>1. ~Seen' /\ ~Done' /\ adapter' = "INITIALIZED" /\ display'.alive
      BY <1>1, <1>2, <1>3, <2>2, <2>4, <2>7
    <3> QED
      BY <1>1, <2>5, <2>7, <3>1, StepsDiffer DEF PreviewHeads, On, Picture
  <2>8. CASE todo'[1] = Do("wait for window")
    <3>1. ~Seen' /\ ~Done' /\ adapter' = "INITIALIZED" /\ ~display'.alive
      BY <1>1, <1>2, <1>3, <2>2, <2>4, <2>8
    <3> QED
      BY <1>1, <2>5, <2>8, <3>1, StepsDiffer DEF PreviewHeads, On, Picture
  <2> QED
    BY <1>3, <2>6, <2>7, <2>8, QuestionLink
<1> QED
  BY <1>3, <1>4, <1>5, <1>6, <1>7 DEF Preview

(* The buffers of the preview, and its start.                                 *)
LEMMA SendBuffers ==
  ASSUME HalInv, SendOk, todo[1] = Must("USE_BUFFERS_PREVIEW"), Head(todo)[2] = "USE_BUFFERS_PREVIEW"
  PROVE  Program' /\ todo' # <<>> /\ Counts' /\ Pictures' /\ Windowed' /\ Preview'
<1>1. /\ todo # <<>> /\ todo' = Rest /\ call' = call /\ calls' = calls /\ faults' = faults /\ buffers' = buffers
      /\ flags' = flags /\ display' = display /\ taken' = taken /\ shot' = shot /\ Kept
      /\ <<adapter, "USE_BUFFERS_PREVIEW", adapter'>> \in Edges
  BY SentOk
<1>2. adapter = "INITIALIZED" /\ adapter' = "LOADED_PREVIEW"
  BY <1>1, PreviewEdgesOnly
<1>3. Program' /\ todo' # <<>> /\ Link(faults, todo[1], todo'[1])
  BY <1>1, Onward, Numbers, MustsAreSteps
<1>4. Counts'
  BY <1>1, OnwardCounts, Numbers
<1>5. todo'[1] = Do("start callbacks")
  BY <1>3 DEF Link, After
<1>6. Pictures'
  BY <1>2, <1>5, StepsDiffer DEF Pictures, PictureHeads, PicturesHaveBuffers, On
<1>7. Windowed'
  BY <1>1, Numbers DEF Windowed, Is
<1>8. ASSUME faults' = 0 PROVE PreviewHeads' /\ PreviewFlags'
  <2>1. PreviewHeads /\ PreviewFlags
    BY <1>1, <1>8, Numbers DEF Preview
  <2>2. ~Seen /\ ~Done /\ Loaded /\ display.alive
    BY <1>1, <2>1 DEF PreviewHeads, On
  <2>3. (Seen' <=> Seen) /\ (Done' <=> Done) /\ Loaded' /\ display'.alive /\ (InProgress' <=> InProgress)
        /\ (Waiting' <=> Waiting)
    BY <1>1, <2>2 DEF Seen, Done, Loaded, InProgress, Waiting, Is
  <2>4. PreviewHeads'
    <3>1. todo'[1] \notin Picture
      BY <1>5, StepsDiffer DEF Picture
    <3>2. todo'[1] \notin {Do("free preview buffers"), Must("QUERY_RESOLUTION_PREVIEW"), Must("USE_BUFFERS_PREVIEW"),
                          Must("START_PREVIEW"), Do("allocate preview buffers"), Do("wait for window"),
                          Do("preview is on"), Do("pause preview"), Do("resume display")}
      BY <1>5, StepsDiffer
    <3>3. adapter' = "LOADED_PREVIEW" /\ ~Seen' /\ ~Done' /\ Loaded' /\ display'.alive
      BY <1>2, <2>2, <2>3
    <3> QED
      BY <3>1, <3>2, <3>3 DEF PreviewHeads, On
  <2>5. Waiting => call # "sendCommand"
    BY <2>1 DEF PreviewFlags
  <2>6. PreviewFlags'
    BY <1>1, <1>2, <1>3, <1>5, <2>2, <2>3, <2>5, StepsDiffer DEF PreviewFlags, On
  <2> QED
    BY <2>4, <2>6
<1> QED
  BY <1>3, <1>4, <1>6, <1>7, <1>8 DEF Preview

LEMMA SendStart ==
  ASSUME HalInv, SendOk, todo[1] = Must("START_PREVIEW"), Head(todo)[2] = "START_PREVIEW"
  PROVE  Program' /\ todo' # <<>> /\ Counts' /\ Pictures' /\ Windowed' /\ Preview'
<1>1. /\ todo # <<>> /\ todo' = Rest /\ call' = call /\ calls' = calls /\ faults' = faults /\ buffers' = buffers
      /\ flags' = flags /\ display' = display /\ taken' = taken /\ shot' = shot /\ Kept
      /\ <<adapter, "START_PREVIEW", adapter'>> \in Edges
  BY SentOk
<1>2. adapter = "LOADED_PREVIEW" /\ adapter' = "PREVIEW"
  BY <1>1, PreviewEdgesOnly
<1>3. Program' /\ todo' # <<>> /\ Link(faults, todo[1], todo'[1])
  BY <1>1, Onward, Numbers, MustsAreSteps
<1>4. Counts'
  BY <1>1, OnwardCounts, Numbers
<1>5. todo'[1] = Do("preview is on")
  BY <1>3 DEF Link, After
<1>6. Pictures'
  BY <1>2, <1>5, StepsDiffer DEF Pictures, PictureHeads, PicturesHaveBuffers, On
<1>7. Windowed'
  BY <1>1, Numbers DEF Windowed, Is
<1>8. ASSUME faults' = 0 PROVE PreviewHeads' /\ PreviewFlags'
  <2>1. PreviewHeads /\ PreviewFlags
    BY <1>1, <1>8, Numbers DEF Preview
  <2>2. ~Done /\ Loaded
    BY <1>1, <2>1 DEF PreviewHeads, On
  <2>3. (Seen' <=> Seen) /\ (Done' <=> Done) /\ Loaded' /\ (InProgress' <=> InProgress)
        /\ (Waiting' <=> Waiting)
    BY <1>1, <2>2 DEF Seen, Done, Loaded, InProgress, Waiting, Is
  <2>4. PreviewHeads'
    BY <1>2, <1>5, <2>2, <2>3, StepsDiffer DEF PreviewHeads, On, Picture
  <2>5. Waiting => call # "sendCommand"
    BY <2>1 DEF PreviewFlags
  <2>6. PreviewFlags'
    BY <1>1, <1>2, <1>3, <1>5, <2>2, <2>3, <2>5, StepsDiffer DEF PreviewFlags, On
  <2> QED
    BY <2>4, <2>6
<1> QED
  BY <1>3, <1>4, <1>6, <1>7, <1>8 DEF Preview

(* The steps of a picture.                                                    *)
LEMMA PictureSends ==
  ASSUME NEW c \in {"QUERY_BUFFER_SIZE_IMAGE_CAPTURE", "USE_BUFFERS_IMAGE_CAPTURE", "START_IMAGE_CAPTURE",
                    "START_BRACKET_CAPTURE"}
  PROVE  Must(c) \in Picture
BY DEF Picture

LEMMA SendPictureQuestion ==
  ASSUME HalInv, SendOk, todo[1] = Must("QUERY_BUFFER_SIZE_IMAGE_CAPTURE"),
         Head(todo)[2] = "QUERY_BUFFER_SIZE_IMAGE_CAPTURE"
  PROVE  Program' /\ todo' # <<>> /\ Counts' /\ Pictures' /\ Windowed' /\ Preview'
<1>1. /\ todo # <<>> /\ todo' = Rest /\ call' = call /\ calls' = calls /\ faults' = faults /\ buffers' = buffers
      /\ flags' = flags /\ display' = display /\ taken' = taken /\ shot' = shot /\ Kept /\ adapter' \in States
      /\ <<adapter, "QUERY_BUFFER_SIZE_IMAGE_CAPTURE", adapter'>> \in Edges
  BY SentOk
<1>2. adapter' = adapter /\ adapter \in Asks
  BY <1>1, PictureEdgesOnly DEF Asks, Accepts
<1>3. Program' /\ todo' # <<>> /\ Link(faults, todo[1], todo'[1]) /\ (NoFrees(todo) => NoFrees(todo'))
  BY <1>1, Onward, Numbers, MustsAreSteps
<1>4. Counts'
  BY <1>1, OnwardCounts, Numbers
<1>5. Pictures'
  <2>1. todo'[1] # Must("USE_BUFFERS_IMAGE_CAPTURE")
    <3>1. Before(todo[1], todo'[1])
      BY <1>3 DEF Link
    <3>2. todo'[1] = Must("USE_BUFFERS_IMAGE_CAPTURE") => todo[1] = Do("allocate image buffers")
      BY <3>1 DEF Before
    <3> QED
      BY <3>2, StepsDiffer
  <2>2. PictureHeads'
    BY <1>2, <2>1, Numbers, StepsDiffer DEF PictureHeads, On, Asks
  <2> QED
    BY <1>1, <1>2, <2>2, KeepsPictures DEF Pictures
<1>6. Windowed'
  BY <1>1, Numbers DEF Windowed, Is
<1>7. ASSUME faults' = 0 PROVE PreviewHeads' /\ PreviewFlags'
  <2>1. PreviewHeads /\ PreviewFlags /\ ~On(Loose)
    BY <1>1, <1>7, Numbers, MustsAreSteps DEF Preview, On
  <2>2. todo[1] \in Picture
    BY PictureSends
  <2>3. Seen \/ InProgress
    BY <1>1, <2>1, <2>2 DEF PreviewHeads, On
  <2>4. todo'[1] \notin Needs \/ todo'[1] \in Picture \ {Do("pause preview")}
    BY <1>3, <2>2, PictureLink
  <2> QED
    BY <1>1, <1>2, <1>3, <2>1, <2>3, <2>4, Quiet DEF Steady
<1> QED
  BY <1>3, <1>4, <1>5, <1>6, <1>7 DEF Preview

LEMMA SendPictureBuffers ==
  ASSUME HalInv, SendOk, todo[1] = Must("USE_BUFFERS_IMAGE_CAPTURE"),
         Head(todo)[2] = "USE_BUFFERS_IMAGE_CAPTURE"
  PROVE  Program' /\ todo' # <<>> /\ Counts' /\ Pictures' /\ Windowed' /\ Preview'
<1>1. /\ todo # <<>> /\ todo' = Rest /\ call' = call /\ calls' = calls /\ faults' = faults /\ buffers' = buffers
      /\ flags' = flags /\ display' = display /\ taken' = taken /\ shot' = shot /\ Kept
      /\ <<adapter, "USE_BUFFERS_IMAGE_CAPTURE", adapter'>> \in Edges
  BY SentOk
<1>2. <<adapter, adapter'>> \in {<<"PREVIEW", "LOADED_CAPTURE">>, <<"VIDEO", "VIDEO_LOADED_CAPTURE">>,
                                 <<"LOADED_REPROCESS", "LOADED_REPROCESS_CAPTURE">>}
  BY <1>1, PictureEdgesOnly
<1>3. Program' /\ todo' # <<>> /\ Link(faults, todo[1], todo'[1]) /\ (NoFrees(todo) => NoFrees(todo'))
  BY <1>1, Onward, Numbers, MustsAreSteps
<1>4. Counts'
  BY <1>1, OnwardCounts, Numbers
<1>5. todo'[1] \in {Must("START_IMAGE_CAPTURE"), Must("START_BRACKET_CAPTURE")}
  BY <1>3 DEF Link, After
<1>6. Pictures'
  <2>1. todo'[1] \notin {Do("allocate image buffers"), Must("USE_BUFFERS_IMAGE_CAPTURE")}
    BY <1>5, StepsDiffer
  <2>2. PictureHeads'
    BY <1>2, <2>1 DEF PictureHeads, On
  <2>3. buffers["image"] # Nobody
    BY <1>1, Numbers DEF PictureHeads, On
  <2> QED
    BY <1>1, <2>2, <2>3 DEF Pictures, PicturesHaveBuffers
<1>7. Windowed'
  BY <1>1, Numbers DEF Windowed, Is
<1>8. ASSUME faults' = 0 PROVE PreviewHeads' /\ PreviewFlags'
  <2>1. PreviewHeads /\ PreviewFlags /\ ~On(Loose)
    BY <1>1, <1>8, Numbers, MustsAreSteps DEF Preview, On
  <2>2. Seen \/ InProgress
    BY <1>1, <2>1, PictureSends DEF PreviewHeads, On
  <2>3. Settled /\ ~Waiting
    BY <2>1, AtRest
  <2>4. (Seen' <=> Seen) /\ (Done' <=> Done) /\ (Loaded' <=> Loaded) /\ (InProgress' <=> InProgress)
        /\ (Waiting' <=> Waiting)
    BY <1>1 DEF Seen, Done, Loaded, InProgress, Waiting, Is
  <2>5. Seen /\ Loaded /\ ~Done
    BY <1>2, <2>2, <2>3 DEF Settled
  <2>6. PreviewFlags'
    BY <1>2, <1>3, <1>5, <2>3, <2>4, <2>5 DEF PreviewFlags, On
  <2>7. todo'[1] \in Picture \ {Do("pause preview")}
    BY <1>5, PictureSends, StepsDiffer
  <2> QED
    BY <2>4, <2>5, <2>6, <2>7, FreeHead
<1> QED
  BY <1>3, <1>4, <1>6, <1>7, <1>8 DEF Preview

LEMMA SendShot ==
  ASSUME HalInv, SendOk, NEW c \in {"START_IMAGE_CAPTURE", "START_BRACKET_CAPTURE"},
         todo[1] = Must(c), Head(todo)[2] = c
  PROVE  Program' /\ todo' # <<>> /\ Counts' /\ Pictures' /\ Windowed' /\ Preview'
<1>1. /\ todo # <<>> /\ todo' = Rest /\ call' = call /\ calls' = calls /\ faults' = faults /\ buffers' = buffers
      /\ flags' = flags /\ display' = display /\ taken' = taken /\ Kept
      /\ shot' = shot \/ shot' = shot + 1
      /\ <<adapter, c, adapter'>> \in Edges
  BY SentOk
<1>2. /\ adapter \in {"LOADED_CAPTURE", "CAPTURE", "BRACKETING", "VIDEO_LOADED_CAPTURE",
                      "LOADED_REPROCESS_CAPTURE", "REPROCESS"}
      /\ adapter' \in {"CAPTURE", "BRACKETING", "VIDEO_CAPTURE", "REPROCESS"}
      /\ adapter \in CaptureStates \/ adapter' = "REPROCESS"
  BY <1>1, PictureEdgesOnly DEF CaptureStates
<1>3. /\ Program' /\ todo' # <<>> /\ Link(faults, todo[1], todo'[1])
      /\ NoShots(todo) \/ Shoots(todo[1]) => NoShots(todo')
      /\ NoFrees(todo) => NoFrees(todo')
  BY <1>1, Onward, Numbers, MustsAreSteps
<1>4. Counts'
  <2>1. Shoots(todo[1])
    BY DEF Shoots
  <2>2. ~NoShots(todo)
    <3>1. todo \in Seq(Steps(faults))
      BY Numbers DEF Program, Wired
    <3>2. 1 \in 1..Len(todo)
      BY <1>1, <3>1, Nonempty
    <3> QED
      BY <2>1, <3>2 DEF NoShots
  <2>3. shot < calls /\ display.made =< calls
    BY <2>2, Numbers DEF Counts
  <2>4. shot' =< calls'
    BY <1>1, <2>3, Numbers
  <2> QED
    BY <1>1, <1>3, <2>1, <2>3, <2>4 DEF Counts
<1>5. Pictures'
  <2>1. todo'[1] \notin {Do("allocate image buffers"), Must("USE_BUFFERS_IMAGE_CAPTURE")}
    <3>1. todo[1] # Must("QUERY_BUFFER_SIZE_IMAGE_CAPTURE") /\ todo[1] # Do("allocate image buffers")
      BY StepsDiffer
    <3> QED
      BY <1>3, <3>1 DEF Link, Before
  <2>2. PictureHeads'
    BY <1>2, <2>1 DEF PictureHeads, On
  <2>3. PicturesHaveBuffers'
    BY <1>1, <1>2, Numbers DEF PicturesHaveBuffers, CaptureStates
  <2> QED
    BY <2>2, <2>3 DEF Pictures
<1>6. Windowed'
  BY <1>1, Numbers DEF Windowed, Is
<1>7. ASSUME faults' = 0 PROVE PreviewHeads' /\ PreviewFlags'
  <2>1. PreviewHeads /\ PreviewFlags
    BY <1>1, <1>7, Numbers DEF Preview
  <2>2. Seen \/ InProgress
    BY <1>1, <2>1, PictureSends DEF PreviewHeads, On
  <2>3. todo[1] \notin {Do("start callbacks"), Must("START_PREVIEW"), Do("preview is on"), Do("preview is off")}
    BY StepsDiffer
  <2>4. Seen /\ Loaded /\ ~Done
    BY <1>2, <2>1, <2>2, <2>3 DEF PreviewFlags, On
  <2>5. (Seen' <=> Seen) /\ (Done' <=> Done) /\ (Loaded' <=> Loaded)
    BY <1>1 DEF Seen, Done, Loaded, Is
  <2>6. Settled' /\ ~Waiting'
    BY <1>2, <2>4, <2>5 DEF Settled, Waiting
  <2>7. PreviewFlags'
    BY <2>4, <2>5, <2>6, FlagsAtRest
  <2>8. todo'[1] \notin Needs \/ todo'[1] \in Picture \ {Do("pause preview")}
    BY <1>3, PictureSends, PictureLink
  <2> QED
    BY <2>4, <2>5, <2>7, <2>8, FreeHead
<1> QED
  BY <1>3, <1>4, <1>5, <1>6, <1>7 DEF Preview

LEMMA KeepsSendOk == ASSUME HalInv, SendOk PROVE HalInv'
<1> DEFINE c == Head(todo)[2]
<1>1. /\ todo # <<>> /\ Head(todo)[1] \in {"must", "try"} /\ call' = call /\ calls' = calls
      /\ flags' = flags /\ display' = display /\ taken' = taken /\ adapter' \in States
      /\ shot' = shot \/ shot' = shot + 1
      /\ buffers' \in [Kinds -> {Nobody, MemoryMgr, Gralloc, Tap} \cup (1..MaxCalls)]
      /\ misfreed' \in BOOLEAN /\ faults' = faults
  BY SentOk
<1>2. \/ todo[1] = Must(c) /\ c \in MustCommands
      \/ todo[1] = Try(c) /\ c \in TryCommands /\ (faults = 0 => c # "STOP_PREVIEW")
  BY <1>1, Sent
<1> HIDE DEF c
<1>3. Program' /\ todo' # <<>> /\ Counts' /\ Pictures' /\ Windowed' /\ Preview'
  <2>1. CASE todo[1] = Try(c) /\ c \in TryCommands /\ (faults = 0 => c # "STOP_PREVIEW")
    <3>1. c \in QuietCommands \cup {"STOP_PREVIEW"}
      BY <2>1 DEF QuietCommands
    <3> QED
      BY <2>1, <3>1, SendQuiet DEF c
  <2>2. CASE todo[1] = Must(c) /\ c \in {"USE_BUFFERS_REPROCESS", "START_VIDEO"}
    <3>1. c \in QuietCommands \cup {"STOP_PREVIEW"} /\ c # "STOP_PREVIEW"
      BY <2>2 DEF QuietCommands
    <3> QED
      BY <2>2, <3>1, SendQuiet DEF c
  <2>3. CASE todo[1] = Must(c) /\ c \in {"START_IMAGE_CAPTURE", "START_BRACKET_CAPTURE"}
    BY <2>3, SendShot DEF c
  <2>4. CASE todo[1] = Must(c) /\ c = "QUERY_RESOLUTION_PREVIEW"
    BY <2>4, SendQuestion DEF c
  <2>5. CASE todo[1] = Must(c) /\ c = "USE_BUFFERS_PREVIEW"
    BY <2>5, SendBuffers DEF c
  <2>6. CASE todo[1] = Must(c) /\ c = "START_PREVIEW"
    BY <2>6, SendStart DEF c
  <2>7. CASE todo[1] = Must(c) /\ c = "QUERY_BUFFER_SIZE_IMAGE_CAPTURE"
    BY <2>7, SendPictureQuestion DEF c
  <2>8. CASE todo[1] = Must(c) /\ c = "USE_BUFFERS_IMAGE_CAPTURE"
    BY <2>8, SendPictureBuffers DEF c
  <2> QED
    BY <1>2, <2>1, <2>2, <2>3, <2>4, <2>5, <2>6, <2>7, <2>8 DEF MustCommands
<1>4. shot' \in 0..MaxCalls
  <2>1. shot' =< calls'
    BY <1>3 DEF Counts
  <2>2. calls \in 0..MaxCalls
    BY Numbers DEF TypeOK
  <2> QED
    BY <1>1, <2>1, <2>2, Numbers, CameraHalAssumption
<1>5. TypeOK'
  BY <1>1, <1>3, <1>4, Numbers, Ongoing DEF TypeOK, SendOk, taps, app, Accepted
<1> QED
  BY <1>3, <1>5 DEF HalInv

(* A command that fails.                                                      *)
LEMMA RefusedMust ==
  ASSUME HalInv, todo # <<>>, NEW c, todo[1] = Must(c), Refused(c), c \in MustCommands
  PROVE  /\ faults' \in 0..MaxFaults /\ faults' \in Nat /\ (faults' = 0 => faults = 0)
         /\ adapter' = adapter /\ buffers' = buffers /\ shot' = shot
         /\ faults' = 0 => /\ c \notin {"USE_BUFFERS_PREVIEW", "START_PREVIEW"}
                           /\ c \in {"START_IMAGE_CAPTURE",
                                     "START_BRACKET_CAPTURE"} => adapter # "LOADED_CAPTURE"
         /\ c # "allocate preview buffers"
<1>1. adapter' = adapter /\ buffers' = buffers /\ shot' = shot
  BY DEF Refused, pics
<1>2. faults \in Nat /\ MaxFaults \in Nat /\ faults \in 0..MaxFaults
  BY Numbers, CameraHalAssumption DEF TypeOK
<1>3. faults' = faults \/ (faults < MaxFaults /\ faults' = faults + 1)
  BY DEF Refused
<1>4. faults' \in 0..MaxFaults /\ faults' \in Nat /\ (faults' = 0 => faults = 0)
  BY <1>2, <1>3
<1>5. ASSUME faults' = 0 PROVE ~Accepts(adapter, c)
  BY <1>2, <1>5 DEF Refused
<1>6. ASSUME faults' = 0 PROVE PreviewHeads
  BY <1>4, <1>6, Numbers DEF Preview
<1>7. ASSUME faults' = 0 PROVE c \notin {"USE_BUFFERS_PREVIEW", "START_PREVIEW"}
  BY <1>5, <1>6, <1>7, PreviewAccepts DEF PreviewHeads, On
<1>8. ASSUME faults' = 0 PROVE c \in {"START_IMAGE_CAPTURE",
                                      "START_BRACKET_CAPTURE"} => adapter # "LOADED_CAPTURE"
  BY <1>5, <1>8, PreviewAccepts
<1>9. c # "allocate preview buffers"
  BY DEF MustCommands
<1> QED
  BY <1>1, <1>4, <1>7, <1>8, <1>9

LEMMA ErrorHeads ==
  ASSUME NEW x
  PROVE  OnError(x) # <<>> => OnError(x)[1] = Do("free preview buffers")
BY DEF OnError, Cleanup

LEMMA ErrorReturn ==
  ASSUME HalInv, todo # <<>>, NEW x, todo' = OnError(x) \o Return, call' = call,
         faults' \in Nat, faults' = 0 => faults = 0, shot' = shot, calls' = calls,
         adapter' = adapter, buffers' = buffers, taken' = taken, Kept,
         faults' # 0 \/ x \notin {"allocate preview buffers", "START_PREVIEW", "USE_BUFFERS_PREVIEW"}
  PROVE  /\ Program' /\ todo' # <<>> /\ Counts' /\ Pictures' /\ Windowed'
         /\ faults' = 0 => todo' = Return
<1>1. Ahead(faults', OnError(x), {"frees"})
  BY AheadOnError
<1>2. OnError(x) # <<>> => OnError(x)[1] = Do("free preview buffers")
  BY ErrorHeads
<1> DEFINE s == OnError(x)
<1> HIDE DEF s
<1>3. /\ Program' /\ todo' # <<>>
      /\ IF s = <<>> THEN todo'[1][1] = "end" ELSE todo'[1] = s[1]
      /\ NoShots(todo) => NoShots(todo')
  BY <1>1, Returned, Numbers DEF s
<1>4. Counts'
  BY <1>3, Numbers DEF Counts, Kept
<1>5. todo'[1] \notin {Do("allocate image buffers"), Must("USE_BUFFERS_IMAGE_CAPTURE")}
  <2>1. CASE s = <<>>
    BY <1>3, <2>1, EndsAreFree DEF Needs, Picture
  <2>2. CASE s # <<>>
    BY <1>2, <1>3, <2>2, StepsDiffer DEF s
  <2> QED
    BY <2>1, <2>2
<1>6. Pictures'
  BY <1>5, HeadPictures, KeepsPictures DEF Pictures
<1>7. Windowed'
  BY Numbers DEF Windowed, Kept, Watched, Is
<1>8. ASSUME faults' = 0 PROVE todo' = Return
  <2>1. OnError(x) = <<>>
    BY <1>8 DEF OnError
  <2> QED
    BY <2>1, ReturnIsSequence
<1> QED
  BY <1>3, <1>4, <1>6, <1>7, <1>8

LEMMA SettledAnyhow ==
  ASSUME PreviewFlags, todo # <<>>,
         todo[1] \in {Must("START_IMAGE_CAPTURE"), Must("START_BRACKET_CAPTURE")}, adapter # "LOADED_CAPTURE"
  PROVE  Settled /\ ~Waiting /\ (Done => NoFrees(todo))
<1>1. todo[1] \notin Loose \ {Must("START_IMAGE_CAPTURE"), Must("START_BRACKET_CAPTURE")}
  BY StepsDiffer DEF Loose
<1> QED
  BY <1>1, StepsDiffer DEF PreviewFlags, On, Settled

LEMMA KeepsSendFails == ASSUME HalInv, SendFails PROVE HalInv'
<1> DEFINE c == Head(todo)[2]
<1>1. /\ todo # <<>> /\ Head(todo)[1] \in {"must", "try"} /\ call' = call /\ calls' = calls
      /\ flags' = flags /\ display' = display /\ taken' = taken /\ Refused(c)
      /\ IF Head(todo)[1] = "try" THEN todo' = Rest /\ ret' = ret ELSE todo' = OnError(c) \o Return /\ ret' = "error"
      /\ tapout' = tapout /\ notifier' = notifier /\ mLock' = mLock
  BY DEF SendFails, taps, app
<1>2. \/ todo[1] = Must(c) /\ c \in MustCommands /\ Head(todo)[1] = "must"
      \/ todo[1] = Try(c) /\ Head(todo)[1] = "try"
  BY <1>1, Sent
<1> HIDE DEF c
<1>3. adapter' = adapter /\ buffers' = buffers /\ shot' = shot /\ owed' = owed /\ misfreed' = misfreed
  BY <1>1 DEF Refused, pics
<1>4. faults' \in 0..MaxFaults /\ faults' \in Nat /\ (faults' = 0 => faults = 0)
  <2>1. faults \in Nat /\ MaxFaults \in Nat /\ faults \in 0..MaxFaults
    BY Numbers, CameraHalAssumption DEF TypeOK
  <2>2. faults' = faults \/ (faults < MaxFaults /\ faults' = faults + 1)
    BY <1>1 DEF Refused
  <2> QED
    BY <2>1, <2>2
<1>5. Kept
  BY <1>1, <1>3 DEF Kept, Loaded
<1>6. Program' /\ todo' # <<>> /\ Counts' /\ Pictures' /\ Windowed' /\ Preview'
  <2>1. CASE todo[1] = Try(c) /\ Head(todo)[1] = "try"
    <3>1. todo' = Rest
      BY <1>1, <2>1
    <3>2. /\ todo[1] \notin Key /\ (\A f : todo[1] # End(f))
          /\ todo[1] \notin {Must("QUERY_BUFFER_SIZE_IMAGE_CAPTURE"), Do("allocate image buffers")}
      BY <2>1, QuietSends
    <3>3. Program' /\ todo' # <<>>
      BY <1>1, <1>4, <3>1, <3>2, Onward
    <3>4. Counts'
      BY <1>1, <1>3, <1>4, <3>1, OnwardCounts
    <3>5. Pictures'
      BY <1>1, <1>3, <1>4, <3>1, <3>2, OnwardPictures, KeepsPictures DEF Pictures
    <3>6. Windowed' /\ Preview'
      BY <1>1, <1>3, <1>4, <1>5, <3>1, <3>2, OnwardPreview DEF Steady
    <3> QED
      BY <3>3, <3>4, <3>5, <3>6
  <2>2. CASE todo[1] = Must(c) /\ c \in MustCommands /\ Head(todo)[1] = "must"
    <3>1. todo' = OnError(c) \o Return
      BY <1>1, <2>2
    <3>2. /\ faults' = 0 => /\ c \notin {"USE_BUFFERS_PREVIEW", "START_PREVIEW"}
                            /\ c \in {"START_IMAGE_CAPTURE",
                                      "START_BRACKET_CAPTURE"} => adapter # "LOADED_CAPTURE"
          /\ c # "allocate preview buffers"
      BY <1>1, <2>2, RefusedMust
    <3>3. /\ Program' /\ todo' # <<>> /\ Counts' /\ Pictures' /\ Windowed'
          /\ faults' = 0 => todo' = Return
      BY <1>1, <1>3, <1>4, <1>5, <3>1, <3>2, ErrorReturn
    <3>4. ASSUME faults' = 0 PROVE PreviewHeads' /\ PreviewFlags'
      <4>1. PreviewFlags
        BY <1>4, <3>4, Numbers DEF Preview
      <4>2. Settled /\ ~Waiting /\ (Done => NoFrees(todo))
        <5>1. CASE c \in {"START_IMAGE_CAPTURE", "START_BRACKET_CAPTURE"}
          BY <1>1, <2>2, <3>2, <3>4, <4>1, <5>1, SettledAnyhow
        <5>2. CASE c \notin {"START_IMAGE_CAPTURE", "START_BRACKET_CAPTURE"}
          <6>1. Must(c) \notin Loose
            BY <3>2, <3>4, <5>2, StepsDiffer DEF Loose
          <6> QED
            BY <2>2, <4>1, <6>1, AtRest DEF On
        <5> QED
          BY <5>1, <5>2
      <4>3. todo'[1] \notin Needs /\ (NoFrees(todo) => NoFrees(todo'))
        BY <1>1, <1>4, <3>3, <3>4, Homeward
      <4> QED
        BY <1>3, <1>5, <4>2, <4>3, QuietSettled DEF Steady
    <3> QED
      BY <3>3, <3>4 DEF Preview
  <2> QED
    BY <1>2, <2>1, <2>2
<1>7. TypeOK'
  <2>1. ret' \in {"ok", "error"}
    BY <1>1, Numbers DEF TypeOK
  <2> QED
    BY <1>1, <1>3, <1>4, <1>6, <2>1, Numbers, Ongoing DEF TypeOK
<1> QED
  BY <1>6, <1>7 DEF HalInv

(* Rolling the adapter back.                                                  *)
LEMMA RollbackSteps ==
  ASSUME NEW s, NEW c, <<s, c>> \in RollbackCommands
  PROVE  /\ Accepts(s, c)
         /\ c \notin {"START_BRACKET_CAPTURE", "START_IMAGE_CAPTURE"}
         /\ \A d : <<s, c, d>> \in Edges /\ s # "BRACKETING_ZOOM"
                     => d \notin CaptureStates \cup {"BRACKETING_ZOOM", "LOADED_PREVIEW"}
<1>1. CpCam \in BOOLEAN
  BY CpCamIsBoolean
<1>2. {"INITIALIZED", "PREVIEW", "VIDEO", "AF", "ZOOM", "BRACKETING"} \subseteq States
  BY DEF States, StillStates, VideoStates
<1>3. /\ <<"PREVIEW", "STOP_PREVIEW", "INITIALIZED">> \in Edges
      /\ <<"CAPTURE", "STOP_IMAGE_CAPTURE", "PREVIEW">> \in Edges
      /\ <<"BRACKETING", "STOP_BRACKET_CAPTURE", "PREVIEW">> \in Edges
      /\ <<"AF", "CANCEL_AUTOFOCUS", "PREVIEW">> \in Edges
      /\ <<"ZOOM", "STOP_SMOOTH_ZOOM", "PREVIEW">> \in Edges
      /\ <<"VIDEO", "STOP_VIDEO", "PREVIEW">> \in Edges
      /\ <<"VIDEO_AF", "CANCEL_AUTOFOCUS", "VIDEO">> \in Edges
      /\ <<"VIDEO_CAPTURE", "STOP_IMAGE_CAPTURE", "VIDEO">> \in Edges
      /\ <<"AF_ZOOM", "STOP_SMOOTH_ZOOM", "AF">> \in Edges
      /\ <<"VIDEO_ZOOM", "STOP_SMOOTH_ZOOM", "VIDEO">> \in Edges
      /\ <<"BRACKETING_ZOOM", "STOP_SMOOTH_ZOOM", "BRACKETING">> \in Edges
      /\ CpCam => <<"REPROCESS", "STOP_IMAGE_CAPTURE", "PREVIEW">> \in Edges
  BY DEF Edges, InitializedEdges, LoadedPreviewEdges, PreviewEdges, CaptureEdges, BracketingEdges,
       FocusZoomEdges, VideoEdges, LoadedReprocessEdges, ReprocessEdges
<1>4. <<s, c>> \in {<<"PREVIEW", "STOP_PREVIEW">>, <<"CAPTURE", "STOP_IMAGE_CAPTURE">>,
                    <<"BRACKETING", "STOP_BRACKET_CAPTURE">>, <<"AF", "CANCEL_AUTOFOCUS">>,
                    <<"ZOOM", "STOP_SMOOTH_ZOOM">>, <<"VIDEO", "STOP_VIDEO">>,
                    <<"VIDEO_AF", "CANCEL_AUTOFOCUS">>, <<"VIDEO_CAPTURE", "STOP_IMAGE_CAPTURE">>,
                    <<"AF_ZOOM", "STOP_SMOOTH_ZOOM">>, <<"VIDEO_ZOOM", "STOP_SMOOTH_ZOOM">>,
                    <<"BRACKETING_ZOOM", "STOP_SMOOTH_ZOOM">>}
      \/ (CpCam /\ <<s, c>> = <<"REPROCESS", "STOP_IMAGE_CAPTURE">>)
  BY <1>1 DEF RollbackCommands
<1>5. Accepts(s, c)
  BY <1>2, <1>3, <1>4 DEF Accepts
<1>6. c \notin {"START_BRACKET_CAPTURE", "START_IMAGE_CAPTURE"}
  BY <1>4
<1>7. ASSUME NEW d, <<s, c, d>> \in Edges, s # "BRACKETING_ZOOM"
      PROVE  d \notin CaptureStates \cup {"BRACKETING_ZOOM", "LOADED_PREVIEW"}
  <2>1. c \in QuietCommands \/ c = "STOP_PREVIEW"
    BY <1>4 DEF QuietCommands, TryCommands
  <2> QED
    BY <1>7, <2>1, QuietEdges, PreviewEdgesOnly, NoBracketingZoom DEF CaptureStates
<1> QED
  BY <1>5, <1>6, <1>7

LEMMA KeepsRollback == ASSUME HalInv, Rollback PROVE HalInv'
<1>1. /\ todo # <<>> /\ todo[1] = Do("rollback") /\ call' = call /\ calls' = calls
      /\ flags' = flags /\ display' = display /\ taken' = taken /\ tapout' = tapout
      /\ notifier' = notifier /\ mLock' = mLock /\ ret' = ret
  BY Numbers DEF Rollback, At, taps, app
<1>2. CASE /\ \E c \in Commands : <<adapter, c>> \in RollbackCommands /\ Accepted(c)
           /\ UNCHANGED todo
  <2>1. PICK c \in Commands : <<adapter, c>> \in RollbackCommands /\ Accepted(c)
    BY <1>2
  <2>2. /\ adapter' \in States /\ <<adapter, c, adapter'>> \in Edges
        /\ faults' = faults /\ owed' = owed /\ shot' = shot
        /\ FreeImageBufs \/ UNCHANGED <<buffers, misfreed>>
    BY <2>1, RollbackSteps DEF Accepted
  <2>3. adapter # "BRACKETING_ZOOM"
    BY Numbers DEF PictureHeads
  <2>4. adapter' \notin CaptureStates \cup {"BRACKETING_ZOOM", "LOADED_PREVIEW"}
    BY <2>1, <2>2, <2>3, RollbackSteps
  <2>5. Program' /\ Counts' /\ Windowed' /\ todo' = todo
    BY <1>1, <1>2, <2>2, Numbers DEF Program, Counts, Windowed, Is
  <2>6. Pictures'
    BY <1>1, <2>4, <2>5, StepsDiffer DEF Pictures, PictureHeads, PicturesHaveBuffers, On, CaptureStates
  <2>7. /\ buffers'["preview"] = buffers["preview"]
        /\ buffers' \in [Kinds -> {Nobody, MemoryMgr, Gralloc, Tap} \cup (1..MaxCalls)]
    BY <2>2, BuffersAre, ImageBuffersFreed
  <2>8. misfreed' \in BOOLEAN
    BY <2>2, Numbers DEF FreeImageBufs, TypeOK
  <2>9. TypeOK'
    BY <1>1, <2>2, <2>5, <2>7, <2>8, Numbers, Ongoing DEF TypeOK
  <2>10. ASSUME faults' = 0 PROVE PreviewHeads' /\ PreviewFlags'
    <3>1. PreviewHeads /\ PreviewFlags
      BY <2>2, <2>10, Numbers DEF Preview
    <3>2. adapter \notin Parked
      <4>1. adapter \notin Stranded
        BY <2>1 DEF Stranded
      <4>2. adapter # "INITIALIZED"
        BY <2>1 DEF RollbackCommands
      <4> QED
        BY <4>1, <4>2 DEF Parked
    <3>3. (Seen' <=> Seen) /\ (Done' <=> Done) /\ (Loaded' <=> Loaded) /\ (InProgress' <=> InProgress)
          /\ (Waiting' <=> Waiting)
      BY <1>1, <2>7 DEF Seen, Done, Loaded, InProgress, Waiting, Is
    <3>4. "LOADED_PREVIEW" \in Parked /\ "INITIALIZED" \in Parked
      BY ParkedStates
    <3>5. Loaded /\ ~Done
      BY <3>1, <3>2, <3>4 DEF PreviewFlags
    <3>6. InProgress => Seen
      BY <1>1, <3>1, <3>2, <3>4, <3>5, StepsDiffer DEF PreviewFlags, On
    <3>7. PreviewFlags'
      BY <1>1, <2>4, <2>5, <3>3, <3>5, <3>6 DEF PreviewFlags, On, Waiting, CaptureStates
    <3>8. todo'[1] \notin Needs
      BY <1>1, <2>5, StepsDiffer DEF Needs, Picture
    <3> QED
      BY <3>7, <3>8, FreeHead
  <2> QED
    BY <2>5, <2>6, <2>9, <2>10 DEF HalInv, Preview
<1>3. CASE /\ \/ \E c \in Commands : <<adapter, c>> \in RollbackCommands /\ Refused(c)
              \/ /\ \A c \in Commands : <<adapter, c>> \notin RollbackCommands
                 /\ UNCHANGED <<adapter, buffers, misfreed, faults, pics>>
           /\ todo' = Rest
  <2>1. adapter' = adapter /\ buffers' = buffers /\ misfreed' = misfreed /\ shot' = shot /\ owed' = owed
        /\ (faults' = faults \/ (faults < MaxFaults /\ faults' = faults + 1))
    BY <1>3 DEF Refused, pics
  <2>2. faults' \in 0..MaxFaults /\ faults' \in Nat /\ (faults' = 0 => faults = 0)
    <3>1. faults \in Nat /\ MaxFaults \in Nat /\ faults \in 0..MaxFaults
      BY Numbers, CameraHalAssumption DEF TypeOK
    <3> QED
      BY <2>1, <3>1
  <2>3. Kept
    BY <1>1, <2>1 DEF Kept, Loaded
  <2>4. Program' /\ todo' # <<>> /\ Link(faults, todo[1], todo'[1]) /\ (NoFrees(todo) => NoFrees(todo'))
    BY <1>1, <1>3, <2>2, Onward, StepsDiffer
  <2>5. Counts'
    BY <1>1, <1>3, <2>1, <2>2, OnwardCounts
  <2>6. todo'[1] = Do("free preview buffers")
    BY <1>1, <2>4 DEF Link, After
  <2>7. Pictures'
    BY <1>1, <2>1, <2>6, HeadPictures, KeepsPictures, StepsDiffer DEF Pictures
  <2>8. Windowed'
    BY <1>1, Numbers DEF Windowed, Is
  <2>9. TypeOK'
    BY <1>1, <2>1, <2>2, <2>4, Numbers, Ongoing DEF TypeOK
  <2>10. ASSUME faults' = 0 PROVE PreviewHeads' /\ PreviewFlags'
    <3>1. PreviewHeads /\ PreviewFlags
      BY <2>2, <2>10, Numbers DEF Preview
    <3>2. \A c \in Commands : <<adapter, c>> \notin RollbackCommands
      <4>1. ASSUME NEW c \in Commands, <<adapter, c>> \in RollbackCommands, Refused(c) PROVE FALSE
        <5>1. Accepts(adapter, c)
          BY <4>1, RollbackSteps
        <5>2. faults \in Nat
          BY Numbers
        <5> QED
          BY <2>10, <4>1, <5>1, <5>2 DEF Refused
      <4> QED
        BY <1>3, <4>1
    <3>3. adapter \in Parked
      BY <3>2, Numbers DEF Parked, Stranded, TypeOK
    <3>4. (Seen' <=> Seen) /\ (Done' <=> Done) /\ (Loaded' <=> Loaded) /\ (InProgress' <=> InProgress)
          /\ (Waiting' <=> Waiting)
      BY <1>1, <2>1 DEF Seen, Done, Loaded, InProgress, Waiting, Is
    <3>5. PreviewHeads'
      BY <2>1, <2>6, <3>3, StepsDiffer DEF PreviewHeads, On, Picture, Parked
    <3>6. PreviewFlags'
      BY <1>1, <2>1, <2>4, <2>6, <3>1, <3>3, <3>4, StepsDiffer DEF PreviewFlags, On, Parked
    <3> QED
      BY <3>5, <3>6
  <2> QED
    BY <2>4, <2>5, <2>7, <2>8, <2>9, <2>10 DEF HalInv, Preview
<1> QED
  BY <1>2, <1>3 DEF Rollback

-----------------------------------------------------------------------------
(* The buffers of the preview and of pictures.                                *)

LEMMA Faulty ==
  ASSUME HalInv, faults' = faults \/ (faults < MaxFaults /\ faults' = faults + 1)
  PROVE  faults' \in 0..MaxFaults /\ faults' \in Nat /\ (faults' = 0 => faults = 0)
<1>1. faults \in Nat /\ MaxFaults \in Nat /\ faults \in 0..MaxFaults
  BY Numbers, CameraHalAssumption DEF TypeOK
<1> QED
  BY <1>1

LEMMA Failed ==
  ASSUME HalInv, faults < MaxFaults /\ faults' = faults + 1
  PROVE  faults' # 0
<1>1. faults \in Nat
  BY Numbers
<1> QED
  BY <1>1

LEMMA KeepsAllocPreviewBufs == ASSUME HalInv, AllocPreviewBufs PROVE HalInv'
<1>1. /\ todo # <<>> /\ todo[1] = Do("allocate preview buffers") /\ call' = call /\ calls' = calls
      /\ shot' = shot /\ adapter' = adapter /\ taken' = taken /\ flags' = flags /\ display' = display
      /\ tapout' = tapout /\ notifier' = notifier /\ mLock' = mLock /\ owed' = owed /\ misfreed' = misfreed
  BY Numbers DEF AllocPreviewBufs, Allocate, At, app, pics
<1>2. faults' \in 0..MaxFaults /\ faults' \in Nat /\ (faults' = 0 => faults = 0)
  BY Faulty DEF AllocPreviewBufs, Allocate
<1>3. Windowed'
  BY <1>1, Numbers DEF Windowed, Is
<1>4. CASE /\ buffers' = [buffers EXCEPT !["preview"] = IF @ = Nobody THEN display.made ELSE @]
           /\ todo' = Rest /\ ret' = ret /\ faults' = faults
  <2>1. /\ Program' /\ todo' # <<>> /\ Link(faults, todo[1], todo'[1])
        /\ Starts(todo[1]) => NoFrees(todo')
    BY <1>1, <1>2, <1>4, Onward, Numbers, StepsDiffer
  <2>2. Counts'
    BY <1>1, <1>2, <1>4, OnwardCounts, Numbers
  <2>3. todo'[1] = Must("USE_BUFFERS_PREVIEW")
    BY <1>1, <2>1 DEF Link, After
  <2>4. buffers'["image"] = buffers["image"]
    BY <1>4, BuffersAre
  <2>5. Pictures'
    <3>1. todo'[1] \notin {Do("allocate image buffers"), Must("USE_BUFFERS_IMAGE_CAPTURE")}
      BY <2>3, StepsDiffer
    <3> QED
      BY <1>1, <2>4, <3>1, HeadPictures, KeepsPictures DEF Pictures
  <2>6. display.made \in 0..MaxCalls
    BY Numbers DEF TypeOK
  <2>7. buffers' \in [Kinds -> {Nobody, MemoryMgr, Gralloc, Tap} \cup (1..MaxCalls)]
    <3>1. display.made \in {Nobody, MemoryMgr, Gralloc, Tap} \cup (1..MaxCalls)
      <4>1. MaxCalls \in Nat
        BY CameraHalAssumption
      <4> QED
        BY <2>6, <4>1 DEF Nobody
    <3> QED
      BY <1>4, <3>1, BuffersAre
  <2>8. ASSUME faults' = 0 PROVE PreviewHeads' /\ PreviewFlags'
    <3>1. PreviewHeads /\ PreviewFlags
      BY <1>2, <2>8, Numbers DEF Preview
    <3>2. ~Seen /\ ~Done /\ adapter = "INITIALIZED" /\ display.alive
      BY <1>1, <3>1 DEF PreviewHeads, On
    <3>3. display.made \in Nat /\ display.made > 0
      BY <3>2, Numbers DEF Windowed
    <3>4. Loaded'
      <4>1. buffers'["preview"] = IF buffers["preview"] = Nobody THEN display.made ELSE buffers["preview"]
        BY <1>4, BuffersAre
      <4> QED
        BY <3>3, <4>1 DEF Loaded, Nobody
    <3>5. (Seen' <=> Seen) /\ (Done' <=> Done) /\ (InProgress' <=> InProgress) /\ (Waiting' <=> Waiting)
      BY <1>1 DEF Seen, Done, InProgress, Waiting, Is
    <3>6. PreviewHeads'
      BY <1>1, <2>3, <3>2, <3>4, <3>5, StepsDiffer DEF PreviewHeads, On, Picture
    <3>7. Waiting => call # "sendCommand"
      BY <3>1 DEF PreviewFlags
    <3>8. PreviewFlags'
      BY <1>1, <2>1, <2>3, <3>2, <3>4, <3>5, <3>7, StepsDiffer DEF PreviewFlags, On
    <3> QED
      BY <3>6, <3>8
  <2>9. TypeOK'
    BY <1>1, <1>2, <1>4, <2>1, <2>7, Numbers, Ongoing DEF TypeOK
  <2> QED
    BY <1>3, <2>1, <2>2, <2>5, <2>8, <2>9 DEF HalInv, Preview
<1>5. CASE /\ faults < MaxFaults /\ faults' = faults + 1
           /\ todo' = OnError("allocate preview buffers") \o Return /\ ret' = "error"
           /\ buffers' = buffers
  <2>1. faults' # 0
    BY <1>5, Failed
  <2>2. Kept
    BY <1>1, <1>5 DEF Kept, Loaded
  <2>3. Program' /\ todo' # <<>> /\ Counts' /\ Pictures'
    BY <1>1, <1>2, <1>5, <2>1, <2>2, ErrorReturn
  <2>4. TypeOK'
    BY <1>1, <1>2, <1>5, <2>3, Numbers, Ongoing DEF TypeOK
  <2> QED
    BY <1>3, <2>1, <2>3, <2>4 DEF HalInv, Preview
<1> QED
  BY <1>4, <1>5 DEF AllocPreviewBufs, Allocate

LEMMA KeepsAllocImageBufs == ASSUME HalInv, AllocImageBufs PROVE HalInv'
<1>1. /\ todo # <<>> /\ todo[1] = Do("allocate image buffers") /\ call' = call /\ calls' = calls
      /\ shot' = shot /\ adapter' = adapter /\ flags' = flags /\ display' = display
      /\ tapout' = tapout /\ notifier' = notifier /\ mLock' = mLock /\ owed' = owed /\ misfreed' = misfreed
  BY Numbers DEF AllocImageBufs, Allocate, At, app, pics
<1>2. faults' \in 0..MaxFaults /\ faults' \in Nat /\ (faults' = 0 => faults = 0)
  BY Faulty DEF AllocImageBufs, Allocate
<1>3. Windowed'
  BY <1>1, Numbers DEF Windowed, Is
<1>4. CASE /\ buffers' = [buffers EXCEPT !["image"] = IF @ = Nobody THEN ImageAllocator ELSE @]
           /\ taken' = FALSE /\ todo' = Rest /\ ret' = ret /\ faults' = faults
  <2>1. Program' /\ todo' # <<>> /\ Link(faults, todo[1], todo'[1]) /\ (NoFrees(todo) => NoFrees(todo'))
    BY <1>1, <1>2, <1>4, Onward, Numbers, StepsDiffer
  <2>2. Counts'
    BY <1>1, <1>2, <1>4, OnwardCounts, Numbers
  <2>3. ImageAllocator \in {MemoryMgr, Tap} /\ ImageAllocator # Nobody
    BY DEF ImageAllocator, Nobody, MemoryMgr, Tap
  <2>4. /\ buffers'["preview"] = buffers["preview"] /\ buffers'["image"] # Nobody
        /\ buffers' \in [Kinds -> {Nobody, MemoryMgr, Gralloc, Tap} \cup (1..MaxCalls)]
    BY <1>4, <2>3, BuffersAre
  <2>5. adapter \in Asks
    BY <1>1, Numbers DEF PictureHeads, On
  <2>6. Pictures'
    BY <1>1, <2>4, <2>5, Numbers DEF Pictures, PictureHeads, PicturesHaveBuffers, Asks
  <2>7. Kept
    BY <1>1, <2>4 DEF Kept, Loaded
  <2>8. ASSUME faults' = 0 PROVE PreviewHeads' /\ PreviewFlags'
    <3>1. PreviewHeads /\ PreviewFlags /\ ~On(Loose)
      BY <1>1, <1>2, <2>8, Numbers, StepsDiffer DEF Preview, On, Loose
    <3>2. todo[1] \in Picture
      BY <1>1 DEF Picture
    <3>3. Seen \/ InProgress
      BY <1>1, <3>1, <3>2 DEF PreviewHeads, On
    <3>4. todo'[1] \notin Needs \/ todo'[1] \in Picture \ {Do("pause preview")}
      BY <2>1, <3>2, PictureLink
    <3> QED
      BY <1>1, <2>1, <2>7, <3>1, <3>3, <3>4, Quiet DEF Steady
  <2>9. TypeOK'
    BY <1>1, <1>2, <1>4, <2>1, <2>4, Numbers, Ongoing DEF TypeOK
  <2> QED
    BY <1>3, <2>1, <2>2, <2>6, <2>8, <2>9 DEF HalInv, Preview
<1>5. CASE /\ faults < MaxFaults /\ faults' = faults + 1
           /\ todo' = OnError("allocate image buffers") \o Return /\ ret' = "error"
           /\ buffers' = buffers /\ taken' = taken
  <2>1. faults' # 0
    BY <1>5, Failed
  <2>2. Kept
    BY <1>1, <1>5 DEF Kept, Loaded
  <2>3. Program' /\ todo' # <<>> /\ Counts' /\ Pictures'
    BY <1>1, <1>2, <1>5, <2>1, <2>2, ErrorReturn
  <2>4. TypeOK'
    BY <1>1, <1>2, <1>5, <2>3, Numbers, Ongoing DEF TypeOK
  <2> QED
    BY <1>3, <2>1, <2>3, <2>4 DEF HalInv, Preview
<1> QED
  BY <1>4, <1>5 DEF AllocImageBufs, Allocate

LEMMA KeepsFreePreviewBufs == ASSUME HalInv, FreePreviewBufs PROVE HalInv'
<1>1. /\ todo # <<>> /\ todo[1] = Do("free preview buffers") /\ todo' = Rest /\ call' = call /\ calls' = calls
      /\ shot' = shot /\ adapter' = adapter /\ flags' = flags /\ display' = display /\ faults' = faults
      /\ tapout' = tapout /\ notifier' = notifier /\ mLock' = mLock /\ owed' = owed /\ taken' = taken
      /\ ret' = ret /\ buffers' = [buffers EXCEPT !["preview"] = Nobody]
  BY Numbers DEF FreePreviewBufs, Goes, At, app, pics, taps
<1>2. misfreed' \in BOOLEAN
  BY Numbers DEF FreePreviewBufs, TypeOK
<1>3. /\ Program' /\ todo' # <<>> /\ Link(faults, todo[1], todo'[1])
  BY <1>1, Onward, Numbers, StepsDiffer
<1>4. Counts'
  BY <1>1, OnwardCounts, Numbers
<1>5. /\ buffers'["image"] = buffers["image"] /\ buffers'["preview"] = Nobody
      /\ buffers' \in [Kinds -> {Nobody, MemoryMgr, Gralloc, Tap} \cup (1..MaxCalls)]
  BY <1>1, BuffersAre
<1>6. Pictures'
  <2>1. todo[1] \notin {Must("QUERY_BUFFER_SIZE_IMAGE_CAPTURE"), Do("allocate image buffers")}
    BY <1>1, StepsDiffer
  <2> QED
    BY <1>1, <1>5, <2>1, OnwardPictures, KeepsPictures, Numbers DEF Pictures
<1>7. Windowed'
  BY <1>1, Numbers DEF Windowed, Is
<1>8. ASSUME faults' = 0 PROVE PreviewHeads' /\ PreviewFlags'
  <2>1. PreviewHeads /\ PreviewFlags
    BY <1>1, <1>8, Numbers DEF Preview
  <2>2. todo'[1] = Do("preview is off")
    BY <1>1, <1>3, <1>8 DEF Link, Calm, Frees
  <2>3. adapter \in Parked
    BY <1>1, <2>1 DEF PreviewHeads, On
  <2>4. ~Done /\ ~Waiting /\ adapter # "LOADED_CAPTURE" /\ (InProgress => Seen \/ adapter = "INITIALIZED")
    <3>1. ~NoFrees(todo)
      <4>1. todo \in Seq(Steps(faults))
        BY Numbers DEF Program, Wired
      <4>2. 1 \in 1..Len(todo)
        BY <1>1, <4>1, Nonempty
      <4> QED
        BY <1>1, <4>2 DEF NoFrees, Frees
    <3> QED
      BY <1>1, <2>1, <3>1, StepsDiffer DEF PreviewFlags, On
  <2>5. (Seen' <=> Seen) /\ (Done' <=> Done) /\ (InProgress' <=> InProgress) /\ (Waiting' <=> Waiting)
    BY <1>1 DEF Seen, Done, InProgress, Waiting, Is
  <2>6. PreviewHeads'
    BY <2>2, StepsDiffer DEF PreviewHeads, On, Picture
  <2>7. PreviewFlags'
    BY <1>1, <1>3, <1>5, <2>2, <2>3, <2>4, <2>5 DEF PreviewFlags, On, Parked
  <2> QED
    BY <2>6, <2>7
<1>9. TypeOK'
  BY <1>1, <1>2, <1>3, <1>5, Numbers, Ongoing DEF TypeOK
<1> QED
  BY <1>3, <1>4, <1>6, <1>7, <1>8, <1>9 DEF HalInv, Preview

-----------------------------------------------------------------------------
(* The initialization of the preview.                                         *)

LEMMA RestOf ==
  ASSUME Program, faults \in Nat, todo # <<>>, todo[1][1] # "end", NEW r, r = Rest
  PROVE  /\ Wired(faults, r) /\ Ended(r, call) /\ r # <<>> /\ Link(faults, todo[1], r[1])
         /\ Starts(todo[1]) => NoFrees(r)
         /\ NoShots(todo) => NoShots(r)
<1>1. todo \in Seq(Steps(faults)) /\ Len(todo) \in Nat /\ Len(todo) > 0 /\ Wired(faults, todo) /\
      Ended(todo, call)
  BY DEF Program, Wired
<1>2. Len(todo) > 1
  <2>1. todo[Len(todo)][1] = "end"
    BY <1>1 DEF Ended, End
  <2> QED
    BY <1>1, <2>1
<1>3. Cut(r, todo, 2)
  BY <1>1, <1>2, TailIsSubSeq DEF Rest, Cut
<1>4. /\ Wired(faults, r) /\ Ended(r, call) /\ r # <<>> /\ r[1] = todo[2]
      /\ \A i \in 1..Len(r) : \E j \in 2..Len(todo) : r[i] = todo[j]
  BY <1>1, <1>3, Suffix
<1>5. Link(faults, todo[1], r[1])
  <2>1. 1 \in 1..Len(todo) - 1 /\ 1 + 1 = 2
    BY <1>1, <1>2
  <2> QED
    BY <1>1, <1>4, <2>1 DEF Wired
<1>6. \A j \in 2..Len(todo) : Apart(todo[1], todo[j])
  BY <1>1 DEF Wired
<1>7. Starts(todo[1]) => NoFrees(r)
  BY <1>1, <1>4, <1>6 DEF NoFrees, Apart
<1>8. NoShots(todo) => NoShots(r)
  BY <1>1, <1>4 DEF NoShots
<1> QED
  BY <1>4, <1>5, <1>7, <1>8

LEMMA DoesNotEnd == \A x : Do(x)[1] # "end"
BY DEF Do

Whole(u, s, r) ==
  /\ u # <<>> /\ u[1] = s[1] /\ u[Len(u)] = r[Len(r)] /\ (Len(s) > 1 => u[2] = s[2])
  /\ \A i \in 1..Len(u) : (\E j \in 1..Len(s) : u[i] = s[j]) \/ (\E j \in 1..Len(r) : u[i] = r[j])

LEMMA Joint ==
  ASSUME NEW n, NEW s, NEW r, Wired(n, s), Wired(n, r), s # <<>>, r # <<>>, NEW u, Glue(u, s, r)
  PROVE  Whole(u, s, r)
<1> DEFINE S == Steps(n)
<1>7. s \in Seq(S) /\ r \in Seq(S)
  BY DEF Wired
<1> HIDE DEF S
<1>1. Len(s) \in Nat /\ Len(r) \in Nat /\ Len(s) > 0 /\ Len(r) > 0
  BY <1>7
<1>2. u \in Seq(S) /\ Len(u) = Len(s) + Len(r)
  BY <1>7 DEF Glue
<1>3. /\ \A i \in 1..Len(s) : u[i] = s[i]
      /\ \A i \in Len(s) + 1..Len(s) + Len(r) : u[i] = r[i - Len(s)]
  BY <1>7 DEF Glue
<1>4. Len(u) \in Len(s) + 1..Len(s) + Len(r) /\ Len(u) - Len(s) = Len(r) /\ 1 \in 1..Len(s)
      /\ (Len(s) > 1 => 2 \in 1..Len(s))
  BY <1>1, <1>2
<1>5. u # <<>>
  BY <1>1, <1>2
<1>6. \A i \in 1..Len(u) : (\E j \in 1..Len(s) : u[i] = s[j]) \/ (\E j \in 1..Len(r) : u[i] = r[j])
  <2> TAKE i \in 1..Len(u)
  <2>1. i \in 1..Len(s) \/ (i \in Len(s) + 1..Len(s) + Len(r) /\ i - Len(s) \in 1..Len(r))
    BY <1>1, <1>2
  <2> QED
    BY <1>3, <2>1
<1> QED
  BY <1>3, <1>4, <1>5, <1>6 DEF Whole

(* Buffers for the preview, ahead of what was left of the call.               *)
LEMMA Buffering ==
  ASSUME Program, faults \in Nat, todo # <<>>, todo[1] = Do("initialization"),
         NEW s, Wired(faults, s), s # <<>>, s[Len(s)] = Do("start callbacks"),
         \A i \in 1..Len(s) : Within({"starts"}, s[i]),
         todo' = s \o Rest, call' = call, faults' = faults
  PROVE  /\ Program' /\ todo' # <<>> /\ todo'[1] = s[1]
         /\ NoShots(todo) => NoShots(todo')
         /\ Len(s) > 1 => todo'[2] = s[2]
<1> DEFINE r == Rest
<1>1. todo[1][1] # "end" /\ Starts(todo[1])
  BY DoesNotEnd DEF Starts
<1>2. /\ Wired(faults, r) /\ Ended(r, call) /\ r # <<>> /\ Link(faults, todo[1], r[1])
      /\ NoFrees(r) /\ (NoShots(todo) => NoShots(r))
  BY <1>1, RestOf
<1> HIDE DEF r
<1>3. r[1] \in {Do("initialized"), End("sendCommand")}
  BY <1>2 DEF Link, After
<1>4. Link(faults, s[Len(s)], r[1])
  <2>1. r[1] \notin Needs
    BY <1>3, StepsDiffer DEF Needs, Picture
  <2>2. Before(s[Len(s)], r[1])
    BY <2>1 DEF Before, Needs, Picture
  <2>3. After(s[Len(s)], r[1]) /\ Calm(faults, s[Len(s)], r[1])
    BY <1>3, StepsDiffer DEF After, Calm, Frees
  <2> QED
    BY <2>2, <2>3 DEF Link
<1>5. \A i \in 1..Len(s), j \in 1..Len(r) : Apart(s[i], r[j])
  BY <1>2 DEF Within, Apart, NoFrees
<1> DEFINE u == s \o r
<1>6. Wired(faults, u)
  BY <1>2, <1>4, <1>5, Linked
<1>7. s \in Seq(Steps(faults)) /\ r \in Seq(Steps(faults))
  BY <1>2 DEF Wired
<1>8. todo' = u /\ Glue(u, s, r)
  BY DEF r, Glue
<1> HIDE DEF u
<1>9. /\ u # <<>> /\ u[1] = s[1] /\ u[Len(u)] = r[Len(r)] /\ (Len(s) > 1 => u[2] = s[2])
      /\ \A i \in 1..Len(u) : (\E j \in 1..Len(s) : u[i] = s[j]) \/ (\E j \in 1..Len(r) : u[i] = r[j])
  <2>1. r # <<>> /\ Glue(u, s, r)
    BY <1>2, <1>8
  <2> QED
    <3>1. Whole(u, s, r)
      BY <1>2, <2>1, Joint
    <3> QED
      BY <3>1 DEF Whole
<1>10. Ended(u, call)
  BY <1>2, <1>9 DEF Ended
<1>11. NoShots(todo) => NoShots(u)
  <2>1. \A i \in 1..Len(s) : ~Shoots(s[i])
    BY DEF Within
  <2> QED
    BY <1>2, <1>9, <2>1 DEF NoShots
<1> QED
  BY <1>6, <1>8, <1>9, <1>10, <1>11 DEF Program

(* What is true where the initialization begins.                              *)
LEMMA AtInitialization ==
  ASSUME PreviewFlags, todo # <<>>, todo[1] = Do("initialization")
  PROVE  /\ Settled /\ (Done => NoFrees(todo)) /\ (Done => ~InProgress)
         /\ Waiting => call # "sendCommand"
<1>1. /\ todo[1] \notin {Do("rollback"), Do("free preview buffers"), Do("preview is off"),
                         Do("start callbacks"), Must("START_PREVIEW"), Do("preview is on"), Do("initialized"),
                         Must("START_IMAGE_CAPTURE"), Must("START_BRACKET_CAPTURE")}
  BY StepsDiffer
<1> QED
  BY <1>1 DEF PreviewFlags, On, Settled

LEMMA AfterInitialization ==
  ASSUME NEW n, NEW b, Link(n, Do("initialization"), b)
  PROVE  b \in {Do("initialized"), End("sendCommand")} /\ b \notin Needs
<1>1. b \in {Do("initialized"), End("sendCommand")}
  BY DEF Link, After
<1> QED
  BY <1>1, StepsDiffer DEF Needs, Picture

(* A step that changes nothing but what is left of the call.                  *)
LEMMA Resting ==
  ASSUME HalInv, todo # <<>>, UNCHANGED <<adapter, hal, mLock, ret, app, faults, pics, misfreed>>,
         Program', todo' # <<>>, NoShots(todo) => NoShots(todo'),
         todo'[1] \notin {Do("allocate image buffers"), Must("USE_BUFFERS_IMAGE_CAPTURE")},
         faults = 0 => PreviewHeads' /\ PreviewFlags'
  PROVE  HalInv'
<1>1. /\ adapter' = adapter /\ flags' = flags /\ buffers' = buffers /\ display' = display /\ tapout' = tapout
      /\ taken' = taken /\ notifier' = notifier /\ mLock' = mLock /\ ret' = ret /\ call' = call
      /\ calls' = calls /\ faults' = faults /\ shot' = shot /\ owed' = owed /\ misfreed' = misfreed
  BY DEF hal, taps, app, pics
<1>2. Counts'
  BY <1>1, Numbers DEF Counts
<1>3. Pictures'
  BY <1>1, HeadPictures, KeepsPictures DEF Pictures
<1>4. Windowed'
  BY <1>1, Numbers DEF Windowed, Is
<1>5. Preview'
  BY <1>1 DEF Preview
<1>6. TypeOK'
  BY <1>1, Numbers, Ongoing DEF TypeOK
<1> QED
  BY <1>2, <1>3, <1>4, <1>5, <1>6 DEF HalInv

LEMMA Pair == ASSUME NEW a, NEW b PROVE <<a>> \o <<b>> = <<a, b>>
<1> DEFINE S == {a, b}
           s == <<a>>
           t == <<b>>
           u == <<a, b>>
<1>1. s \in Seq(S) /\ t \in Seq(S) /\ u \in Seq(S) /\ Len(s) = 1 /\ Len(t) = 1 /\ Len(u) = 2
  OBVIOUS
<1>2. s[1] = a /\ t[1] = b /\ u[1] = a /\ u[2] = b
  OBVIOUS
<1> DEFINE v == s \o t
<1> HIDE DEF S, s, t, u
<1>6. /\ v \in Seq(S) /\ Len(v) = Len(s) + Len(t)
      /\ \A i \in 1..Len(s) + Len(t) : v[i] = IF i <= Len(s) THEN s[i] ELSE t[i - Len(s)]
  BY <1>1, ConcatProperties
<1> HIDE DEF v
<1>3. v \in Seq(S) /\ Len(v) = 2 /\ v[1] = a /\ v[2] = b
  BY <1>1, <1>2, <1>6
<1>4. Len(v) = Len(u) /\ \A i \in 1..Len(v) : v[i] = u[i]
  BY <1>1, <1>2, <1>3
<1>5. v = u
  BY <1>1, <1>3, <1>4, SeqEqual
<1> QED
  BY <1>5 DEF v, s, t, u

LEMMA Quadruple == ASSUME NEW a, NEW b, NEW c, NEW d PROVE <<a>> \o <<b, c, d>> = <<a, b, c, d>>
<1> DEFINE S == {a, b, c, d}
           s == <<a>>
           t == <<b, c, d>>
           u == <<a, b, c, d>>
<1>1. s \in Seq(S) /\ t \in Seq(S) /\ u \in Seq(S) /\ Len(s) = 1 /\ Len(t) = 3 /\ Len(u) = 4
  OBVIOUS
<1>2. /\ s[1] = a /\ t[1] = b /\ t[2] = c /\ t[3] = d
      /\ u[1] = a /\ u[2] = b /\ u[3] = c /\ u[4] = d
  OBVIOUS
<1> DEFINE v == s \o t
<1> HIDE DEF S, s, t, u
<1>6. /\ v \in Seq(S) /\ Len(v) = Len(s) + Len(t)
      /\ \A i \in 1..Len(s) + Len(t) : v[i] = IF i <= Len(s) THEN s[i] ELSE t[i - Len(s)]
  BY <1>1, ConcatProperties
<1> HIDE DEF v
<1>3. v \in Seq(S) /\ Len(v) = 4 /\ v[1] = a /\ v[2] = b /\ v[3] = c /\ v[4] = d
  BY <1>1, <1>2, <1>6
<1>4. Len(v) = Len(u) /\ \A i \in 1..Len(v) : v[i] = u[i]
  BY <1>1, <1>2, <1>3
<1>5. v = u
  BY <1>1, <1>3, <1>4, SeqEqual
<1> QED
  BY <1>5 DEF v, s, t, u

LEMMA ShortOnes ==
  /\ \A a, b : <<a>> \o <<b>> = <<a, b>>
  /\ \A a : <<>> \o <<a>> = <<a>>
<1>1. \A a : <<>> \o <<a>> = <<a>>
  OBVIOUS
<1> QED
  BY <1>1, Pair

LEMMA LongerOnes ==
  ASSUME NEW a, NEW b, NEW c, NEW d
  PROVE  /\ <<a, b>> # <<>> /\ Len(<<a, b>>) > 1 /\ <<a, b>>[1] = a /\ <<a, b>>[2] = b
         /\ <<a, b, c, d>> # <<>> /\ Len(<<a, b, c, d>>) > 1 /\ <<a, b, c, d>>[1] = a
         /\ <<a, b, c, d>>[2] = b /\ <<a, b, c, d>>[Len(<<a, b, c, d>>)] = d /\ 1..Len(<<a, b, c, d>>) = 1..4
OBVIOUS

LEMMA PreviewInitializationIs ==
  ASSUME HalInv
  PROVE  /\ ~display.alive /\ (InProgress \/ Is("mDisplayPaused"))
              => PreviewInitialization = <<Do("wait for window")>>
         /\ ~display.alive /\ ~(InProgress \/ Is("mDisplayPaused"))
              => PreviewInitialization = <<Must("QUERY_RESOLUTION_PREVIEW"), Do("wait for window")>>
         /\ display.alive /\ Is("mDisplayPaused")
              => PreviewInitialization = <<Do("resume display"), Do("lock"), Do("end capture"), Do("unlock")>>
         /\ display.alive /\ ~Is("mDisplayPaused") /\ InProgress
              => PreviewInitialization =
                   <<Do("allocate preview buffers"), Must("USE_BUFFERS_PREVIEW"), Do("start callbacks")>>
         /\ display.alive /\ ~Is("mDisplayPaused") /\ ~InProgress
              => PreviewInitialization =
                   <<Must("QUERY_RESOLUTION_PREVIEW"), Do("allocate preview buffers"),
                     Must("USE_BUFFERS_PREVIEW"), Do("start callbacks")>>
<1>1. display.alive => Is("mSetPreviewWindowCalled")
  BY Numbers DEF Windowed
<1> DEFINE a == Do("wait for window")
           b == Must("QUERY_RESOLUTION_PREVIEW")
           c == Do("resume display")
           d == Do("lock")
           e == Do("end capture")
           f == Do("unlock")
           g == Do("allocate preview buffers")
           h == Must("USE_BUFFERS_PREVIEW")
           k == Do("start callbacks")
<1>2. PreviewInitialization =
        (IF InProgress \/ Is("mDisplayPaused") THEN <<>> ELSE <<b>>)
        \o IF ~display.alive THEN <<a>>
           ELSE IF Is("mDisplayPaused") THEN <<c>> \o <<d, e, f>>
           ELSE <<g, h, k>>
  BY <1>1 DEF PreviewInitialization, InProgress, ResumePreview, SignalEndImageCapture
<1> HIDE DEF a, b, c, d, e, f, g, h, k
<1>3. /\ <<>> \o <<a>> = <<a>> /\ <<b>> \o <<a>> = <<b, a>> /\ <<c>> \o <<d, e, f>> = <<c, d, e, f>>
      /\ <<>> \o <<g, h, k>> = <<g, h, k>> /\ <<b>> \o <<g, h, k>> = <<b, g, h, k>>
      /\ <<>> \o <<c, d, e, f>> = <<c, d, e, f>>
  <2>1. <<>> \o <<a>> = <<a>> /\ <<b>> \o <<a>> = <<b, a>>
    BY ShortOnes, Zenon
  <2>2. <<c>> \o <<d, e, f>> = <<c, d, e, f>>
    BY Quadruple
  <2>3. <<b>> \o <<g, h, k>> = <<b, g, h, k>>
    BY Quadruple
  <2>4. <<>> \o <<g, h, k>> = <<g, h, k>>
    OBVIOUS
  <2>5. <<>> \o <<c, d, e, f>> = <<c, d, e, f>>
    OBVIOUS
  <2> QED
    BY <2>1, <2>2, <2>3, <2>4, <2>5, Zenon
<1> DEFINE P == PreviewInitialization
<1> HIDE DEF P
<1>4. /\ ~display.alive /\ (InProgress \/ Is("mDisplayPaused")) => P = <<a>>
      /\ ~display.alive /\ ~(InProgress \/ Is("mDisplayPaused")) => P = <<b, a>>
      /\ display.alive /\ Is("mDisplayPaused") => P = <<c, d, e, f>>
      /\ display.alive /\ ~Is("mDisplayPaused") /\ InProgress => P = <<g, h, k>>
      /\ display.alive /\ ~Is("mDisplayPaused") /\ ~InProgress => P = <<b, g, h, k>>
  BY <1>2, <1>3 DEF P
<1> QED
  BY <1>4 DEF P, a, b, c, d, e, f, g, h, k

LEMMA Flagless ==
  ASSUME UNCHANGED <<adapter, hal, mLock, ret, app, faults, pics, misfreed>>
  PROVE  /\ Kept /\ Steady /\ adapter' = adapter /\ (Seen' <=> Seen) /\ (Done' <=> Done)
         /\ (InProgress' <=> InProgress) /\ (Waiting' <=> Waiting) /\ (Loaded' <=> Loaded)
         /\ display' = display /\ call' = call /\ faults' = faults
         /\ (Settled => Settled')
<1>1. adapter' = adapter /\ flags' = flags /\ buffers' = buffers /\ display' = display /\ call' = call
      /\ faults' = faults
  BY DEF hal, app
<1>2. (Seen' <=> Seen) /\ (Done' <=> Done) /\ (InProgress' <=> InProgress) /\ (Loaded' <=> Loaded)
  BY <1>1 DEF Seen, Done, InProgress, Loaded, Is
<1>3. Waiting' <=> Waiting
  BY <1>1, <1>2 DEF Waiting
<1>4. Kept /\ Steady
  BY <1>1, <1>2 DEF Kept, Steady
<1>5. Settled => Settled'
  BY <1>1, <1>2 DEF Settled, Parked
<1> QED
  BY <1>1, <1>2, <1>3, <1>4, <1>5

(* The first step of the initialization.                                      *)
LEMMA Initializes ==
  ASSUME HalInv, todo # <<>>, todo[1] = Do("initialization"), ~Done, ~Is("mPreviewEnabled"),
         todo' = PreviewInitialization \o Rest,
         UNCHANGED <<adapter, hal, mLock, ret, app, faults, pics, misfreed>>
  PROVE  /\ Program' /\ todo' # <<>> /\ (NoShots(todo) => NoShots(todo'))
         /\ \/ todo'[1] = Do("wait for window") /\ ~display.alive /\ (InProgress \/ Is("mDisplayPaused"))
            \/ /\ todo'[1] = Must("QUERY_RESOLUTION_PREVIEW") /\ todo'[2] = Do("wait for window")
               /\ ~display.alive /\ ~InProgress /\ ~Is("mDisplayPaused")
            \/ todo'[1] = Do("resume display") /\ Is("mDisplayPaused")
            \/ /\ todo'[1] = Do("allocate preview buffers") /\ display.alive /\ ~Is("mDisplayPaused")
               /\ InProgress
            \/ /\ todo'[1] = Must("QUERY_RESOLUTION_PREVIEW") /\ todo'[2] = Do("allocate preview buffers")
               /\ display.alive /\ ~InProgress /\ ~Is("mDisplayPaused")
<1>1. faults \in Nat /\ faults' = faults /\ call' = call /\ Program
  BY Numbers, Flagless
<1>2. todo[1][1] # "end" /\ \A b \in Needs : ~Link(faults, todo[1], b)
  BY DoesNotEnd, AfterInitialization
<1> DEFINE P == PreviewInitialization
           r == Rest
<1>3. todo' = P \o r /\ Glue(todo', P, r)
  BY DEF Glue
<1>4. Wired(faults, r) /\ r # <<>>
  BY <1>1, <1>2, RestOf
<1> HIDE DEF P, r
<1>5. ASSUME Ahead(faults, P, {}), P # <<>>
      PROVE  Program' /\ todo' # <<>> /\ (NoShots(todo) => NoShots(todo')) /\ todo'[1] = P[1]
             /\ (Len(P) > 1 => todo'[2] = P[2])
  <2>1. todo' = P \o Rest
    BY <1>3 DEF r
  <2>0. "shoots" \notin {} /\ "starts" \notin {} /\ todo # <<>>
    OBVIOUS
  <2>2. Program' /\ todo' # <<>> /\ (NoShots(todo) => NoShots(todo')) /\ todo'[1] = P[1]
    BY SMTT(30), <1>1, <1>2, <1>5, <2>0, <2>1, Expanded
  <2>3. Whole(todo', P, r)
    BY <1>3, <1>4, <1>5, Joint DEF Ahead
  <2> QED
    BY <2>2, <2>3 DEF Whole
<1>6. ASSUME Wired(faults, P), P # <<>>, P[Len(P)] = Do("start callbacks"),
             \A i \in 1..Len(P) : Within({"starts"}, P[i])
      PROVE  Program' /\ todo' # <<>> /\ (NoShots(todo) => NoShots(todo')) /\ todo'[1] = P[1]
             /\ (Len(P) > 1 => todo'[2] = P[2])
  <2>1. todo' = P \o Rest
    BY <1>3 DEF r
  <2> QED
    BY <1>1, <1>6, <2>1, Buffering
<1>7. CASE ~display.alive /\ (InProgress \/ Is("mDisplayPaused"))
  <2>1. P = <<Do("wait for window")>>
    BY <1>7, PreviewInitializationIs DEF P
  <2>2. Ahead(faults, P, {}) /\ P # <<>> /\ P[1] = Do("wait for window")
    BY <1>1, <2>1, AheadWait
  <2> QED
    BY <1>5, <1>7, <2>2
<1>8. CASE ~display.alive /\ ~(InProgress \/ Is("mDisplayPaused"))
  <2>1. P = <<Must("QUERY_RESOLUTION_PREVIEW"), Do("wait for window")>>
    BY <1>8, PreviewInitializationIs DEF P
  <2>2. Ahead(faults, P, {})
    BY <1>1, <2>1, AheadQueryWait
  <2>3. P # <<>> /\ P[1] = Must("QUERY_RESOLUTION_PREVIEW") /\ P[2] = Do("wait for window")
    BY <2>1
  <2>4. Len(P) > 1
    BY <2>1, LongerOnes, Zenon
  <2>5. /\ Program' /\ todo' # <<>> /\ (NoShots(todo) => NoShots(todo'))
        /\ todo'[1] = P[1] /\ todo'[2] = P[2]
    BY <1>5, <2>2, <2>3, <2>4
  <2> QED
    BY <1>8, <2>3, <2>5
<1>9. CASE display.alive /\ Is("mDisplayPaused")
  <2>1. P = <<Do("resume display"), Do("lock"), Do("end capture"), Do("unlock")>>
    BY <1>9, PreviewInitializationIs DEF P
  <2>2. Ahead(faults, P, {}) /\ P # <<>> /\ P[1] = Do("resume display")
    BY <1>1, <2>1, AheadResume
  <2> QED
    BY <1>5, <1>9, <2>2
<1>10. CASE display.alive /\ ~Is("mDisplayPaused") /\ InProgress
  <2>1. P = <<Do("allocate preview buffers"), Must("USE_BUFFERS_PREVIEW"), Do("start callbacks")>>
    BY <1>10, PreviewInitializationIs DEF P
  <2>2. Wired(faults, P) /\ \A i \in 1..3 : Within({"starts"}, P[i])
    BY <1>1, <2>1, WiredBuffers
  <2>3. P # <<>> /\ P[1] = Do("allocate preview buffers") /\ P[3] = Do("start callbacks") /\ Len(P) = 3
    BY <2>1
  <2> QED
    BY <1>6, <1>10, <2>2, <2>3
<1>11. CASE display.alive /\ ~Is("mDisplayPaused") /\ ~InProgress
  <2>1. P = <<Must("QUERY_RESOLUTION_PREVIEW"), Do("allocate preview buffers"), Must("USE_BUFFERS_PREVIEW"),
              Do("start callbacks")>>
    BY <1>11, PreviewInitializationIs DEF P
  <2>2. Wired(faults, P) /\ \A i \in 1..4 : Within({"starts"}, P[i])
    BY <1>1, <2>1, WiredQueryBuffers
  <2>3. P # <<>> /\ P[1] = Must("QUERY_RESOLUTION_PREVIEW") /\ P[2] = Do("allocate preview buffers")
    BY <2>1
  <2>4. Len(P) > 1 /\ P[Len(P)] = Do("start callbacks") /\ 1..Len(P) = 1..4
    BY <2>1, LongerOnes, Zenon
  <2>5. /\ Program' /\ todo' # <<>> /\ (NoShots(todo) => NoShots(todo'))
        /\ todo'[1] = P[1] /\ todo'[2] = P[2]
    BY <1>6, <2>2, <2>3, <2>4
  <2> QED
    BY <1>11, <2>3, <2>5
<1> QED
  BY <1>7, <1>8, <1>9, <1>10, <1>11

LEMMA KeepsInitialization == ASSUME HalInv, Initialization PROVE HalInv'
<1>1. /\ todo # <<>> /\ todo[1] = Do("initialization")
      /\ UNCHANGED <<adapter, hal, mLock, ret, app, faults, pics, misfreed>>
      /\ IF Done THEN todo' = Rest
         ELSE IF Is("mPreviewEnabled") THEN todo' = Return
         ELSE todo' = PreviewInitialization \o Rest
  BY Numbers DEF Initialization, At, Done
<1>2. /\ Kept /\ Steady /\ adapter' = adapter /\ (Seen' <=> Seen) /\ (Done' <=> Done)
      /\ (InProgress' <=> InProgress) /\ (Waiting' <=> Waiting) /\ (Loaded' <=> Loaded)
      /\ display' = display /\ call' = call /\ faults' = faults /\ (Settled => Settled')
  BY <1>1, Flagless
<1>3. faults' \in Nat /\ (faults' = 0 => faults = 0)
  BY <1>2, Numbers
<1>4. ASSUME faults = 0
      PROVE  PreviewFlags /\ Settled /\ (Done => NoFrees(todo)) /\ (Done => ~InProgress)
             /\ (Waiting => call # "sendCommand")
  BY <1>1, <1>4, Numbers, AtInitialization DEF Preview
<1>5. CASE Done
  <2>1. Program' /\ todo' # <<>> /\ Link(faults, todo[1], todo'[1])
        /\ (NoShots(todo) => NoShots(todo')) /\ (NoFrees(todo) => NoFrees(todo'))
    BY <1>1, <1>2, <1>3, <1>5, Onward, StepsDiffer
  <2>2. todo'[1] \in {Do("initialized"), End("sendCommand")} /\ todo'[1] \notin Needs
    BY <1>1, <2>1, AfterInitialization
  <2>3. todo'[1] \notin {Do("allocate image buffers"), Must("USE_BUFFERS_IMAGE_CAPTURE")}
    BY <2>2, StepsDiffer
  <2>4. ASSUME faults = 0 PROVE PreviewHeads' /\ PreviewFlags'
    <3>1. ~Waiting
      BY <1>4, <1>5, <2>4 DEF Waiting
    <3> QED
      BY <1>2, <1>4, <1>5, <2>1, <2>2, <2>4, <3>1, QuietSettled
  <2> QED
    BY <1>1, <2>1, <2>3, <2>4, Resting
<1>6. CASE ~Done /\ Is("mPreviewEnabled")
  <2>1. Program' /\ todo' # <<>> /\ todo'[1] \notin Needs
        /\ (NoShots(todo) => NoShots(todo'))
    BY <1>1, <1>2, <1>3, <1>6, Homeward
  <2>2. todo'[1] \notin {Do("allocate image buffers"), Must("USE_BUFFERS_IMAGE_CAPTURE")}
    BY <2>1 DEF Needs, Picture
  <2>3. ASSUME faults = 0 PROVE PreviewHeads' /\ PreviewFlags'
    <3>1. ~Waiting
      BY <1>6 DEF Waiting, Seen
    <3> QED
      BY <1>2, <1>4, <1>6, <2>1, <2>3, <3>1, QuietSettled
  <2> QED
    BY <1>1, <2>1, <2>2, <2>3, Resting
<1>7. CASE ~Done /\ ~Is("mPreviewEnabled")
  <2>1. /\ Program' /\ todo' # <<>> /\ (NoShots(todo) => NoShots(todo'))
        /\ \/ todo'[1] = Do("wait for window") /\ ~display.alive /\ (InProgress \/ Is("mDisplayPaused"))
           \/ /\ todo'[1] = Must("QUERY_RESOLUTION_PREVIEW") /\ todo'[2] = Do("wait for window")
              /\ ~display.alive /\ ~InProgress /\ ~Is("mDisplayPaused")
           \/ todo'[1] = Do("resume display") /\ Is("mDisplayPaused")
           \/ /\ todo'[1] = Do("allocate preview buffers") /\ display.alive /\ ~Is("mDisplayPaused")
              /\ InProgress
           \/ /\ todo'[1] = Must("QUERY_RESOLUTION_PREVIEW") /\ todo'[2] = Do("allocate preview buffers")
              /\ display.alive /\ ~InProgress /\ ~Is("mDisplayPaused")
    BY <1>1, <1>7, Initializes
  <2>2. todo'[1] \notin {Do("allocate image buffers"), Must("USE_BUFFERS_IMAGE_CAPTURE")}
    <3>1. Must("QUERY_RESOLUTION_PREVIEW") # Must("USE_BUFFERS_IMAGE_CAPTURE")
      BY StepsDiffer
    <3> QED
      BY <2>1, <3>1, StepsDiffer
  <2>3. ASSUME faults = 0 PROVE PreviewHeads' /\ PreviewFlags'
    <3>1. Seen <=> Is("mDisplayPaused")
      BY <1>7 DEF Seen
    <3>2. Settled' /\ ~Done' /\ (Waiting' => call' # "sendCommand")
          /\ (InProgress' => Seen' \/ adapter' = "INITIALIZED")
      BY <1>2, <1>4, <1>7, <2>3 DEF Settled
    <3>3. CASE todo'[1] = Do("wait for window") /\ ~display.alive /\ (InProgress \/ Is("mDisplayPaused"))
      <4>1. ~Waiting'
        BY <1>2, <3>3 DEF Waiting
      <4>2. PreviewFlags'
        BY <3>2, <4>1, FlagsAtRest
      <4>3. PreviewHeads'
        BY <1>2, <2>1, <3>1, <3>2, <3>3, StepsDiffer DEF PreviewHeads, On, Picture
      <4> QED
        BY <4>2, <4>3
    <3>4. CASE /\ todo'[1] = Must("QUERY_RESOLUTION_PREVIEW") /\ ~InProgress /\ ~Is("mDisplayPaused")
               /\ \/ todo'[2] = Do("wait for window") /\ ~display.alive
                  \/ todo'[2] = Do("allocate preview buffers") /\ display.alive
      <4>1. ~Waiting'
        BY <1>2, <3>4 DEF Waiting
      <4>2. PreviewFlags'
        BY <3>2, <4>1, FlagsAtRest
      <4>3. todo'[1] \notin Picture /\ todo'[1] \notin {Must("USE_BUFFERS_PREVIEW"), Must("START_PREVIEW")}
        <5>1. \A x \in {"QUERY_BUFFER_SIZE_IMAGE_CAPTURE", "USE_BUFFERS_IMAGE_CAPTURE", "START_IMAGE_CAPTURE",
                        "START_BRACKET_CAPTURE", "USE_BUFFERS_PREVIEW", "START_PREVIEW"} :
                Must("QUERY_RESOLUTION_PREVIEW") # Must(x)
          BY StepsDiffer
        <5> QED
          BY <3>4, <5>1, StepsDiffer DEF Picture
      <4>4. PreviewHeads'
        BY <1>2, <2>1, <3>1, <3>2, <3>4, <4>3, StepsDiffer DEF PreviewHeads, On
      <4> QED
        BY <4>2, <4>4
    <3>5. CASE todo'[1] = Do("resume display") /\ Is("mDisplayPaused")
      <4>1. ~Waiting' /\ Seen'
        BY <1>2, <3>1, <3>5 DEF Waiting
      <4>2. PreviewFlags'
        BY <3>2, <4>1, FlagsAtRest
      <4>3. PreviewHeads'
        BY <3>5, <4>1, StepsDiffer DEF PreviewHeads, On, Picture
      <4> QED
        BY <4>2, <4>3
    <3>6. CASE /\ todo'[1] = Do("allocate preview buffers") /\ display.alive /\ ~Is("mDisplayPaused")
               /\ InProgress
      <4>1. ~Seen' /\ adapter' = "INITIALIZED" /\ display'.alive
        BY <1>2, <3>1, <3>2, <3>6
      <4>2. PreviewFlags'
        BY <2>1, <3>2, <3>6, <4>1, StepsDiffer DEF PreviewFlags, Settled, On
      <4>3. PreviewHeads'
        BY <3>2, <3>6, <4>1, StepsDiffer DEF PreviewHeads, On, Picture
      <4> QED
        BY <4>2, <4>3
    <3> QED
      BY <2>1, <3>3, <3>4, <3>5, <3>6
  <2> QED
    BY <1>1, <2>1, <2>2, <2>3, Resting
<1> QED
  BY <1>1, <1>5, <1>6, <1>7

-----------------------------------------------------------------------------
(* The steps that set flags.                                                  *)

LEMMA Flagging ==
  ASSUME HalInv, todo # <<>>, NEW x, todo[1] = Do(x), todo' = Rest, x # "allocate image buffers",
         UNCHANGED <<adapter, buffers, taps, mLock, ret, app, faults, pics, misfreed>>,
         flags' \subseteq Flags, notifier' \subseteq {"started", "previewing", "recording"},
         display' \in [made : 0..MaxCalls, alive : BOOLEAN, on : BOOLEAN, paused : BOOLEAN],
         display'.alive = display.alive /\ display'.made = display.made,
         "mSetPreviewWindowCalled" \in flags => "mSetPreviewWindowCalled" \in flags',
         faults = 0 => PreviewHeads' /\ PreviewFlags'
  PROVE  HalInv'
<1>1. /\ adapter' = adapter /\ buffers' = buffers /\ tapout' = tapout
      /\ taken' = taken /\ mLock' = mLock /\ ret' = ret /\ call' = call
      /\ calls' = calls /\ faults' = faults /\ shot' = shot /\ owed' = owed /\ misfreed' = misfreed
  BY DEF taps, app, pics
<1>2. faults' \in Nat /\ (faults' = 0 => faults = 0)
  BY <1>1, Numbers
<1>3. Program' /\ todo' # <<>>
  BY <1>1, <1>2, Onward, StepsDiffer
<1>4. Counts'
  BY <1>1, <1>2, OnwardCounts
<1>5. Pictures'
  <2>1. todo[1] \notin {Must("QUERY_BUFFER_SIZE_IMAGE_CAPTURE"), Do("allocate image buffers")}
    BY StepsDiffer
  <2> QED
    BY <1>1, <1>2, <1>3, <2>1, OnwardPictures, KeepsPictures DEF Pictures
<1>6. Windowed'
  BY Numbers DEF Windowed, Is
<1>7. Preview'
  BY <1>1 DEF Preview
<1>8. TypeOK'
  BY <1>1, <1>3, Numbers, Ongoing DEF TypeOK
<1> QED
  BY <1>3, <1>4, <1>5, <1>6, <1>7, <1>8 DEF HalInv

(* The step after, and what it must not free.                                 *)
LEMMA Following ==
  ASSUME HalInv, todo # <<>>, NEW x, todo[1] = Do(x), todo' = Rest, call' = call, faults' = faults
  PROVE  /\ Program' /\ todo' # <<>> /\ Link(faults, Do(x), todo'[1])
         /\ NoFrees(todo) \/ Starts(todo[1]) => NoFrees(todo')
<1>1. faults' \in Nat /\ (faults' = 0 => faults = 0)
  BY Numbers
<1> QED
  BY <1>1, Onward, StepsDiffer

LEMMA LateLink ==
  ASSUME NEW n, NEW b, NEW x \in {"preview is on", "preview is off", "wait for window", "resume display"},
         Link(n, Do(x), b)
  PROVE  b \notin Needs
<1>1. Before(Do(x), b)
  BY DEF Link
<1>2. \A y \in {"pause preview", "bracketing is on", "allocate image buffers", "rollback",
                "free preview buffers", "allocate preview buffers", "initialized"} : Do(x) # Do(y)
  BY StepsDiffer
<1>3. Do(x) \notin Picture
  BY <1>2, StepsDiffer DEF Picture
<1> QED
  BY <1>1, <1>2, <1>3, StepsDiffer DEF Before, Needs

LEMMA NotOne == ASSUME NEW k \in Nat, k # 1, 1 \in 1..k PROVE 1 \in 1..k - 1 /\ 1 + 1 = 2
OBVIOUS

(* The end of sendCommand() is the end of the call.                           *)
LEMMA LastOfAll ==
  ASSUME HalInv, Program', faults' \in Nat, todo' # <<>>, todo'[1] = End("sendCommand")
  PROVE  call' = "sendCommand"
<1> DEFINE t == todo'
           n == faults'
           c == call'
<1>1. Wired(n, t) /\ Ended(t, c)
  BY DEF Program
<1>2. t # <<>> /\ t[1] = End("sendCommand")
  OBVIOUS
<1> HIDE DEF t, n, c
<1>3. t \in Seq(Steps(n))
  BY <1>1 DEF Wired
<1>4. Len(t) \in Nat /\ 1 \in 1..Len(t)
  BY <1>2, <1>3, Nonempty
<1>5. Len(t) = 1
  <2>1. SUFFICES ASSUME Len(t) # 1 PROVE FALSE
    OBVIOUS
  <2>2. 1 \in 1..Len(t) - 1 /\ 1 + 1 = 2
    BY <1>4, <2>1, NotOne
  <2>3. Link(n, t[1], t[1 + 1])
    BY <1>1, <2>2 DEF Wired
  <2> QED
    BY <1>2, <2>3 DEF Link, After
<1>6. End(c) = End("sendCommand")
  BY <1>1, <1>2, <1>5 DEF Ended
<1> QED
  BY <1>6, StepsDiffer DEF c

LEMMA KeepsStartCallbacks == ASSUME HalInv, StartCallbacks PROVE HalInv'
<1>1. /\ todo # <<>> /\ todo[1] = Do("start callbacks") /\ todo' = Rest
      /\ UNCHANGED <<adapter, buffers, taps, mLock, ret, app, faults, pics, misfreed>>
      /\ call' = call /\ faults' = faults /\ adapter' = adapter /\ display' = display /\ buffers' = buffers
      /\ flags' = flags \cup {"mPreviewInitializationDone"}
  BY Numbers DEF StartCallbacks, Set, Goes, At, app
<1>2. /\ Program' /\ todo' # <<>> /\ Link(faults, Do("start callbacks"), todo'[1]) /\ NoFrees(todo')
  <2>1. Starts(todo[1])
    BY <1>1 DEF Starts
  <2> QED
    BY <1>1, <2>1, Following
<1>3. todo'[1] \in {Do("initialized"), End("sendCommand")} /\ todo'[1] \notin Needs
  <2>1. todo'[1] \in {Do("initialized"), End("sendCommand")}
    BY <1>2, StepsDiffer DEF Link, After
  <2> QED
    BY <2>1, StepsDiffer DEF Needs, Picture
<1>4. ASSUME faults = 0 PROVE PreviewHeads' /\ PreviewFlags'
  <2>1. PreviewHeads /\ PreviewFlags
    BY <1>4, Numbers DEF Preview
  <2>2. ~Seen /\ Loaded /\ adapter = "LOADED_PREVIEW" /\ display.alive
    BY <1>1, <2>1 DEF PreviewHeads, On
  <2>3. ~Seen' /\ Loaded' /\ Done' /\ (InProgress' <=> InProgress) /\ (Waiting' <=> Waiting)
    BY <1>1, <2>2 DEF Seen, Loaded, Done, InProgress, Waiting, Is
  <2>4. Waiting => call # "sendCommand"
    BY <2>1 DEF PreviewFlags
  <2>5. (InProgress' <=> Waiting) /\ (InProgress' <=> Waiting')
    BY <2>2, <2>3 DEF Waiting
  <2>6. InProgress' => todo'[1] = Do("initialized")
    <3>1. faults' \in Nat
      BY <1>1, Numbers
    <3>2. todo'[1] = End("sendCommand") => call' = "sendCommand"
      BY <1>2, <3>1, LastOfAll
    <3> QED
      BY <1>1, <1>3, <2>4, <2>5, <3>2
  <2>7. PreviewFlags'
    BY <1>1, <1>2, <2>2, <2>3, <2>4, <2>5, <2>6, StepsDiffer DEF PreviewFlags, On
  <2>8. PreviewHeads'
    BY <1>3, FreeHead
  <2> QED
    BY <2>7, <2>8
<1>5. flags' \subseteq Flags /\ notifier' \subseteq {"started", "previewing", "recording"}
  BY Numbers DEF TypeOK, StartCallbacks, Set, Flags
<1>6. display' \in [made : 0..MaxCalls, alive : BOOLEAN, on : BOOLEAN, paused : BOOLEAN]
  BY <1>1, Numbers DEF TypeOK
<1> QED
  BY <1>1, <1>4, <1>5, <1>6, Flagging

FlagStep(s, on, off) ==
  Set(s, on, off) /\ UNCHANGED <<adapter, buffers, display, taps, notifier, mLock, ret, app, faults, pics,
                                 misfreed>>

LEMMA FlagStepIs ==
  ASSUME HalInv, NEW s, NEW on, NEW off, FlagStep(s, on, off), on \subseteq Flags
  PROVE  /\ todo # <<>> /\ todo[1] = Do(s) /\ todo' = Rest
         /\ UNCHANGED <<adapter, buffers, taps, mLock, ret, app, faults, pics, misfreed>>
         /\ call' = call /\ faults' = faults /\ adapter' = adapter /\ display' = display /\ buffers' = buffers
         /\ flags' = (flags \cup on) \ off
         /\ flags' \subseteq Flags /\ notifier' \subseteq {"started", "previewing", "recording"}
         /\ display' \in [made : 0..MaxCalls, alive : BOOLEAN, on : BOOLEAN, paused : BOOLEAN]
         /\ Program' /\ todo' # <<>> /\ Link(faults, Do(s), todo'[1]) /\ (NoFrees(todo) => NoFrees(todo'))
<1>1. /\ todo # <<>> /\ todo[1] = Do(s) /\ todo' = Rest
      /\ UNCHANGED <<adapter, buffers, taps, mLock, ret, app, faults, pics, misfreed>>
      /\ call' = call /\ faults' = faults /\ adapter' = adapter /\ display' = display /\ buffers' = buffers
      /\ flags' = (flags \cup on) \ off /\ notifier' = notifier
  BY Numbers DEF FlagStep, Set, Goes, At, app
<1>2. Program' /\ todo' # <<>> /\ Link(faults, Do(s), todo'[1]) /\ (NoFrees(todo) => NoFrees(todo'))
  BY <1>1, Following
<1>3. flags' \subseteq Flags /\ notifier' \subseteq {"started", "previewing", "recording"}
      /\ display' \in [made : 0..MaxCalls, alive : BOOLEAN, on : BOOLEAN, paused : BOOLEAN]
  BY <1>1, Numbers DEF TypeOK
<1> QED
  BY <1>1, <1>2, <1>3

LEMMA KeepsPreviewIsOn ==
  ASSUME HalInv, FlagStep("preview is on", {"mPreviewEnabled"}, {"mPreviewStartInProgress"})
  PROVE  HalInv'
<1>1. /\ todo # <<>> /\ todo[1] = Do("preview is on") /\ todo' = Rest
      /\ UNCHANGED <<adapter, buffers, taps, mLock, ret, app, faults, pics, misfreed>>
      /\ call' = call /\ faults' = faults /\ adapter' = adapter /\ display' = display /\ buffers' = buffers
      /\ flags' = (flags \cup {"mPreviewEnabled"}) \ {"mPreviewStartInProgress"}
      /\ flags' \subseteq Flags /\ notifier' \subseteq {"started", "previewing", "recording"}
      /\ display' \in [made : 0..MaxCalls, alive : BOOLEAN, on : BOOLEAN, paused : BOOLEAN]
      /\ Program' /\ todo' # <<>> /\ Link(faults, Do("preview is on"), todo'[1])
  <2>1. /\ todo # <<>> /\ todo[1] = Do("preview is on") /\ todo' = Rest
        /\ UNCHANGED <<adapter, buffers, taps, mLock, ret, app, faults, pics, misfreed>>
        /\ call' = call /\ faults' = faults /\ adapter' = adapter /\ display' = display /\ buffers' = buffers
        /\ flags' = (flags \cup {"mPreviewEnabled"}) \ {"mPreviewStartInProgress"} /\ notifier' = notifier
    BY Numbers DEF FlagStep, Set, Goes, At, app
  <2>2. Program' /\ todo' # <<>> /\ Link(faults, Do("preview is on"), todo'[1])
    BY <2>1, Following
  <2>3. flags' \subseteq Flags /\ notifier' \subseteq {"started", "previewing", "recording"}
        /\ display' \in [made : 0..MaxCalls, alive : BOOLEAN, on : BOOLEAN, paused : BOOLEAN]
    BY <2>1, Numbers DEF TypeOK, Flags
  <2> QED
    BY <2>1, <2>2, <2>3
<1>2. todo'[1] \notin Needs
  BY <1>1, LateLink
<1>3. ASSUME faults = 0 PROVE PreviewHeads' /\ PreviewFlags'
  <2>1. PreviewHeads /\ PreviewFlags
    BY <1>3, Numbers DEF Preview
  <2>2. Loaded /\ ~Done /\ adapter \notin {"INITIALIZED", "LOADED_PREVIEW"}
    BY <1>1, <2>1 DEF PreviewHeads, On
  <2>3. adapter # "LOADED_CAPTURE"
    BY <1>1, <2>1, StepsDiffer DEF PreviewFlags, On
  <2>4. Seen' /\ ~Done' /\ ~InProgress' /\ Loaded'
    BY <1>1, <2>2 DEF Seen, Done, InProgress, Loaded, Is
  <2>5. Settled' /\ ~Waiting'
    BY <1>1, <2>2, <2>3, <2>4 DEF Settled, Waiting
  <2> QED
    BY <1>2, <2>4, <2>5, FlagsAtRest, FreeHead
<1> QED
  BY <1>1, <1>3, Flagging

LEMMA KeepsPreviewIsOff ==
  ASSUME HalInv,
         FlagStep("preview is off", {}, {"mPreviewEnabled", "mDisplayPaused", "mPreviewStartInProgress"})
  PROVE  HalInv'
<1>1. /\ todo # <<>> /\ todo[1] = Do("preview is off") /\ todo' = Rest
      /\ UNCHANGED <<adapter, buffers, taps, mLock, ret, app, faults, pics, misfreed>>
      /\ call' = call /\ faults' = faults /\ adapter' = adapter /\ display' = display /\ buffers' = buffers
      /\ flags' = (flags \cup {}) \ {"mPreviewEnabled", "mDisplayPaused", "mPreviewStartInProgress"}
      /\ flags' \subseteq Flags /\ notifier' \subseteq {"started", "previewing", "recording"}
      /\ display' \in [made : 0..MaxCalls, alive : BOOLEAN, on : BOOLEAN, paused : BOOLEAN]
      /\ Program' /\ todo' # <<>> /\ Link(faults, Do("preview is off"), todo'[1])
      /\ NoFrees(todo) => NoFrees(todo')
  BY FlagStepIs DEF Flags
<1>2. todo'[1] \notin Needs
  BY <1>1, LateLink
<1>3. ASSUME faults = 0 PROVE PreviewHeads' /\ PreviewFlags'
  <2>1. PreviewHeads /\ PreviewFlags
    BY <1>3, Numbers DEF Preview
  <2>2. /\ Done => adapter = "LOADED_PREVIEW" /\ Loaded /\ NoFrees(todo)
        /\ ~Loaded => adapter \in Parked
    BY <2>1 DEF PreviewFlags
  <2>3. adapter # "LOADED_CAPTURE"
    BY <1>1, <2>1, StepsDiffer DEF PreviewFlags, On
  <2>4. ~Seen' /\ (Done' <=> Done) /\ ~InProgress' /\ (Loaded' <=> Loaded)
    BY <1>1 DEF Seen, Done, InProgress, Loaded, Is
  <2>5. Settled' /\ ~Waiting' /\ (Done' => NoFrees(todo'))
    BY <1>1, <2>2, <2>3, <2>4 DEF Settled, Waiting, Parked
  <2> QED
    BY <1>2, <2>5, FlagsAtRest, FreeHead
<1> QED
  BY <1>1, <1>3, Flagging

LEMMA KeepsWaitForWindow ==
  ASSUME HalInv, FlagStep("wait for window", {"mPreviewStartInProgress"}, {})
  PROVE  HalInv'
<1>1. /\ todo # <<>> /\ todo[1] = Do("wait for window") /\ todo' = Rest
      /\ UNCHANGED <<adapter, buffers, taps, mLock, ret, app, faults, pics, misfreed>>
      /\ call' = call /\ faults' = faults /\ adapter' = adapter /\ display' = display /\ buffers' = buffers
      /\ flags' = (flags \cup {"mPreviewStartInProgress"}) \ {}
      /\ flags' \subseteq Flags /\ notifier' \subseteq {"started", "previewing", "recording"}
      /\ display' \in [made : 0..MaxCalls, alive : BOOLEAN, on : BOOLEAN, paused : BOOLEAN]
      /\ Program' /\ todo' # <<>> /\ Link(faults, Do("wait for window"), todo'[1])
  BY FlagStepIs DEF Flags
<1>2. todo'[1] \notin Needs
  BY <1>1, LateLink
<1>3. ASSUME faults = 0 PROVE PreviewHeads' /\ PreviewFlags'
  <2>1. PreviewHeads /\ PreviewFlags /\ ~On(Loose)
    BY <1>1, <1>3, Numbers, StepsDiffer DEF Preview, On, Loose
  <2>2. ~Done /\ ~display.alive /\ (Seen \/ adapter = "INITIALIZED")
    BY <1>1, <2>1 DEF PreviewHeads, On
  <2>3. Settled
    BY <2>1, AtRest
  <2>4. (Seen' <=> Seen) /\ ~Done' /\ (Loaded' <=> Loaded)
    BY <1>1, <2>2 DEF Seen, Done, Loaded, Is
  <2>5. Settled' /\ ~Waiting'
    BY <1>1, <2>2, <2>3, <2>4 DEF Settled, Waiting, Parked
  <2> QED
    BY <1>2, <2>4, <2>5, FlagsAtRest, FreeHead
<1> QED
  BY <1>1, <1>3, Flagging

LEMMA KeepsBracketingIsOn ==
  ASSUME HalInv, FlagStep("bracketing is on", {"mBracketingRunning"}, {})
  PROVE  HalInv'
<1>1. /\ todo # <<>> /\ todo[1] = Do("bracketing is on") /\ todo' = Rest
      /\ UNCHANGED <<adapter, buffers, taps, mLock, ret, app, faults, pics, misfreed>>
      /\ call' = call /\ faults' = faults /\ adapter' = adapter /\ display' = display /\ buffers' = buffers
      /\ flags' = (flags \cup {"mBracketingRunning"}) \ {}
      /\ flags' \subseteq Flags /\ notifier' \subseteq {"started", "previewing", "recording"}
      /\ display' \in [made : 0..MaxCalls, alive : BOOLEAN, on : BOOLEAN, paused : BOOLEAN]
      /\ Program' /\ todo' # <<>> /\ Link(faults, Do("bracketing is on"), todo'[1])
      /\ NoFrees(todo) => NoFrees(todo')
  BY FlagStepIs DEF Flags
<1>2. todo[1] \in Picture
  BY <1>1 DEF Picture
<1>3. ASSUME faults = 0 PROVE PreviewHeads' /\ PreviewFlags'
  <2>1. PreviewHeads /\ PreviewFlags /\ ~On(Loose)
    BY <1>1, <1>3, Numbers, StepsDiffer DEF Preview, On, Loose
  <2>2. Seen \/ InProgress
    BY <1>1, <1>2, <2>1 DEF PreviewHeads, On
  <2>3. Kept
    BY <1>1 DEF Kept, Watched, Loaded
  <2>4. todo'[1] \notin Needs \/ todo'[1] \in Picture \ {Do("pause preview")}
    BY <1>1, <1>2, PictureLink
  <2> QED
    BY <1>1, <2>1, <2>2, <2>3, <2>4, Quiet DEF Steady
<1> QED
  BY <1>1, <1>3, Flagging

LEMMA KeepsFlagSteps == ASSUME HalInv, FlagSteps PROVE HalInv'
<1>1. \/ FlagStep("preview is on", {"mPreviewEnabled"}, {"mPreviewStartInProgress"})
      \/ FlagStep("preview is off", {}, {"mPreviewEnabled", "mDisplayPaused", "mPreviewStartInProgress"})
      \/ FlagStep("wait for window", {"mPreviewStartInProgress"}, {})
      \/ FlagStep("bracketing is on", {"mBracketingRunning"}, {})
      \/ QuietFlags
  BY DEF FlagSteps, FlagStep, QuietFlags
<1> QED
  BY <1>1, KeepsPreviewIsOn, KeepsPreviewIsOff, KeepsWaitForWindow, KeepsBracketingIsOn, KeepsQuietFlags

LEMMA KeepsPausePreview == ASSUME HalInv, PausePreview PROVE HalInv'
<1>1. /\ todo # <<>> /\ todo[1] = Do("pause preview") /\ todo' = Rest
      /\ UNCHANGED <<adapter, buffers, taps, mLock, ret, app, faults, pics, misfreed>>
      /\ call' = call /\ faults' = faults /\ adapter' = adapter /\ buffers' = buffers /\ notifier' = notifier
      /\ flags' = (flags \cup {"mDisplayPaused"}) \ {"mPreviewEnabled"}
      /\ display' = [display EXCEPT !.paused = TRUE]
  BY Numbers DEF PausePreview, Set, Goes, At, app
<1>2. Program' /\ todo' # <<>> /\ Link(faults, Do("pause preview"),
                                       todo'[1]) /\ (NoFrees(todo) => NoFrees(todo'))
  BY <1>1, Following
<1>3. /\ display' \in [made : 0..MaxCalls, alive : BOOLEAN, on : BOOLEAN, paused : BOOLEAN]
      /\ display'.alive = display.alive /\ display'.made = display.made
  BY <1>1, Numbers DEF TypeOK
<1>4. flags' \subseteq Flags /\ notifier' \subseteq {"started", "previewing", "recording"}
  BY <1>1, Numbers DEF TypeOK, Flags
<1>5. todo[1] \in Picture
  BY <1>1 DEF Picture
<1>6. ASSUME faults = 0 PROVE PreviewHeads' /\ PreviewFlags'
  <2>1. PreviewHeads /\ PreviewFlags /\ ~On(Loose)
    BY <1>1, <1>6, Numbers, StepsDiffer DEF Preview, On, Loose
  <2>2. Seen /\ Settled /\ (Done => NoFrees(todo))
    BY <1>1, <2>1, AtRest DEF PreviewHeads, On
  <2>3. Seen' /\ (Done' <=> Done) /\ (InProgress' <=> InProgress) /\ (Loaded' <=> Loaded)
    BY <1>1 DEF Seen, Done, InProgress, Loaded, Is
  <2>4. Settled' /\ ~Waiting'
    BY <1>1, <2>2, <2>3 DEF Settled, Waiting, Parked
  <2>5. todo'[1] \notin Needs \/ todo'[1] \in Picture \ {Do("pause preview")}
    BY <1>2, <1>1, <1>5, PictureLink
  <2> QED
    BY <1>2, <2>2, <2>3, <2>4, <2>5, FlagsAtRest, FreeHead
<1> QED
  BY <1>1, <1>3, <1>4, <1>6, Flagging

LEMMA KeepsResumeDisplay == ASSUME HalInv, ResumeDisplay PROVE HalInv'
<1>1. /\ todo # <<>> /\ todo[1] = Do("resume display") /\ todo' = Rest
      /\ UNCHANGED <<adapter, buffers, taps, mLock, ret, app, faults, pics, misfreed>>
      /\ call' = call /\ faults' = faults /\ adapter' = adapter /\ buffers' = buffers /\ notifier' = notifier
      /\ flags' = (flags \cup {"mPreviewEnabled"}) \ {"mDisplayPaused"}
      /\ display' = [display EXCEPT !.paused = FALSE]
  BY Numbers DEF ResumeDisplay, Set, Goes, At, app
<1>2. Program' /\ todo' # <<>> /\ Link(faults, Do("resume display"),
                                       todo'[1]) /\ (NoFrees(todo) => NoFrees(todo'))
  BY <1>1, Following
<1>3. /\ display' \in [made : 0..MaxCalls, alive : BOOLEAN, on : BOOLEAN, paused : BOOLEAN]
      /\ display'.alive = display.alive /\ display'.made = display.made
  BY <1>1, Numbers DEF TypeOK
<1>4. flags' \subseteq Flags /\ notifier' \subseteq {"started", "previewing", "recording"}
  BY <1>1, Numbers DEF TypeOK, Flags
<1>5. todo'[1] \notin Needs
  BY <1>2, LateLink
<1>6. ASSUME faults = 0 PROVE PreviewHeads' /\ PreviewFlags'
  <2>1. PreviewHeads /\ PreviewFlags /\ ~On(Loose)
    BY <1>1, <1>6, Numbers, StepsDiffer DEF Preview, On, Loose
  <2>2. Seen /\ Settled /\ (Done => NoFrees(todo))
    BY <1>1, <2>1, AtRest DEF PreviewHeads, On
  <2>3. Seen' /\ (Done' <=> Done) /\ (InProgress' <=> InProgress) /\ (Loaded' <=> Loaded)
    BY <1>1 DEF Seen, Done, InProgress, Loaded, Is
  <2>4. Settled' /\ ~Waiting'
    BY <1>1, <2>2, <2>3 DEF Settled, Waiting, Parked
  <2> QED
    BY <1>2, <1>5, <2>2, <2>3, <2>4, FlagsAtRest, FreeHead
<1> QED
  BY <1>1, <1>3, <1>4, <1>6, Flagging

LEMMA KeepsInitialized == ASSUME HalInv, Initialized PROVE HalInv'
<1>1. /\ todo # <<>> /\ todo[1] = Do("initialized")
      /\ UNCHANGED <<adapter, buffers, taps, mLock, ret, app, faults, pics, misfreed>>
      /\ call' = call /\ faults' = faults /\ adapter' = adapter /\ buffers' = buffers /\ notifier' = notifier
      /\ flags' = flags \ {"mPreviewInitializationDone"}
      /\ todo' = (IF Done THEN Rest ELSE Return)
  BY Numbers DEF Initialized, At, app, Done
<1>2. display' = [display EXCEPT !.on = TRUE] \/ display' = display
  BY DEF Initialized
<1>3. /\ display' \in [made : 0..MaxCalls, alive : BOOLEAN, on : BOOLEAN, paused : BOOLEAN]
      /\ display'.alive = display.alive /\ display'.made = display.made
  BY <1>2, Numbers DEF TypeOK
<1>4. flags' \subseteq Flags /\ notifier' \subseteq {"started", "previewing", "recording"}
  BY <1>1, Numbers DEF TypeOK
<1>5. CASE Done
  <2>1. todo' = Rest
    BY <1>1, <1>5
  <2>2. Program' /\ todo' # <<>> /\ Link(faults, Do("initialized"), todo'[1])
    BY <1>1, <2>1, Following
  <2>3. todo'[1] = Must("START_PREVIEW")
    BY <2>2, StepsDiffer DEF Link, After
  <2>4. ASSUME faults = 0 PROVE PreviewHeads' /\ PreviewFlags'
    <3>1. PreviewFlags
      BY <2>4, Numbers DEF Preview
    <3>2. adapter = "LOADED_PREVIEW" /\ Loaded /\ ~Seen /\ (Waiting => call # "sendCommand")
      BY <1>5, <3>1 DEF PreviewFlags
    <3>3. ~Seen' /\ ~Done' /\ (InProgress' <=> InProgress) /\ (Loaded' <=> Loaded)
      BY <1>1, <3>2 DEF Seen, Done, InProgress, Loaded, Is
    <3>4. Waiting' => Waiting
      BY <1>3, <3>2, <3>3 DEF Waiting
    <3>5. PreviewHeads'
      <4>1. \A x \in {"QUERY_BUFFER_SIZE_IMAGE_CAPTURE", "USE_BUFFERS_IMAGE_CAPTURE", "START_IMAGE_CAPTURE",
                      "START_BRACKET_CAPTURE", "USE_BUFFERS_PREVIEW", "QUERY_RESOLUTION_PREVIEW"} :
              todo'[1] # Must(x)
        BY <2>3, StepsDiffer
      <4> QED
        BY <1>1, <2>3, <3>2, <3>3, <4>1, StepsDiffer DEF PreviewHeads, On, Picture
    <3>6. PreviewFlags'
      BY <1>1, <2>2, <2>3, <3>2, <3>3, <3>4, StepsDiffer DEF PreviewFlags, On
    <3> QED
      BY <3>5, <3>6
  <2> QED
    BY <1>1, <1>3, <1>4, <2>1, <2>4, Flagging
<1>6. CASE ~Done
  <2>1. todo' = Return /\ display' = display
    BY <1>1, <1>6 DEF Initialized, Done
  <2>2. faults' \in Nat /\ (faults' = 0 => faults = 0)
    BY <1>1, Numbers
  <2>3. /\ Program' /\ todo' # <<>> /\ todo'[1] \notin Needs
        /\ NoShots(todo) => NoShots(todo')
        /\ NoFrees(todo) => NoFrees(todo')
    BY <1>1, <2>1, <2>2, Homeward
  <2>4. flags' = flags
    BY <1>1, <1>6 DEF Done, Is
  <2>5. UNCHANGED <<adapter, hal, mLock, ret, app, faults, pics, misfreed>>
    BY <1>1, <2>1, <2>4 DEF hal
  <2>6. ASSUME faults = 0 PROVE PreviewHeads' /\ PreviewFlags'
    <3>1. PreviewFlags
      BY <2>6, Numbers DEF Preview
    <3>2. Settled /\ ~Waiting
      BY <1>1, <1>6, <3>1, StepsDiffer DEF PreviewFlags, On, Settled
    <3>3. Kept /\ Steady
      BY <2>5, Flagless
    <3> QED
      BY <1>6, <2>3, <3>2, <3>3, QuietSettled
  <2>7. todo'[1] \notin {Do("allocate image buffers"), Must("USE_BUFFERS_IMAGE_CAPTURE")}
    BY <2>3 DEF Needs, Picture
  <2> QED
    BY <1>1, <2>3, <2>5, <2>6, <2>7, Resting
<1> QED
  BY <1>5, <1>6

(* A step that turns into others, or into none.                               *)
LEMMA Unfolds ==
  ASSUME HalInv, todo # <<>>, todo[1][1] # "end", todo[1] \notin Key, NEW s, NEW C, Ahead(faults, s, C),
         todo' = s \o Rest, UNCHANGED <<adapter, buffers, display, taps, notifier, mLock, ret, app, faults,
                                        pics, misfreed>>,
         flags' = flags \/ flags' = flags \ {"mBracketingRunning"},
         "shoots" \in C => Shoots(todo[1]), "starts" \notin C, "frees" \notin C,
         s # <<>> => \/ s[1] \notin Needs
                     \/ s[1] \in Picture \ {Do("pause preview"), Do("allocate image buffers"),
                                            Must("USE_BUFFERS_IMAGE_CAPTURE")} /\ (Seen \/ InProgress)
                     \/ s[1] = Do("pause preview") /\ (faults = 0 => Seen)
  PROVE  HalInv'
<1>1. /\ adapter' = adapter /\ buffers' = buffers /\ display' = display /\ tapout' = tapout
      /\ taken' = taken /\ notifier' = notifier /\ mLock' = mLock /\ ret' = ret /\ call' = call
      /\ calls' = calls /\ faults' = faults /\ shot' = shot /\ owed' = owed /\ misfreed' = misfreed
  BY DEF taps, app, pics
<1>2. Kept
  BY <1>1 DEF Kept, Watched, Loaded
<1>3. todo[1] \notin Loose /\ \A b \in Needs : ~Link(faults, todo[1], b)
  BY LooseIsKey, QuietLink
<1>4. Program' /\ todo' # <<>> /\ Counts' /\ PictureHeads' /\ Windowed' /\ Preview'
  BY <1>1, <1>2, <1>3, Unfolding
<1>5. PicturesHaveBuffers'
  BY <1>1, KeepsPictures
<1>6. flags' \subseteq Flags
  BY Numbers DEF TypeOK
<1>7. TypeOK'
  BY <1>1, <1>4, <1>6, Numbers, Ongoing DEF TypeOK
<1> QED
  BY <1>4, <1>5, <1>7 DEF HalInv, Pictures

(* A step that is only left behind.                                           *)
LEMMA Passes ==
  ASSUME HalInv, todo # <<>>, NEW x \in QuietDoings, todo[1] = Do(x), todo' = Rest,
         UNCHANGED <<adapter, hal, mLock, ret, app, faults, pics, misfreed>>
  PROVE  HalInv'
<1>1. Head(todo) = Do(x)
  BY Numbers
<1>2. /\ adapter' = adapter /\ buffers' = buffers /\ taken' = taken /\ call' = call /\ flags' = flags
      /\ calls' = calls /\ faults' = faults /\ shot' = shot
  BY DEF hal, taps, app, pics
<1>3. Kept
  BY Flagless
<1>4. Program' /\ todo' # <<>> /\ Counts' /\ Pictures' /\ Windowed' /\ Preview'
  BY <1>1, <1>2, <1>3, Numbers, QuietStep
<1>5. TypeOK'
  BY <1>2, <1>4, Numbers, Ongoing DEF TypeOK, hal, taps, app, pics
<1> QED
  BY <1>4, <1>5 DEF HalInv

LEMMA KeepsCheck ==
  ASSUME HalInv, Becomes("check", IF ret = "error" THEN Return ELSE Rest)
  PROVE  HalInv'
<1>1. /\ todo # <<>> /\ todo[1] = Do("check") /\ Head(todo) = Do("check")
      /\ todo' = (IF ret = "error" THEN Return ELSE Rest)
      /\ UNCHANGED <<adapter, hal, mLock, ret, app, faults, pics, misfreed>>
  BY Numbers DEF Becomes, At
<1>2. "check" \in QuietDoings
  BY DEF QuietDoings
<1>3. CASE ret # "error"
  BY <1>1, <1>2, <1>3, Passes
<1>4. CASE ret = "error"
  <2>1. /\ adapter' = adapter /\ buffers' = buffers /\ taken' = taken /\ call' = call /\ flags' = flags
        /\ calls' = calls /\ faults' = faults /\ shot' = shot /\ todo' = Return
    BY <1>1, <1>4 DEF hal, taps, app, pics
  <2>2. Kept
    BY <1>1, Flagless
  <2>3. Program' /\ todo' # <<>> /\ Counts' /\ Pictures' /\ Windowed' /\ Preview'
    BY <1>1, <1>2, <2>1, <2>2, Numbers, QuietReturn
  <2>4. TypeOK'
    BY <1>1, <2>1, <2>3, Numbers, Ongoing DEF TypeOK, hal, taps, app, pics
  <2> QED
    BY <2>3, <2>4 DEF HalInv
<1> QED
  BY <1>3, <1>4

LEMMA KeepsEndCapture ==
  ASSUME HalInv, Becomes("end capture", (IF Is("mBracketingRunning") THEN <<Do("stop bracketing")>>
                                         ELSE <<Try("STOP_IMAGE_CAPTURE")>>) \o Rest)
  PROVE  HalInv'
<1>1. /\ todo # <<>> /\ todo[1] = Do("end capture")
      /\ UNCHANGED <<adapter, hal, mLock, ret, app, faults, pics, misfreed>>
  BY Numbers DEF Becomes, At
<1>2. PICK a \in Simple : todo' = <<a>> \o Rest
  BY SimpleSteps DEF Becomes
<1>3. Fit(faults, <<a>>, {}) /\ a \notin Needs
  BY Numbers, SimpleSequences DEF Simple
<1>4. todo[1] \notin Key /\ todo[1][1] # "end"
  BY <1>1, QuietHeads DEF QuietDoings
<1> QED
  BY <1>1, <1>2, <1>3, <1>4, Unfolds DEF hal, Fit

LEMMA KeepsStopBracketing == ASSUME HalInv, StopImageBracketing PROVE HalInv'
<1>1. /\ todo # <<>> /\ todo[1] = Do("stop bracketing")
      /\ UNCHANGED <<adapter, buffers, display, taps, notifier, mLock, ret, app, faults, pics, misfreed>>
      /\ flags' = flags \/ flags' = flags \ {"mBracketingRunning"}
  BY Numbers DEF StopImageBracketing, At
<1>2. CASE PreviewEnabled
  <2>1. todo' = <<Try("STOP_BRACKET_CAPTURE")>> \o Rest /\ Try("STOP_BRACKET_CAPTURE") \in Simple
    BY <1>2, SimpleSteps DEF StopImageBracketing
  <2>2. PICK a \in Simple : todo' = <<a>> \o Rest
    BY <2>1
  <2>3. Fit(faults, <<a>>, {}) /\ a \notin Needs
    BY Numbers, SimpleSequences DEF Simple
  <2>4. todo[1] \notin Key /\ todo[1][1] # "end"
    BY <1>1, QuietHeads DEF QuietDoings
  <2> QED
    BY <1>1, <2>2, <2>3, <2>4, Unfolds DEF Fit
<1>3. CASE ~PreviewEnabled
  <2>1. todo' = Rest /\ flags' = flags
    BY <1>3 DEF StopImageBracketing
  <2>2. "stop bracketing" \in QuietDoings
    BY DEF QuietDoings
  <2>3. UNCHANGED <<adapter, hal, mLock, ret, app, faults, pics, misfreed>>
    BY <1>1, <2>1 DEF hal
  <2> QED
    BY <1>1, <2>1, <2>2, <2>3, Passes
<1> QED
  BY <1>2, <1>3

(* Sequences, one step after the other.                                       *)
LEMMA ThreeAndOne ==
  ASSUME NEW a, NEW b, NEW c, NEW d
  PROVE  <<a, b, c>> \o <<d>> = <<a, b, c, d>>
<1> DEFINE S == {a, b, c, d}
           s == <<a, b, c>>
           t == <<d>>
           u == <<a, b, c, d>>
<1>1. s \in Seq(S) /\ t \in Seq(S) /\ u \in Seq(S) /\ Len(s) = 3 /\ Len(t) = 1 /\ Len(u) = 4
  OBVIOUS
<1>2. /\ s[1] = a /\ s[2] = b /\ s[3] = c
      /\ t[1] = d
      /\ u[1] = a /\ u[2] = b /\ u[3] = c /\ u[4] = d
  OBVIOUS
<1> DEFINE w == s \o t
<1> HIDE DEF S, s, t, u
<1>3. /\ w \in Seq(S) /\ Len(w) = Len(s) + Len(t)
      /\ \A i \in 1..Len(s) + Len(t) : w[i] = IF i <= Len(s) THEN s[i] ELSE t[i - Len(s)]
  BY <1>1, ConcatProperties
<1> HIDE DEF w
<1>4. w \in Seq(S) /\ Len(w) = 4 /\ w[1] = a /\ w[2] = b /\ w[3] = c /\ w[4] = d
  BY <1>1, <1>2, <1>3
<1>5. Len(w) = Len(u) /\ \A i \in 1..Len(w) : w[i] = u[i]
  BY <1>1, <1>2, <1>4
<1>6. w = u
  BY <1>1, <1>4, <1>5, SeqEqual
<1> QED
  BY <1>6 DEF w, s, t, u

LEMMA FourAndOne ==
  ASSUME NEW a, NEW b, NEW c, NEW d, NEW e
  PROVE  <<a, b, c, d>> \o <<e>> = <<a, b, c, d, e>>
<1> DEFINE S == {a, b, c, d, e}
           s == <<a, b, c, d>>
           t == <<e>>
           u == <<a, b, c, d, e>>
<1>1. s \in Seq(S) /\ t \in Seq(S) /\ u \in Seq(S) /\ Len(s) = 4 /\ Len(t) = 1 /\ Len(u) = 5
  OBVIOUS
<1>2. /\ s[1] = a /\ s[2] = b /\ s[3] = c /\ s[4] = d
      /\ t[1] = e
      /\ u[1] = a /\ u[2] = b /\ u[3] = c /\ u[4] = d /\ u[5] = e
  OBVIOUS
<1> DEFINE w == s \o t
<1> HIDE DEF S, s, t, u
<1>3. /\ w \in Seq(S) /\ Len(w) = Len(s) + Len(t)
      /\ \A i \in 1..Len(s) + Len(t) : w[i] = IF i <= Len(s) THEN s[i] ELSE t[i - Len(s)]
  BY <1>1, ConcatProperties
<1> HIDE DEF w
<1>4. w \in Seq(S) /\ Len(w) = 5 /\ w[1] = a /\ w[2] = b /\ w[3] = c /\ w[4] = d /\ w[5] = e
  BY <1>1, <1>2, <1>3
<1>5. Len(w) = Len(u) /\ \A i \in 1..Len(w) : w[i] = u[i]
  BY <1>1, <1>2, <1>4
<1>6. w = u
  BY <1>1, <1>4, <1>5, SeqEqual
<1> QED
  BY <1>6 DEF w, s, t, u

LEMMA FourAndTwo ==
  ASSUME NEW a, NEW b, NEW c, NEW d, NEW e, NEW f
  PROVE  <<a, b, c, d>> \o <<e, f>> = <<a, b, c, d, e, f>>
<1> DEFINE S == {a, b, c, d, e, f}
           s == <<a, b, c, d>>
           t == <<e, f>>
           u == <<a, b, c, d, e, f>>
<1>1. s \in Seq(S) /\ t \in Seq(S) /\ u \in Seq(S) /\ Len(s) = 4 /\ Len(t) = 2 /\ Len(u) = 6
  OBVIOUS
<1>2. /\ s[1] = a /\ s[2] = b /\ s[3] = c /\ s[4] = d
      /\ t[1] = e /\ t[2] = f
      /\ u[1] = a /\ u[2] = b /\ u[3] = c /\ u[4] = d /\ u[5] = e /\ u[6] = f
  OBVIOUS
<1> DEFINE w == s \o t
<1> HIDE DEF S, s, t, u
<1>3. /\ w \in Seq(S) /\ Len(w) = Len(s) + Len(t)
      /\ \A i \in 1..Len(s) + Len(t) : w[i] = IF i <= Len(s) THEN s[i] ELSE t[i - Len(s)]
  BY <1>1, ConcatProperties
<1> HIDE DEF w
<1>4. w \in Seq(S) /\ Len(w) = 6 /\ w[1] = a /\ w[2] = b /\ w[3] = c /\ w[4] = d /\ w[5] = e /\ w[6] = f
  BY <1>1, <1>2, <1>3
<1>5. Len(w) = Len(u) /\ \A i \in 1..Len(w) : w[i] = u[i]
  BY <1>1, <1>2, <1>4
<1>6. w = u
  BY <1>1, <1>4, <1>5, SeqEqual
<1> QED
  BY <1>6 DEF w, s, t, u


(* Bracketing that starts.                                                    *)
LEMMA StartBracketingIs ==
  StartImageBracketing =
    IF ~PreviewEnabled /\ ~Is("mDisplayPaused") THEN <<>>
    ELSE <<Do("bracketing is on"), Must("QUERY_BUFFER_SIZE_IMAGE_CAPTURE"), Do("allocate image buffers"),
           Must("USE_BUFFERS_IMAGE_CAPTURE"), Must("START_BRACKET_CAPTURE"), End("startImageBracketing")>>
<1> DEFINE a == Do("bracketing is on")
           b == Must("QUERY_BUFFER_SIZE_IMAGE_CAPTURE")
           c == Do("allocate image buffers")
           d == Must("USE_BUFFERS_IMAGE_CAPTURE")
           e == Must("START_BRACKET_CAPTURE")
           f == End("startImageBracketing")
           S == StartImageBracketing
<1>1. S = IF ~PreviewEnabled /\ ~Is("mDisplayPaused") THEN <<>>
          ELSE (<<a>> \o <<b, c, d>>) \o <<e, f>>
  BY DEF StartImageBracketing, PictureBuffers
<1> HIDE DEF a, b, c, d, e, f, S
<1>2. <<a>> \o <<b, c, d>> = <<a, b, c, d>>
  BY Quadruple
<1>3. <<a, b, c, d>> \o <<e, f>> = <<a, b, c, d, e, f>>
  BY FourAndTwo
<1>4. S = IF ~PreviewEnabled /\ ~Is("mDisplayPaused") THEN <<>> ELSE <<a, b, c, d, e, f>>
  BY <1>1, <1>2, <1>3
<1> QED
  BY <1>4 DEF a, b, c, d, e, f, S

LEMMA KeepsBracket ==
  ASSUME HalInv, Becomes("bracket", (IF Is("mBracketingEnabled") /\ ~Is("mBracketingRunning")
                                     THEN StartImageBracketing ELSE <<>>) \o Rest)
  PROVE  HalInv'
<1>1. /\ todo # <<>> /\ todo[1] = Do("bracket")
      /\ UNCHANGED <<adapter, hal, mLock, ret, app, faults, pics, misfreed>>
      /\ UNCHANGED <<adapter, buffers, display, taps, notifier, mLock, ret, app, faults, pics, misfreed>>
      /\ flags' = flags
  BY Numbers DEF Becomes, At, hal
<1>2. "bracket" \in QuietDoings
  BY DEF QuietDoings
<1>3. todo[1] \notin Key /\ todo[1][1] # "end" /\ Shoots(todo[1])
  BY <1>1, <1>2, QuietHeads DEF Shoots
<1> DEFINE u == <<Do("bracketing is on"), Must("QUERY_BUFFER_SIZE_IMAGE_CAPTURE"), Do("allocate image buffers"),
                  Must("USE_BUFFERS_IMAGE_CAPTURE"), Must("START_BRACKET_CAPTURE"),
                  End("startImageBracketing")>>
<1>4. CASE Is("mBracketingEnabled") /\ ~Is("mBracketingRunning") /\ (PreviewEnabled \/ Is("mDisplayPaused"))
  <2>1. todo' = u \o Rest
    BY <1>4, StartBracketingIs DEF Becomes
  <2>2. Ahead(faults, u, {"shoots"})
    BY Numbers, AheadBracket
  <2>3. u[1] = Do("bracketing is on")
    OBVIOUS
  <2> HIDE DEF u
  <2>4. u[1] \in Picture \ {Do("pause preview"), Do("allocate image buffers"),
                            Must("USE_BUFFERS_IMAGE_CAPTURE")}
    BY <2>3, StepsDiffer DEF Picture
  <2>5. Seen \/ InProgress
    BY <1>4 DEF Seen, InProgress, PreviewEnabled
  <2>6. "starts" \notin {"shoots"} /\ "frees" \notin {"shoots"}
    OBVIOUS
  <2> QED
    BY <1>1, <1>3, <2>1, <2>2, <2>4, <2>5, <2>6, Unfolds
<1>5. CASE ~(Is("mBracketingEnabled") /\ ~Is("mBracketingRunning") /\ (PreviewEnabled \/ Is("mDisplayPaused")))
  <2>1. todo' = <<>> \o Rest
    BY <1>5, StartBracketingIs DEF Becomes
  <2>2. todo' = Rest
    BY <1>1, <2>1, RestIsSequence
  <2> QED
    BY <1>1, <1>2, <2>2, Passes
<1> QED
  BY <1>4, <1>5

LEMMA KeepsExpansions == ASSUME HalInv, Expansions PROVE HalInv'
BY KeepsCheck, KeepsBracket, KeepsEndCapture DEF Expansions

(* What a picture turns into: nothing, another shot, or the whole of it.      *)
LEMMA TakePictureIs ==
  ASSUME NEW mode
  PROVE  \/ TakePicture(mode) = <<Do("refuse")>>
         \/ /\ TakePicture(mode) = <<Must("START_IMAGE_CAPTURE")>>
            /\ PreviewEnabled \/ Is("mDisplayPaused")
         \/ /\ TakePicture(mode) = <<Must("QUERY_BUFFER_SIZE_IMAGE_CAPTURE"), Do("allocate image buffers"),
                                     Must("USE_BUFFERS_IMAGE_CAPTURE"), Must("START_IMAGE_CAPTURE")>>
            /\ PreviewEnabled \/ Is("mDisplayPaused")
         \/ /\ TakePicture(mode) = <<Do("pause preview"), Must("QUERY_BUFFER_SIZE_IMAGE_CAPTURE"),
                                     Do("allocate image buffers"), Must("USE_BUFFERS_IMAGE_CAPTURE"),
                                     Must("START_IMAGE_CAPTURE")>>
            /\ PreviewEnabled \/ Is("mDisplayPaused")
            /\ display.alive
<1> DEFINE a == Do("pause preview")
           b == Must("QUERY_BUFFER_SIZE_IMAGE_CAPTURE")
           c == Do("allocate image buffers")
           d == Must("USE_BUFFERS_IMAGE_CAPTURE")
           e == Must("START_IMAGE_CAPTURE")
           r == Do("refuse")
           T == TakePicture(mode)
           more == Capturing \/ Is("mBracketingRunning")
           pause == display.alive /\ mode # "burst" /\ adapter # "VIDEO"
           ready == PreviewEnabled \/ Is("mDisplayPaused")
<1>1. \/ T = <<r>>
      \/ /\ ready
         /\ T = (IF more THEN <<>> ELSE (IF pause THEN <<a>> ELSE <<>>) \o <<b, c, d>>) \o <<e>>
  BY DEF TakePicture, PictureBuffers
<1>2. pause => display.alive
  OBVIOUS
<1> HIDE DEF a, b, c, d, e, r, T, more, pause, ready
<1>3. /\ <<>> \o <<e>> = <<e>> /\ <<>> \o <<b, c, d>> = <<b, c, d>>
      /\ <<a>> \o <<b, c, d>> = <<a, b, c, d>>
      /\ <<b, c, d>> \o <<e>> = <<b, c, d, e>> /\ <<a, b, c, d>> \o <<e>> = <<a, b, c, d, e>>
  <2>1. <<>> \o <<e>> = <<e>>
    OBVIOUS
  <2>2. <<>> \o <<b, c, d>> = <<b, c, d>>
    OBVIOUS
  <2>3. <<a>> \o <<b, c, d>> = <<a, b, c, d>>
    BY Quadruple
  <2>4. <<b, c, d>> \o <<e>> = <<b, c, d, e>>
    BY ThreeAndOne
  <2>5. <<a, b, c, d>> \o <<e>> = <<a, b, c, d, e>>
    BY FourAndOne
  <2> QED
    BY <2>1, <2>2, <2>3, <2>4, <2>5, Zenon
<1>4. \/ T = <<r>>
      \/ ready /\ T = <<e>>
      \/ ready /\ T = <<b, c, d, e>>
      \/ ready /\ T = <<a, b, c, d, e>> /\ display.alive
  BY <1>1, <1>2, <1>3
<1> QED
  BY <1>4 DEF a, b, c, d, e, r, T, ready

(* The step that is the taking of a picture.                                  *)
LEMMA TakeHead ==
  ASSUME HalInv, todo # <<>>, Head(todo)[1] = "take"
  PROVE  /\ Head(todo)[2] \in {"single", "burst"} /\ todo[1] = Head(todo)
         /\ todo[1] \notin Key /\ todo[1][1] # "end" /\ Shoots(todo[1])
<1>1. todo[1] \in StepSet /\ Head(todo) = todo[1]
  BY Numbers DEF Steps
<1>2. PICK mode \in {"single", "burst"} : todo[1] = <<"take", mode>>
  BY <1>1 DEF StepSet
<1>3. todo[1] \notin Key
  BY <1>2 DEF Key, Needs, Picture, Do, Must, End
<1>4. Shoots(todo[1])
  BY <1>1 DEF Shoots
<1> QED
  BY <1>1, <1>2, <1>3, <1>4

LEMMA FourShots ==
  ASSUME NEW n \in Nat
  PROVE  /\ Fit(n, <<Do("refuse")>>, {})
         /\ Do("refuse") \notin Needs
         /\ Ahead(n, <<Must("START_IMAGE_CAPTURE")>>, {"shoots"})
         /\ Must("START_IMAGE_CAPTURE") \in
              Picture \ {Do("pause preview"), Do("allocate image buffers"), Must("USE_BUFFERS_IMAGE_CAPTURE")}
         /\ Must("QUERY_BUFFER_SIZE_IMAGE_CAPTURE") \in
              Picture \ {Do("pause preview"), Do("allocate image buffers"), Must("USE_BUFFERS_IMAGE_CAPTURE")}
<1>1. Fit(n, <<Do("refuse")>>, {}) /\ Do("refuse") \notin Needs
  BY SimpleSequences, SimpleSteps DEF Simple
<1>2. Must("START_IMAGE_CAPTURE") # Must("USE_BUFFERS_IMAGE_CAPTURE")
  BY StepsDiffer
<1>3. Must("QUERY_BUFFER_SIZE_IMAGE_CAPTURE") # Must("USE_BUFFERS_IMAGE_CAPTURE")
  BY StepsDiffer
<1>4. Must("START_IMAGE_CAPTURE") \in Picture /\ Must("QUERY_BUFFER_SIZE_IMAGE_CAPTURE") \in Picture
  BY DEF Picture
<1>5. \A x, y : Must(x) # Do(y)
  BY StepsDiffer
<1> QED
  BY <1>1, <1>2, <1>3, <1>4, <1>5, AheadAnother

LEMMA KeepsTakePictureStep == ASSUME HalInv, TakePictureStep PROVE HalInv'
<1>1. PICK mode : mode = Head(todo)[2]
  OBVIOUS
<1>2. /\ todo # <<>> /\ Head(todo)[1] = "take" /\ todo' = TakePicture(mode) \o Rest
      /\ UNCHANGED <<adapter, buffers, display, taps, notifier, mLock, ret, app, faults, pics, misfreed>>
      /\ flags' = flags
  BY <1>1 DEF TakePictureStep, hal
<1>3. todo[1] \notin Key /\ todo[1][1] # "end" /\ Shoots(todo[1])
  BY <1>2, TakeHead
<1>4. ("shoots" \notin {} /\ "starts" \notin {} /\ "frees" \notin {})
      /\ "starts" \notin {"shoots"} /\ "frees" \notin {"shoots"}
  OBVIOUS
<1>5. PreviewEnabled \/ Is("mDisplayPaused") => Seen \/ InProgress
  BY DEF PreviewEnabled, Seen, InProgress
<1>6. CASE TakePicture(mode) = <<Do("refuse")>>
  <2>1. PICK a : a = Do("refuse")
    OBVIOUS
  <2>2. Ahead(faults, <<a>>, {}) /\ a \notin Needs /\ todo' = <<a>> \o Rest
    BY <1>2, <1>6, <2>1, Numbers, FourShots DEF Fit
  <2> QED
    BY <1>2, <1>3, <1>4, <2>2, Unfolds
<1>7. CASE /\ TakePicture(mode) = <<Must("START_IMAGE_CAPTURE")>>
           /\ PreviewEnabled \/ Is("mDisplayPaused")
  <2>1. PICK a : a = Must("START_IMAGE_CAPTURE")
    OBVIOUS
  <2>2. /\ Ahead(faults, <<a>>, {"shoots"}) /\ todo' = <<a>> \o Rest
        /\ a \in Picture \ {Do("pause preview"), Do("allocate image buffers"),
                            Must("USE_BUFFERS_IMAGE_CAPTURE")}
    BY <1>2, <1>7, <2>1, Numbers, FourShots
  <2> QED
    BY <1>2, <1>3, <1>4, <1>5, <1>7, <2>2, Unfolds
<1>8. CASE /\ TakePicture(mode) = <<Must("QUERY_BUFFER_SIZE_IMAGE_CAPTURE"), Do("allocate image buffers"),
                                    Must("USE_BUFFERS_IMAGE_CAPTURE"), Must("START_IMAGE_CAPTURE")>>
           /\ PreviewEnabled \/ Is("mDisplayPaused")
  <2> DEFINE s == <<Must("QUERY_BUFFER_SIZE_IMAGE_CAPTURE"), Do("allocate image buffers"),
                    Must("USE_BUFFERS_IMAGE_CAPTURE"), Must("START_IMAGE_CAPTURE")>>
  <2>1. Ahead(faults, s, {"shoots"}) /\ todo' = s \o Rest
    BY <1>2, <1>8, Numbers, AheadPicture
  <2>2. s[1] = Must("QUERY_BUFFER_SIZE_IMAGE_CAPTURE")
    OBVIOUS
  <2> HIDE DEF s
  <2>3. s[1] \in Picture \ {Do("pause preview"), Do("allocate image buffers"),
                            Must("USE_BUFFERS_IMAGE_CAPTURE")}
    BY <2>2, Numbers, FourShots
  <2> QED
    BY <1>2, <1>3, <1>4, <1>5, <1>8, <2>1, <2>3, Unfolds
<1>9. CASE /\ TakePicture(mode) = <<Do("pause preview"), Must("QUERY_BUFFER_SIZE_IMAGE_CAPTURE"),
                                    Do("allocate image buffers"), Must("USE_BUFFERS_IMAGE_CAPTURE"),
                                    Must("START_IMAGE_CAPTURE")>>
           /\ PreviewEnabled \/ Is("mDisplayPaused")
           /\ display.alive
  <2> DEFINE s == <<Do("pause preview"), Must("QUERY_BUFFER_SIZE_IMAGE_CAPTURE"), Do("allocate image buffers"),
                    Must("USE_BUFFERS_IMAGE_CAPTURE"), Must("START_IMAGE_CAPTURE")>>
  <2>1. Ahead(faults, s, {"shoots"}) /\ todo' = s \o Rest
    BY <1>2, <1>9, Numbers, AheadPaused
  <2>2. s[1] = Do("pause preview")
    OBVIOUS
  <2> HIDE DEF s
  <2>3. ASSUME faults = 0 PROVE Seen
    <3>1. PreviewFlags /\ ~On(Loose)
      BY <1>3, <2>3, Numbers, LooseIsKey DEF Preview, On
    <3>2. ~Waiting
      BY <3>1, AtRest
    <3> QED
      BY <1>5, <1>9, <3>2 DEF Waiting
  <2> QED
    BY <1>2, <1>3, <1>4, <2>1, <2>2, <2>3, Unfolds
<1> QED
  BY <1>6, <1>7, <1>8, <1>9, TakePictureIs

(* The destructor, and the camera that is opened anew.                        *)
LEMMA KeepsDestroy == ASSUME HalInv, Destroy PROVE HalInv'
<1>1. /\ todo # <<>> /\ todo[1] = Do("destroy") /\ todo' = Rest
      /\ call' = call /\ calls' = calls /\ faults' = faults /\ mLock' = mLock /\ ret' = ret
      /\ flags' = {} /\ adapter' = "INITIALIZED" /\ notifier' = {"started"}
      /\ buffers' = [k \in Kinds |-> Nobody]
      /\ display' = [display EXCEPT !.alive = FALSE, !.on = FALSE, !.paused = FALSE]
      /\ tapout' = FALSE /\ taken' = FALSE /\ shot' = 0 /\ owed' = 0
      /\ misfreed' = (misfreed \/ buffers["video"] # Nobody \/ buffers["image"] \notin {Nobody, MemoryMgr})
  BY Numbers DEF Destroy, Goes, At, app
<1>2. Do("destroy") \notin Key
  BY QuietHeads DEF QuietDoings
<1>3. Program' /\ todo' # <<>> /\ Link(faults, Do("destroy"), todo'[1]) /\ (NoShots(todo) => NoShots(todo'))
  <2>1. Program' /\ todo' # <<>> /\ Link(faults, Do("destroy"), todo'[1])
    BY <1>1, Following
  <2>2. NoShots(todo) => NoShots(todo')
    BY <1>1, Numbers, Onward
  <2> QED
    BY <2>1, <2>2
<1>4. todo'[1] \notin Needs
  BY <1>2, <1>3, QuietLink
<1>5. display'.alive = FALSE /\ display'.made = display.made
      /\ display' \in [made : 0..MaxCalls, alive : BOOLEAN, on : BOOLEAN, paused : BOOLEAN]
  BY <1>1, Numbers DEF TypeOK
<1>6. Counts'
  BY <1>1, <1>3, <1>5, Numbers DEF Counts
<1>7. PictureHeads'
  BY <1>1, <1>4 DEF PictureHeads, On, Needs, Picture
<1>8. PicturesHaveBuffers' /\ Windowed'
  BY <1>1, <1>5 DEF PicturesHaveBuffers, Windowed
<1>9. Preview'
  <2>1. ~Seen' /\ ~Done' /\ ~InProgress'
    BY <1>1 DEF Seen, Done, InProgress, Is
  <2>2. Settled' /\ ~Waiting'
    BY <1>1, <2>1 DEF Settled, Waiting, Parked
  <2>3. PreviewFlags'
    BY <2>1, <2>2, FlagsAtRest
  <2>4. PreviewHeads'
    BY <1>4, FreeHead
  <2> QED
    BY <2>3, <2>4 DEF Preview
<1>10. TypeOK'
  <2>1. buffers' \in [Kinds -> {Nobody, MemoryMgr, Gralloc, Tap} \cup (1..MaxCalls)]
    BY <1>1
  <2>2. adapter' \in States /\ flags' \subseteq Flags /\ notifier' \subseteq {"started", "previewing",
                                                                              "recording"}
    BY <1>1 DEF States, StillStates
  <2>3. shot' \in 0..MaxCalls /\ owed' \in 0..MaxCalls /\ misfreed' \in BOOLEAN
    BY <1>1, CameraHalAssumption
  <2> QED
    BY <1>1, <1>3, <1>5, <2>1, <2>2, <2>3, Numbers, Ongoing DEF TypeOK
<1> QED
  BY <1>3, <1>6, <1>7, <1>8, <1>9, <1>10 DEF HalInv, Pictures

-----------------------------------------------------------------------------
(* The threads of the adapter.                                                *)

LEMMA EndingEdges ==
  ASSUME NEW s, NEW d, NEW c \in {"STOP_IMAGE_CAPTURE", "STOP_BRACKET_CAPTURE"}, <<s, c, d>> \in Edges
  PROVE  /\ s \in {"CAPTURE", "BRACKETING", "VIDEO_CAPTURE", "REPROCESS"} /\ d \in {"PREVIEW", "VIDEO"}
         /\ s = "REPROCESS" => CpCam
BY DEF Edges, InitializedEdges, LoadedPreviewEdges, PreviewEdges, LoadedReprocessEdges, ReprocessEdges,
       CaptureEdges, BracketingEdges, FocusZoomEdges, VideoEdges

LEMMA PreviewsAsk == "PREVIEW" \in Asks /\ "VIDEO" \in Asks
BY DEF Asks, Accepts, States, VideoStates, StillStates, Edges, PreviewEdges, VideoEdges

LEMMA CapturesAskNot ==
  ASSUME NEW s \in {"CAPTURE", "BRACKETING", "VIDEO_CAPTURE", "REPROCESS", "AF", "VIDEO_AF"}
  PROVE  s \notin Asks
BY DEF Asks, Accepts, Edges, InitializedEdges, LoadedPreviewEdges, PreviewEdges, LoadedReprocessEdges,
       ReprocessEdges, CaptureEdges, BracketingEdges, FocusZoomEdges, VideoEdges

(* A thread that leaves the call where it is, and the adapter still open.     *)
LEMMA Undisturbed ==
  ASSUME HalInv, todo' = todo, call' = call, faults' = faults, Kept, Steady
  PROVE  Windowed' /\ Preview'
<1>1. Windowed'
  BY Numbers DEF Windowed, Kept, Watched, Is
<1>2. ASSUME faults' = 0 PROVE PreviewHeads' /\ PreviewFlags'
  <2>1. PreviewHeads /\ PreviewFlags
    BY <1>2, Numbers DEF Preview
  <2>2. /\ (Done' <=> Done) /\ (Seen' <=> Seen) /\ (InProgress' <=> InProgress) /\ (Waiting' <=> Waiting)
        /\ (Loaded' <=> Loaded) /\ display'.alive = display.alive
    BY DEF Kept, Watched, Done, Seen, InProgress, Waiting, Is
  <2>3. \A X : On(X)' <=> On(X)
    BY DEF On
  <2>4. CASE adapter' = adapter
    <3>1. PreviewHeads'
      BY <2>1, <2>2, <2>4 DEF PreviewHeads, On
    <3>2. PreviewFlags'
      BY <2>1, <2>2, <2>4 DEF PreviewFlags, On, NoFrees, Parked
    <3> QED
      BY <3>1, <3>2
  <2>5. CASE adapter \notin Parked /\ adapter' \notin {"INITIALIZED", "LOADED_PREVIEW", "LOADED_CAPTURE"}
    <3>1. adapter \notin {"INITIALIZED", "LOADED_PREVIEW"}
      BY <2>5, ParkedStates
    <3>2. PreviewHeads'
      BY <2>1, <2>2, <2>5, <3>1 DEF PreviewHeads, On
    <3>3. PreviewFlags'
      BY <2>1, <2>2, <2>5, <3>1 DEF PreviewFlags, On
    <3> QED
      BY <3>2, <3>3
  <2> QED
    BY <2>4, <2>5 DEF Steady
<1> QED
  BY <1>1, <1>2 DEF Preview

LEMMA Same ==
  ASSUME HalInv, UNCHANGED <<adapter, hal, mLock, todo, ret, app, faults, shot, misfreed>>,
         owed' \in 0..MaxCalls
  PROVE  HalInv'
<1>1. /\ adapter' = adapter /\ flags' = flags /\ buffers' = buffers /\ display' = display /\ tapout' = tapout
      /\ taken' = taken /\ notifier' = notifier /\ mLock' = mLock /\ ret' = ret /\ call' = call
      /\ calls' = calls /\ faults' = faults /\ shot' = shot /\ misfreed' = misfreed /\ todo' = todo
  BY DEF hal, taps, app
<1>2. Program' /\ Counts'
  BY <1>1, Numbers DEF Program, Counts, NoShots
<1>3. Pictures'
  BY <1>1, Numbers DEF Pictures, PictureHeads, PicturesHaveBuffers, On
<1>4. Kept /\ Steady
  BY <1>1 DEF Kept, Steady, Loaded
<1>5. Windowed' /\ Preview'
  BY <1>1, <1>4, Undisturbed
<1>6. TypeOK'
  BY <1>1, Numbers DEF TypeOK
<1> QED
  BY <1>2, <1>3, <1>5, <1>6 DEF HalInv

LEMMA KeepsCaptureEnds == ASSUME HalInv, CaptureEnds PROVE HalInv'
<1>1. owed' \in 0..MaxCalls
  BY Numbers DEF CaptureEnds, TypeOK
<1> QED
  BY <1>1, Same DEF CaptureEnds

(* The adapter goes back to the preview, or to the video.                     *)
LEMMA BackToPreview ==
  ASSUME HalInv, adapter \in {"CAPTURE", "BRACKETING", "VIDEO_CAPTURE", "REPROCESS", "AF", "VIDEO_AF"},
         adapter = "REPROCESS" => CpCam, adapter' \in {"PREVIEW", "VIDEO"},
         flags' = flags \/ flags' = flags \ {"mBracketingRunning"},
         buffers'["preview"] = buffers["preview"],
         buffers' \in [Kinds -> {Nobody, MemoryMgr, Gralloc, Tap} \cup (1..MaxCalls)],
         misfreed' \in BOOLEAN, owed' \in 0..MaxCalls,
         UNCHANGED <<display, taps, notifier, mLock, todo, ret, app, faults, shot>>
  PROVE  HalInv'
<1>1. /\ display' = display /\ tapout' = tapout /\ taken' = taken /\ notifier' = notifier /\ mLock' = mLock
      /\ ret' = ret /\ call' = call /\ calls' = calls /\ faults' = faults /\ shot' = shot /\ todo' = todo
  BY DEF taps, app
<1>2. Program' /\ Counts'
  BY <1>1, Numbers DEF Program, Counts, NoShots
<1>3. adapter \notin Asks /\ adapter' \in Asks
  BY CapturesAskNot, PreviewsAsk
<1>4. PictureHeads'
  BY <1>1, <1>3, Numbers DEF PictureHeads, On
<1>5. PicturesHaveBuffers'
  BY DEF PicturesHaveBuffers
<1>6. Kept
  BY <1>1 DEF Kept, Watched, Loaded
<1>7. Steady
  BY ParkedStates DEF Steady
<1>8. Windowed' /\ Preview'
  BY <1>1, <1>6, <1>7, Undisturbed
<1>9. adapter' \in States /\ flags' \subseteq Flags
  BY Numbers DEF TypeOK, States, VideoStates, StillStates
<1>10. TypeOK'
  BY <1>1, <1>9, Numbers DEF TypeOK
<1> QED
  BY <1>2, <1>4, <1>5, <1>8, <1>10 DEF HalInv, Pictures

LEMMA KeepsFocusEnds == ASSUME HalInv, FocusEnds PROVE HalInv'
<1>1. /\ adapter \in {"AF", "VIDEO_AF"} /\ adapter' \in {"PREVIEW", "VIDEO"}
      /\ flags' = flags /\ buffers' = buffers /\ misfreed' = misfreed /\ owed' = owed
      /\ UNCHANGED <<display, taps, notifier, mLock, todo, ret, app, faults, shot>>
  BY DEF FocusEnds, hal, pics
<1>2. /\ buffers' \in [Kinds -> {Nobody, MemoryMgr, Gralloc, Tap} \cup (1..MaxCalls)]
      /\ misfreed' \in BOOLEAN /\ owed' \in 0..MaxCalls
  BY <1>1, Numbers DEF TypeOK
<1> QED
  BY <1>1, <1>2, BackToPreview

LEMMA Ends ==
  ASSUME HalInv, NEW c \in {"STOP_IMAGE_CAPTURE", "STOP_BRACKET_CAPTURE"}, Accepts(adapter, c)
  PROVE  /\ adapter \in {"CAPTURE", "BRACKETING", "VIDEO_CAPTURE", "REPROCESS"}
         /\ adapter = "REPROCESS" => CpCam
BY EndingEdges DEF Accepts

LEMMA KeepsSignalEnd == ASSUME HalInv, SignalEnd PROVE HalInv'
<1>1. /\ UNCHANGED <<display, taps, notifier, mLock, todo, ret, app, faults, shot>> /\ owed' = 0
      /\ flags' = flags \/ flags' = flags \ {"mBracketingRunning"}
  BY DEF SignalEnd
<1>2. owed' \in 0..MaxCalls
  BY <1>1, CameraHalAssumption
<1>3. CASE UNCHANGED <<adapter, buffers, misfreed>>
  <2>1. /\ adapter' = adapter /\ buffers' = buffers /\ misfreed' = misfreed
        /\ display' = display /\ tapout' = tapout /\ taken' = taken /\ notifier' = notifier /\ mLock' = mLock
        /\ ret' = ret /\ call' = call /\ calls' = calls /\ faults' = faults /\ shot' = shot /\ todo' = todo
    BY <1>1, <1>3 DEF taps, app
  <2>2. Program' /\ Counts'
    BY <2>1, Numbers DEF Program, Counts, NoShots
  <2>3. Pictures'
    BY <2>1, Numbers DEF Pictures, PictureHeads, PicturesHaveBuffers, On
  <2>4. Kept /\ Steady
    BY <1>1, <2>1 DEF Kept, Steady, Loaded, Watched
  <2>5. Windowed' /\ Preview'
    BY <2>1, <2>4, Undisturbed
  <2>6. TypeOK'
    BY <1>1, <1>2, <2>1, Numbers DEF TypeOK
  <2> QED
    BY <2>2, <2>3, <2>5, <2>6 DEF HalInv
<1>4. CASE ~UNCHANGED <<adapter, buffers, misfreed>>
  <2>1. /\ FreeImageBufs
        /\ \E c \in {"STOP_IMAGE_CAPTURE", "STOP_BRACKET_CAPTURE"} : Accepts(adapter, c)
        /\ \/ adapter' = "PREVIEW"
           \/ \E s \in States : <<adapter, "STOP_IMAGE_CAPTURE", s>> \in Edges /\ adapter' = s
    BY <1>4 DEF SignalEnd
  <2>2. /\ adapter \in {"CAPTURE", "BRACKETING", "VIDEO_CAPTURE", "REPROCESS"}
        /\ adapter = "REPROCESS" => CpCam
    BY <2>1, Ends
  <2>3. adapter' \in {"PREVIEW", "VIDEO"}
    BY <2>1, EndingEdges
  <2>4. /\ buffers'["preview"] = buffers["preview"]
        /\ buffers' \in [Kinds -> {Nobody, MemoryMgr, Gralloc, Tap} \cup (1..MaxCalls)]
    BY <2>1, ImageBuffersFreed
  <2>5. misfreed' \in BOOLEAN
    BY <2>1 DEF FreeImageBufs
  <2> QED
    BY <1>1, <1>2, <2>2, <2>3, <2>4, <2>5, BackToPreview
<1> QED
  BY <1>3, <1>4

-----------------------------------------------------------------------------
(* The calls.                                                                 *)

LEMMA Between ==
  ASSUME HalInv, call = "none"
  PROVE  /\ todo = <<>>
         /\ faults = 0 => /\ Settled /\ ~Waiting
                          /\ Done => ~PreviewEnabled /\ ~Is("mDisplayPaused") /\ ~Is("mPreviewEnabled")
<1>1. todo = <<>>
  BY Numbers DEF TypeOK
<1>2. ASSUME faults = 0 PROVE Settled /\ ~Waiting
  BY <1>1, <1>2, Numbers, AtRest DEF Preview, On
<1>3. Settled /\ Done => ~PreviewEnabled /\ ~Is("mDisplayPaused") /\ ~Is("mPreviewEnabled")
  BY DEF Settled, Seen, InProgress, PreviewEnabled
<1> QED
  BY <1>1, <1>2, <1>3

(* A call may change the window, and nothing else that matters.               *)
Windowing ==
  /\ UNCHANGED <<adapter, mLock, faults, pics, misfreed, buffers, taps, notifier>>
  /\ flags' \subseteq Flags
  /\ \A f \in Watched \ {"mSetPreviewWindowCalled"} : f \in flags' <=> f \in flags
  /\ display' \in [made : 0..MaxCalls, alive : BOOLEAN, on : BOOLEAN, paused : BOOLEAN]
  /\ display'.made =< calls'
  /\ Windowed'

LEMMA WindowingIs ==
  ASSUME HalInv, Windowing, call = "none"
  PROVE  /\ adapter' = adapter /\ buffers' = buffers /\ tapout' = tapout
         /\ taken' = taken /\ notifier' = notifier /\ mLock' = mLock
         /\ faults' = faults /\ shot' = shot /\ owed' = owed /\ misfreed' = misfreed
         /\ (Done' <=> Done) /\ (Seen' <=> Seen) /\ (InProgress' <=> InProgress) /\ (Loaded' <=> Loaded)
         /\ faults = 0 => Settled'
<1>1. /\ adapter' = adapter /\ buffers' = buffers /\ tapout' = tapout
      /\ taken' = taken /\ notifier' = notifier /\ mLock' = mLock
      /\ faults' = faults /\ shot' = shot /\ owed' = owed /\ misfreed' = misfreed
  BY DEF Windowing, taps, pics
<1>2. (Done' <=> Done) /\ (Seen' <=> Seen) /\ (InProgress' <=> InProgress) /\ (Loaded' <=> Loaded)
  BY <1>1 DEF Windowing, Watched, Done, Seen, InProgress, Loaded, Is
<1>3. faults = 0 => Settled'
  BY <1>1, <1>2, Between DEF Settled, Parked
<1> QED
  BY <1>1, <1>2, <1>3

LEMMA Calling ==
  ASSUME HalInv, NEW c \in Functions, NEW s, NEW C, Begin(c, s), Fit(faults, s, C), Windowing,
         faults = 0 /\ Done => "frees" \notin C,
         faults = 0 /\ Waiting' => c # "sendCommand" /\ s # <<>> /\ s[1] = Do("initialization")
  PROVE  HalInv'
<1>1. /\ call = "none" /\ call' = c /\ c \in Services /\ calls < MaxCalls /\ calls' = calls + 1
      /\ ret' = "ok" /\ todo' = s \o <<End(c)>>
  BY DEF Begin
<1>2. /\ adapter' = adapter /\ buffers' = buffers /\ tapout' = tapout
      /\ taken' = taken /\ notifier' = notifier /\ mLock' = mLock
      /\ faults' = faults /\ shot' = shot /\ owed' = owed /\ misfreed' = misfreed
      /\ (Done' <=> Done) /\ (Seen' <=> Seen) /\ (InProgress' <=> InProgress) /\ (Loaded' <=> Loaded)
      /\ faults = 0 => Settled'
  BY <1>1, WindowingIs
<1>3. /\ Program' /\ todo' # <<>> /\ todo'[1] = (IF s = <<>> THEN End(c) ELSE s[1])
      /\ todo'[1] \notin Needs
      /\ "frees" \notin C => NoFrees(todo')
  BY <1>1, <1>2, Numbers, Begun
<1>4. Counts'
  <2>1. calls' \in Nat /\ shot' =< calls /\ calls < calls'
    BY <1>1, <1>2, Numbers DEF Counts
  <2>2. display'.made =< calls'
    BY DEF Windowing
  <2> QED
    BY <1>1, <1>2, <2>1, <2>2, Numbers DEF Counts
<1>5. Pictures'
  <2>1. todo'[1] \notin {Do("allocate image buffers"), Must("USE_BUFFERS_IMAGE_CAPTURE")}
    BY <1>3 DEF Needs, Picture
  <2> QED
    BY <1>2, <2>1, HeadPictures, KeepsPictures DEF Pictures
<1>6. ASSUME faults = 0 PROVE PreviewHeads' /\ PreviewFlags'
  <2>1. PreviewHeads'
    BY <1>3, FreeHead
  <2>2. CASE ~Waiting'
    <3>1. Done' => NoFrees(todo')
      BY <1>2, <1>3, <1>6
    <3> QED
      BY <1>2, <1>6, <2>1, <2>2, <3>1, FlagsAtRest
  <2>3. CASE Waiting'
    <3>1. todo'[1] = Do("initialization") /\ call' # "sendCommand"
      BY <1>1, <1>3, <1>6, <2>3
    <3>2. Settled' /\ (Done' => NoFrees(todo'))
      BY <1>2, <1>3, <1>6
    <3>3. \A x \in {"initialized"} : Do("initialization") # Do(x)
      BY StepsDiffer
    <3>4. PreviewFlags'
      BY <1>3, <3>1, <3>2, <3>3 DEF PreviewFlags, Settled, On
    <3> QED
      BY <2>1, <3>4
  <2> QED
    BY <2>2, <2>3
<1>7. TypeOK'
  <2>1. calls' \in 0..MaxCalls
    BY <1>1, Numbers, CameraHalAssumption DEF TypeOK
  <2>2. call' # "none"
    BY <1>1 DEF Functions
  <2> QED
    BY <1>1, <1>2, <1>3, <2>1, <2>2, Numbers DEF TypeOK, Windowing
<1>8. Windowed'
  BY DEF Windowing
<1> QED
  BY <1>2, <1>3, <1>4, <1>5, <1>6, <1>7, <1>8 DEF HalInv, Preview

LEMMA Refusing ==
  ASSUME HalInv, NEW c, Refuse(c), Windowing, display'.alive => display.alive
  PROVE  HalInv'
<1>1. /\ call = "none" /\ call' = call /\ calls < MaxCalls /\ calls' = calls + 1
      /\ ret' = ret /\ todo' = todo
  BY DEF Refuse
<1>2. /\ adapter' = adapter /\ buffers' = buffers /\ tapout' = tapout
      /\ taken' = taken /\ notifier' = notifier /\ mLock' = mLock
      /\ faults' = faults /\ shot' = shot /\ owed' = owed /\ misfreed' = misfreed
      /\ (Done' <=> Done) /\ (Seen' <=> Seen) /\ (InProgress' <=> InProgress) /\ (Loaded' <=> Loaded)
      /\ faults = 0 => Settled'
  BY <1>1, WindowingIs
<1>3. todo' = <<>> /\ (faults = 0 => ~Waiting)
  BY <1>1, Between
<1>4. Program' /\ NoShots(todo')
  <2>1. Program'
    BY <1>1, <1>2, Numbers DEF Program
  <2>2. NoShots(todo')
    BY <1>3 DEF NoShots
  <2> QED
    BY <2>1, <2>2
<1>5. Counts'
  <2>1. calls' \in Nat /\ shot' =< calls /\ calls < calls'
    BY <1>1, <1>2, Numbers DEF Counts
  <2>2. display'.made =< calls'
    BY DEF Windowing
  <2> QED
    BY <1>1, <1>2, <2>1, <2>2, Numbers DEF Counts
<1>6. Pictures'
  BY <1>2, <1>3, HeadPictures, KeepsPictures DEF Pictures
<1>7. ASSUME faults = 0 PROVE PreviewHeads' /\ PreviewFlags'
  <2>1. ~Waiting' /\ NoFrees(todo')
    BY <1>2, <1>3, <1>7 DEF Waiting, NoFrees
  <2> QED
    BY <1>2, <1>3, <1>7, <2>1, FreeHead, FlagsAtRest
<1>8. TypeOK'
  <2>1. calls' \in 0..MaxCalls
    BY <1>1, Numbers, CameraHalAssumption DEF TypeOK
  <2> QED
    BY <1>1, <1>2, <2>1, Numbers DEF TypeOK, Windowing
<1>9. Windowed'
  BY DEF Windowing
<1> QED
  BY <1>2, <1>4, <1>5, <1>6, <1>7, <1>8, <1>9 DEF HalInv, Preview

LEMMA Untouched ==
  ASSUME HalInv, Elsewhere, UNCHANGED hal, calls' = calls + 1
  PROVE  Windowing /\ display' = display /\ (Waiting' <=> Waiting)
<1>1. /\ flags' = flags /\ display' = display
      /\ UNCHANGED <<adapter, mLock, faults, pics, misfreed, buffers, taps, notifier>>
  BY DEF hal, Elsewhere
<1>2. Windowed' /\ (Waiting' <=> Waiting)
  BY <1>1, Numbers DEF Windowed, Waiting, Seen, InProgress, Is
<1>3. display'.made =< calls'
  BY <1>1, Numbers DEF Counts
<1> QED
  BY <1>1, <1>2, <1>3, Numbers DEF Windowing, TypeOK

LEMMA PlainCall ==
  ASSUME HalInv, NEW c \in Functions, NEW s, NEW C, Begin(c, s), Fit(faults, s, C), Elsewhere, UNCHANGED hal,
         faults = 0 /\ Done => "frees" \notin C
  PROVE  HalInv'
<1>1. call = "none" /\ calls' = calls + 1
  BY DEF Begin
<1>2. Windowing /\ (Waiting' <=> Waiting)
  BY <1>1, Untouched
<1>3. faults = 0 => ~Waiting'
  BY <1>1, <1>2, Between
<1> QED
  BY <1>2, <1>3, Calling

LEMMA PlainRefusal ==
  ASSUME HalInv, NEW c, Refuse(c), Elsewhere, UNCHANGED hal
  PROVE  HalInv'
<1>1. calls' = calls + 1
  BY DEF Refuse
<1>2. Windowing /\ display' = display
  BY <1>1, Untouched
<1> QED
  BY <1>2, Refusing

(* A call that frees the buffers of the preview only where there is one.      *)
LEMMA WhereEnabled ==
  ASSUME HalInv, NEW c \in Functions, NEW s, NEW C, Begin(c, s), Fit(faults, s, C), Elsewhere, UNCHANGED hal,
         PreviewEnabled \/ Is("mDisplayPaused")
  PROVE  HalInv'
<1>1. call = "none"
  BY DEF Begin
<1>2. faults = 0 => ~Done
  BY <1>1, Between
<1> QED
  BY <1>2, PlainCall

LEMMA KeepsCallStartPreview == ASSUME HalInv, CallStartPreview PROVE HalInv'
<1>1. Fit(faults, StartPreview, {"starts"}) /\ "frees" \notin {"starts"} /\ "startPreview" \in Functions
  BY Numbers, FitStart DEF Functions
<1> QED
  BY <1>1, PlainCall DEF CallStartPreview

LEMMA KeepsCallStopPreview == ASSUME HalInv, CallStopPreview PROVE HalInv'
<1>1. Fit(faults, ForceStopPreview, {"frees"}) /\ "stopPreview" \in Functions
  BY Numbers, FitStop DEF Functions
<1>2. Elsewhere /\ UNCHANGED hal
  BY DEF CallStopPreview
<1>3. CASE Refuse("stopPreview")
  BY <1>2, <1>3, PlainRefusal
<1>4. CASE Begin("stopPreview", ForceStopPreview) /\ (PreviewEnabled \/ Is("mDisplayPaused"))
  BY <1>1, <1>2, <1>4, WhereEnabled
<1> QED
  BY <1>3, <1>4 DEF CallStopPreview

LEMMA KeepsCallSetNoWindow == ASSUME HalInv, CallSetNoWindow PROVE HalInv'
<1>0. PICK c : Refuse(c)
  BY Zenon DEF CallSetNoWindow
<1>1. /\ calls' = calls + 1
      /\ display' = [display EXCEPT !.alive = FALSE, !.on = FALSE, !.paused = FALSE]
      /\ UNCHANGED <<adapter, mLock, faults, pics, misfreed, buffers, taps, notifier>>
  BY <1>0 DEF CallSetNoWindow, Elsewhere, Refuse
<1>2. /\ ~display'.alive /\ display'.made = display.made
      /\ display' \in [made : 0..MaxCalls, alive : BOOLEAN, on : BOOLEAN, paused : BOOLEAN]
  BY <1>1, Numbers DEF TypeOK
<1>3. flags' = flags \ {"mSetPreviewWindowCalled"} \/ flags' = flags \cup {"mSetPreviewWindowCalled"}
  BY DEF CallSetNoWindow
<1>4. flags' \subseteq Flags /\ \A f \in Watched \ {"mSetPreviewWindowCalled"} : f \in flags' <=> f \in flags
  BY <1>3, Numbers DEF TypeOK, Flags, Watched
<1>5. Windowed' /\ display'.made =< calls'
  <2>1. Windowed'
    BY <1>2 DEF Windowed
  <2>2. display.made =< calls /\ calls \in Nat /\ display.made \in Nat
    BY Numbers DEF Counts
  <2>3. display'.made =< calls'
    BY <1>1, <1>2, <2>2
  <2> QED
    BY <2>1, <2>3
<1>6. Windowing
  BY <1>1, <1>2, <1>4, <1>5 DEF Windowing
<1> QED
  BY <1>0, <1>1, <1>2, <1>6, Refusing

LEMMA WithWindow ==
  ASSUME HalInv, flags' = flags \cup {"mSetPreviewWindowCalled"}
  PROVE  /\ flags' \subseteq Flags
         /\ \A f \in Watched \ {"mSetPreviewWindowCalled"} : f \in flags' <=> f \in flags
         /\ Is("mSetPreviewWindowCalled")'
BY Numbers DEF TypeOK, Flags, Watched, Is

LEMMA KeepsCallSetFirstWindow == ASSUME HalInv, CallSetFirstWindow PROVE HalInv'
<1> DEFINE s == IF Is("mPreviewStartInProgress") THEN StartPreview ELSE <<>>
<1>1. /\ Begin("setPreviewWindow", s) /\ calls' = calls + 1 /\ call = "none" /\ calls < MaxCalls
      /\ display' = [made |-> display.made + 1, alive |-> TRUE, on |-> FALSE, paused |-> FALSE]
      /\ flags' = flags \cup {"mSetPreviewWindowCalled"}
      /\ UNCHANGED <<adapter, mLock, faults, pics, misfreed, buffers, taps, notifier>>
  BY DEF CallSetFirstWindow, Elsewhere, Begin
<1>2. Fit(faults, s, {"starts"}) /\ "frees" \notin {"starts"}
  <2>1. Fit(faults, <<>>, {}) /\ Fit(faults, StartPreview, {"starts"})
    BY Numbers, FitStart, SimpleSequences
  <2>2. Fit(faults, <<>>, {"starts"})
    BY <2>1, Numbers, Widened
  <2> QED
    BY <2>1, <2>2
<1>3. display'.made =< calls' /\ display'.made \in 0..MaxCalls /\ display'.made > 0
  BY <1>1, Numbers, CameraHalAssumption DEF Counts, TypeOK
<1>4. display' \in [made : 0..MaxCalls, alive : BOOLEAN, on : BOOLEAN, paused : BOOLEAN]
  BY <1>1, <1>3
<1>5. Windowing
  BY <1>1, <1>3, <1>4, WithWindow DEF Windowing, Windowed
<1>6. Waiting' => s # <<>> /\ s[1] = Do("initialization")
  <2>1. InProgress' <=> Is("mPreviewStartInProgress")
    BY <1>1 DEF InProgress, Is
  <2>2. StartPreview # <<>> /\ StartPreview[1] = Do("initialization")
    BY DEF StartPreview
  <2> QED
    BY <2>1, <2>2 DEF Waiting
<1>7. "setPreviewWindow" \in Functions /\ "setPreviewWindow" # "sendCommand"
  BY DEF Functions
<1> HIDE DEF s
<1> QED
  BY <1>1, <1>2, <1>5, <1>6, <1>7, Calling

LEMMA KeepsCallSetOtherWindow == ASSUME HalInv, CallSetOtherWindow PROVE HalInv'
<1> DEFINE s == IF PreviewEnabled THEN RestartPreview ELSE <<>>
<1>1. /\ Begin("setPreviewWindow", s) /\ calls' = calls + 1 /\ call = "none" /\ display.alive
      /\ display' = [display EXCEPT !.on = FALSE, !.paused = FALSE]
      /\ flags' = flags \cup {"mSetPreviewWindowCalled"}
      /\ UNCHANGED <<adapter, mLock, faults, pics, misfreed, buffers, taps, notifier>>
  BY DEF CallSetOtherWindow, Elsewhere, Begin
<1>2. /\ display'.alive = display.alive /\ display'.made = display.made
      /\ display' \in [made : 0..MaxCalls, alive : BOOLEAN, on : BOOLEAN, paused : BOOLEAN]
  BY <1>1, Numbers DEF TypeOK
<1>3. Windowing
  <2>1. Windowed' /\ display'.made =< calls'
    BY <1>1, <1>2, WithWindow, Numbers DEF Windowed, Counts
  <2> QED
    BY <1>1, <1>2, <2>1, WithWindow DEF Windowing
<1>4. faults = 0 => ~Waiting'
  <2>1. (Seen' <=> Seen) /\ (InProgress' <=> InProgress)
    BY <1>1, <1>3, WindowingIs
  <2> QED
    BY <1>1, <1>2, <2>1, Between DEF Waiting
<1>5. "setPreviewWindow" \in Functions
  BY DEF Functions
<1>6. CASE PreviewEnabled
  <2>1. Fit(faults, s, {"starts", "frees"})
    BY <1>6, Numbers, FitRestart
  <2>2. faults = 0 => ~Done
    BY <1>1, <1>6, Between
  <2> HIDE DEF s
  <2> QED
    BY <1>1, <1>3, <1>4, <1>5, <2>1, <2>2, Calling
<1>7. CASE ~PreviewEnabled
  <2>1. Fit(faults, s, {}) /\ "frees" \notin {}
    BY <1>7, Numbers, SimpleSequences
  <2> HIDE DEF s
  <2> QED
    BY <1>1, <1>3, <1>4, <1>5, <2>1, Calling
<1> QED
  BY <1>6, <1>7

LEMMA KeepsCallSetParameters == ASSUME HalInv, CallSetParameters PROVE HalInv'
<1> DEFINE s(bracketing) ==
             <<Do("lock")>>
             \o (IF bracketing THEN <<Do("enable bracketing")>>
                 ELSE <<Do("disable bracketing")>>
                      \o IF Is("mBracketingRunning") THEN <<Do("stop bracketing")>> ELSE <<>>)
             \o <<Do("unlock"), Do("bracket")>>
<1>1. PICK bracketing \in BOOLEAN : Begin("setParameters", s(bracketing))
  BY DEF CallSetParameters
<1>2. Fit(faults, s(bracketing), {"shoots"}) /\ "frees" \notin {"shoots"} /\ "setParameters" \in Functions
  BY Numbers, FitParameters DEF Functions
<1>3. Elsewhere /\ UNCHANGED hal
  BY DEF CallSetParameters
<1> HIDE DEF s
<1> QED
  BY <1>1, <1>2, <1>3, PlainCall

(* Nothing to stop, and nothing freed.                                        *)
LEMMA FitBracketOnly ==
  ASSUME NEW n \in Nat
  PROVE  Fit(n, <<Do("lock"), Do("unlock")>> \o <<>> \o <<Do("bracket")>>, {"shoots"})
<1>1. Fit(n, <<Do("lock"), Do("unlock")>>, {}) /\ Fit(n, <<>>, {})
  BY SimpleSequences, SimpleSteps
<1>2. Fit(n, <<Do("lock"), Do("unlock")>> \o <<>>, {})
  BY <1>1, Fitting
<1>3. Fit(n, <<Do("bracket")>>, {"shoots"})
  BY FitBracket
<1> QED
  BY <1>2, <1>3, Fitting

LEMMA KeepsCallSetParametersRestart == ASSUME HalInv, CallSetParametersRestart PROVE HalInv'
<1> DEFINE r == IF Is("mRecordingEnabled") THEN <<>>
                ELSE IF PreviewEnabled THEN RestartPreview
                ELSE IF Is("mDisplayPaused") THEN ForceStopPreview
                ELSE <<>>
           s == <<Do("lock"), Do("unlock")>> \o r \o <<Do("bracket")>>
<1>1. Begin("setParameters restart", s) /\ Elsewhere /\ UNCHANGED hal
  BY DEF CallSetParametersRestart
<1>2. "setParameters restart" \in Functions
  BY DEF Functions
<1>3. CASE r = <<>>
  <2>1. Fit(faults, s, {"shoots"}) /\ "frees" \notin {"shoots"}
    BY <1>3, Numbers, FitBracketOnly
  <2> HIDE DEF s
  <2> QED
    BY <1>1, <1>2, <2>1, PlainCall
<1>4. CASE r # <<>>
  <2>1. PreviewEnabled \/ Is("mDisplayPaused")
    BY <1>4
  <2>2. Fit(faults, s, {"shoots", "starts", "frees"})
    BY Numbers, FitParametersRestart
  <2> HIDE DEF s
  <2> QED
    BY <1>1, <1>2, <2>1, <2>2, WhereEnabled
<1> QED
  BY <1>3, <1>4

LEMMA KeepsCallTakePicture == ASSUME HalInv, CallTakePicture PROVE HalInv'
<1> DEFINE s(mode) == <<Do("lock")>> \o CancelFocusFirst
                      \o <<<<"take", mode>>, End("__takePicture"), Do("unlock")>>
<1>1. PICK mode \in {"single", "burst"} : Begin("takePicture", s(mode))
  BY CameraHalAssumption DEF CallTakePicture
<1>2. Fit(faults, s(mode), {"shoots"}) /\ "frees" \notin {"shoots"} /\ "takePicture" \in Functions
  BY Numbers, FitTakePicture DEF Functions
<1>3. Elsewhere /\ UNCHANGED hal
  BY DEF CallTakePicture
<1> HIDE DEF s
<1> QED
  BY <1>1, <1>2, <1>3, PlainCall

LEMMA KeepsCallCancelPicture == ASSUME HalInv, CallCancelPicture PROVE HalInv'
<1>1. Fit(faults, SignalEndImageCapture, {}) /\ "frees" \notin {} /\ "cancelPicture" \in Functions
  BY Numbers, FitSignal DEF Functions
<1> QED
  BY <1>1, PlainCall DEF CallCancelPicture

LEMMA KeepsCallAutoFocus == ASSUME HalInv, CallAutoFocus PROVE HalInv'
<1> DEFINE s == <<Do("lock")>> \o (IF adapter = "AF" THEN <<>> ELSE <<Try("PERFORM_AUTOFOCUS")>>)
                \o <<Do("unlock")>>
<1>1. Begin("autoFocus", s) /\ Elsewhere /\ UNCHANGED hal
  BY DEF CallAutoFocus
<1>2. Fit(faults, s, {}) /\ "frees" \notin {} /\ "autoFocus" \in Functions
  BY Numbers, FitAutoFocus DEF Functions
<1> HIDE DEF s
<1> QED
  BY <1>1, <1>2, PlainCall

LEMMA KeepsCallCancelAutoFocus == ASSUME HalInv, CallCancelAutoFocus PROVE HalInv'
<1>1. Fit(faults, CancelAutoFocus, {}) /\ "frees" \notin {} /\ "cancelAutoFocus" \in Functions
  BY Numbers, FitCancel DEF Functions
<1> QED
  BY <1>1, PlainCall DEF CallCancelAutoFocus

LEMMA KeepsCallStartRecording == ASSUME HalInv, CallStartRecording PROVE HalInv'
<1> DEFINE s(restart, ownBuffers) ==
             (IF restart THEN RestartPreview \o <<Do("check")>> ELSE <<>>) \o StartRecording(ownBuffers)
<1>1. Elsewhere /\ UNCHANGED hal
  BY DEF CallStartRecording
<1>2. CASE Refuse("startRecording")
  BY <1>1, <1>2, PlainRefusal
<1>3. CASE PreviewEnabled /\ \E restart, ownBuffers \in BOOLEAN : Begin("startRecording", s(restart, ownBuffers))
  <2>1. PICK restart \in BOOLEAN, ownBuffers \in BOOLEAN : Begin("startRecording", s(restart, ownBuffers))
    BY <1>3
  <2>2. Fit(faults, s(restart, ownBuffers), {"starts", "frees"}) /\ "startRecording" \in Functions
    BY Numbers, FitRecording DEF Functions
  <2> HIDE DEF s
  <2> QED
    BY <1>1, <1>3, <2>1, <2>2, WhereEnabled
<1> QED
  BY <1>2, <1>3 DEF CallStartRecording

LEMMA KeepsCallStopRecording == ASSUME HalInv, CallStopRecording PROVE HalInv'
<1> DEFINE s == <<Do("lock")>>
                \o (IF adapter = "VIDEO_CAPTURE" THEN <<Try("STOP_IMAGE_CAPTURE")>> ELSE <<>>)
                \o <<Try("STOP_VIDEO"), Do("stop recording"), Do("unlock")>>
<1>1. Elsewhere /\ UNCHANGED hal
  BY DEF CallStopRecording
<1>2. CASE Refuse("stopRecording")
  BY <1>1, <1>2, PlainRefusal
<1>3. CASE Begin("stopRecording", s)
  <2>1. Fit(faults, s, {}) /\ "frees" \notin {} /\ "stopRecording" \in Functions
    BY Numbers, FitStopRecording DEF Functions
  <2> HIDE DEF s
  <2> QED
    BY <1>1, <1>3, <2>1, PlainCall
<1> QED
  BY <1>2, <1>3 DEF CallStopRecording

LEMMA KeepsCallSetBufferSource == ASSUME HalInv, CallSetBufferSource PROVE HalInv'
<1> DEFINE s(out) == IF ~out /\ tapout THEN SignalEndImageCapture \o <<Do("drop tap")>>
                     ELSE IF out THEN <<Do("set tap")>> ELSE <<>>
<1>1. PICK out \in BOOLEAN : Begin("setBufferSource", s(out))
  BY DEF CallSetBufferSource
<1>2. Elsewhere /\ UNCHANGED hal
  BY DEF CallSetBufferSource
<1>3. Fit(faults, s(out), {})
  <2>1. Fit(faults, SignalEndImageCapture \o <<Do("drop tap")>>, {})
    BY Numbers, FitDropTap
  <2>2. Fit(faults, <<Do("set tap")>>, {}) /\ Fit(faults, <<>>, {})
    BY Numbers, SimpleSequences, SimpleSteps
  <2> QED
    BY <2>1, <2>2
<1>4. "frees" \notin {} /\ "setBufferSource" \in Functions
  BY DEF Functions
<1> HIDE DEF s
<1> QED
  BY <1>1, <1>2, <1>3, <1>4, PlainCall

LEMMA KeepsCallReprocess == ASSUME HalInv, CallReprocess PROVE HalInv'
<1> DEFINE s == <<Do("lock"), Must("USE_BUFFERS_REPROCESS"), <<"take", "burst">>, End("__takePicture"),
                  Do("unlock")>>
<1>1. Begin("reprocess", s) /\ Elsewhere /\ UNCHANGED hal
  BY DEF CallReprocess
<1>2. Fit(faults, s, {"shoots"}) /\ "frees" \notin {"shoots"} /\ "reprocess" \in Functions
  BY Numbers, FitReprocess DEF Functions
<1> HIDE DEF s
<1> QED
  BY <1>1, <1>2, PlainCall

LEMMA KeepsCallSendCommand == ASSUME HalInv, CallSendCommand PROVE HalInv'
<1>1. Elsewhere /\ UNCHANGED hal
  BY DEF CallSendCommand
<1>2. CASE Refuse("sendCommand")
  BY <1>1, <1>2, PlainRefusal
<1>3. CASE \E c \in {"START_SMOOTH_ZOOM", "STOP_SMOOTH_ZOOM"} : Begin("sendCommand", <<Try(c)>>)
  <2>1. PICK a \in Simple : Begin("sendCommand", <<a>>)
    BY <1>3, SimpleSteps
  <2>2. Fit(faults, <<a>>, {}) /\ "frees" \notin {} /\ "sendCommand" \in Functions
    BY Numbers, SimpleSequences DEF Functions
  <2> QED
    BY <1>1, <2>1, <2>2, PlainCall
<1> QED
  BY <1>2, <1>3 DEF CallSendCommand

LEMMA FitDestroyOnly == ASSUME NEW n \in Nat PROVE Fit(n, <<>> \o <<Do("destroy")>>, {})
<1>1. Fit(n, <<Do("destroy")>>, {}) /\ Fit(n, <<>>, {})
  BY SimpleSequences, SimpleSteps
<1> QED
  BY <1>1, Fitting

LEMMA KeepsCallRelease == ASSUME HalInv, CallRelease PROVE HalInv'
<1> DEFINE s == (IF Is("mPreviewEnabled") \/ Is("mDisplayPaused") THEN ForceStopPreview ELSE <<>>)
                \o <<Do("destroy")>>
<1>1. Begin("release", s) /\ Elsewhere /\ UNCHANGED hal
  BY DEF CallRelease
<1>2. "release" \in Functions
  BY DEF Functions
<1>3. CASE Is("mPreviewEnabled") \/ Is("mDisplayPaused")
  <2>1. Fit(faults, s, {"frees"})
    BY Numbers, FitRelease
  <2>2. PreviewEnabled \/ Is("mDisplayPaused")
    BY <1>3 DEF PreviewEnabled
  <2> HIDE DEF s
  <2> QED
    BY <1>1, <1>2, <2>1, <2>2, WhereEnabled
<1>4. CASE ~(Is("mPreviewEnabled") \/ Is("mDisplayPaused"))
  <2>1. Fit(faults, s, {}) /\ "frees" \notin {}
    BY <1>4, Numbers, FitDestroyOnly
  <2> HIDE DEF s
  <2> QED
    BY <1>1, <1>2, <2>1, PlainCall
<1> QED
  BY <1>3, <1>4

(* The call that initializes the preview ahead of startPreview(): its end     *)
(* comes right after the initialization.                                      *)
LEMMA AheadOfStart ==
  ASSUME NEW n \in Nat, NEW t, t = <<Do("initialization"), End("sendCommand")>>
  PROVE  /\ Wired(n, t) /\ Ended(t, "sendCommand") /\ t # <<>> /\ t[1] = Do("initialization")
         /\ t[1] \notin Needs /\ NoFrees(t) /\ NoShots(t)
<1>1. Do("initialization") \in Steps(n) /\ End("sendCommand") \in Steps(n)
  BY DEF Steps, StepSet, Plain, Do, Try, End, Doings, Functions
<1>2. Link(n, Do("initialization"), End("sendCommand"))
  BY StepsDiffer DEF Link, Before, After, Calm, Frees, Picture
<1>3. ~Shoots(Do("initialization")) /\ ~Shoots(End("sendCommand"))
  BY DEF Shoots, Do, End, Must
<1>4. ~Frees(Do("initialization")) /\ ~Frees(End("sendCommand"))
  BY DEF Frees, Do, End
<1>5. Do("initialization") \notin Needs
  BY DEF Needs, Picture, Do, Must
<1> DEFINE a == Do("initialization")
           b == End("sendCommand")
<1> HIDE DEF a, b
<1>6. t = <<a, b>> /\ Len(<<a, b>>) = 2 /\ <<a, b>>[1] = a /\ <<a, b>>[2] = b /\ <<a, b>> # <<>>
  BY DEF a, b
<1>7. Wired(n, <<a, b>>)
  <2>1. a \in Steps(n) /\ b \in Steps(n) /\ Link(n, a, b) /\ Apart(a, b)
    BY <1>1, <1>2, <1>3, <1>4 DEF a, b, Apart
  <2> QED
    BY <2>1, Two
<1>8. \A i \in 1..Len(t) : t[i] \in {a, b}
  BY <1>6
<1>9. NoFrees(t) /\ NoShots(t)
  BY <1>3, <1>4, <1>8 DEF NoFrees, NoShots, a, b
<1>10. Ended(t, "sendCommand")
  BY <1>6 DEF Ended, b
<1> QED
  BY <1>5, <1>6, <1>7, <1>9, <1>10 DEF a

LEMMA KeepsCallInitializePreview == ASSUME HalInv, CallInitializePreview PROVE HalInv'
<1>1. /\ call = "none" /\ call' = "sendCommand" /\ "sendCommand" \in Services /\ calls < MaxCalls
      /\ calls' = calls + 1 /\ ret' = "ok" /\ todo' = <<Do("initialization")>> \o <<End("sendCommand")>>
      /\ Elsewhere /\ UNCHANGED hal
  BY DEF CallInitializePreview, Begin
<1>2. Windowing /\ (Waiting' <=> Waiting)
  BY <1>1, Untouched
<1>3. /\ adapter' = adapter /\ buffers' = buffers /\ tapout' = tapout
      /\ taken' = taken /\ notifier' = notifier /\ mLock' = mLock
      /\ faults' = faults /\ shot' = shot /\ owed' = owed /\ misfreed' = misfreed
      /\ (Done' <=> Done) /\ (Seen' <=> Seen) /\ (InProgress' <=> InProgress) /\ (Loaded' <=> Loaded)
      /\ faults = 0 => Settled'
  BY <1>1, <1>2, WindowingIs
<1>4. todo' = <<Do("initialization"), End("sendCommand")>>
  BY <1>1, Pair, Zenon
<1>5. /\ Program' /\ todo' # <<>> /\ todo'[1] \notin Needs /\ NoFrees(todo') /\ NoShots(todo')
  BY <1>1, <1>3, <1>4, Numbers, AheadOfStart DEF Program
<1>6. Counts'
  <2>1. calls' \in Nat /\ shot' =< calls /\ calls < calls'
    BY <1>1, <1>3, Numbers DEF Counts
  <2>2. display'.made =< calls'
    BY <1>2 DEF Windowing
  <2> QED
    BY <1>1, <1>3, <1>5, <2>1, <2>2, Numbers DEF Counts
<1>7. Pictures'
  <2>1. todo'[1] \notin {Do("allocate image buffers"), Must("USE_BUFFERS_IMAGE_CAPTURE")}
    BY <1>5 DEF Needs, Picture
  <2> QED
    BY <1>3, <2>1, HeadPictures, KeepsPictures DEF Pictures
<1>8. ASSUME faults = 0 PROVE PreviewHeads' /\ PreviewFlags'
  <2>1. ~Waiting'
    BY <1>1, <1>2, <1>8, Between
  <2> QED
    BY <1>3, <1>5, <1>8, <2>1, FreeHead, FlagsAtRest
<1>9. TypeOK'
  <2>1. calls' \in 0..MaxCalls
    BY <1>1, Numbers, CameraHalAssumption DEF TypeOK
  <2> QED
    BY <1>1, <1>2, <1>3, <1>5, <2>1, Numbers DEF TypeOK, Windowing
<1> QED
  BY <1>2, <1>3, <1>5, <1>6, <1>7, <1>8, <1>9 DEF HalInv, Preview, Windowing

-----------------------------------------------------------------------------
(* The invariant.                                                             *)

LEMMA KeepsServiceCall == ASSUME HalInv, ServiceCall PROVE HalInv'
BY KeepsCallStartPreview, KeepsCallStopPreview, KeepsCallSetNoWindow, KeepsCallSetFirstWindow,
   KeepsCallSetOtherWindow, KeepsCallSetParameters, KeepsCallSetParametersRestart, KeepsCallTakePicture,
   KeepsCallCancelPicture, KeepsCallAutoFocus, KeepsCallCancelAutoFocus, KeepsCallStartRecording,
   KeepsCallStopRecording, KeepsCallSetBufferSource, KeepsCallReprocess, KeepsCallRelease,
   KeepsCallSendCommand, KeepsCallInitializePreview
   DEF ServiceCall

LEMMA KeepsStep == ASSUME HalInv, Step PROVE HalInv'
<1>1. CASE Lock \/ Unlock \/ SendOk \/ SendFails \/ EndFunction
  BY <1>1, KeepsLock, KeepsUnlock, KeepsSendOk, KeepsSendFails, KeepsEndFunction
<1>2. CASE AllocPreviewBufs \/ AllocImageBufs \/ AllocVideoBufs \/ FreePreviewBufs
  BY <1>2, KeepsAllocPreviewBufs, KeepsAllocImageBufs, KeepsAllocVideoBufs, KeepsFreePreviewBufs
<1>3. CASE Initialization \/ Initialized \/ StartCallbacks \/ FlagSteps
  BY <1>3, KeepsInitialization, KeepsInitialized, KeepsStartCallbacks, KeepsFlagSteps
<1>4. CASE Expansions \/ StopImageBracketing \/ TakePictureStep \/ RefuseStep
  BY <1>4, KeepsExpansions, KeepsStopBracketing, KeepsTakePictureStep, KeepsRefuseStep
<1>5. CASE PausePreview \/ ResumeDisplay \/ DisableDisplay \/ StopCallbacks \/ CleanedUp
  BY <1>5, KeepsPausePreview, KeepsResumeDisplay, KeepsDisableDisplay, KeepsStopCallbacks, KeepsCleanedUp
<1>6. CASE Rollback \/ StartNotifierRecording \/ StopNotifierRecording \/ SetTap \/ Destroy
  BY <1>6, KeepsRollback, KeepsStartNotifierRecording, KeepsStopNotifierRecording, KeepsSetTap, KeepsDestroy
<1> QED
  BY <1>1, <1>2, <1>3, <1>4, <1>5, <1>6 DEF Step

LEMMA KeepsNext == ASSUME HalInv, [Next]_vars PROVE HalInv'
<1>1. CASE UNCHANGED vars
  <2>1. UNCHANGED <<adapter, hal, mLock, todo, ret, app, faults, shot, misfreed>> /\ owed' = owed
    BY <1>1 DEF vars, hal, taps, app
  <2>2. owed' \in 0..MaxCalls
    BY <2>1, Numbers DEF TypeOK
  <2> QED
    BY <2>1, <2>2, Same
<1> QED
  BY <1>1, KeepsServiceCall, KeepsStep, KeepsCaptureEnds, KeepsSignalEnd, KeepsFocusEnds DEF Next, AdapterThread

LEMMA HalInit == ASSUME Init PROVE HalInv
<1>1. /\ adapter = "INITIALIZED" /\ flags = {} /\ buffers = [k \in Kinds |-> Nobody]
      /\ display = [made |-> 0, alive |-> FALSE, on |-> FALSE, paused |-> FALSE]
      /\ tapout = FALSE /\ taken = FALSE /\ notifier = {"started"} /\ mLock = "free" /\ todo = <<>>
      /\ ret = "ok" /\ call = "none" /\ calls = 0 /\ faults = 0 /\ shot = 0 /\ owed = 0 /\ misfreed = FALSE
  BY DEF Init
<1>2. TypeOK
  <2>1. 0 \in 0..MaxCalls /\ 0 \in 0..MaxFaults
    BY CameraHalAssumption
  <2>2. display \in [made : 0..MaxCalls, alive : BOOLEAN, on : BOOLEAN, paused : BOOLEAN]
    BY <1>1, <2>1
  <2>3. buffers \in [Kinds -> {Nobody, MemoryMgr, Gralloc, Tap} \cup (1..MaxCalls)]
    BY <1>1
  <2>4. adapter \in States /\ flags \subseteq Flags
    BY <1>1 DEF States, StillStates
  <2> QED
    BY <1>1, <2>1, <2>2, <2>3, <2>4 DEF TypeOK
<1>3. Program
  <2>1. Fit(0, <<>>, {})
    BY SimpleSequences
  <2> QED
    BY <1>1, <2>1 DEF Program, Ended, Fit, Ahead
<1>4. Counts
  BY <1>1 DEF Counts, NoShots
<1>5. Pictures
  BY <1>1 DEF Pictures, PictureHeads, PicturesHaveBuffers, On
<1>6. Windowed
  BY <1>1 DEF Windowed
<1>7. PreviewHeads /\ PreviewFlags
  <2>1. ~Seen /\ ~Done /\ ~InProgress
    BY <1>1 DEF Seen, Done, InProgress, Is
  <2>2. PreviewHeads
    BY <1>1 DEF PreviewHeads, On
  <2>3. PreviewFlags
    BY <1>1, <2>1 DEF PreviewFlags, Waiting, Parked
  <2> QED
    BY <2>2, <2>3
<1> QED
  BY <1>2, <1>3, <1>4, <1>5, <1>6, <1>7 DEF HalInv, Preview

(* What the calls of CameraHal always leave to do, and what the flags, the    *)
(* buffers and the adapter are at each of their steps: the inductive          *)
(* invariant of the calls against the threads of the adapter.                 *)
THEOREM HalInvariant == Spec => []HalInv
<1>1. Init => HalInv
  BY HalInit
<1>2. HalInv /\ [Next]_vars => HalInv'
  BY KeepsNext
<1> QED
  BY <1>1, <1>2, PTL DEF Spec

(* Whatever the calls and the threads do, the adapter stays in its states,    *)
(* and no more pictures are started and displays made than calls were made.   *)
THEOREM HalTypes == Spec => []TypeOK
<1>1. HalInv => TypeOK
  BY Numbers
<1> QED
  BY <1>1, HalInvariant, PTL

(* Unless a command failed, no call frees the buffers of the preview before   *)
(* the adapter is back in its initial state, or where it cannot be rolled     *)
(* back from: not restartPreview(), not release(), not a new window.          *)
THEOREM BuffersOutlive == Spec => []BuffersOutliveAdapter
<1>1. HalInv => BuffersOutliveAdapter
  <2> SUFFICES ASSUME HalInv, faults = 0,
  buffers["preview"] = Nobody PROVE adapter \in {"INITIALIZED"} \cup Stranded
    BY DEF BuffersOutliveAdapter
  <2>1. PreviewFlags
    BY Numbers DEF Preview
  <2> QED
    BY <2>1 DEF PreviewFlags, Loaded, Parked
<1> QED
  BY <1>1, HalInvariant, PTL

(* From the moment __takePicture() gives the adapter its buffers until the    *)
(* picture is over, nothing but another tap takes them away, whatever fails   *)
(* and whichever thread ends the picture.                                     *)
THEOREM PicturesKeepBuffers == Spec => []PicturesHaveBuffers
<1>1. HalInv => PicturesHaveBuffers
  BY Numbers
<1> QED
  BY <1>1, HalInvariant, PTL

(* Between calls, unless a command failed, mPreviewEnabled says that the      *)
(* adapter has a preview, and no call leaves a picture half begun.            *)
THEOREM FlagsFollow == Spec => []FlagsFollowAdapter
<1>1. HalInv => FlagsFollowAdapter
  <2> SUFFICES ASSUME HalInv, call = "none", faults = 0
               PROVE  /\ Is("mPreviewEnabled") => adapter \notin {"INITIALIZED", "LOADED_PREVIEW"}
                      /\ adapter # "LOADED_CAPTURE"
    BY DEF FlagsFollowAdapter, Idle
  <2>1. Settled
    BY Between
  <2> QED
    BY <2>1 DEF Settled, Seen
<1> QED
  BY <1>1, HalInvariant, PTL

=============================================================================
