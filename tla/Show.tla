-------------------------------- MODULE Show --------------------------------
(***************************************************************************)
(* The show: the rendering of frames by the effect on display and the      *)
(* switch to the next effect (target/stm32f4/cube.c), and the effects      *)
(* (application/lutz).  The main thread calls the effect's function and    *)
(* converts the frame; the button and the presentation timer choose the    *)
(* next effect and call its init function in their interrupt, in the       *)
(* middle of another effect's drawing as well.                             *)
(*                                                                         *)
(* One effect is followed with the static variables of its source file;    *)
(* any other effect is Other, of which only the painting is modelled.  The *)
(* statics keep their values while other effects are shown.  Per effect    *)
(* one of several equal things is followed: an axis, a droplet, a column.  *)
(*                                                                         *)
(* Durations: nothing is switched before cube_init is over, and at most    *)
(* once during a rendering (a rendering takes less than 1 ms, a press of   *)
(* the button 100 ms, a presentation 10 s).  An effect's function compares *)
(* the time of its last update with the clock: time may be up or not.      *)
(***************************************************************************)
EXTENDS Integers, FiniteSets

CONSTANTS
    Followed,       \* effects to follow, one per behaviour
    NumLayers,      \* CUBE_CONFIG_NUMBER_OF_LAYERS, of _ROWS and _COLS
    Word,           \* 2^8, the values of an uint8_t
    OthersLight,    \* levels of the followed column that other effects may light
    BlastSize,      \* CUBE_CONFIG_NUMBER_OF_LAYERS, in explosion
    BlastLast,      \* EXPLOSION_LAST_INTERVAL
    OthersLed,      \* an LED of explosion's frame that other effects may light
    PoolSize        \* messages of the pool triggerRenderFunction

Modelled == {"explosion", "morphCube", "pongCube", "rain", "simpleRunner",
             "topDownSwap", "wobbelCube", "wobbelSurf"}

ASSUME ShowAssumption ==
    /\ Followed \subseteq Modelled
    /\ NumLayers \in Nat /\ NumLayers > 3 /\ NumLayers % 2 = 0
    /\ Word \in Nat /\ Word > 2 * NumLayers
    /\ OthersLight \subseteq 0 .. NumLayers - 1
    /\ PoolSize \in Nat \ {0}
    /\ BlastSize \in Nat /\ BlastLast \in Nat
    /\ BlastLast > 0 /\ BlastSize >= 2 * BlastLast /\ BlastSize > 3

Level == 0 .. NumLayers - 1
Half  == NumLayers \div 2
Gone  == Word - 1

VARIABLES
    followed,   \* the effect that is followed
    own,        \* its static variables
    handle,     \* g_currentRenderingHandle: the followed effect or another one
    frame,      \* who painted g_frameBuf
    column,     \* topDownSwap: the lit LEDs of a column of g_frameBuf
    blast,      \* explosion: the LEDs of g_frameBuf, with their remaining time
    at,         \* where the main thread is in onRenderMsg
    effect,     \* the effect whose function it calls
    converted,  \* who painted what it converts
    published,  \* who painted the current output buffer
    posts       \* trigger messages posted and not yet handled

vars == <<followed, own, handle, frame, column, blast, at, effect, converted, published,
          posts>>

Whose   == {"own", "other"}
Painter == Whose \cup {"nobody", "mixed"}

\* Effects whose init function leaves the frame as it is, and effects whose
\* function changes LEDs of the frame without wiping it first.
PaintsLater == {"rain", "simpleRunner"}
Edits       == {"topDownSwap"}

-----------------------------------------------------------------------------
(* The LEDs of explosion.  One that is 0 was not yet reached, -1 is burnt.  *)

Edge  == 0 .. BlastSize - 1
Led   == Edge \X Edge \X Edge
Clear == [c \in Led |-> 0]

\* (mutant) the comparison with the row before is missing
NearAhead(c) ==
    {d \in {[c EXCEPT ![a] = @ + s] : a \in 1 .. 3, s \in {-1, 1}} : d \in Led /\ d[3] >= c[3]}

Near(c) == {d \in {[c EXCEPT ![a] = @ + s] : a \in 1 .. 3, s \in {-1, 1}} : d \in Led}

Faded(time) == IF time = 1 THEN -1 ELSE IF time > 1 THEN time - 1 ELSE time

\* One update goes through the frame in place: an LED lights up next to one with the
\* time BlastLast, and sees the neighbours before it faded already.
Swept(b) ==
    LET seen(c, d) == IF \E a \in 1 .. 3 : d[a] < c[a] THEN Faded(b[d]) ELSE b[d]
    IN  [c \in Led |-> IF b[c] = 0 /\ \E d \in Near(c) : seen(c, d) = BlastLast
                       THEN BlastLast + 1 ELSE Faded(b[c])]

\* A random number up to the edge, clipped.
Clipped(lo, hi) == {IF r > hi THEN hi ELSE IF r < lo THEN lo ELSE r : r \in Edge}

-----------------------------------------------------------------------------
(* The static variables                                                    *)

Static(f) ==
    CASE f = "explosion"    -> [x : Edge, y : Edge, z : Edge, trigger : Edge, exploded : BOOLEAN]
      [] f = "morphCube"    -> [size : 0 .. Word - 1, increasing : BOOLEAN]
      [] f = "pongCube"     -> [x : 0 .. NumLayers - 4]
      [] f = "rain"         -> [position : Level \cup {Gone}]
      [] f = "simpleRunner" -> [i : Level]
      [] f = "topDownSwap"  -> [selection : {"none", "this", "other"}, movingUp : BOOLEAN]
      [] f = "wobbelCube"   -> {s \in [x1 : Level, x2 : Level] : s.x1 <= s.x2}
      [] f = "wobbelSurf"   -> [step : -Half .. NumLayers + Half, directionUp : BOOLEAN]

\* Before the first init function: zero, or the initial value.
AtReset(f) ==
    CASE f = "explosion"    -> [x |-> 0, y |-> 0, z |-> 0, trigger |-> 0, exploded |-> FALSE]
      [] f = "morphCube"    -> [size |-> 0, increasing |-> FALSE]
      [] f = "pongCube"     -> [x |-> 0]
      [] f = "rain"         -> [position |-> 0]
      [] f = "simpleRunner" -> [i |-> 0]
      [] f = "topDownSwap"  -> [selection |-> "none", movingUp |-> FALSE]
      [] f = "wobbelCube"   -> [x1 |-> 0, x2 |-> 0]
      [] f = "wobbelSurf"   -> [step |-> 0, directionUp |-> FALSE]

\* The init functions.
Started(f, s) ==
    CASE f = "explosion"  ->
            [x : Clipped(1, BlastSize - 2), y : Clipped(1, BlastSize - 2), z : {0},
             trigger : Clipped(2, BlastSize - 2), exploded : {s.exploded}]
      [] f = "morphCube"  -> {[s EXCEPT !.size = 0]}
      [] f = "pongCube"   -> {[x |-> 0]}
      [] f = "rain"       -> {[position |-> Gone]}
      [] f = "wobbelCube" -> {[x1 |-> 0, x2 |-> NumLayers - 1]}
      [] f = "wobbelSurf" -> {[step |-> -Half, directionUp |-> TRUE]}
      [] OTHER            -> {s}

\* explosion: a spark rises up to the height of the explosion.
Risen(s) ==
    IF s.z + 1 >= s.trigger THEN [s EXCEPT !.z = @ + 1, !.exploded = TRUE, !.x = 0]
    ELSE [s EXCEPT !.z = @ + 1]

\* explosion: what is left of the frame, and the next start when all is dark.
Burnt(s, b) ==
    IF \E c \in Led : b[c] > 0 THEN {s}
    ELSE LET middle == Clipped(BlastLast, BlastSize - BlastLast)
         IN  [x : middle, y : middle, z : {0}, trigger : middle, exploded : {FALSE}]

\* morphCube: the cube shrinks to nothing and grows again.
Morphed(s) ==
    LET grown  == (s.size + 1) % Word
        shrunk == (s.size + Word - 1) % Word
    IN  IF ~s.increasing
        THEN IF grown >= Half THEN [size |-> Half, increasing |-> TRUE]
             ELSE [s EXCEPT !.size = grown]
        ELSE [size |-> shrunk, increasing |-> shrunk # 0]

\* (mutant) the cube may leave the frame
PongedTooFar(s) ==
    {s} \cup {[x |-> x] : x \in {s.x - 1, s.x + 1} \cap 0 .. NumLayers - 2}

\* pongCube: a cube of three LEDs makes one random step along an axis, or none.
Ponged(s) ==
    {s} \cup {[x |-> x] : x \in {s.x - 1, s.x + 1} \cap 0 .. NumLayers - 4}

\* rain: the droplets fall, then one of those on the ground starts again; one of
\* the two, or both, when their time is up.
Fallen(p) == IF p = Gone THEN p ELSE (p + Word - 1) % Word

Rained(s) ==
    LET fallen == {s.position, Fallen(s.position)}
    IN  {[position |-> p] : p \in fallen \cup (IF Gone \in fallen THEN {NumLayers - 1} ELSE {})}

\* simpleRunner: one LED runs up the layers.
RanOn(s) == [i |-> (s.i + 1) % NumLayers]

\* wobbelCube: one of two opposite faces makes a random step, or another axis moves;
\* then the faces are put in order.
Wobbled(s) ==
    LET moved   == {s} \cup {[s EXCEPT !.x1 = x] : x \in {s.x1 - 1, s.x1 + 1} \cap Level}
                       \cup {[s EXCEPT !.x2 = x] : x \in {s.x2 - 1, s.x2 + 1} \cap Level}
        Sorted(t) == IF t.x1 > t.x2 THEN [x1 |-> t.x2, x2 |-> t.x1] ELSE t
    IN  {Sorted(t) : t \in moved}

\* wobbelSurf: the bent surface moves up and down.
Surfed(s) ==
    LET step == IF s.directionUp THEN s.step + 1 ELSE s.step - 1
    IN  [step |-> step,
         directionUp |-> IF s.directionUp THEN step < NumLayers + Half ELSE step <= -Half]

\* What an update of an effect may do to its statics.
Updated(f, s) ==
    CASE f = "morphCube"    -> {Morphed(s)}
      [] f = "pongCube"     -> Ponged(s)
      [] f = "rain"         -> Rained(s)
      [] f = "simpleRunner" -> {RanOn(s)}
      [] f = "wobbelCube"   -> Wobbled(s)
      [] f = "wobbelSurf"   -> {Surfed(s)}
      [] OTHER              -> {s}

Lowest(col) == {i \in col : \A j \in col : i <= j}

\* (mutant) the LED stays lit where it was
MovedKeeps(s, col) ==
    LET step(i) == IF s.movingUp THEN i + 1 ELSE i - 1
        there   == IF s.movingUp THEN NumLayers - 1 ELSE 0
    IN  {[column |-> IF i = there THEN col ELSE col \cup {step(i)},
          statics |-> IF i = there THEN [s EXCEPT !.selection = "none"] ELSE s] :
             i \in Lowest(col)}

\* (mutant) the selection is not given up at the end
MovedForever(s, col) ==
    LET step(i) == IF s.movingUp THEN i + 1 ELSE i - 1
        there   == IF s.movingUp THEN NumLayers - 1 ELSE 0
    IN  {[column |-> IF i = there THEN col ELSE (col \ {i}) \cup {step(i)}, statics |-> s] :
             i \in Lowest(col)}

\* topDownSwap: the lowest lit LED of the selected column moves on by one, up to
\* the end; the loop finds nothing in an empty column.
Moved(s, col) ==
    LET step(i) == IF s.movingUp THEN i + 1 ELSE i - 1
        there   == IF s.movingUp THEN NumLayers - 1 ELSE 0
    IN  {[column |-> IF i = there THEN col ELSE (col \ {i}) \cup {step(i)},
          statics |-> IF i = there THEN [s EXCEPT !.selection = "none"] ELSE s] :
             i \in Lowest(col)}

-----------------------------------------------------------------------------
Init == /\ followed \in Followed
        /\ handle \in Whose
        /\ own \in IF handle = "own" THEN Started(followed, AtReset(followed))
                   ELSE {AtReset(followed)}
        /\ frame = IF handle = "own" /\ followed \in PaintsLater THEN "nobody" ELSE handle
        /\ column \in IF followed = "topDownSwap" THEN {{0}, {NumLayers - 1}} ELSE {{}}
        /\ blast = Clear
        /\ at = "wait" /\ effect = handle
        /\ converted = "nobody" /\ published = "nobody"
        /\ posts = 0

\* What a column holds after another effect painted some LEDs of it.
Painted(col) == IF followed = "topDownSwap" THEN {col \cup lit : lit \in SUBSET OthersLight} ELSE {col}

\* The same for the LEDs of explosion.
Marked(b) == IF followed = "explosion" THEN {b, [b EXCEPT ![OthersLed] = 1]} ELSE {b}

\* onTriggerRenderFunctionTimerCB: nothing is posted when the pool is used up.
TriggerRender ==
    /\ posts < PoolSize
    /\ posts' = posts + 1
    /\ UNCHANGED <<followed, own, handle, frame, column, blast, at, effect, converted, published>>

\* triggerNextRenderFunction: the followed effect comes after some other effect, and
\* its init function paints the frame, or leaves it to its first rendering.
SwitchToOwn ==
    /\ handle = "other" /\ (at = "wait" \/ effect = "other")
    /\ handle' = "own"
    /\ own' \in Started(followed, own)
    /\ frame' = IF followed \in PaintsLater THEN frame ELSE "own"
    /\ column' \in IF followed = "topDownSwap" THEN {{0}, {NumLayers - 1}} ELSE {column}
    /\ blast' = IF followed = "explosion" THEN Clear ELSE blast
    /\ UNCHANGED <<followed, at, effect, converted, published, posts>>

SwitchToOther ==
    /\ at = "wait" \/ effect = handle
    /\ handle' = "other"
    /\ \/ frame' = "other" /\ column' \in Painted({}) /\ blast' \in Marked(Clear)
       \/ UNCHANGED <<frame, column, blast>>
    /\ UNCHANGED <<followed, own, at, effect, converted, published, posts>>

\* onRenderMsg calls the function of the handle it has read.
StartRendering ==
    /\ at = "wait" /\ posts > 0
    /\ effect' = handle
    /\ at' = "draw"
    /\ UNCHANGED <<followed, own, handle, frame, column, blast, converted, published, posts>>

-----------------------------------------------------------------------------
(* The functions of the effects                                            *)

\* Time is not up, and the frame stays as it is.  Two effects paint it always.
NotYet ==
    /\ at = "draw"
    /\ effect = "own" => followed \notin PaintsLater
    /\ at' = "convert"
    /\ UNCHANGED <<followed, own, handle, frame, column, blast, effect, converted, published, posts>>

\* The statics are updated and the frame is wiped, if the effect does so.
WipeOwn(s) ==
    /\ at = "draw" /\ effect = "own" /\ followed \notin Edits \cup {"explosion"}
    /\ own' = s
    /\ frame' = "own" /\ column' = {}
    /\ at' = "paint"
    /\ UNCHANGED <<followed, handle, blast, effect, converted, published, posts>>

\* rain and simpleRunner paint although no time is up.
RepaintOwn == followed \in PaintsLater /\ WipeOwn(own)

UpdateOwn == \E s \in Updated(followed, own) : WipeOwn(s)

DrawOther ==
    /\ at = "draw" /\ effect = "other"
    /\ \/ frame' = "other" /\ column' = {} /\ blast' = Clear
       \/ UNCHANGED <<frame, column, blast>>
    /\ at' = "paint"
    /\ UNCHANGED <<followed, own, handle, effect, converted, published, posts>>

\* The rest of the painting, into a frame that may be another effect's by now.
Paint ==
    /\ at = "paint"
    /\ frame' = IF frame = effect THEN frame ELSE "mixed"
    /\ IF effect = "other" THEN column' \in Painted(column) /\ blast' \in Marked(blast)
       ELSE UNCHANGED <<column, blast>>
    /\ at' = "convert"
    /\ UNCHANGED <<followed, own, handle, effect, converted, published, posts>>

\* topDownSwap selects a column and sees where its LED is.
Select(which) ==
    /\ at = "draw" /\ effect = "own" /\ followed = "topDownSwap"
    /\ own.selection = "none"
    /\ own' \in [selection : {which},
                 movingUp : IF which = "this" THEN {0 \in column} ELSE BOOLEAN]
    /\ at' = "convert"
    /\ UNCHANGED <<followed, handle, frame, column, blast, effect, converted, published, posts>>

\* topDownSwap moves the LED of the selected column.  Another column is done in one
\* update, or never when it is empty because another effect painted over it.
Swap ==
    /\ at = "draw" /\ effect = "own" /\ followed = "topDownSwap"
    /\ \/ /\ own.selection = "this"
          /\ \/ \E m \in Moved(own, column) : own' = m.statics /\ column' = m.column
             \/ column = {} /\ UNCHANGED <<own, column>>
       \/ /\ own.selection = "other"
          /\ \/ own' = [own EXCEPT !.selection = "none"]
             \/ frame # "own" /\ UNCHANGED own
          /\ UNCHANGED column
    /\ frame' = IF frame = "own" THEN frame ELSE "mixed"
    /\ at' = "convert"
    /\ UNCHANGED <<followed, handle, blast, effect, converted, published, posts>>

\* explosion wipes the frame and paints the spark, and the centre of the explosion.
Rise ==
    /\ at = "draw" /\ effect = "own" /\ followed = "explosion" /\ ~own.exploded
    /\ own' = Risen(own)
    /\ blast' = [c \in Led |->
                    IF c = <<own'.z, own.y, own.x>> /\ own'.exploded THEN BlastLast
                    ELSE IF c = <<own.z, own.y, own.x>> THEN 1 ELSE 0]
    /\ frame' = "own"
    /\ at' = "paint"
    /\ UNCHANGED <<followed, handle, column, effect, converted, published, posts>>

\* explosion changes the frame it finds.
Explode ==
    /\ at = "draw" /\ effect = "own" /\ followed = "explosion" /\ own.exploded
    /\ blast' = Swept(blast)
    /\ own' \in Burnt(own, blast')
    /\ frame' = IF frame = "own" THEN frame ELSE "mixed"
    /\ at' = "convert"
    /\ UNCHANGED <<followed, handle, column, effect, converted, published, posts>>

-----------------------------------------------------------------------------
(* The rest of onRenderMsg                                                 *)

\* The frame is converted into the free output buffer up to the next step.
Convert ==
    /\ at = "convert"
    /\ converted' = frame
    /\ at' = "publish"
    /\ UNCHANGED <<followed, own, handle, frame, column, blast, effect, published, posts>>

\* (mutant) the rendering does not use the new output buffer
PublishNothing ==
    /\ at = "publish"
    /\ posts' = posts - 1
    /\ converted' = "nobody"
    /\ at' = "wait"
    /\ UNCHANGED <<followed, own, handle, frame, column, blast, effect, published>>

Publish ==
    /\ at = "publish"
    /\ published' = IF frame = converted THEN frame ELSE "mixed"
    /\ posts' = posts - 1
    /\ converted' = "nobody"
    /\ at' = "wait"
    /\ UNCHANGED <<followed, own, handle, frame, column, blast, effect>>

Draw == NotYet \/ RepaintOwn \/ UpdateOwn \/ DrawOther \/ Paint \/ Swap \/ Rise \/ Explode
          \/ \E which \in {"this", "other"} : Select(which)

OnRenderMsg == StartRendering \/ Draw \/ Convert \/ Publish

Next == OnRenderMsg \/ TriggerRender \/ SwitchToOwn \/ SwitchToOther

Spec == Init /\ [][Next]_vars

\* The main thread runs, the periodic timer fires, and time is up again and again
\* when the effect's function is called.  The random numbers choose every column
\* again and again.
Fairness == /\ WF_vars(OnRenderMsg) /\ WF_vars(TriggerRender)
            /\ SF_vars(UpdateOwn) /\ SF_vars(UpdateOwn /\ own' # own)
            /\ SF_vars(Swap) /\ SF_vars(Select("this")) /\ SF_vars(Rise) /\ SF_vars(Explode)

FairSpec == Spec /\ Fairness

-----------------------------------------------------------------------------
(* Properties                                                              *)

\* Types.  The statics index the frame: no effect that is modelled draws outside of it.
TypeOK ==
    /\ followed \in Followed /\ own \in Static(followed)
    /\ handle \in Whose /\ frame \in Painter /\ column \subseteq Level
    /\ blast \in [Led -> -1 .. BlastLast + 1]
    /\ at \in {"wait", "draw", "paint", "convert", "publish"}
    /\ effect \in Whose /\ converted \in Painter /\ published \in Painter
    /\ posts \in 0 .. PoolSize

\* In a frame that topDownSwap alone painted every column has exactly one lit LED,
\* although its selection and direction are those of an earlier showing.
OneLedPerColumn == followed = "topDownSwap" /\ frame = "own" => Cardinality(column) = 1

\* The wave of an explosion that has the frame for itself reaches every LED, and
\* each one once, before the next one starts, although the update sees the frame half
\* old and half new; with the flag of an earlier showing on a fresh frame it is over
\* at once.
BlastReachesAll ==
    [][(followed = "explosion" /\ own.exploded /\ ~own'.exploded /\ frame = "own") =>
           blast' = [c \in Led |-> -1] \/ blast' = Clear]_vars

\* An effect that repaints the frame takes over the output buffer when it stays
\* chosen, even when the switch came in the middle of another effect's drawing.
EffectTakesOver ==
    (<>[](handle = "own")) => <>[](followed \notin Edits => published = "own")

\* The state every motion of an effect passes through; those of pongCube and wobbelCube
\* have none.
ComesAround ==
    CASE followed = "explosion"    -> own.z = 0
      [] followed = "morphCube"    -> own.size = 0
      [] followed = "rain"         -> own.position \in {Gone, NumLayers - 1}
      [] followed = "simpleRunner" -> own.i = 0
      [] followed = "topDownSwap"  -> own.selection = "none"
      [] followed = "wobbelSurf"   -> own.step = -Half
      [] OTHER                     -> TRUE

\* Whatever statics an earlier showing left behind (morphCube's direction makes its
\* size underflow, topDownSwap's selection is of another frame, explosion's flag), the motion comes
\* around again and again while the effect is shown on a frame of its own.
MotionGoesOn ==
    (<>[](handle = "own" /\ frame = "own")) => []<>ComesAround
=============================================================================
