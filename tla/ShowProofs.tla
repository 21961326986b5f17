----------------------------- MODULE ShowProofs -----------------------------
(***************************************************************************)
(* Theorems about the show, for every size of the cube, every width of the *)
(* counters and every pool of trigger messages.                            *)
(***************************************************************************)
EXTENDS Show, FiniteSetTheorems, WellFoundedInduction, TLAPS

-----------------------------------------------------------------------------
(* Numbers                                                                 *)

LEMMA HalfTyped == Half \in Nat /\ Half > 0 /\ Half < NumLayers
  BY SMT, ShowAssumption DEF Half

\* An unsigned counter of the code, one up and one down.
LEMMA CountUp ==
    ASSUME NEW n \in Nat, n > 0, NEW i \in 0 .. n - 1
    PROVE  (i + 1) % n = IF i + 1 = n THEN 0 ELSE i + 1
  BY SMT

LEMMA CountDown ==
    ASSUME NEW n \in Nat, n > 0, NEW i \in 0 .. n - 1
    PROVE  (i + n - 1) % n = IF i = 0 THEN n - 1 ELSE i - 1
<1>1. CASE i = 0
  BY <1>1, SMT
<1>2. CASE i # 0
  <2>1. (i + n - 1) % n = ((i - 1) + n) % n /\ i - 1 \in 0 .. n - 1
    BY <1>2
  <2>2. ((i - 1) + n) % n = i - 1
    BY <2>1, SMT
  <2>3. QED
    BY <1>2, <2>1, <2>2
<1>3. QED
  BY <1>1, <1>2

LEMMA ClippedInEdge ==
    ASSUME NEW lo \in Edge, NEW hi \in Edge PROVE Clipped(lo, hi) \subseteq Edge
  BY DEF Clipped

LEMMA EdgeBounds ==
    /\ {0, 1, 2, BlastSize - 2, BlastLast, BlastSize - BlastLast} \subseteq Edge
    /\ BlastSize \in Nat /\ BlastLast \in Nat
  BY SMT, ShowAssumption DEF Edge

-----------------------------------------------------------------------------
(* The static variables                                                    *)

\* What else holds of the statics: the surface turns around at the ends, and the
\* spark is below the height of its explosion.
Within(f, s) ==
    /\ f = "wobbelSurf" => IF s.directionUp THEN s.step < NumLayers + Half
                           ELSE s.step > -Half
    /\ f = "explosion" => s.exploded \/ s.z = 0 \/ s.z < s.trigger

Sound(f, s) == s \in Static(f) /\ Within(f, s)

\* Two faces in order.
LEMMA WobbelStatics ==
    ASSUME NEW a \in Level, NEW b \in Level, a <= b
    PROVE  [x1 |-> a, x2 |-> b] \in Static("wobbelCube")
<1>1. Static("wobbelCube") = {r \in [x1 : Level, x2 : Level] : r.x1 <= r.x2}
  BY DEF Static
<1>2. QED
  BY <1>1

\* A place of the surface, and a direction that does not lead out.
LEMMA SurfSound ==
    ASSUME NEW k \in -Half .. NumLayers + Half, NEW up \in BOOLEAN,
           up => k < NumLayers + Half, ~up => k > -Half
    PROVE  Sound("wobbelSurf", [step |-> k, directionUp |-> up])
  BY DEF Sound, Within, Static

LEMMA ResetSound == ASSUME NEW f \in Modelled PROVE Sound(f, AtReset(f))
<1>1. CASE f = "wobbelSurf"
  BY <1>1, HalfTyped, ShowAssumption DEF Sound, Within, Static, AtReset
<1>2. CASE f = "explosion"
  BY <1>2, EdgeBounds DEF Sound, Within, Static, AtReset
<1>3. CASE f = "rain" \/ f = "simpleRunner" \/ f = "wobbelCube"
  <2>1. 0 \in Level /\ 0 <= 0
    BY ShowAssumption DEF Level
  <2>2. CASE f = "wobbelCube"
    <3>1. AtReset(f) = [x1 |-> 0, x2 |-> 0]
      BY <2>2 DEF AtReset
    <3>2. QED
      BY <2>1, <2>2, <3>1, WobbelStatics DEF Sound, Within
  <2>3. CASE f = "rain" \/ f = "simpleRunner"
    BY <2>1, <2>3 DEF Sound, Within, Static, AtReset
  <2>4. QED
    BY <1>3, <2>2, <2>3
<1>4. CASE f = "pongCube" \/ f = "morphCube"
  <2>1. 0 \in 0 .. NumLayers - 4 /\ 0 \in 0 .. Word - 1
    BY ShowAssumption
  <2>2. QED
    BY <1>4, <2>1 DEF Sound, Within, Static, AtReset
<1>5. CASE f = "topDownSwap"
  BY <1>5 DEF Sound, Within, Static, AtReset
<1>6. QED
  BY <1>1, <1>2, <1>3, <1>4, <1>5 DEF Modelled

\* The init functions, which keep some variables of the last showing.
LEMMA StartedSound ==
    ASSUME NEW f \in Modelled, NEW s, Sound(f, s), NEW t \in Started(f, s)
    PROVE  Sound(f, t)
<1>1. CASE f = "explosion"
  <2>1. t \in [x : Clipped(1, BlastSize - 2), y : Clipped(1, BlastSize - 2), z : {0},
               trigger : Clipped(2, BlastSize - 2), exploded : {s.exploded}]
    BY <1>1 DEF Started
  <2>2. Clipped(1, BlastSize - 2) \subseteq Edge /\ Clipped(2, BlastSize - 2) \subseteq Edge
    BY EdgeBounds, ClippedInEdge
  <2>3. s.exploded \in BOOLEAN
    BY <1>1 DEF Sound, Static
  <2>4. QED
    BY <1>1, <2>1, <2>2, <2>3, EdgeBounds DEF Sound, Within, Static
<1>2. CASE f = "wobbelSurf"
  <2>1. t = [step |-> -Half, directionUp |-> TRUE]
    BY <1>2 DEF Started
  <2>2. -Half \in -Half .. NumLayers + Half /\ -Half < NumLayers + Half
    BY HalfTyped, ShowAssumption
  <2>3. QED
    BY <1>2, <2>1, <2>2, SurfSound
<1>3. CASE f = "morphCube"
  BY <1>3, ShowAssumption DEF Sound, Within, Static, Started
<1>4. CASE f = "pongCube" \/ f = "rain"
  BY <1>4, ShowAssumption DEF Sound, Within, Static, Started, Gone
<1>5. CASE f = "wobbelCube"
  <2>1. 0 \in Level /\ NumLayers - 1 \in Level /\ 0 <= NumLayers - 1
    BY ShowAssumption DEF Level
  <2>2. t = [x1 |-> 0, x2 |-> NumLayers - 1]
    BY <1>5 DEF Started
  <2>3. QED
    BY <1>5, <2>1, <2>2, WobbelStatics DEF Sound, Within
<1>6. CASE f = "simpleRunner" \/ f = "topDownSwap"
  BY <1>6 DEF Started
<1>7. QED
  BY <1>1, <1>2, <1>3, <1>4, <1>5, <1>6 DEF Modelled

LEMMA RainedSound ==
    ASSUME NEW s \in Static("rain"), NEW t \in Rained(s) PROVE t \in Static("rain")
<1>1. s.position \in Level \cup {Gone} /\ Static("rain") = [position : Level \cup {Gone}]
  BY DEF Static
<1>2. Fallen(s.position) \in Level \cup {Gone}
  <2>1. CASE s.position = Gone
    BY <2>1 DEF Fallen
  <2>2. CASE s.position # Gone
    <3>1. s.position \in 0 .. Word - 1 /\ Word \in Nat /\ Word > 0 /\ s.position \in Level
      BY <1>1, <2>2, ShowAssumption DEF Level
    <3>2. Fallen(s.position) = IF s.position = 0 THEN Word - 1 ELSE s.position - 1
      BY <2>2, <3>1, CountDown DEF Fallen
    <3>3. QED
      BY <3>1, <3>2, ShowAssumption DEF Level, Gone
  <2>3. QED
    BY <2>1, <2>2
<1>3. NumLayers - 1 \in Level
  BY ShowAssumption DEF Level
<1>4. QED
  BY <1>1, <1>2, <1>3 DEF Rained

LEMMA MorphedSound ==
    ASSUME NEW s \in Static("morphCube") PROVE Morphed(s) \in Static("morphCube")
<1>1. /\ Static("morphCube") = [size : 0 .. Word - 1, increasing : BOOLEAN]
      /\ s.size \in 0 .. Word - 1 /\ s.increasing \in BOOLEAN
  BY DEF Static
<1>2. /\ (s.size + 1) % Word \in 0 .. Word - 1
      /\ (s.size + Word - 1) % Word \in 0 .. Word - 1
      /\ Half \in 0 .. Word - 1
  BY <1>1, CountUp, CountDown, HalfTyped, ShowAssumption
<1>3. QED
  BY <1>1, <1>2 DEF Morphed

LEMMA WobbledSound ==
    ASSUME NEW s \in Static("wobbelCube"), NEW t \in Wobbled(s) PROVE t \in Static("wobbelCube")
<1>1. s \in [x1 : Level, x2 : Level]
  BY DEF Static
<1>2. PICK r \in [x1 : Level, x2 : Level] :
        t = IF r.x1 > r.x2 THEN [x1 |-> r.x2, x2 |-> r.x1] ELSE r
  BY <1>1 DEF Wobbled
<1>3. r = [x1 |-> r.x1, x2 |-> r.x2] /\ r.x1 \in Level /\ r.x2 \in Level
  OBVIOUS
<1>4. r.x1 \in Int /\ r.x2 \in Int
  BY <1>3 DEF Level
<1>5. CASE r.x1 > r.x2
  BY <1>2, <1>3, <1>4, <1>5, WobbelStatics
<1>6. CASE ~(r.x1 > r.x2)
  <2>1. t = [x1 |-> r.x1, x2 |-> r.x2] /\ r.x1 <= r.x2
    BY <1>2, <1>3, <1>4, <1>6
  <2>2. QED
    BY <1>3, <2>1, WobbelStatics
<1>7. QED
  BY <1>5, <1>6

\* An update of an effect.
LEMMA UpdatedSound ==
    ASSUME NEW f \in Modelled, NEW s, Sound(f, s), NEW t \in Updated(f, s)
    PROVE  Sound(f, t)
<1>1. CASE f = "morphCube"
  BY <1>1, MorphedSound DEF Sound, Within, Updated
<1>2. CASE f = "pongCube"
  BY <1>2 DEF Sound, Within, Updated, Static, Ponged
<1>3. CASE f = "rain"
  BY <1>3, RainedSound DEF Sound, Within, Updated
<1>4. CASE f = "simpleRunner"
  <2>1. s.i \in 0 .. NumLayers - 1
    BY <1>4 DEF Sound, Static, Level
  <2>2. (s.i + 1) % NumLayers \in 0 .. NumLayers - 1
    BY <2>1, CountUp, ShowAssumption
  <2>3. QED
    BY <1>4, <2>2 DEF Sound, Within, Updated, Static, RanOn, Level
<1>5. CASE f = "wobbelCube"
  BY <1>5, WobbledSound DEF Sound, Within, Updated
<1>6. CASE f = "wobbelSurf"
  <2>1. /\ t = Surfed(s) /\ s.step \in -Half .. NumLayers + Half /\ s.directionUp \in BOOLEAN
        /\ IF s.directionUp THEN s.step < NumLayers + Half ELSE s.step > -Half
    BY <1>6 DEF Sound, Within, Updated, Static
  <2>2. CASE s.directionUp
    <3> DEFINE k  == s.step + 1
               up == k < NumLayers + Half
    <3>1. t = [step |-> k, directionUp |-> up]
      BY <2>1, <2>2 DEF Surfed
    <3>2. /\ k \in -Half .. NumLayers + Half /\ up \in BOOLEAN
          /\ up => k < NumLayers + Half
          /\ ~up => k > -Half
      BY <2>1, <2>2, HalfTyped, ShowAssumption
    <3> HIDE DEF k, up
    <3>3. Sound("wobbelSurf", [step |-> k, directionUp |-> up])
      BY <3>2, SurfSound
    <3>4. QED
      BY <1>6, <3>1, <3>3
  <2>3. CASE ~s.directionUp
    <3> DEFINE k  == s.step - 1
               up == k <= -Half
    <3>1. t = [step |-> k, directionUp |-> up]
      BY <2>1, <2>3 DEF Surfed
    <3>2. /\ k \in -Half .. NumLayers + Half /\ up \in BOOLEAN
          /\ up => k < NumLayers + Half
          /\ ~up => k > -Half
      BY <2>1, <2>3, HalfTyped, ShowAssumption
    <3> HIDE DEF k, up
    <3>3. Sound("wobbelSurf", [step |-> k, directionUp |-> up])
      BY <3>2, SurfSound
    <3>4. QED
      BY <1>6, <3>1, <3>3
  <2>4. QED
    BY <2>1, <2>2, <2>3
<1>7. CASE f = "explosion" \/ f = "topDownSwap"
  BY <1>7 DEF Updated
<1>8. QED
  BY <1>1, <1>2, <1>3, <1>4, <1>5, <1>6, <1>7 DEF Modelled

\* The spark of an explosion, and the end of one.
LEMMA RisenSound ==
    ASSUME NEW s, Sound("explosion", s), ~s.exploded PROVE Sound("explosion", Risen(s))
<1>1. /\ s \in [x : Edge, y : Edge, z : Edge, trigger : Edge, exploded : BOOLEAN]
      /\ s.z = 0 \/ s.z < s.trigger
  BY DEF Sound, Static, Within
<1>2. s.z + 1 \in Edge /\ 0 \in Edge
  BY <1>1, EdgeBounds DEF Edge
<1>3. s.trigger \in Int /\ s.z \in Int
  BY <1>1 DEF Edge
<1>4. Risen(s) \in [x : Edge, y : Edge, z : Edge, trigger : Edge, exploded : BOOLEAN]
  BY <1>1, <1>2 DEF Risen
<1>5. CASE s.z + 1 >= s.trigger
  <2>1. Risen(s).exploded
    BY <1>1, <1>5 DEF Risen
  <2>2. QED
    BY <1>4, <2>1 DEF Sound, Static, Within
<1>6. CASE ~(s.z + 1 >= s.trigger)
  <2>1. Risen(s).z < Risen(s).trigger
    BY <1>1, <1>3, <1>6 DEF Risen
  <2>2. QED
    BY <1>4, <2>1 DEF Sound, Static, Within
<1>7. QED
  BY <1>5, <1>6

LEMMA BurntSound ==
    ASSUME NEW s, Sound("explosion", s), NEW b, NEW t \in Burnt(s, b)
    PROVE  Sound("explosion", t)
<1>1. Clipped(BlastLast, BlastSize - BlastLast) \subseteq Edge
  BY EdgeBounds, ClippedInEdge
<1>2. QED
  BY <1>1, EdgeBounds DEF Burnt, Sound, Static, Within

-----------------------------------------------------------------------------
(* The frame                                                               *)

LEMMA FadedTyped ==
    ASSUME NEW time \in -1 .. BlastLast + 1 PROVE Faded(time) \in -1 .. BlastLast + 1
  BY EdgeBounds DEF Faded

LEMMA SweptTyped ==
    ASSUME NEW b \in [Led -> -1 .. BlastLast + 1]
    PROVE  Swept(b) \in [Led -> -1 .. BlastLast + 1]
<1>1. BlastLast + 1 \in -1 .. BlastLast + 1
  BY EdgeBounds
<1>2. \A c \in Led : Faded(b[c]) \in -1 .. BlastLast + 1
  BY FadedTyped
<1>3. QED
  BY <1>1, <1>2 DEF Swept

LEMMA ClearTyped == Clear \in [Led -> -1 .. BlastLast + 1]
  BY EdgeBounds DEF Clear

LEMMA MarkedTyped ==
    ASSUME NEW b \in [Led -> -1 .. BlastLast + 1], NEW d \in Marked(b)
    PROVE  d \in [Led -> -1 .. BlastLast + 1]
<1>1. 1 \in -1 .. BlastLast + 1
  BY EdgeBounds
<1>2. QED
  BY <1>1 DEF Marked

LEMMA PaintedTyped ==
    ASSUME NEW col \in SUBSET Level, NEW d \in Painted(col) PROVE d \subseteq Level
  BY ShowAssumption DEF Painted, Level

\* The LED that is moved stays in the column.
LEMMA MovedLed ==
    ASSUME NEW s \in Static("topDownSwap"), NEW i \in Level,
           i # (IF s.movingUp THEN NumLayers - 1 ELSE 0)
    PROVE  (IF s.movingUp THEN i + 1 ELSE i - 1) \in Level
  BY ShowAssumption DEF Level

LEMMA MovedTyped ==
    ASSUME NEW s \in Static("topDownSwap"), NEW col \in SUBSET Level, NEW m \in Moved(s, col)
    PROVE  m.column \subseteq Level /\ m.statics \in Static("topDownSwap")
<1> DEFINE there == IF s.movingUp THEN NumLayers - 1 ELSE 0
           step(i) == IF s.movingUp THEN i + 1 ELSE i - 1
<1>1. PICK i \in Lowest(col) :
        m = [column |-> IF i = there THEN col ELSE (col \ {i}) \cup {step(i)},
             statics |-> IF i = there THEN [s EXCEPT !.selection = "none"] ELSE s]
  BY DEF Moved
<1>2. i \in Level
  BY DEF Lowest
<1>3. i # there => step(i) \in Level
  BY <1>2, MovedLed
<1> HIDE DEF there, step
<1>4. m.column \subseteq Level
  BY <1>1, <1>2, <1>3
<1>5. m.statics \in Static("topDownSwap")
  BY <1>1 DEF Static
<1>6. QED
  BY <1>4, <1>5

-----------------------------------------------------------------------------
(* Types                                                                   *)

ShowInv == /\ TypeOK
           /\ Within(followed, own)
           /\ at # "wait" => posts > 0

LEMMA FollowedModelled == ASSUME TypeOK PROVE followed \in Modelled
  BY ShowAssumption DEF TypeOK

LEMMA ColumnAtStart == {{0}, {NumLayers - 1}} \subseteq SUBSET Level
  BY ShowAssumption DEF Level

LEMMA InitShow == Init => ShowInv
<1> SUFFICES ASSUME Init PROVE ShowInv
  OBVIOUS
<1>1. followed \in Followed /\ followed \in Modelled
  BY ShowAssumption DEF Init
<1>2. Sound(followed, own)
  BY <1>1, ResetSound, StartedSound DEF Init
<1>3. column \subseteq Level
  BY ColumnAtStart DEF Init
<1>4. blast \in [Led -> -1 .. BlastLast + 1]
  BY ClearTyped DEF Init
<1>5. /\ handle \in Whose /\ frame \in Painter
      /\ at = "wait" /\ effect \in Whose
      /\ converted \in Painter /\ published \in Painter
  BY DEF Init, Painter, Whose
<1>6. posts \in 0 .. PoolSize
  BY ShowAssumption DEF Init
<1>7. QED
  BY <1>1, <1>2, <1>3, <1>4, <1>5, <1>6 DEF ShowInv, TypeOK, Sound

\* The statics are changed by the init function and by the effect itself.
LEMMA NextStatics == ASSUME ShowInv, [Next]_vars PROVE followed' = followed /\ Sound(followed, own')
<1>a. followed \in Modelled /\ Sound(followed, own)
  BY FollowedModelled DEF ShowInv, TypeOK, Sound
<1>0. followed' = followed
  BY DEF Next, OnRenderMsg, TriggerRender, SwitchToOwn, SwitchToOther, StartRendering, Draw,
         NotYet, RepaintOwn, UpdateOwn, WipeOwn, DrawOther, Paint, Select, Swap, Rise, Explode,
         Convert, Publish, vars
<1>1. CASE SwitchToOwn
  BY <1>0, <1>1, <1>a, StartedSound DEF SwitchToOwn
<1>2. CASE RepaintOwn
  BY <1>0, <1>2, <1>a DEF RepaintOwn, WipeOwn
<1>3. CASE UpdateOwn
  <2>1. PICK s \in Updated(followed, own) : own' = s
    BY <1>3 DEF UpdateOwn, WipeOwn
  <2>2. QED
    BY <1>0, <1>a, <2>1, UpdatedSound
<1>4. ASSUME NEW which \in {"this", "other"}, Select(which) PROVE Sound(followed, own')
  <2>1. followed = "topDownSwap"
    BY <1>4 DEF Select
  <2>2. own' \in [selection : {which}, movingUp : BOOLEAN]
    <3>1. (0 \in column) \in BOOLEAN
      OBVIOUS
    <3>2. {0 \in column} \subseteq BOOLEAN
      BY <3>1, Zenon
    <3>3. PICK up \in SUBSET BOOLEAN : own' \in [selection : {which}, movingUp : up]
      <4>1. CASE which = "this"
        BY <1>4, <4>1, <3>2, Zenon DEF Select
      <4>2. CASE which # "this"
        BY <1>4, <4>2, Zenon DEF Select
      <4>3. QED
        BY <4>1, <4>2
    <3>4. QED
      BY <3>3
  <2>3. QED
    BY <2>1, <2>2 DEF Sound, Within, Static
<1>5. CASE Swap
  <2>1. followed = "topDownSwap" /\ own \in Static("topDownSwap") /\ column \in SUBSET Level
    BY <1>5, <1>a DEF Swap, Sound, ShowInv, TypeOK
  <2>2. \/ \E m \in Moved(own, column) : own' = m.statics
        \/ own' = own
        \/ own' = [own EXCEPT !.selection = "none"]
    BY <1>5 DEF Swap
  <2>3. own' \in Static("topDownSwap")
    <3>1. [own EXCEPT !.selection = "none"] \in Static("topDownSwap")
      BY <2>1 DEF Static
    <3>2. QED
      BY <2>1, <2>2, <3>1, MovedTyped
  <2>4. QED
    BY <1>0, <2>1, <2>3 DEF Sound, Within
<1>6. CASE Rise
  <2>1. followed = "explosion" /\ ~own.exploded /\ own' = Risen(own)
    BY <1>6 DEF Rise
  <2>2. QED
    BY <1>a, <2>1, <1>0, RisenSound
<1>7. CASE Explode
  <2>1. followed = "explosion" /\ own' \in Burnt(own, blast')
    BY <1>7 DEF Explode
  <2>2. QED
    BY <1>a, <2>1, <1>0, BurntSound
<1>8. CASE UNCHANGED own
  BY <1>8, <1>a, <1>0
<1>9. QED
  BY <1>0, <1>1, <1>2, <1>3, <1>4, <1>5, <1>6, <1>7, <1>8
     DEF Next, OnRenderMsg, TriggerRender, SwitchToOther, StartRendering, Draw,
         NotYet, DrawOther, Paint, Convert, Publish, vars

LEMMA NextFrame ==
    ASSUME ShowInv, [Next]_vars
    PROVE  column' \subseteq Level /\ blast' \in [Led -> -1 .. BlastLast + 1]
<1>a. /\ column \in SUBSET Level /\ blast \in [Led -> -1 .. BlastLast + 1]
      /\ {} \in SUBSET Level
  BY DEF ShowInv, TypeOK
<1>1. CASE SwitchToOwn
  <2>1. column' \subseteq Level
    BY <1>1, <1>a, ColumnAtStart DEF SwitchToOwn
  <2>2. blast' \in [Led -> -1 .. BlastLast + 1]
    BY <1>1, <1>a, ClearTyped DEF SwitchToOwn
  <2>3. QED
    BY <2>1, <2>2
<1>2. CASE SwitchToOther
  BY <1>2, <1>a, PaintedTyped, ClearTyped, MarkedTyped DEF SwitchToOther
<1>3. ASSUME NEW s, WipeOwn(s) PROVE column' \subseteq Level /\ blast' = blast
  BY <1>3 DEF WipeOwn
<1>4. CASE DrawOther
  BY <1>4, <1>a, ClearTyped DEF DrawOther
<1>5. CASE Paint
  BY <1>5, <1>a, PaintedTyped, MarkedTyped DEF Paint
<1>6. CASE Swap
  <2>1. own \in Static("topDownSwap")
    BY <1>6 DEF Swap, ShowInv, TypeOK
  <2>2. (\E m \in Moved(own, column) : column' = m.column) \/ column' = column
    BY <1>6 DEF Swap
  <2>3. column' \subseteq Level
    BY <1>a, <2>1, <2>2, MovedTyped
  <2>4. QED
    BY <1>6, <1>a, <2>3 DEF Swap
<1>7. CASE Rise
  <2>1. {BlastLast, 1, 0} \subseteq -1 .. BlastLast + 1
    BY EdgeBounds
  <2>2. QED
    BY <1>7, <1>a, <2>1 DEF Rise
<1>8. CASE Explode
  BY <1>8, <1>a, SweptTyped DEF Explode
<1>9. CASE UNCHANGED <<column, blast>>
  BY <1>9, <1>a
<1>10. QED
  BY <1>a, <1>1, <1>2, <1>3, <1>4, <1>5, <1>6, <1>7, <1>8, <1>9
     DEF Next, OnRenderMsg, TriggerRender, StartRendering, Draw, NotYet, RepaintOwn, UpdateOwn,
         Select, Convert, Publish, vars

LEMMA NextPlace ==
    ASSUME ShowInv, [Next]_vars
    PROVE  /\ handle' \in Whose /\ frame' \in Painter
           /\ at' \in {"wait", "draw", "paint", "convert", "publish"}
           /\ effect' \in Whose /\ converted' \in Painter /\ published' \in Painter
           /\ posts' \in 0 .. PoolSize
           /\ at' # "wait" => posts' > 0
<1>a. /\ handle \in Whose /\ frame \in Painter
      /\ at \in {"wait", "draw", "paint", "convert", "publish"}
      /\ effect \in Whose /\ converted \in Painter /\ published \in Painter
      /\ posts \in 0 .. PoolSize
      /\ at # "wait" => posts > 0
      /\ {"own", "other", "mixed", "nobody"} \subseteq Painter
      /\ {"own", "other"} \subseteq Whose
      /\ PoolSize \in Nat
  BY ShowAssumption DEF ShowInv, TypeOK, Painter, Whose
<1>1. CASE TriggerRender
  BY <1>1, <1>a DEF TriggerRender
<1>2. CASE SwitchToOwn \/ SwitchToOther
  BY <1>2, <1>a DEF SwitchToOwn, SwitchToOther
<1>3. CASE StartRendering
  BY <1>3, <1>a DEF StartRendering
<1>4. ASSUME NEW s, WipeOwn(s) PROVE frame' \in Painter /\ at' = "paint" /\ at # "wait"
                                   /\ UNCHANGED <<handle, effect, converted, published, posts>>
  BY <1>4, <1>a DEF WipeOwn
<1>5. CASE Draw
  <2>1. /\ frame' \in Painter /\ at' \in {"paint", "convert"} /\ at # "wait"
        /\ UNCHANGED <<handle, effect, converted, published, posts>>
    BY <1>4, <1>5, <1>a DEF Draw, NotYet, RepaintOwn, UpdateOwn, DrawOther, Paint, Swap, Rise,
                            Explode, Select
  <2>2. QED
    BY <2>1, <1>a
<1>6. CASE Convert \/ Publish
  BY <1>6, <1>a DEF Convert, Publish
<1>7. CASE UNCHANGED vars
  BY <1>7, <1>a DEF vars
<1>8. QED
  BY <1>1, <1>2, <1>3, <1>5, <1>6, <1>7 DEF Next, OnRenderMsg

LEMMA NextShow == ShowInv /\ [Next]_vars => ShowInv'
  BY NextStatics, NextFrame, NextPlace DEF ShowInv, TypeOK, Sound

\* No effect of the module draws outside of the frame, on a cube of any size: the statics that
\* index it (pongCube.c:66-102, wobbelCube.c:73-155, explosion.c:59-63 and the
\* others) stay in their ranges over showings, and no counter of a byte leaves them.
THEOREM TypeCorrect == Spec => []TypeOK
<1>1. ShowInv => TypeOK
  BY DEF ShowInv
<1>2. QED
  BY <1>1, InitShow, NextShow, PTL DEF Spec

-----------------------------------------------------------------------------
(* topDownSwap                                                             *)

\* A column of the frame that topDownSwap alone painted holds one LED.
OneLed == followed = "topDownSwap" /\ frame = "own" => \E i \in Level : column = {i}

\* The only LED of the column is the one that is found and moved.
LEMMA MovedOne ==
    ASSUME NEW s \in Static("topDownSwap"), NEW l \in Level, NEW m \in Moved(s, {l})
    PROVE  \E i \in Level : m.column = {i}
<1> DEFINE there == IF s.movingUp THEN NumLayers - 1 ELSE 0
           step(i) == IF s.movingUp THEN i + 1 ELSE i - 1
<1>1. m.column = IF l = there THEN {l} ELSE ({l} \ {l}) \cup {step(l)}
  BY DEF Moved, Lowest
<1>2. l # there => step(l) \in Level
  BY MovedLed
<1> HIDE DEF there, step
<1>3. m.column = {l} \/ (l # there /\ m.column = {step(l)})
  BY <1>1
<1>4. QED
  BY <1>2, <1>3

LEMMA NextOneLed == ASSUME ShowInv, OneLed, [Next]_vars PROVE OneLed'
<1>0. followed' = followed
  BY NextStatics
<1>a. SUFFICES ASSUME followed = "topDownSwap", frame' = "own"
               PROVE  \E i \in Level : column' = {i}
  BY <1>0 DEF OneLed
<1>1. CASE SwitchToOwn
  <2>1. 0 \in Level /\ NumLayers - 1 \in Level
    BY ShowAssumption DEF Level
  <2>2. QED
    BY <1>1, <1>a, <2>1 DEF SwitchToOwn
<1>2. CASE Swap
  <2>1. frame = "own" /\ own \in Static("topDownSwap")
    BY <1>2, <1>a DEF Swap, ShowInv, TypeOK
  <2>2. PICK l \in Level : column = {l}
    BY <1>a, <2>1 DEF OneLed
  <2>3. (\E m \in Moved(own, column) : column' = m.column) \/ column' = column
    BY <1>2 DEF Swap
  <2>4. QED
    BY <2>1, <2>2, <2>3, MovedOne
<1>3. CASE Paint
  \* What is painted by another effect makes the frame mixed.
  BY <1>3, <1>a DEF Paint, OneLed
<1>4. CASE SwitchToOther \/ DrawOther
  BY <1>4, <1>a DEF SwitchToOther, DrawOther, OneLed
<1>5. ASSUME NEW s, WipeOwn(s) PROVE FALSE
  BY <1>5, <1>a DEF WipeOwn, Edits
<1>6. CASE Rise \/ Explode
  BY <1>6, <1>a DEF Rise, Explode
<1>7. CASE UNCHANGED <<frame, column>>
  BY <1>7, <1>a DEF OneLed
<1>8. QED
  BY <1>1, <1>2, <1>3, <1>4, <1>5, <1>6, <1>7
     DEF Next, OnRenderMsg, TriggerRender, StartRendering, Draw, NotYet, RepaintOwn, UpdateOwn,
         Select, Convert, Publish, vars

\* topDownSwap moves the LEDs of the frame it finds, with the selection and the
\* direction of an earlier showing (topDownSwap.c:43-44); in a frame of its own no
\* column ever loses its LED or gets a second one.
THEOREM ColumnsKeepTheirLed == Spec => []OneLedPerColumn
<1>1. Init => OneLed
  <2> SUFFICES ASSUME Init, followed = "topDownSwap" PROVE \E i \in Level : column = {i}
    BY DEF OneLed
  <2>1. 0 \in Level /\ NumLayers - 1 \in Level
    BY ShowAssumption DEF Level
  <2>2. QED
    BY <2>1 DEF Init
<1>2. ShowInv /\ OneLed /\ [Next]_vars => OneLed'
  BY NextOneLed
<1>3. OneLed => OneLedPerColumn
  BY FS_Singleton DEF OneLed, OneLedPerColumn
<1>4. QED
  BY <1>1, <1>2, <1>3, InitShow, NextShow, PTL DEF Spec

-----------------------------------------------------------------------------
(* The wave of an explosion                                                *)

\* The LEDs of the cube and their neighbours, along an axis.
LEMMA LedPlace ==
    ASSUME NEW c \in Led
    PROVE  /\ c[1] \in Edge /\ c[2] \in Edge /\ c[3] \in Edge
           /\ c[1] \in Int /\ c[2] \in Int /\ c[3] \in Int
           /\ c = <<c[1], c[2], c[3]>>
<1>1. c[1] \in Edge /\ c[2] \in Edge /\ c[3] \in Edge /\ c = <<c[1], c[2], c[3]>>
  BY DEF Led
<1> QED
  BY <1>1 DEF Edge

LEMMA StepPlace ==
    ASSUME NEW c \in Led, NEW s \in Int
    PROVE  /\ [c EXCEPT ![1] = @ + s] = <<c[1] + s, c[2], c[3]>>
           /\ [c EXCEPT ![2] = @ + s] = <<c[1], c[2] + s, c[3]>>
           /\ [c EXCEPT ![3] = @ + s] = <<c[1], c[2], c[3] + s>>
<1>1. PICK z \in Edge, y \in Edge, x \in Edge : c = <<z, y, x>>
  BY DEF Led
<1>2. [c EXCEPT ![1] = @ + s] = <<c[1] + s, c[2], c[3]>>
  BY <1>1
<1>3. [c EXCEPT ![2] = @ + s] = <<c[1], c[2] + s, c[3]>>
  BY <1>1
<1>4. [c EXCEPT ![3] = @ + s] = <<c[1], c[2], c[3] + s>>
  BY <1>1
<1> QED
  BY <1>2, <1>3, <1>4

Stepped(c, s) == {<<c[1] + s, c[2], c[3]>>, <<c[1], c[2] + s, c[3]>>, <<c[1], c[2], c[3] + s>>}
Passed(c, d)  == \E a \in 1 .. 3 : d[a] < c[a]

LEMMA NearSteps ==
    ASSUME NEW c \in Led
    PROVE  Near(c) = Led \cap (Stepped(c, -1) \cup Stepped(c, 1))
<1>1. \A a \in 1 .. 3 : a = 1 \/ a = 2 \/ a = 3
  OBVIOUS
<1>2. ASSUME NEW s \in {-1, 1} PROVE {[c EXCEPT ![a] = @ + s] : a \in 1 .. 3} = Stepped(c, s)
  <2> DEFINE e(a) == [c EXCEPT ![a] = @ + s]
  <2>0. s \in Int
    OBVIOUS
  <2>1. /\ e(1) = <<c[1] + s, c[2], c[3]>> /\ e(2) = <<c[1], c[2] + s, c[3]>>
        /\ e(3) = <<c[1], c[2], c[3] + s>>
    BY <2>0, StepPlace
  <2> HIDE DEF e
  <2>2. {e(a) : a \in 1 .. 3} = {e(1), e(2), e(3)}
    BY <1>1
  <2> QED
    BY <2>1, <2>2 DEF e, Stepped
<1>3. Near(c) = {d \in {[c EXCEPT ![a] = @ + s] : a \in 1 .. 3, s \in {-1, 1}} : d \in Led}
  BY DEF Near
<1>4. {[c EXCEPT ![a] = @ + s] : a \in 1 .. 3, s \in {-1, 1}} = Stepped(c, -1) \cup Stepped(c, 1)
  BY <1>2
<1> QED
  BY <1>3, <1>4

LEMMA StepsPassed ==
    ASSUME NEW c \in Led
    PROVE  /\ \A d \in Stepped(c, -1) : Passed(c, d)
           /\ \A d \in Stepped(c, 1) : ~Passed(c, d)
<1>1. c[1] \in Int /\ c[2] \in Int /\ c[3] \in Int
  BY LedPlace
<1>2. \A a \in 1 .. 3 : a = 1 \/ a = 2 \/ a = 3
  OBVIOUS
<1> DEFINE z == c[1]
           y == c[2]
           x == c[3]
<1>3. ASSUME NEW d \in Stepped(c, -1) PROVE Passed(c, d)
  BY <1>1, <1>3 DEF Stepped, Passed
<1>4. ASSUME NEW d \in Stepped(c, 1) PROVE ~Passed(c, d)
  BY <1>1, <1>2, <1>4 DEF Stepped, Passed
<1> QED
  BY <1>3, <1>4

-----------------------------------------------------------------------------
(* When the wave lights an LED                                             *)

Below(k)  == IF k < 0 THEN -k ELSE 0
Beyond(k) == IF k > 0 THEN k ELSE 0

\* The update that lights an LED, counted from the explosion, by its distances from the
\* centre.  A sweep carries the wave on through all the LEDs that it is yet to pass, one
\* at a time, and takes two updates for each step against its direction.  The centre is
\* one update old, and the spark below it about to burn out: the LEDs under the spark and
\* those beyond the centre are reached by a detour.
Lit(z, y, x) ==
    LET beyond == Beyond(z) + Beyond(y) + Beyond(x)
    IN  IF y < 0 \/ x < 0 THEN 2 * (Below(z) + Below(y) + Below(x)) - 1 + beyond
        ELSE IF z = -1 /\ y = 0 /\ x = 0 THEN -BlastLast
        ELSE IF z < 0 THEN 2 * Below(z) + 2 + beyond
        ELSE IF beyond = 0 THEN -1
        ELSE beyond + 2

LEMMA LitTyped ==
    ASSUME NEW z \in Int, NEW y \in Int, NEW x \in Int
    PROVE  Lit(z, y, x) \in Int
  BY EdgeBounds DEF Lit, Below, Beyond

\* An LED is lit no later than its neighbours allow.
LEMMA LitAfterPassed ==
    ASSUME BlastLast > 1, NEW z \in Int, NEW y \in Int, NEW x \in Int
    PROVE  /\ Lit(z - 1, y, x) >= 0 => Lit(z, y, x) <= Lit(z - 1, y, x) + 1
           /\ Lit(z, y - 1, x) >= 0 => Lit(z, y, x) <= Lit(z, y - 1, x) + 1
           /\ Lit(z, y, x - 1) >= 0 => Lit(z, y, x) <= Lit(z, y, x - 1) + 1
<1>1. Lit(z - 1, y, x) >= 0 => Lit(z, y, x) <= Lit(z - 1, y, x) + 1
  BY EdgeBounds DEF Lit, Below, Beyond
<1>2. Lit(z, y - 1, x) >= 0 => Lit(z, y, x) <= Lit(z, y - 1, x) + 1
  BY EdgeBounds DEF Lit, Below, Beyond
<1>3. Lit(z, y, x - 1) >= 0 => Lit(z, y, x) <= Lit(z, y, x - 1) + 1
  BY EdgeBounds DEF Lit, Below, Beyond
<1> QED
  BY <1>1, <1>2, <1>3

LEMMA LitAgainst ==
    ASSUME BlastLast > 1, NEW z \in Int, NEW y \in Int, NEW x \in Int
    PROVE  /\ Lit(z + 1, y, x) >= -1 => Lit(z, y, x) <= Lit(z + 1, y, x) + 2
           /\ Lit(z, y + 1, x) >= -1 => Lit(z, y, x) <= Lit(z, y + 1, x) + 2
           /\ Lit(z, y, x + 1) >= -1 => Lit(z, y, x) <= Lit(z, y, x + 1) + 2
<1>1. Lit(z + 1, y, x) >= -1 => Lit(z, y, x) <= Lit(z + 1, y, x) + 2
  BY EdgeBounds DEF Lit, Below, Beyond
<1>2. Lit(z, y + 1, x) >= -1 => Lit(z, y, x) <= Lit(z, y + 1, x) + 2
  BY EdgeBounds DEF Lit, Below, Beyond
<1>3. Lit(z, y, x + 1) >= -1 => Lit(z, y, x) <= Lit(z, y, x + 1) + 2
  BY EdgeBounds DEF Lit, Below, Beyond
<1> QED
  BY <1>1, <1>2, <1>3

\* And one of them does light it.
LEMMA LitByOne ==
    ASSUME BlastLast > 1, NEW z \in Int, NEW y \in Int, NEW x \in Int, Lit(z, y, x) >= 1
    PROVE  \/ z > 0 /\ Lit(z, y, x) = Lit(z - 1, y, x) + 1
           \/ y >= 0 /\ Lit(z, y, x) = Lit(z, y - 1, x) + 1
           \/ x >= 0 /\ Lit(z, y, x) = Lit(z, y, x - 1) + 1
           \/ z < 0 /\ Lit(z, y, x) = Lit(z + 1, y, x) + 2
           \/ y < 0 /\ Lit(z, y, x) = Lit(z, y + 1, x) + 2
           \/ x < 0 /\ Lit(z, y, x) = Lit(z, y, x + 1) + 2
  BY EdgeBounds DEF Lit, Below, Beyond

LEMMA LitAtStart ==
    ASSUME NEW z \in Int, NEW y \in Int, NEW x \in Int
    PROVE  \/ Lit(z, y, x) >= 1
           \/ z = 0 /\ y = 0 /\ x = 0
           \/ z = -1 /\ y = 0 /\ x = 0
  BY EdgeBounds DEF Lit, Below, Beyond

LEMMA LitCentre == Lit(0, 0, 0) = -1 /\ Lit(-1, 0, 0) = -BlastLast
  BY EdgeBounds DEF Lit, Below, Beyond

\* The same with the places of an LED and of the centre.
Centre   == {m \in Led : m[2] >= 1 /\ m[3] >= 1}
At(m, c) == Lit(c[1] - m[1], c[2] - m[2], c[3] - m[3])

LEMMA Distances ==
    ASSUME NEW m \in Centre, NEW c \in Led
    PROVE  /\ c[1] - m[1] \in Int /\ c[2] - m[2] \in Int /\ c[3] - m[3] \in Int
           /\ At(m, c) \in Int
<1>1. m \in Led
  BY DEF Centre
<1>2. c[1] - m[1] \in Int /\ c[2] - m[2] \in Int /\ c[3] - m[3] \in Int
  BY <1>1, LedPlace
<1> QED
  BY <1>2, LitTyped DEF At

LEMMA AtStep ==
    ASSUME NEW m \in Centre, NEW c \in Led, NEW s \in Int
    PROVE  /\ At(m, <<c[1] + s, c[2], c[3]>>) = Lit((c[1] - m[1]) + s, c[2] - m[2], c[3] - m[3])
           /\ At(m, <<c[1], c[2] + s, c[3]>>) = Lit(c[1] - m[1], (c[2] - m[2]) + s, c[3] - m[3])
           /\ At(m, <<c[1], c[2], c[3] + s>>) = Lit(c[1] - m[1], c[2] - m[2], (c[3] - m[3]) + s)
<1>1. /\ c[1] \in Int /\ c[2] \in Int /\ c[3] \in Int
      /\ m[1] \in Int /\ m[2] \in Int /\ m[3] \in Int
  BY LedPlace DEF Centre
<1>2. /\ (c[1] + s) - m[1] = (c[1] - m[1]) + s
      /\ (c[2] + s) - m[2] = (c[2] - m[2]) + s
      /\ (c[3] + s) - m[3] = (c[3] - m[3]) + s
  BY <1>1
<1> QED
  BY <1>2, Zenon DEF At

LEMMA AtPassed ==
    ASSUME BlastLast > 1, NEW m \in Centre, NEW c \in Led, NEW d \in Near(c)
    PROVE  /\ Passed(c, d) /\ At(m, d) >= 0 => At(m, c) <= At(m, d) + 1
           /\ ~Passed(c, d) /\ At(m, d) >= -1 => At(m, c) <= At(m, d) + 2
<1> DEFINE z == c[1] - m[1]
           y == c[2] - m[2]
           x == c[3] - m[3]
<1>1. z \in Int /\ y \in Int /\ x \in Int /\ At(m, c) = Lit(z, y, x)
  BY Distances DEF At
<1>2. CASE Passed(c, d)
  <2>1. d \in Stepped(c, -1)
    BY <1>2, NearSteps, StepsPassed
  <2>2. -1 \in Int /\ z + (-1) = z - 1 /\ y + (-1) = y - 1 /\ x + (-1) = x - 1
    BY <1>1
  <2>3. \/ At(m, d) = Lit(z + (-1), y, x)
        \/ At(m, d) = Lit(z, y + (-1), x)
        \/ At(m, d) = Lit(z, y, x + (-1))
    BY <2>1, <2>2, AtStep DEF Stepped
  <2> HIDE DEF z, y, x
  <2>4. At(m, d) = Lit(z - 1, y, x) \/ At(m, d) = Lit(z, y - 1, x) \/ At(m, d) = Lit(z, y, x - 1)
    BY <2>2, <2>3
  <2> QED
    BY <1>1, <1>2, <2>4, LitAfterPassed
<1>3. CASE ~Passed(c, d)
  <2>1. d \in Stepped(c, 1)
    BY <1>3, NearSteps, StepsPassed
  <2>3. \/ At(m, d) = Lit(z + 1, y, x)
        \/ At(m, d) = Lit(z, y + 1, x)
        \/ At(m, d) = Lit(z, y, x + 1)
    <3>1. 1 \in Int
      OBVIOUS
    <3> QED
      BY <2>1, <3>1, AtStep DEF Stepped
  <2> HIDE DEF z, y, x
  <2> QED
    BY <1>1, <1>3, <2>3, LitAgainst
<1> QED
  BY <1>2, <1>3

\* The LED that lights another one is inside the cube.
LEMMA AtByOne ==
    ASSUME BlastLast > 1, NEW m \in Centre, NEW c \in Led, At(m, c) >= 1
    PROVE  \E d \in Near(c) : \/ Passed(c, d) /\ At(m, c) = At(m, d) + 1
                              \/ ~Passed(c, d) /\ At(m, c) = At(m, d) + 2
<1> DEFINE z == c[1] - m[1]
           y == c[2] - m[2]
           x == c[3] - m[3]
           before(d) == d \in Led /\ d \in Stepped(c, -1) /\ At(m, c) = At(m, d) + 1
           after(d) == d \in Led /\ d \in Stepped(c, 1) /\ At(m, c) = At(m, d) + 2
<1>1. z \in Int /\ y \in Int /\ x \in Int /\ At(m, c) = Lit(z, y, x)
  BY Distances DEF At
<1>2. /\ c[1] \in Edge /\ c[2] \in Edge /\ c[3] \in Edge
      /\ m[1] \in Edge /\ m[2] \in Edge /\ m[3] \in Edge
      /\ m[2] >= 1 /\ m[3] >= 1
  BY LedPlace DEF Centre
<1>3. /\ z > 0 => c[1] + (-1) \in Edge
      /\ y >= 0 => c[2] + (-1) \in Edge
      /\ x >= 0 => c[3] + (-1) \in Edge
      /\ z < 0 => c[1] + 1 \in Edge
      /\ y < 0 => c[2] + 1 \in Edge
      /\ x < 0 => c[3] + 1 \in Edge
  BY <1>2, EdgeBounds DEF Edge
<1>4. \/ z > 0 /\ At(m, c) = Lit(z - 1, y, x) + 1
      \/ y >= 0 /\ At(m, c) = Lit(z, y - 1, x) + 1
      \/ x >= 0 /\ At(m, c) = Lit(z, y, x - 1) + 1
      \/ z < 0 /\ At(m, c) = Lit(z + 1, y, x) + 2
      \/ y < 0 /\ At(m, c) = Lit(z, y + 1, x) + 2
      \/ x < 0 /\ At(m, c) = Lit(z, y, x + 1) + 2
  <2> HIDE DEF z, y, x
  <2> QED
    BY <1>1, LitByOne
<1>5. /\ At(m, <<c[1] + (-1), c[2], c[3]>>) = Lit(z - 1, y, x)
      /\ At(m, <<c[1], c[2] + (-1), c[3]>>) = Lit(z, y - 1, x)
      /\ At(m, <<c[1], c[2], c[3] + (-1)>>) = Lit(z, y, x - 1)
  <2>1. -1 \in Int /\ z + (-1) = z - 1 /\ y + (-1) = y - 1 /\ x + (-1) = x - 1
    BY <1>1
  <2>2. /\ At(m, <<c[1] + (-1), c[2], c[3]>>) = Lit(z + (-1), y, x)
        /\ At(m, <<c[1], c[2] + (-1), c[3]>>) = Lit(z, y + (-1), x)
        /\ At(m, <<c[1], c[2], c[3] + (-1)>>) = Lit(z, y, x + (-1))
    BY <2>1, AtStep
  <2> HIDE DEF z, y, x
  <2> QED
    BY <2>1, <2>2
<1>6. /\ At(m, <<c[1] + 1, c[2], c[3]>>) = Lit(z + 1, y, x)
      /\ At(m, <<c[1], c[2] + 1, c[3]>>) = Lit(z, y + 1, x)
      /\ At(m, <<c[1], c[2], c[3] + 1>>) = Lit(z, y, x + 1)
  BY AtStep
<1>7. /\ \A s \in {-1, 1} : /\ <<c[1] + s, c[2], c[3]>> \in Stepped(c, s)
                            /\ <<c[1], c[2] + s, c[3]>> \in Stepped(c, s)
                            /\ <<c[1], c[2], c[3] + s>> \in Stepped(c, s)
  BY DEF Stepped
<1>8. /\ z > 0 => <<c[1] + (-1), c[2], c[3]>> \in Led
      /\ y >= 0 => <<c[1], c[2] + (-1), c[3]>> \in Led
      /\ x >= 0 => <<c[1], c[2], c[3] + (-1)>> \in Led
      /\ z < 0 => <<c[1] + 1, c[2], c[3]>> \in Led
      /\ y < 0 => <<c[1], c[2] + 1, c[3]>> \in Led
      /\ x < 0 => <<c[1], c[2], c[3] + 1>> \in Led
  BY <1>2, <1>3 DEF Led
<1> HIDE DEF z, y, x
<1>9. (\E d : before(d)) \/ (\E d : after(d))
  <2>1. CASE z > 0 /\ At(m, c) = Lit(z - 1, y, x) + 1
    <3>1. before(<<c[1] + (-1), c[2], c[3]>>)
      BY <1>5, <1>7, <1>8, <2>1
    <3> QED
      BY <3>1
  <2>2. CASE y >= 0 /\ At(m, c) = Lit(z, y - 1, x) + 1
    <3>1. before(<<c[1], c[2] + (-1), c[3]>>)
      BY <1>5, <1>7, <1>8, <2>2
    <3> QED
      BY <3>1
  <2>3. CASE x >= 0 /\ At(m, c) = Lit(z, y, x - 1) + 1
    <3>1. before(<<c[1], c[2], c[3] + (-1)>>)
      BY <1>5, <1>7, <1>8, <2>3
    <3> QED
      BY <3>1
  <2>4. CASE z < 0 /\ At(m, c) = Lit(z + 1, y, x) + 2
    <3>1. after(<<c[1] + 1, c[2], c[3]>>)
      BY <1>6, <1>7, <1>8, <2>4
    <3> QED
      BY <3>1
  <2>5. CASE y < 0 /\ At(m, c) = Lit(z, y + 1, x) + 2
    <3>1. after(<<c[1], c[2] + 1, c[3]>>)
      BY <1>6, <1>7, <1>8, <2>5
    <3> QED
      BY <3>1
  <2>6. CASE x < 0 /\ At(m, c) = Lit(z, y, x + 1) + 2
    <3>1. after(<<c[1], c[2], c[3] + 1>>)
      BY <1>6, <1>7, <1>8, <2>6
    <3> QED
      BY <3>1
  <2> QED
    BY <1>4, <2>1, <2>2, <2>3, <2>4, <2>5, <2>6
<1> QED
  BY <1>9, NearSteps, StepsPassed

-----------------------------------------------------------------------------
(* The wave                                                                *)

\* The time left of an LED, so many updates after it was lit.
TimeLeft(k) == IF k < 0 THEN 0 ELSE IF k <= BlastLast THEN BlastLast + 1 - k ELSE -1

\* The frame so many updates after the explosion.
Wave(m, w) == [c \in Led |-> TimeLeft(w - At(m, c))]

LEMMA FadedLeft ==
    ASSUME BlastLast > 1, NEW k \in Int
    PROVE  /\ k >= 0 => TimeLeft(k) # 0 /\ Faded(TimeLeft(k)) = TimeLeft(k + 1)
           /\ k < 0 => TimeLeft(k) = 0 /\ Faded(TimeLeft(k)) = 0
           /\ Faded(TimeLeft(k)) = BlastLast <=> k = 0
           /\ TimeLeft(k) = BlastLast <=> k = 1
           /\ TimeLeft(0) = BlastLast + 1
  BY EdgeBounds DEF TimeLeft, Faded

LEMMA SweptWave ==
    ASSUME BlastLast > 1, NEW m \in Centre, NEW w \in Nat
    PROVE  Swept(Wave(m, w)) = Wave(m, w + 1)
<1> DEFINE b == Wave(m, w)
           seen(c, d) == IF Passed(c, d) THEN Faded(b[d]) ELSE b[d]
           swept(c) == IF b[c] = 0 /\ \E d \in Near(c) : seen(c, d) = BlastLast
                       THEN BlastLast + 1 ELSE Faded(b[c])
<1>1. Swept(b) = [c \in Led |-> swept(c)]
  BY DEF Swept, Passed
<1>2. SUFFICES ASSUME NEW c \in Led PROVE swept(c) = TimeLeft((w + 1) - At(m, c))
  <2> HIDE DEF b, swept
  <2>1. Swept(b) = [c \in Led |-> TimeLeft((w + 1) - At(m, c))]
    BY <1>1
  <2>2. Wave(m, w + 1) = [c \in Led |-> TimeLeft((w + 1) - At(m, c))]
    BY DEF Wave
  <2> QED
    BY <2>1, <2>2 DEF b
<1>3. \A d \in Led : b[d] = TimeLeft(w - At(m, d)) /\ At(m, d) \in Int /\ w - At(m, d) \in Int
  BY Distances DEF Wave
<1>4. Near(c) \subseteq Led
  BY DEF Near
<1> HIDE DEF b
<1>5. ASSUME NEW d \in Near(c)
      PROVE  seen(c, d) = BlastLast <=> IF Passed(c, d) THEN At(m, d) = w ELSE At(m, d) = w - 1
  BY <1>3, <1>4, FadedLeft
<1> HIDE DEF seen
<1>6. CASE At(m, c) <= w
  BY <1>3, <1>6, FadedLeft
<1>7. CASE At(m, c) > w
  <2>1. b[c] = 0 /\ Faded(b[c]) = 0
    BY <1>3, <1>7, FadedLeft
  <2>2. CASE \E d \in Near(c) : seen(c, d) = BlastLast
    <3>1. PICK d \in Near(c) : seen(c, d) = BlastLast
      BY <2>2
    <3>2. At(m, d) \in Int /\ At(m, c) \in Int
      BY <1>3, <1>4
    <3>3. At(m, c) <= w + 1
      BY <1>5, <3>1, <3>2, AtPassed
    <3>4. (w + 1) - At(m, c) = 0
      BY <1>7, <3>2, <3>3
    <3> QED
      BY <2>1, <2>2, <3>4, FadedLeft
  <2>3. CASE ~ \E d \in Near(c) : seen(c, d) = BlastLast
    <3>1. At(m, c) # w + 1
      <4>1. SUFFICES ASSUME At(m, c) = w + 1 PROVE FALSE
        OBVIOUS
      <4>2. PICK d \in Near(c) : \/ Passed(c, d) /\ At(m, c) = At(m, d) + 1
                                 \/ ~Passed(c, d) /\ At(m, c) = At(m, d) + 2
        BY <4>1, AtByOne
      <4>3. At(m, d) \in Int
        BY <1>3, <1>4
      <4> QED
        BY <1>5, <2>3, <4>1, <4>2, <4>3
    <3>2. (w + 1) - At(m, c) < 0 /\ (w + 1) - At(m, c) \in Int
      BY <1>3, <1>7, <3>1
    <3> QED
      BY <2>1, <2>3, <3>2, FadedLeft
  <2> QED
    BY <2>2, <2>3
<1> QED
  BY <1>3, <1>6, <1>7

\* A set of numbers has a least one: the sets of the smaller ones are well-founded
\* under inclusion.
LEMMA LeastOf ==
    ASSUME NEW S \in SUBSET Nat, NEW t \in S
    PROVE  \E l \in S : \A k \in S : l <= k
<1> DEFINE R == {k \in S : k <= t}
           upTo(i) == {j \in R : j <= i}
           T == {upTo(i) : i \in R}
<1>1. R \subseteq 0 .. t /\ R \subseteq Nat /\ t \in R
  <2>1. t \in Nat /\ t <= t /\ \A k \in S : k \in Nat
    OBVIOUS
  <2>2. \A k \in R : k \in 0 .. t
    BY <2>1
  <2> QED
    BY <2>1, <2>2
<1>2. IsFiniteSet(R)
  <2>1. IsFiniteSet(0 .. t)
    BY FS_Interval
  <2> QED
    BY <1>1, <2>1, FS_Subset
<1> HIDE DEF R
<1>3. FiniteSubsetsOf(R) = SUBSET R
  BY <1>2, FS_FiniteSubsetsOfFinite
<1>4. IsWellFoundedOn(StrictSubsetOrdering(R), SUBSET R)
  BY <1>3, FS_StrictSubsetOrderingWellFounded
<1>5. T \subseteq SUBSET R /\ T # {}
  BY <1>1
<1>6. PICK X \in T : \A Y \in T : ~ (<<Y, X>> \in StrictSubsetOrdering(R))
  <2> HIDE DEF T
  <2> QED
    BY <1>4, <1>5, WFMin
<1>7. PICK l \in R : X = upTo(l)
  BY <1>6
<1>8. ASSUME NEW j \in R PROVE l <= j
  <2>1. SUFFICES ASSUME j < l PROVE FALSE
    BY <1>1, <2>1
  <2>n. l \in Nat /\ j \in Nat /\ \A i \in R : i \in Nat
    BY <1>1
  <2>2. upTo(j) \subseteq upTo(l)
    <3>1. \A i \in R : i <= j => i <= l
      BY <2>1, <2>n
    <3> QED
      BY <3>1
  <2>3. l \in upTo(l) /\ l \notin upTo(j)
    BY <2>1, <2>n
  <2>4. <<upTo(j), upTo(l)>> \in StrictSubsetOrdering(R)
    BY <2>2, <2>3 DEF StrictSubsetOrdering
  <2> QED
    BY <1>6, <1>7, <2>4
<1>9. ASSUME NEW k \in S PROVE l <= k
  <2>1. l <= t /\ l \in Nat /\ t \in Nat /\ k \in Nat
    BY <1>1 DEF R
  <2>2. k \notin R => k > t
    BY <2>1 DEF R
  <2> QED
    BY <1>8, <2>1, <2>2
<1> QED
  BY <1>9 DEF R

\* When no LED is lit any more, none is left out: the first of those would have a
\* neighbour that is lit.
LEMMA WaveOver ==
    ASSUME BlastLast > 1, NEW m \in Centre, NEW w \in Nat, \A c \in Led : ~(Wave(m, w)[c] > 0)
    PROVE  Wave(m, w) = [c \in Led |-> -1]
<1> DEFINE left == {c \in Led : At(m, c) > w}
           S == {At(m, c) : c \in left}
<1>1. \A c \in Led : Wave(m, w)[c] = TimeLeft(w - At(m, c)) /\ At(m, c) \in Int
  BY Distances DEF Wave
<1>2. left = {}
  <2>1. SUFFICES ASSUME NEW e \in left PROVE FALSE
    OBVIOUS
  <2>2. S \subseteq Nat /\ At(m, e) \in S
    BY <1>1
  <2>3. PICK l \in S : \A k \in S : l <= k
    <3> HIDE DEF S
    <3> QED
      BY <2>2, LeastOf
  <2>4. PICK c \in left : At(m, c) = l
    BY <2>3
  <2>5. At(m, c) >= 1 /\ At(m, c) > w /\ At(m, c) \in Int
    BY <1>1, <2>4
  <2>6. PICK d \in Near(c) : \/ Passed(c, d) /\ At(m, c) = At(m, d) + 1
                             \/ ~Passed(c, d) /\ At(m, c) = At(m, d) + 2
    BY <2>4, <2>5, AtByOne
  <2>7. d \in Led /\ At(m, d) \in Int
    BY <1>1 DEF Near
  <2>8. At(m, d) < l
    BY <2>4, <2>5, <2>6, <2>7
  <2>9. At(m, d) <= w
    <3>1. d \notin left
      BY <2>3, <2>5, <2>4, <2>7, <2>8
    <3> QED
      BY <2>7, <3>1
  <2>10. w - At(m, d) \in 0 .. 1
    BY <2>5, <2>6, <2>7, <2>9
  <2>11. TimeLeft(w - At(m, d)) > 0
    BY <2>10, EdgeBounds DEF TimeLeft
  <2> QED
    BY <1>1, <2>7, <2>11
<1>3. ASSUME NEW c \in Led PROVE TimeLeft(w - At(m, c)) = -1
  <2>1. At(m, c) \in Int /\ At(m, c) <= w /\ ~(TimeLeft(w - At(m, c)) > 0)
    BY <1>1, <1>2, <1>3
  <2> DEFINE k == w - At(m, c)
  <2>2. k \in Nat
    BY <2>1
  <2> HIDE DEF k
  <2>3. ~(TimeLeft(k) > 0)
    BY <2>1 DEF k
  <2>4. TimeLeft(k) = -1
    BY <2>2, <2>3, EdgeBounds DEF TimeLeft
  <2> QED
    BY <2>4 DEF k
<1> QED
  BY <1>3 DEF Wave

\* The frame of the explosion itself.
LEMMA WaveStarts ==
    ASSUME BlastLast > 1, NEW m \in Centre, m[1] - 1 \in Edge
    PROVE  Wave(m, 0) = [c \in Led |-> IF c = m THEN BlastLast
                                       ELSE IF c = <<m[1] - 1, m[2], m[3]>> THEN 1 ELSE 0]
<1> DEFINE b(c) == IF c = m THEN BlastLast
                   ELSE IF c = <<m[1] - 1, m[2], m[3]>> THEN 1 ELSE 0
<1>1. SUFFICES ASSUME NEW c \in Led PROVE TimeLeft(0 - At(m, c)) = b(c)
  BY DEF Wave
<1>2. /\ m[1] \in Int /\ m[2] \in Int /\ m[3] \in Int /\ m = <<m[1], m[2], m[3]>>
      /\ c[1] \in Int /\ c[2] \in Int /\ c[3] \in Int /\ c = <<c[1], c[2], c[3]>>
  BY LedPlace DEF Centre
<1> DEFINE z == c[1] - m[1]
           y == c[2] - m[2]
           x == c[3] - m[3]
<1>3. z \in Int /\ y \in Int /\ x \in Int /\ At(m, c) = Lit(z, y, x)
  BY <1>2 DEF At
<1>4. /\ c = m <=> z = 0 /\ y = 0 /\ x = 0
      /\ c = <<m[1] - 1, m[2], m[3]>> <=> z = -1 /\ y = 0 /\ x = 0
  <2>1. c = m <=> c[1] = m[1] /\ c[2] = m[2] /\ c[3] = m[3]
    BY <1>2
  <2>2. c = <<m[1] - 1, m[2], m[3]>> <=> c[1] = m[1] - 1 /\ c[2] = m[2] /\ c[3] = m[3]
    BY <1>2
  <2> QED
    BY <1>2, <2>1, <2>2
<1> HIDE DEF z, y, x
<1>5. CASE z = 0 /\ y = 0 /\ x = 0
  <2>1. 0 - At(m, c) = 1
    BY <1>3, <1>5, LitCentre
  <2> QED
    BY <1>4, <1>5, <2>1, FadedLeft
<1>6. CASE z = -1 /\ y = 0 /\ x = 0
  <2>1. 0 - At(m, c) = BlastLast
    BY <1>3, <1>6, LitCentre, EdgeBounds
  <2>2. TimeLeft(BlastLast) = 1
    BY EdgeBounds DEF TimeLeft
  <2> QED
    BY <1>4, <1>6, <2>1, <2>2
<1>7. CASE ~(z = 0 /\ y = 0 /\ x = 0) /\ ~(z = -1 /\ y = 0 /\ x = 0)
  <2>1. Lit(z, y, x) >= 1 /\ Lit(z, y, x) \in Int
    BY <1>3, <1>7, LitAtStart, LitTyped
  <2>2. 0 - At(m, c) < 0 /\ 0 - At(m, c) \in Int
    BY <1>3, <2>1
  <2> QED
    BY <1>4, <1>7, <2>2, FadedLeft
<1> QED
  BY <1>5, <1>6, <1>7

LEMMA SweptClear == ASSUME BlastLast > 1 PROVE Swept(Clear) = Clear
<1>1. BlastLast \in Nat /\ Faded(0) = 0 /\ BlastLast # 0
  BY EdgeBounds DEF Faded
<1>2. \A c \in Led : Near(c) \subseteq Led
  BY DEF Near
<1> QED
  BY <1>1, <1>2 DEF Swept, Clear

-----------------------------------------------------------------------------
(* The frame of explosion                                                  *)

\* The spark of an effect that is shown is away from the borders at which the wave
\* could not start.
SparkInside ==
    followed = "explosion" /\ (handle = "own" \/ (at = "draw" /\ effect = "own")) =>
        own.exploded \/ (own.x >= 1 /\ own.y >= 1)

\* The frame that an explosion has for itself is dark, or its wave after some updates.
BlastIsWave ==
    followed = "explosion" /\ own.exploded /\ frame = "own" =>
        blast = Clear \/ \E m \in Centre, w \in Nat : blast = Wave(m, w)

LEMMA ClippedInside ==
    ASSUME NEW lo \in Nat, NEW hi \in Nat, lo >= 1, hi >= 1, NEW r \in Clipped(lo, hi)
    PROVE  r >= 1
  BY EdgeBounds DEF Clipped, Edge

LEMMA StartedInside ==
    ASSUME NEW s, NEW t \in Started("explosion", s)
    PROVE  t.x >= 1 /\ t.y >= 1 /\ t.exploded = s.exploded
<1>1. t \in [x : Clipped(1, BlastSize - 2), y : Clipped(1, BlastSize - 2), z : {0},
             trigger : Clipped(2, BlastSize - 2), exploded : {s.exploded}]
  BY DEF Started
<1>2. 1 \in Nat /\ BlastSize - 2 \in Nat /\ BlastSize - 2 >= 1
  BY ShowAssumption
<1> QED
  BY <1>1, <1>2, ClippedInside

LEMMA BurntInside ==
    ASSUME NEW s, NEW b, NEW t \in Burnt(s, b)
    PROVE  \/ t = s
           \/ t.x >= 1 /\ t.y >= 1 /\ ~t.exploded /\ \A c \in Led : ~(b[c] > 0)
<1> DEFINE middle == Clipped(BlastLast, BlastSize - BlastLast)
<1>1. CASE \E c \in Led : b[c] > 0
  BY <1>1 DEF Burnt
<1>2. CASE ~ \E c \in Led : b[c] > 0
  <2>1. t \in [x : middle, y : middle, z : {0}, trigger : middle, exploded : {FALSE}]
    BY <1>2 DEF Burnt
  <2>2. BlastLast \in Nat /\ BlastLast >= 1 /\ BlastSize - BlastLast \in Nat
        /\ BlastSize - BlastLast >= 1
    BY ShowAssumption
  <2>3. \A r \in middle : r >= 1
    BY <2>2, ClippedInside
  <2> HIDE DEF middle
  <2> QED
    BY <1>2, <2>1, <2>3
<1> QED
  BY <1>1, <1>2

LEMMA RisenPlace ==
    ASSUME NEW s \in Static("explosion"), ~s.exploded
    PROVE  /\ Risen(s).y = s.y /\ Risen(s).z = s.z + 1
           /\ Risen(s).exploded \/ Risen(s).x = s.x
  BY DEF Risen, Static

\* The followed effect.
LEMMA FollowedKept == ASSUME ShowInv, [Next]_vars PROVE followed' = followed
  BY NextStatics

LEMMA InsideStep == ASSUME ShowInv, SparkInside, [Next]_vars PROVE SparkInside'
<1>0. followed' = followed
  BY FollowedKept
<1> SUFFICES ASSUME followed = "explosion", handle' = "own" \/ (at' = "draw" /\ effect' = "own")
             PROVE  own'.exploded \/ (own'.x >= 1 /\ own'.y >= 1)
  BY <1>0 DEF SparkInside
<1>1. CASE SwitchToOwn
  <2>1. own' \in Started("explosion", own)
    BY <1>1 DEF SwitchToOwn
  <2> QED
    BY <2>1, StartedInside
<1>2. CASE Rise
  <2>1. at = "draw" /\ effect = "own" /\ ~own.exploded /\ own' = Risen(own)
    BY <1>2 DEF Rise
  <2>2. own \in Static("explosion")
    BY DEF ShowInv, TypeOK
  <2> QED
    BY <2>1, <2>2, RisenPlace DEF SparkInside
<1>3. CASE Explode
  <2>1. at = "draw" /\ effect = "own" /\ own.exploded /\ own' \in Burnt(own, blast')
    BY <1>3 DEF Explode
  <2> QED
    BY <2>1, BurntInside
<1>4. ASSUME NEW s, WipeOwn(s) PROVE FALSE
  BY <1>4 DEF WipeOwn
<1>5. CASE Swap \/ \E which \in {"this", "other"} : Select(which)
  BY <1>5 DEF Swap, Select
<1>6. CASE StartRendering
  BY <1>6 DEF StartRendering, SparkInside
<1>7. CASE SwitchToOther
  BY <1>7 DEF SwitchToOther, SparkInside
<1>8. CASE TriggerRender \/ UNCHANGED vars
  BY <1>8 DEF TriggerRender, vars, SparkInside
<1>9. CASE NotYet \/ DrawOther \/ Paint \/ Convert \/ Publish
  BY <1>9 DEF NotYet, DrawOther, Paint, Convert, Publish, SparkInside
<1> QED
  BY <1>1, <1>2, <1>3, <1>4, <1>5, <1>6, <1>7, <1>8, <1>9
     DEF Next, OnRenderMsg, Draw, RepaintOwn, UpdateOwn

\* The first frame of an explosion.
LEMMA RiseStarts ==
    ASSUME BlastLast > 1, ShowInv, SparkInside, Rise, own'.exploded
    PROVE  \E m \in Centre : blast' = Wave(m, 0)
<1>1. /\ at = "draw" /\ effect = "own" /\ ~own.exploded /\ own' = Risen(own)
      /\ followed = "explosion"
      /\ blast' = [c \in Led |->
                    IF c = <<own'.z, own.y, own.x>> /\ own'.exploded THEN BlastLast
                    ELSE IF c = <<own.z, own.y, own.x>> THEN 1 ELSE 0]
  BY DEF Rise
<1>2. own \in Static("explosion") /\ Sound("explosion", own)
  BY <1>1 DEF ShowInv, TypeOK, Sound
<1>3. own' \in Static("explosion")
  BY <1>1, <1>2, RisenSound DEF Sound
<1>4. own'.z \in Edge /\ own.z \in Edge /\ own.y \in Edge /\ own.x \in Edge
  BY <1>2, <1>3 DEF Static
<1>5. own'.z = own.z + 1 /\ own.x >= 1 /\ own.y >= 1
  BY <1>1, <1>2, RisenPlace DEF SparkInside
<1> DEFINE m == <<own'.z, own.y, own.x>>
<1>6. m \in Centre /\ m[1] = own'.z /\ m[2] = own.y /\ m[3] = own.x
  BY <1>4, <1>5 DEF Centre, Led
<1>7. m[1] - 1 = own.z
  BY <1>4, <1>5, <1>6 DEF Edge
<1>8. blast' = [c \in Led |-> IF c = m THEN BlastLast
                              ELSE IF c = <<m[1] - 1, m[2], m[3]>> THEN 1 ELSE 0]
  BY <1>1, <1>6, <1>7
<1> HIDE DEF m
<1>9. m[1] - 1 \in Edge
  BY <1>4, <1>7
<1>10. blast' = Wave(m, 0)
  BY <1>6, <1>8, <1>9, WaveStarts
<1> QED
  BY <1>6, <1>10

LEMMA WaveStep ==
    ASSUME BlastLast > 1, ShowInv, SparkInside, BlastIsWave, [Next]_vars
    PROVE  BlastIsWave'
<1>0. followed' = followed
  BY FollowedKept
<1> SUFFICES ASSUME followed = "explosion", own'.exploded, frame' = "own"
             PROVE  blast' = Clear \/ \E m \in Centre, w \in Nat : blast' = Wave(m, w)
  BY <1>0 DEF BlastIsWave, Clear, Wave, Centre, Led, Edge, At, Lit, TimeLeft, Below, Beyond
<1>1. CASE SwitchToOwn
  BY <1>1 DEF SwitchToOwn
<1>2. CASE Rise
  BY <1>2, RiseStarts
<1>3. CASE Explode
  <2>1. frame = "own" /\ own.exploded /\ blast' = Swept(blast)
    BY <1>3 DEF Explode
  <2>2. CASE blast = Clear
    BY <2>1, <2>2, SweptClear
  <2>3. ASSUME NEW m \in Centre, NEW w \in Nat, blast = Wave(m, w)
        PROVE  blast' = Wave(m, w + 1) /\ w + 1 \in Nat
    BY <2>1, <2>3, SweptWave
  <2> QED
    BY <2>1, <2>2, <2>3 DEF BlastIsWave
<1>4. ASSUME NEW s, WipeOwn(s) PROVE FALSE
  BY <1>4 DEF WipeOwn
<1>5. CASE Swap \/ \E which \in {"this", "other"} : Select(which)
  BY <1>5 DEF Swap, Select
<1>6. CASE SwitchToOther \/ DrawOther
  BY <1>6 DEF SwitchToOther, DrawOther, BlastIsWave
<1>7. CASE Paint
  \* What another effect paints makes the frame mixed.
  <2>1. effect # "other" /\ frame = "own" /\ UNCHANGED <<own, blast>>
    BY <1>7 DEF Paint
  <2> QED
    BY <2>1 DEF BlastIsWave
<1>8. CASE UNCHANGED <<own, frame, blast>>
  BY <1>8 DEF BlastIsWave
<1> QED
  BY <1>1, <1>2, <1>3, <1>4, <1>5, <1>6, <1>7, <1>8
     DEF Next, OnRenderMsg, TriggerRender, StartRendering, Draw, NotYet, RepaintOwn, UpdateOwn,
         Convert, Publish, vars

\* Only an update that finds the frame dark ends an explosion.
LEMMA BlastEnds ==
    ASSUME BlastLast > 1, ShowInv, BlastIsWave, [Next]_vars,
           followed = "explosion", own.exploded, ~own'.exploded, frame = "own"
    PROVE  blast' = [c \in Led |-> -1] \/ blast' = Clear
<1>1. CASE Explode
  <2>1. blast' = Swept(blast) /\ own' \in Burnt(own, blast')
    BY <1>1 DEF Explode
  <2>2. \A c \in Led : ~(blast'[c] > 0)
    BY <2>1, BurntInside
  <2>3. CASE blast = Clear
    BY <2>1, <2>3, SweptClear
  <2>4. ASSUME NEW m \in Centre, NEW w \in Nat, blast = Wave(m, w)
        PROVE  blast' = [c \in Led |-> -1]
    <3>1. blast' = Wave(m, w + 1) /\ w + 1 \in Nat
      BY <2>1, <2>4, SweptWave
    <3> QED
      BY <2>2, <3>1, WaveOver
  <2> QED
    BY <2>3, <2>4 DEF BlastIsWave
<1>2. CASE SwitchToOwn
  <2>1. own' \in Started("explosion", own)
    BY <1>2 DEF SwitchToOwn
  <2> QED
    BY <2>1, StartedInside
<1>3. ASSUME NEW s, WipeOwn(s) PROVE FALSE
  BY <1>3 DEF WipeOwn
<1>4. CASE Rise \/ Swap \/ \E which \in {"this", "other"} : Select(which)
  BY <1>4 DEF Rise, Swap, Select
<1> QED
  BY <1>1, <1>2, <1>3, <1>4
     DEF Next, OnRenderMsg, TriggerRender, SwitchToOther, StartRendering, Draw, NotYet,
         RepaintOwn, UpdateOwn, DrawOther, Paint, Convert, Publish, vars

LEMMA BlastInit == ASSUME Init PROVE SparkInside /\ BlastIsWave
<1>1. SparkInside
  <2>1. SUFFICES ASSUME followed = "explosion", handle = "own" PROVE own.x >= 1 /\ own.y >= 1
    BY DEF Init, SparkInside
  <2>2. own \in Started("explosion", AtReset("explosion"))
    BY <2>1 DEF Init
  <2> QED
    BY <2>2, StartedInside
<1>2. BlastIsWave
  BY DEF Init, BlastIsWave
<1> QED
  BY <1>1, <1>2

\* The update of an explosion goes through the frame in place and sees it half old, half
\* new (explosion.c:72-95): its wave runs ahead in one direction and lags behind in the
\* other.  On cubes of every size and for every centre it reaches every LED before the
\* next spark rises.
THEOREM WaveReachesAll == ASSUME BlastLast > 1 PROVE Spec => BlastReachesAll
<1>1. ShowInv /\ SparkInside /\ BlastIsWave /\ [Next]_vars => (SparkInside /\ BlastIsWave)'
  BY InsideStep, WaveStep
<1>2. Init => SparkInside /\ BlastIsWave
  BY BlastInit
<1>3. ShowInv /\ BlastIsWave /\ [Next]_vars =>
        [(followed = "explosion" /\ own.exploded /\ ~own'.exploded /\ frame = "own") =>
           blast' = [c \in Led |-> -1] \/ blast' = Clear]_vars
  BY BlastEnds
<1> QED
  BY <1>1, <1>2, <1>3, InitShow, NextShow, PTL DEF Spec, BlastReachesAll
=============================================================================
