----------------------------- MODULE CubeProofs -----------------------------
(***************************************************************************)
(* Theorems about the display, for every number of layers and every number *)
(* of output buffers from three on.                                        *)
(***************************************************************************)
EXTENDS Cube, TLAPS

-----------------------------------------------------------------------------
(* Counting around                                                         *)

LEMMA NextAround ==
    ASSUME NEW n \in Nat, n > 1, NEW i \in 0 .. n - 1
    PROVE  /\ Next1(i, n) = IF i + 1 = n THEN 0 ELSE i + 1
           /\ Next1(i, n) \in 0 .. n - 1
  BY SMT DEF Next1

LEMMA NextLayerTyped == \A l \in Layer : Next1(l, NumLayers) \in Layer
  BY CubeAssumption, NextAround DEF Layer

LEMMA NextBufferTyped == \A b \in Buffer : Next1(b, NumBuffers) \in Buffer
  BY CubeAssumption, NextAround DEF Buffer

\* With three buffers the one after a buffer, and the one after that, are others.
LEMMA ThreeBuffers ==
    ASSUME NEW b \in Buffer
    PROVE  /\ Next1(b, NumBuffers) # b
           /\ Next1(Next1(b, NumBuffers), NumBuffers) # b
<1> DEFINE d == Next1(b, NumBuffers)
<1>1. d \in Buffer /\ d = (IF b + 1 = NumBuffers THEN 0 ELSE b + 1)
  BY CubeAssumption, NextAround DEF Buffer
<1>2. Next1(d, NumBuffers) = (IF d + 1 = NumBuffers THEN 0 ELSE d + 1)
  BY <1>1, CubeAssumption, NextAround DEF Buffer
<1> QED
  BY <1>1, <1>2, CubeAssumption DEF Buffer

-----------------------------------------------------------------------------
(* Types                                                                   *)

LEMMA LayerZero == 0 \in Layer /\ 0 \in Buffer
  BY CubeAssumption DEF Layer, Buffer

LEMMA StoppedTyped ==
    ASSUME NEW p \in {"off", "on", "over"}, NEW s \in SUBSET Setting
    PROVE  Stopped(p, s) \in Transfer
  BY LayerZero DEF Stopped, Transfer

LEMMA InitTyped == Init => TypeOK
<1> SUFFICES ASSUME Init PROVE TypeOK
  OBVIOUS
<1>1. dma \in Transfer
  BY StoppedTyped DEF Init
<1>2. at \in [Context -> PushAt \cup InitAt \cup RenderAt \cup {"idle"}]
  BY DEF Init, Context, PushAt
<1> QED
  BY <1>1, <1>2, LayerZero DEF Init, TypeOK, Slice

LEMMA GotoTyped ==
    ASSUME TypeOK, NEW c \in Context, NEW pc \in PushAt \cup InitAt \cup RenderAt \cup {"idle"},
           Goto(c, pc)
    PROVE  at' \in [Context -> PushAt \cup InitAt \cup RenderAt \cup {"idle"}]
  BY DEF TypeOK, Goto

LEMMA PushTyped == ASSUME TypeOK, NEW c \in Context, Push(c) PROVE TypeOK'
<1>1. CASE Load(c)
  <2>1. AfterLoad[at[c]] \in PushAt
    BY <1>1 DEF Load, AfterLoad, PushAt
  <2> QED
    BY <1>1, <2>1, GotoTyped DEF Load, TypeOK, latchVars
<1>2. CASE Darken(c)
  <2>1. "store" \in PushAt
    BY DEF PushAt
  <2> QED
    BY <1>2, <2>1, GotoTyped, LayerZero DEF Darken, TypeOK
<1>3. CASE Store(c)
  <2>1. "read" \in PushAt
    BY DEF PushAt
  <2>2. shown' \in Slice
    BY <1>3 DEF Store, TypeOK
  <2> QED
    BY <1>3, <2>1, <2>2, GotoTyped DEF Store, TypeOK
<1>4. CASE Advance(c)
  <2>1. "lookup" \in PushAt
    BY DEF PushAt
  <2>2. cur' \in Layer
    BY <1>4, NextLayerTyped DEF Advance, TypeOK
  <2> QED
    BY <1>4, <2>1, <2>2, GotoTyped, LayerZero DEF Advance, TypeOK
<1>5. CASE Light(c)
  <2>1. "arm" \in PushAt /\ "wait" \in RenderAt
    BY DEF PushAt, RenderAt
  <2>2. lit' \subseteq Layer
    BY <1>5 DEF Light, TypeOK
  <2>3. at' \in [Context -> PushAt \cup InitAt \cup RenderAt \cup {"idle"}]
    BY <1>5, <2>1, GotoTyped DEF Light
  <2>4. stage' \in {"reset", "setup", "last", "running"}
    BY <1>5 DEF Light, TypeOK
  <2> QED
    BY <1>5, <2>2, <2>3, <2>4, LayerZero DEF Light, TypeOK
<1>6. CASE Arm(c)
  <2>1. AfterPush(c) \in InitAt \cup {"idle"}
    BY DEF InitAt, AfterPush
  <2>2. at' \in [Context -> PushAt \cup InitAt \cup RenderAt \cup {"idle"}]
    BY <1>6, <2>1, GotoTyped DEF Arm
  <2> QED
    BY <1>6, <2>2 DEF Arm, TypeOK, Timer, latchVars
<1> QED
  BY <1>1, <1>2, <1>3, <1>4, <1>5, <1>6 DEF Push

LEMMA TimerTyped == ASSUME TypeOK, ClearPushLatch \/ OnNextLayer \/ TransferOver PROVE TypeOK'
<1>1. CASE ClearPushLatch
  <2>1. CASE UNCHANGED <<dma, regs>>
    BY <1>1, <2>1 DEF ClearPushLatch, TypeOK, Timer
  <2>2. CASE /\ dma' = [phase |-> "on", buf |-> buf, layer |-> cur, old |-> FALSE,
                           set |-> dma.set]
             /\ regs' = NoSlice
    <3>1. dma' \in Transfer /\ regs' \in Slice
      BY <2>2 DEF TypeOK, Transfer, Buffer, Slice
    <3> QED
      BY <1>1, <3>1 DEF ClearPushLatch, TypeOK, Timer
  <2> QED
    BY <1>1, <2>1, <2>2 DEF ClearPushLatch, Enable
<1>2. CASE OnNextLayer
  <2>1. "dark" \in PushAt /\ "isr" \in Context
    BY DEF PushAt, Context
  <2>2. dma' \in Transfer
    <3>1. dma.set \in SUBSET Setting
      BY DEF TypeOK, Transfer
    <3> QED
      BY <1>2, <3>1, StoppedTyped DEF OnNextLayer
  <2> QED
    BY <1>2, <2>1, <2>2, GotoTyped DEF OnNextLayer, TypeOK, latchVars
<1>3. CASE TransferOver
  <2>1. dma' \in Transfer /\ regs' \in Slice
    BY <1>3, StoppedTyped DEF TransferOver, TypeOK, Transfer, Slice
  <2> QED
    BY <1>3, <2>1 DEF TransferOver, TypeOK
<1> QED
  BY <1>1, <1>2, <1>3

LEMMA CubeInitTyped == ASSUME TypeOK, CubeInit PROVE TypeOK'
<1> "main" \in Context
  BY DEF Context
<1>1. CASE SetupPin
  <2>1. reg' \in [Context -> Layer]
    BY <1>1, NextLayerTyped DEF SetupPin, TypeOK
  <2>2. "await" \in InitAt /\ "pins" \in InitAt
    BY DEF InitAt
  <2>3. at' \in [Context -> PushAt \cup InitAt \cup RenderAt \cup {"idle"}]
    BY <1>1, <2>2, GotoTyped DEF SetupPin
  <2> QED
    BY <1>1, <2>1, <2>3 DEF SetupPin, TypeOK
<1>2. CASE ZeroBuffers
  <2>1. "stop" \in InitAt
    BY DEF InitAt, SetupAt
  <2> QED
    BY <1>2, <2>1, GotoTyped, LayerZero DEF ZeroBuffers, TypeOK
<1>3. CASE StartStream
  <2>1. "dark" \in PushAt
    BY DEF PushAt
  <2>2. [phase |-> "on", buf |-> cur, layer |-> 0, old |-> TRUE, set |-> dma.set] \in Transfer
    BY LayerZero DEF TypeOK, Transfer, Layer
  <2>3. dma' \in Transfer /\ regs' \in Slice
    BY <1>3, <2>2 DEF StartStream, Enable, TypeOK, Slice
  <2> QED
    BY <1>3, <2>1, <2>3, GotoTyped DEF StartStream, TypeOK
<1>4. CASE RegisterTimers
  <2>1. "lookup" \in PushAt
    BY DEF PushAt
  <2> QED
    BY <1>4, <2>1, GotoTyped DEF RegisterTimers, TypeOK, Timer, latchVars
<1>5. CASE AwaitMosfets
  <2>1. "zero" \in InitAt
    BY DEF InitAt, SetupAt
  <2> QED
    BY <1>5, <2>1, GotoTyped DEF AwaitMosfets, TypeOK, latchVars
<1>6. CASE StopStream
  <2>1. "channel" \in InitAt
    BY DEF InitAt, SetupAt
  <2>2. dma' \in Transfer /\ regs' \in Slice
    BY <1>6, StoppedTyped DEF StopStream, TypeOK, Slice
  <2> QED
    BY <1>6, <2>1, <2>2, GotoTyped DEF StopStream, TypeOK
<1>7. CASE WriteSetting
  <2>1. AfterSetting[at["main"]] \in InitAt
    BY <1>7 DEF WriteSetting, Setting, AfterSetting, InitAt, SetupAt
  <2>2. dma' \in Transfer
    BY <1>7 DEF WriteSetting, TypeOK, Transfer
  <2> QED
    BY <1>7, <2>1, <2>2, GotoTyped DEF WriteSetting, TypeOK, latchVars
<1> QED
  BY <1>1, <1>2, <1>3, <1>4, <1>5, <1>6, <1>7 DEF CubeInit

LEMMA RenderTyped == ASSUME TypeOK, OnRenderMsg PROVE TypeOK'
<1> "main" \in Context
  BY DEF Context
<1>1. "draw" \in RenderAt /\ "convert" \in RenderAt /\ "wait" \in RenderAt
  BY DEF RenderAt
<1>2. CASE StartRendering
  <2>1. dma' \in Transfer
    BY <1>2 DEF StartRendering, TypeOK, Transfer
  <2>2. free' \in Buffer
    BY <1>2, NextBufferTyped DEF StartRendering, TypeOK
  <2> QED
    BY <1>1, <1>2, <2>1, <2>2, GotoTyped DEF StartRendering, TypeOK, latchVars
<1>3. CASE Draw
  BY <1>1, <1>3, GotoTyped DEF Draw, TypeOK, latchVars
<1>4. CASE Publish
  BY <1>1, <1>4, GotoTyped, LayerZero DEF Publish, TypeOK, latchVars
<1> QED
  BY <1>2, <1>3, <1>4 DEF OnRenderMsg

LEMMA StutterTyped == ASSUME TypeOK, UNCHANGED vars PROVE TypeOK'
  BY DEF TypeOK, vars

LEMMA NextTyped == ASSUME TypeOK, [Next]_vars PROVE TypeOK'
<1> "main" \in Context /\ "isr" \in Context
  BY DEF Context
<1> QED
  BY PushTyped, TimerTyped, CubeInitTyped, RenderTyped, StutterTyped
     DEF Next, MainStep, TimerStep

\* Every variable of the display keeps its type: no layer and no buffer beyond the
\* last one is ever selected (g_currentLayer, g_currentOutputBuf).
THEOREM TypeCorrect == Spec => []TypeOK
<1>1. Init => TypeOK
  BY InitTyped
<1>2. TypeOK /\ [Next]_vars => TypeOK'
  BY NextTyped
<1> QED
  BY <1>1, <1>2, PTL DEF Spec

-----------------------------------------------------------------------------
(* Where the contexts are                                                  *)

\* How far cube_init is follows from where the main thread is.
Staged ==
    /\ stage = "running" <=> at["main"] \in RenderAt
    /\ at["main"] = "timers" => stage = "setup"
    /\ at["main"] \in {"pins", "await"} \cup SetupAt => stage = "reset"
    /\ stage = "last" => at["main"] \in {"lookup", "light"}
    /\ at["main"] # "idle"
    /\ at["isr"] \in PushAt \cup {"idle"}

\* After its layer timer is registered there is always a timer or a push.
Chained == stage \in {"last", "running"} => timers # {} \/ at["isr"] # "idle"

\* The handler pushes the layer it has read, and that layer is dark in between.
Pushing ==
    /\ at["isr"] \in {"darken", "advance", "light"} => reg["isr"] = cur
    /\ at["isr"] \in {"store", "read", "advance"} => cur \notin lit

LEMMA InitPlaced == Init => Staged /\ Chained /\ Pushing
  BY DEF Init, Staged, Chained, Pushing, RenderAt, PushAt

LEMMA IsrPushPlaced ==
    ASSUME TypeOK, Staged, Chained, Pushing, Push("isr")
    PROVE  Staged' /\ Chained' /\ Pushing'
<1> "isr" \in Context /\ "main" \in Context
  BY DEF Context
<1> USE DEF PushAt, RenderAt, SetupAt
<1>1. CASE Load("isr")
  BY <1>1 DEF Load, AfterLoad, Goto, latchVars, TypeOK, Staged, Chained, Pushing
<1>2. CASE Darken("isr")
  BY <1>2 DEF Darken, Goto, TypeOK, Staged, Chained, Pushing
<1>3. CASE Store("isr")
  BY <1>3 DEF Store, Goto, TypeOK, Staged, Chained, Pushing
<1>4. CASE Advance("isr")
  BY <1>4 DEF Advance, Goto, TypeOK, Staged, Chained, Pushing
<1>5. CASE Light("isr")
  BY <1>5 DEF Light, Goto, TypeOK, Staged, Chained, Pushing
<1>6. CASE Arm("isr")
  BY <1>6 DEF Arm, AfterPush, Goto, latchVars, TypeOK, Staged, Chained, Pushing
<1> QED
  BY <1>1, <1>2, <1>3, <1>4, <1>5, <1>6 DEF Push

LEMMA MainPushPlaced ==
    ASSUME TypeOK, Staged, Chained, Pushing, Push("main")
    PROVE  Staged' /\ Chained' /\ Pushing'
<1> "isr" \in Context /\ "main" \in Context
  BY DEF Context
<1> USE DEF PushAt, RenderAt, SetupAt
<1>1. CASE Load("main")
  BY <1>1 DEF Load, Runs, AfterLoad, Goto, latchVars, TypeOK, Staged, Chained, Pushing
<1>2. CASE Darken("main")
  BY <1>2 DEF Darken, Runs, Goto, TypeOK, Staged, Chained, Pushing
<1>3. CASE Store("main")
  BY <1>3 DEF Store, Runs, Goto, TypeOK, Staged, Chained, Pushing
<1>4. CASE Advance("main")
  BY <1>4 DEF Advance, Runs, Goto, TypeOK, Staged, Chained, Pushing
<1>5. CASE Light("main")
  BY <1>5 DEF Light, Runs, Goto, TypeOK, Staged, Chained, Pushing
<1>6. CASE Arm("main")
  BY <1>6 DEF Arm, AfterPush, Runs, Goto, latchVars, TypeOK, Staged, Chained, Pushing
<1> QED
  BY <1>1, <1>2, <1>3, <1>4, <1>5, <1>6 DEF Push

LEMMA TimerPlaced ==
    ASSUME TypeOK, Staged, Chained, Pushing, ClearPushLatch \/ OnNextLayer \/ TransferOver
    PROVE  Staged' /\ Chained' /\ Pushing'
<1> "isr" \in Context /\ "main" \in Context
  BY DEF Context
<1> USE DEF PushAt, RenderAt, SetupAt
<1>1. CASE ClearPushLatch
  BY <1>1 DEF ClearPushLatch, TypeOK, Staged, Chained, Pushing
<1>2. CASE OnNextLayer
  BY <1>2 DEF OnNextLayer, Goto, latchVars, TypeOK, Staged, Chained, Pushing
<1>3. CASE TransferOver
  BY <1>3 DEF TransferOver, TypeOK, Staged, Chained, Pushing
<1> QED
  BY <1>1, <1>2, <1>3

LEMMA CubeInitPlaced ==
    ASSUME TypeOK, Staged, Chained, Pushing, CubeInit
    PROVE  Staged' /\ Chained' /\ Pushing'
<1> "isr" \in Context /\ "main" \in Context
  BY DEF Context
<1> USE DEF PushAt, RenderAt, SetupAt, InitStep
<1>1. CASE SetupPin
  BY <1>1 DEF SetupPin, Goto, TypeOK, Staged, Chained, Pushing
<1>2. CASE ZeroBuffers
  BY <1>2 DEF ZeroBuffers, Goto, TypeOK, Staged, Chained, Pushing
<1>3. CASE StartStream
  BY <1>3 DEF StartStream, Goto, TypeOK, Staged, Chained, Pushing
<1>4. CASE RegisterTimers
  BY <1>4 DEF RegisterTimers, Goto, latchVars, TypeOK, Staged, Chained, Pushing
<1>5. CASE AwaitMosfets
  BY <1>5 DEF AwaitMosfets, Goto, latchVars, TypeOK, Staged, Chained, Pushing
<1>6. CASE StopStream
  BY <1>6 DEF StopStream, Goto, TypeOK, Staged, Chained, Pushing
<1>7. CASE WriteSetting
  BY <1>7 DEF WriteSetting, Setting, AfterSetting, Goto, latchVars, TypeOK, Staged,
              Chained, Pushing
<1> QED
  BY <1>1, <1>2, <1>3, <1>4, <1>5, <1>6, <1>7 DEF CubeInit

LEMMA RenderPlaced ==
    ASSUME TypeOK, Staged, Chained, Pushing, OnRenderMsg
    PROVE  Staged' /\ Chained' /\ Pushing'
<1> "isr" \in Context /\ "main" \in Context
  BY DEF Context
<1> USE DEF PushAt, RenderAt, SetupAt, InitStep
<1>1. CASE StartRendering
  BY <1>1 DEF StartRendering, Goto, latchVars, TypeOK, Staged, Chained, Pushing
<1>2. CASE Draw
  BY <1>2 DEF Draw, Goto, latchVars, TypeOK, Staged, Chained, Pushing
<1>3. CASE Publish
  BY <1>3 DEF Publish, Goto, latchVars, TypeOK, Staged, Chained, Pushing
<1> QED
  BY <1>1, <1>2, <1>3 DEF OnRenderMsg

Placed == TypeOK /\ Staged /\ Chained /\ Pushing

LEMMA NextPlaced == Placed /\ [Next]_vars => Placed'
<1> SUFFICES ASSUME Placed, [Next]_vars PROVE Placed'
  OBVIOUS
<1>1. TypeOK'
  BY NextTyped DEF Placed
<1>2. CASE Next
  BY <1>1, <1>2, IsrPushPlaced, MainPushPlaced, TimerPlaced, CubeInitPlaced, RenderPlaced
     DEF Placed, Next, MainStep, TimerStep
<1>3. CASE UNCHANGED vars
  BY <1>1, <1>3 DEF Placed, vars, Staged, Chained, Pushing
<1> QED
  BY <1>2, <1>3

LEMMA AlwaysPlaced == Spec => []Placed
<1>1. Init => Placed
  BY InitTyped, InitPlaced DEF Placed
<1> QED
  BY <1>1, NextPlaced, PTL DEF Spec

\* Once cube_init is over, a timer of the layers is registered or a push is under
\* way: the layers never stop being switched (cube_clearPushLatch, onNextLayerTimer).
THEOREM ChainNeverBreaks == Spec => []ChainAlive
<1>1. Placed => ChainAlive
  BY DEF Placed, Chained, ChainAlive
<1> QED
  BY <1>1, AlwaysPlaced, PTL

\* The latch takes over the next layer only while the layer whose turn is over is
\* dark: cube_pushLatch disables it before it raises the latch wire.
THEOREM NoGhostLayer == Spec => LatchInTheDark
<1>1. ASSUME Placed, [Next]_vars
      PROVE  [stage = "running" /\ shown' # shown => cur \notin lit]_vars
  <2> SUFFICES ASSUME Next, stage = "running", shown' # shown
               PROVE  cur \notin lit
    BY <1>1 DEF vars
  <2>1. Store("isr") => cur \notin lit
    BY <1>1 DEF Placed, Pushing, Store
  <2>2. at["main"] \in RenderAt
    BY <1>1 DEF Placed, Staged
  <2>3. ~Push("main")
    BY <2>2 DEF RenderAt, Push, Load, AfterLoad, Darken, Store, Advance, Light, Arm
  <2>4. Push("isr") => Store("isr")
    BY DEF Push, Load, Darken, Advance, Light, Arm, latchVars
  <2>5. ~(CubeInit \/ OnRenderMsg)
    BY DEF CubeInit, SetupPin, AwaitMosfets, ZeroBuffers, StopStream, WriteSetting,
           StartStream, RegisterTimers, OnRenderMsg, StartRendering, Draw, Publish, latchVars
  <2>6. ~(ClearPushLatch \/ OnNextLayer \/ TransferOver)
    BY DEF ClearPushLatch, OnNextLayer, TransferOver, latchVars
  <2> QED
    BY <2>1, <2>3, <2>4, <2>5, <2>6 DEF Next, MainStep, TimerStep
<1> QED
  BY <1>1, AlwaysPlaced, PTL DEF Spec, LatchInTheDark

\* After cube_init no layer out of turn is lit again: the layer that its last
\* statement may light next to another one goes out and stays out.
THEOREM NoStrayLayer == Spec => StraysOnlyLeave
<1>1. ASSUME Placed, [Next]_vars
      PROVE  [stage = "running" => (lit' \ {cur'}) \subseteq (lit \ {cur})]_vars
  <2> SUFFICES ASSUME Next, stage = "running"
               PROVE  (lit' \ {cur'}) \subseteq (lit \ {cur})
    BY <1>1 DEF vars
  <2>1. at["main"] \in RenderAt
    BY <1>1 DEF Placed, Staged
  <2>2. ~Push("main") /\ ~CubeInit
    BY <2>1 DEF RenderAt, Push, Load, AfterLoad, Darken, Store, Advance, Light, Arm,
                CubeInit, SetupPin, AwaitMosfets, ZeroBuffers, StopStream, WriteSetting,
                Setting, StartStream, RegisterTimers, InitStep
  <2>3. CASE Push("isr")
    <3>1. CASE Load("isr") \/ Store("isr") \/ Arm("isr")
      BY <3>1 DEF Load, Store, Arm, latchVars
    <3>2. CASE Darken("isr")
      BY <3>2 DEF Darken
    <3>3. CASE Advance("isr")
      BY <1>1, <3>3 DEF Advance, Placed, Pushing
    <3>4. CASE Light("isr")
      BY <1>1, <3>4 DEF Light, Placed, Pushing
    <3> QED
      BY <2>3, <3>1, <3>2, <3>3, <3>4 DEF Push
  <2>4. CASE OnRenderMsg \/ ClearPushLatch \/ OnNextLayer \/ TransferOver
    BY <2>4 DEF OnRenderMsg, StartRendering, Draw, Publish,
                ClearPushLatch, OnNextLayer, TransferOver, latchVars
  <2> QED
    BY <2>2, <2>3, <2>4 DEF Next, MainStep, TimerStep
<1> QED
  BY <1>1, AlwaysPlaced, PTL DEF Spec, StraysOnlyLeave

-----------------------------------------------------------------------------
(* Three buffers                                                           *)

\* The buffer on display and the one that was on display before it.
Recent == {b \in Buffer : b = buf \/ Next1(b, NumBuffers) = buf}

\* A transfer reads the buffer on display when it began.  Between two renderings
\* and, when it began before the rendering under way, during it, that may be the
\* one before; an old transfer outside of a rendering is the one of cube_init.
Reading ==
    /\ dma.old => dma.phase = "on"
    /\ stage # "running" => buf = 0
    /\ stage # "running" /\ dma.phase = "on" /\ ~dma.old => dma.buf = buf
    /\ at["main"] = "wait" /\ dma.phase = "on" /\ ~dma.old => dma.buf \in Recent
    /\ at["main"] \in {"draw", "convert"} =>
          /\ free = Next1(buf, NumBuffers)
          /\ dma.phase = "on" => /\ dma.buf \in Recent
                                 /\ ~dma.old => dma.buf = buf

LEMMA InitReading == Init => Reading
  BY DEF Init, Reading, Stopped

LEMMA PushReading ==
    ASSUME Placed, Reading, NEW c \in Context, Push(c)
    PROVE  Reading'
<1>1. UNCHANGED <<dma, buf, free>>
  BY DEF Push, Load, Darken, Store, Advance, Light, Arm
<1>2. at["main"] \notin {"draw", "convert", "wait"} \/ UNCHANGED at["main"]
  BY DEF Push, Load, AfterLoad, Darken, Store, Advance, Light, Arm, Goto, Context,
         Placed, TypeOK
<1>3. at'["main"] \notin {"draw", "convert", "wait"} \/ UNCHANGED at["main"]
         \/ (at'["main"] = "wait" /\ stage # "running" /\ stage' = "running")
  BY DEF Push, Load, AfterLoad, Darken, Store, Advance, Light, Arm, AfterPush, Goto, Context,
         Placed, TypeOK, Staged, RenderAt
<1>4. stage = "running" => stage' = "running"
  BY DEF Push, Load, AfterLoad, Darken, Store, Advance, Light, Arm
<1>5. buf \in Buffer
  BY DEF Placed, TypeOK
<1> QED
  BY <1>1, <1>2, <1>3, <1>4, <1>5 DEF Reading, Recent

LEMMA StoppedReading ==
    ASSUME Reading, NEW p \in {"off", "over"}, NEW s, dma' = Stopped(p, s),
           UNCHANGED <<buf, free, stage, at["main"]>>
    PROVE  Reading'
  BY DEF Reading, Recent, Stopped

LEMMA TimerReading ==
    ASSUME Placed, Reading, ClearPushLatch \/ OnNextLayer \/ TransferOver
    PROVE  Reading'
<1> "main" \in Context /\ "isr" \in Context
  BY DEF Context
<1>1. CASE ClearPushLatch
  <2>1. buf \in Recent
    BY DEF Placed, TypeOK, Recent
  <2>2. CASE dma' = [phase |-> "on", buf |-> buf, layer |-> cur, old |-> FALSE,
                     set |-> dma.set]
    BY <1>1, <2>1, <2>2 DEF ClearPushLatch, Reading, Recent
  <2>3. CASE UNCHANGED dma
    BY <1>1, <2>3 DEF ClearPushLatch, Reading, Recent
  <2> QED
    BY <1>1, <2>2, <2>3 DEF ClearPushLatch, Enable
<1>2. CASE OnNextLayer
  BY <1>2, StoppedReading DEF OnNextLayer, Goto, Placed, TypeOK
<1>3. CASE TransferOver
  BY <1>3, StoppedReading DEF TransferOver
<1> QED
  BY <1>1, <1>2, <1>3

LEMMA CubeInitReading == ASSUME Placed, Reading, CubeInit PROVE Reading'
<1> USE DEF InitStep, Goto, Context
<1>1. CASE SetupPin
  BY <1>1 DEF SetupPin, Placed, TypeOK, Staged, RenderAt, Reading
<1>2. CASE ZeroBuffers
  BY <1>2 DEF ZeroBuffers, Placed, TypeOK, Staged, RenderAt, Reading
<1>3. CASE StartStream
  BY <1>3 DEF StartStream, Enable, Placed, TypeOK, Staged, SetupAt, RenderAt, Reading
<1>4. CASE RegisterTimers
  BY <1>4 DEF RegisterTimers, Placed, TypeOK, Staged, RenderAt, Reading
<1>5. CASE AwaitMosfets
  BY <1>5 DEF AwaitMosfets, Placed, TypeOK, Staged, RenderAt, Reading
<1>6. CASE StopStream
  BY <1>6 DEF StopStream, Stopped, Placed, TypeOK, Staged, SetupAt, RenderAt, Reading
<1>7. CASE WriteSetting
  <2>1. dma' = dma \/ (dma.phase # "on" /\ dma'.phase = dma.phase /\ dma'.old = dma.old)
    BY <1>7 DEF WriteSetting, Placed, TypeOK, Transfer
  <2>2. at'["main"] \in SetupAt /\ at["main"] \in SetupAt /\ UNCHANGED <<buf, stage, free>>
    BY <1>7 DEF WriteSetting, Setting, AfterSetting, SetupAt, Placed, TypeOK
  <2> QED
    BY <2>1, <2>2 DEF SetupAt, Placed, Staged, RenderAt, Reading
<1> QED
  BY <1>1, <1>2, <1>3, <1>4, <1>5, <1>6, <1>7 DEF CubeInit

LEMMA RenderReading == ASSUME Placed, Reading, OnRenderMsg PROVE Reading'
<1> USE DEF InitStep, Goto, Context
<1>1. CASE StartRendering
  <2>1. dma.phase = "on" => dma.buf \in Recent
    BY <1>1 DEF StartRendering, Reading
  <2>2. dma.phase = "on" => dma'.phase = "on" /\ dma'.old /\ dma'.buf = dma.buf
    BY <1>1 DEF StartRendering, Placed, TypeOK, Transfer
  <2>3. dma.phase # "on" => dma' = dma
    BY <1>1 DEF StartRendering
  <2>4. at'["main"] = "draw" /\ stage = "running" /\ UNCHANGED <<buf, stage>>
    BY <1>1 DEF StartRendering, Placed, TypeOK, Staged, RenderAt
  <2>5. free' = Next1(buf, NumBuffers)
    BY <1>1 DEF StartRendering
  <2> QED
    BY <2>1, <2>2, <2>3, <2>4, <2>5 DEF Reading, Recent
<1>2. CASE Draw
  BY <1>2 DEF Draw, Placed, TypeOK, Staged, RenderAt, Reading, Recent
<1>3. CASE Publish
  <2>1. buf' = Next1(buf, NumBuffers) /\ at'["main"] = "wait" /\ stage = "running"
        /\ UNCHANGED <<dma, stage>>
    BY <1>3 DEF Publish, Reading, Placed, TypeOK, Staged, RenderAt
  <2>2. dma.phase = "on" => dma.buf = buf
    BY <1>3 DEF Publish, Reading
  <2>3. buf \in Buffer
    BY DEF Placed, TypeOK
  <2> QED
    BY <2>1, <2>2, <2>3, <1>3 DEF Reading, Recent, Publish
<1> QED
  BY <1>1, <1>2, <1>3 DEF OnRenderMsg

LEMMA NextReading == Placed /\ Reading /\ [Next]_vars => Reading'
<1> SUFFICES ASSUME Placed, Reading, [Next]_vars PROVE Reading'
  OBVIOUS
<1>1. CASE Next
  <2> "main" \in Context /\ "isr" \in Context
    BY DEF Context
  <2> QED
    BY <1>1, PushReading, TimerReading, CubeInitReading, RenderReading
       DEF Next, MainStep, TimerStep
<1>2. CASE UNCHANGED vars
  BY <1>2 DEF vars, Reading, Recent
<1> QED
  BY <1>1, <1>2

\* The buffer the frame is converted into is none the DMA reads: three buffers do
\* without a lock, as long as no transfer outlasts a whole rendering.
THEOREM BuffersNeverTear == Spec => []NoTear
<1>1. Placed /\ Reading => NoTear
  <2> SUFFICES ASSUME Placed, Reading, at["main"] = "convert", dma.phase = "on"
               PROVE  dma.buf # free
    BY DEF NoTear
  <2>1. dma.buf \in Recent /\ free = Next1(buf, NumBuffers) /\ buf \in Buffer
    BY DEF Reading, Placed, TypeOK
  <2> QED
    BY <2>1, ThreeBuffers DEF Recent
<1>2. Init => Reading
  BY InitReading
<1> QED
  BY <1>1, <1>2, NextReading, AlwaysPlaced, PTL DEF Spec
=============================================================================
