-------------------------------- MODULE Cube --------------------------------
(***************************************************************************)
(* The display (target/stm32f4/cube.c): one layer of LEDs at a time is lit *)
(* by its transistor and shows what the latch of the shift registers holds,*)
(* a DMA transfer fills the shift registers for the next layer, and the    *)
(* rendering fills one of three output buffers while the DMA reads another.*)
(*                                                                         *)
(* Two contexts run the code: the main thread, in cube_init and later in   *)
(* onRenderMsg, and the handler of the timer interrupt, in the callbacks   *)
(* of the software timers.  The handler interrupts the main thread between *)
(* any two accesses to what they share and is never interrupted by it.     *)
(* A pending timer may fire at any moment: SwTimer shows that a call can   *)
(* be late and even early.  What this module takes from the durations:     *)
(*   - a transfer, 8 bytes in 49 us, is shorter than one rendering, is over*)
(*     when the layer timer fires (1 ms) once cube_init is over, and the   *)
(*     one cube_init starts is over before the first rendering (50 ms);    *)
(*   - cube_init waits for 50 us after it has registered the pulse of 50 us*)
(*     and set the pins up: the pulse is over then (AwaitMosfets);         *)
(*   - from there to the end of cube_setupDMA it takes a few us of the 1 ms*)
(*     of the layer timer, which does not fire meanwhile (OnNextLayer).    *)
(***************************************************************************)
EXTENDS Integers, FiniteSets

CONSTANTS
    NumLayers,      \* CUBE_CONFIG_NUMBER_OF_LAYERS
    NumBuffers,     \* CUBE_BUFFER_COUNT
    NoSlice         \* content of a register that is not one whole layer

ASSUME CubeAssumption ==
    /\ NumLayers \in Nat /\ NumLayers > 1
    /\ NumBuffers \in Nat /\ NumBuffers > 2
    /\ NoSlice \notin Nat

VARIABLES
    cur,        \* g_currentLayer
    lit,        \* layers whose transistor is on
    store,      \* the push latch wire
    regs,       \* the layer in the shift registers
    shown,      \* the layer in their latch, what the LEDs of a lit layer show
    dma,        \* the DMA stream
    timers,     \* the one-shot timers of the layers that are registered
    buf,        \* g_currentOutputBuf
    at,         \* where each context is
    reg,        \* the layer each context has read
    stage,      \* how far cube_init is
    free        \* currentlyFreeBuffer of the rendering under way

latchVars == <<cur, lit, store, regs, shown>>
vars == <<cur, lit, store, regs, shown, dma, timers, buf, at, reg, stage, free>>

Layer   == 0 .. NumLayers - 1
Buffer  == 0 .. NumBuffers - 1
Context == {"main", "isr"}
Timer   == {"clearPushLatch", "onNextLayer"}
Slice   == Layer \cup {NoSlice}

\* pcs of cube_pushLatch, of cube_init and of onRenderMsg.
PushAt   == {"dark", "darken", "store", "read", "advance", "lookup", "light", "arm"}
SetupAt  == {"zero", "stop", "channel", "increment", "direction", "start"}
InitAt   == {"pins", "await", "timers"} \cup SetupAt
RenderAt == {"wait", "draw", "convert"}

\* What cube_setupDMA writes to the stream's register; its other settings are
\* the ones of the reset.
Setting == {"channel", "increment", "direction"}

\* A transfer is on, or over with its event flags still set.  It is old when it
\* began before the rendering under way.
Transfer == [phase : {"off", "on", "over"}, buf : Nat, layer : Layer, old : BOOLEAN,
             set : SUBSET Setting]

\* A stream that reads no buffer.
Stopped(phase, set) ==
    [phase |-> phase, buf |-> 0, layer |-> 0, old |-> FALSE, set |-> set]

Next1(i, n) == (i + 1) % n

Init == /\ cur = 0 /\ lit = {} /\ store = FALSE
        /\ regs = NoSlice /\ shown = NoSlice
        /\ dma = Stopped("off", {})
        /\ timers = {} /\ buf = 0
        /\ at = [main |-> "dark", isr |-> "idle"]
        /\ reg = [c \in Context |-> 0]
        /\ stage = "reset" /\ free = 0

Runs(c) == c = "isr" \/ at["isr"] = "idle"
Goto(c, pc) == at' = [at EXCEPT ![c] = pc]

-----------------------------------------------------------------------------
(* cube_pushLatch, in both contexts                                        *)

\* g_currentLayer is read for cube_disableLayer, for the increment and for
\* cube_enableLayer.
AfterLoad == [dark |-> "darken", read |-> "advance", lookup |-> "light"]

Load(c) ==
    /\ Runs(c) /\ at[c] \in DOMAIN AfterLoad
    /\ reg' = [reg EXCEPT ![c] = cur]
    /\ Goto(c, AfterLoad[at[c]])
    /\ UNCHANGED <<latchVars, dma, timers, buf, stage, free>>

\* (mutant) the old layer stays on
DarkenNot(c) ==
    /\ Runs(c) /\ at[c] = "darken"
    /\ reg' = [reg EXCEPT ![c] = 0]
    /\ Goto(c, "store")
    /\ UNCHANGED <<latchVars, dma, timers, buf, stage, free>>

Darken(c) ==
    /\ Runs(c) /\ at[c] = "darken"
    /\ lit' = lit \ {reg[c]}
    /\ reg' = [reg EXCEPT ![c] = 0]
    /\ Goto(c, "store")
    /\ UNCHANGED <<cur, store, regs, shown, dma, timers, buf, stage, free>>

\* The latch takes over the shift registers on the rising edge of the wire.
Store(c) ==
    /\ Runs(c) /\ at[c] = "store"
    /\ shown' = IF store THEN shown ELSE regs
    /\ store' = TRUE
    /\ Goto(c, "read")
    /\ UNCHANGED <<cur, lit, regs, dma, timers, buf, reg, stage, free>>

\* (mutant) the layers are not counted modulo their number
AdvanceBeyond(c) ==
    /\ Runs(c) /\ at[c] = "advance"
    /\ cur' = reg[c] + 1
    /\ reg' = [reg EXCEPT ![c] = 0]
    /\ Goto(c, "lookup")
    /\ UNCHANGED <<lit, store, regs, shown, dma, timers, buf, stage, free>>

Advance(c) ==
    /\ Runs(c) /\ at[c] = "advance"
    /\ cur' = Next1(reg[c], NumLayers)
    /\ reg' = [reg EXCEPT ![c] = 0]
    /\ Goto(c, "lookup")
    /\ UNCHANGED <<lit, store, regs, shown, dma, timers, buf, stage, free>>

\* cube_enableLayer: in cube_pushLatch, and as the last statement of cube_init.
Light(c) ==
    /\ Runs(c) /\ at[c] = "light"
    /\ lit' = lit \cup {reg[c]}
    /\ IF c = "main" /\ stage = "last"
       THEN Goto(c, "wait") /\ stage' = "running"
       ELSE Goto(c, "arm") /\ UNCHANGED stage
    /\ reg' = [reg EXCEPT ![c] = 0]
    /\ UNCHANGED <<cur, store, regs, shown, dma, timers, buf, free>>

\* The main thread goes on in cube_init: at the layer pins after cube_reset, at
\* the timers after its own push.
AfterPush(c) == IF c = "isr" THEN "idle" ELSE IF stage = "reset" THEN "pins" ELSE "timers"

\* (mutant) the latch timer is registered once, as if it were periodic
ArmOnce(c) ==
    /\ Runs(c) /\ at[c] = "arm"
    /\ timers' = timers \cup (IF c = "main" THEN {"clearPushLatch"} ELSE {})
    /\ Goto(c, AfterPush(c))
    /\ UNCHANGED <<latchVars, dma, buf, reg, stage, free>>

Arm(c) ==
    /\ Runs(c) /\ at[c] = "arm"
    /\ timers' = timers \cup {"clearPushLatch"}
    /\ Goto(c, AfterPush(c))
    /\ UNCHANGED <<latchVars, dma, buf, reg, stage, free>>

Push(c) == Load(c) \/ Darken(c) \/ Store(c) \/ Advance(c) \/ Light(c) \/ Arm(c)

-----------------------------------------------------------------------------
(* The callbacks of the layer timers                                       *)

\* The stream is enabled for a layer of a buffer.  A running transfer goes on.
\* Whether a stream starts whose event flags are still set, the hardware does not
\* say.  The shift registers hold no whole layer until the transfer is over, and
\* that of a stream that is not set up never is.
Enable(from, l, isOld) ==
    \/ /\ dma.phase # "on"
       /\ dma' = [phase |-> "on", buf |-> from, layer |-> l, old |-> isOld,
                  set |-> dma.set]
       /\ regs' = NoSlice
    \/ /\ dma.phase # "off"
       /\ UNCHANGED <<dma, regs>>

ClearPushLatch ==
    /\ at["isr"] = "idle" /\ "clearPushLatch" \in timers
    /\ store' = FALSE
    /\ Enable(buf, cur, FALSE)
    /\ timers' = (timers \ {"clearPushLatch"}) \cup {"onNextLayer"}
    /\ UNCHANGED <<cur, lit, shown, buf, at, reg, stage, free>>

\* The transfer of a stream that is set up is over by then, once cube_init is.
OnNextLayer ==
    /\ at["isr"] = "idle" /\ "onNextLayer" \in timers
    /\ at["main"] \notin SetupAt
    /\ stage = "running" /\ dma.set = Setting => dma.phase # "on"
    /\ dma' = Stopped("off", dma.set)
    /\ timers' = timers \ {"onNextLayer"}
    /\ Goto("isr", "dark")
    /\ UNCHANGED <<latchVars, buf, reg, stage, free>>

\* External: the DMA and the SPI have moved the layer into the shift registers.
TransferOver ==
    /\ dma.phase = "on" /\ dma.set = Setting
    /\ dma' = Stopped("over", Setting)
    /\ regs' = dma.layer
    /\ UNCHANGED <<cur, lit, store, shown, timers, buf, at, reg, stage, free>>

-----------------------------------------------------------------------------
(* cube_init, in the main thread                                           *)

InitStep(pc) == at["isr"] = "idle" /\ at["main"] = pc

\* The pins of the layers are set up and cleared one after the other.
SetupPin ==
    /\ InitStep("pins")
    /\ lit' = lit \ {reg["main"]}
    /\ reg' = [reg EXCEPT !["main"] = Next1(@, NumLayers)]
    /\ Goto("main", IF reg'["main"] = 0 THEN "await" ELSE "pins")
    /\ UNCHANGED <<cur, store, regs, shown, dma, timers, buf, stage, free>>

\* (mutant) no wait
AwaitNot ==
    /\ InitStep("await")
    /\ Goto("main", "zero")
    /\ UNCHANGED <<latchVars, dma, timers, buf, reg, stage, free>>

\* The wait for the transistors outlasts the pulse that cube_reset has begun: the
\* stream of cube_setupDMA is not enabled by the end of a pulse.
AwaitMosfets ==
    /\ InitStep("await") /\ "clearPushLatch" \notin timers
    /\ Goto("main", "zero")
    /\ UNCHANGED <<latchVars, dma, timers, buf, reg, stage, free>>

ZeroBuffers ==
    /\ InitStep("zero")
    /\ buf' = 0 /\ cur' = 0
    /\ Goto("main", "stop")
    /\ UNCHANGED <<lit, store, regs, shown, dma, timers, reg, stage, free>>

\* cube_setupDMA clears the event flags and the register.  A transfer it cuts off
\* may raise its flags after that.
StopStream ==
    /\ InitStep("stop")
    /\ \/ dma' = Stopped("off", {})
       \/ dma.phase = "on" /\ dma' = Stopped("over", {})
    /\ regs' = IF dma.phase = "on" THEN NoSlice ELSE regs
    /\ Goto("main", "channel")
    /\ UNCHANGED <<cur, lit, store, shown, timers, buf, reg, stage, free>>

AfterSetting == [channel |-> "increment", increment |-> "direction", direction |-> "start"]

\* The settings are written one after the other.  The hardware ignores what is
\* written to a stream that is enabled.
WriteSetting ==
    /\ at["isr"] = "idle" /\ at["main"] \in Setting
    /\ dma' = IF dma.phase = "on" THEN dma ELSE [dma EXCEPT !.set = @ \cup {at["main"]}]
    /\ Goto("main", AfterSetting[at["main"]])
    /\ UNCHANGED <<latchVars, timers, buf, reg, stage, free>>

\* The stream is enabled.  Its address is &g_outputBuf[g_currentLayer], the first
\* layer of the buffer with the number of the layer.
StartStream ==
    /\ InitStep("start")
    /\ Enable(cur, 0, TRUE)
    /\ stage' = "setup"
    /\ Goto("main", "dark")
    /\ UNCHANGED <<cur, lit, store, shown, timers, buf, reg, free>>

\* The layer timer is registered, the other timers fire only after cube_init; the
\* first effect is chosen.
RegisterTimers ==
    /\ InitStep("timers")
    /\ timers' = timers \cup {"onNextLayer"}
    /\ stage' = "last"
    /\ Goto("main", "lookup")
    /\ UNCHANGED <<latchVars, dma, buf, reg, free>>

CubeInit == SetupPin \/ AwaitMosfets \/ ZeroBuffers \/ StopStream \/ WriteSetting
            \/ StartStream \/ RegisterTimers

-----------------------------------------------------------------------------
(* onRenderMsg in the main thread                                          *)

\* (mutant) the buffer on display is rendered into
StartRenderingInPlace ==
    /\ InitStep("wait") /\ ~dma.old
    /\ free' = buf
    /\ dma' = IF dma.phase = "on" THEN [dma EXCEPT !.old = TRUE] ELSE dma
    /\ Goto("main", "draw")
    /\ UNCHANGED <<latchVars, timers, buf, reg, stage>>

StartRendering ==
    /\ InitStep("wait") /\ ~dma.old
    /\ free' = Next1(buf, NumBuffers)
    /\ dma' = IF dma.phase = "on" THEN [dma EXCEPT !.old = TRUE] ELSE dma
    /\ Goto("main", "draw")
    /\ UNCHANGED <<latchVars, timers, buf, reg, stage>>

\* The effect draws into the frame buffer; what it draws is in module Show.
Draw ==
    /\ InitStep("draw")
    /\ Goto("main", "convert")
    /\ UNCHANGED <<latchVars, dma, timers, buf, reg, stage, free>>

\* The frame has been converted into the free buffer, which is used from now on.
Publish ==
    /\ InitStep("convert") /\ ~dma.old
    /\ buf' = free
    /\ free' = 0
    /\ Goto("main", "wait")
    /\ UNCHANGED <<latchVars, dma, timers, reg, stage>>

OnRenderMsg == StartRendering \/ Draw \/ Publish

-----------------------------------------------------------------------------
MainStep  == Push("main") \/ CubeInit \/ OnRenderMsg
TimerStep == Push("isr") \/ ClearPushLatch \/ OnNextLayer

Next == MainStep \/ TimerStep \/ TransferOver

Spec == Init /\ [][Next]_vars

\* The handler leaves the main thread time to run, pending timers fire and
\* transfers end.
Fairness == /\ SF_vars(MainStep)
            /\ WF_vars(Push("isr")) /\ WF_vars(ClearPushLatch) /\ WF_vars(OnNextLayer)
            /\ WF_vars(TransferOver)

FairSpec == Spec /\ Fairness

-----------------------------------------------------------------------------
(* Properties                                                              *)

\* Types of the variables of cube.c.
TypeOK ==
    /\ cur \in Layer /\ lit \subseteq Layer /\ store \in BOOLEAN
    /\ regs \in Slice /\ shown \in Slice
    /\ dma \in Transfer /\ timers \subseteq Timer
    /\ buf \in Buffer /\ free \in Buffer
    /\ at \in [Context -> PushAt \cup InitAt \cup RenderAt \cup {"idle"}]
    /\ reg \in [Context -> Layer]
    /\ stage \in {"reset", "setup", "last", "running"}

\* The buffer onRenderMsg converts the frame into is not the one the DMA reads:
\* no layer is shown half old and half new, without a lock between the two.
NoTear == at["main"] = "convert" /\ dma.phase = "on" => dma.buf # free

\* The two pushes of cube_init and the layer timer leave at least one timer or
\* push under way: after cube_init the layers never stop being switched.
ChainAlive == stage = "running" => timers # {} \/ at["isr"] # "idle"

\* The latch takes over the next layer only while the layer whose turn is over is
\* dark (cube_pushLatch disables it first): nothing of the next layer is seen on it.
LatchInTheDark == [][stage = "running" /\ shown' # shown => cur \notin lit]_vars

\* cube_enableLayer at the end of cube_init may light a layer whose turn is over;
\* after cube_init no layer out of turn is ever lit again, they only go out.
StraysOnlyLeave ==
    [][stage = "running" => (lit' \ {cur'}) \subseteq (lit \ {cur})]_vars

\* Whatever cube_init and the timers did to each other, in the end exactly one
\* layer at a time is lit, it shows the layer before it, and one timer is pending.
DisplaySettles ==
    <>[](at["isr"] = "idle" =>
            /\ lit = {cur}
            /\ shown = (cur + NumLayers - 1) % NumLayers
            /\ Cardinality(timers) = 1)
=============================================================================
