# Verification of the LED cube firmware

The firmware drives an 8x8x8 LED cube from an STM32F4. It is a small framework (`src/src/framework`: message
pump, software timers, packet protocol, remote procedure calls), a board layer (`src/src/target/stm32f4`: the
cube, timers, flash, clock) and effects (`src/src/application/lutz`). One main thread runs module
initialisation and then the message pump for ever; everything else runs in interrupt handlers. This directory
holds TLA+ models of it, TLC configurations and TLAPS proofs. `PROJECT.json` lists components, runs, mutants,
hazards, findings, theorems, and the source lines behind each definition.

## Inventory

| component | state | operations | interacts with | what is hard, what makes it correct |
|---|---|---|---|---|
| message pump (`core/msg_msgPump.c`) | pools of slots (reference count, flag, payload), ring of posted slots, receivers per message | register, unregister, post (copy or own buffer), getFreeBuffer, lock, unlock, the pump loop | posts from timer callbacks and receivers; calls receivers | called from handlers between any two steps of the loop; each slot has one owner, messages arrive once and in order, retained ones do not change, the mutex comes back |
| interrupt mutex (`target/stm32f4/system.c`) | lock counter, interrupts on or off | lock, unlock | everything | recursive use; a call must undo what it took and no more |
| software timers (`timer/swTimer.c`) | 16 handles | register, unregister, trigger | TIM5; callbacks that register timers; the button's interrupt | three contexts, a registration is a sequence of short locked sections; no timer lost, none stopped, none called much later than it is due |
| hardware timer (`hwTimer.c`) | counter, compare value, pending interrupt | setup, elapsed, interrupt | software timers | setups from several contexts |
| cube (`cube.c`) | layer, latch, three output buffers, frame buffer, current effect | latch and layer timers, rendering, next effect, button | timers, pump, DMA, effects | two timer chains and `cube_init` merge, buffer reuse while the DMA reads, effect changed in the middle of a frame; one layer lit that shows its own slice |
| protocol (`protocol/genericFlawLessProtocol.c`) | receive and send state per interface, a pump buffer | receive byte, send message, send frame in pieces | pump | escape and checksum, limits, buffer ownership after a failed post |
| dispatcher (`..PacketDispatcher.c`) | end points (constant) | receive packet | pump, end points | one end point per packet |
| RPC (`rpc/RPC.c`) | number of functions | end point, response | dispatcher, protocol | lengths of short packets; a call gets the parameters that were sent |
| system time (`systemTime.c`) | high half of the counter | read, overflow interrupt | cube, effects | the overflow |
| configuration (`configuration.c`, `flash.c`) | copy in RAM, flash sector | read, update | boot, application | power lost between erase and program, variables changed meanwhile |
| initialisation (`init/systemInitializer.c`, `memory.c`, `main.c`) | none | run init functions by level | all | order within a level is the linker's; RAM cleared in the middle |
| effects (`application/lutz`) | a few variables each | init, render | cube | state left by the previous showing, the frame shared with the one before |
| generic FIFO, logging, mathematics, hardware setup, libopencm3 | | | | not modelled, see below |

## Modules

| module | what it is | checked by |
|---|---|---|
| `MsgPump` | the pump with its callers: main thread, handlers, timer callbacks | `pump_*` runs, proofs |
| `FifoDelivery` | abstract specification: accepted messages are delivered in order, one at a time | refined by `MsgPump` (`FifoOrder`, proved; `FifoLive`) |
| `MsgPumpProofs`, `MsgPumpSafetyProofs` | theorems about the pump | TLAPS |
| `SwTimer` | timers with the hardware timer, main thread, timer interrupt and button | `timer_*` runs, proofs |
| `SwTimerProofs` | theorems about the timers | TLAPS |
| `Cube` | layers, latch, DMA and output buffers; `cube_init` and rendering against the layer timers | `cube_display`, proofs |
| `CubeProofs` | theorems about the display | TLAPS |
| `Show` | the effect on display, its frame and its variables over many showings | `show_effects`, proofs |
| `ShowProofs` | theorems about the effects | TLAPS |
| `Firmware` | init functions, configuration in flash, system time, losses of power | `firmware_*` runs, proofs |
| `FirmwareProofs` | theorems about start, settings and time | TLAPS |
| `Protocol` | packets as symbols: sender, line, receiver and its buffers | `protocol_*` runs, proofs |
| `ProtocolProofs` | theorems about the protocol | TLAPS |
| `Rpc` | what dispatcher and end point make of a packet; extends `Protocol` | `protocol_lossy`, proof |
| `RpcProofs` | theorem about the calls | TLAPS |
| `MC_MsgPump`, `MC_SwTimer`, `MC_Protocol`, `MC_Cube`, `MC_Show`, `MC_Firmware` | instances for TLC | |

### MsgPump

A slot is a message and an index of its pool. `refCount`, `flag`, `data` are the pools; `msgQueue`, `front`,
`tail`, `size` the ring; `callbackVector` the receivers. `pc` and `index` are the place of the main thread in
`msgPump_pumpMessage`: every access to shared state outside a locked section is a step of its own (`Begin`,
`CheckReceiver`, `CallReceiver`, `ReceiverReturns`, `ClearFlag`, `ReleaseBuffer`, `PopEntry`). The functions of
the interface run under the mutex and are one action each. `context` says who runs: the thread, a handler
(entered only while the lock counter is 0) or a timer callback inside the locked section of
`swTimer_trigger`. `owned` are slots got from `getFreeBuffer` and not yet posted, `held` counts the successful
locks that are not undone, `due` and `called` record the receivers of the dispatch under way. These four are
history: no guard of the pump's code reads them, they only say what legal callers do.

Left out: message identifiers without a pool and `NULL` arguments, which return at once; nested handlers
(handlers run one at a time); log output, which is compiled out.

### SwTimer

A handle holds a callback and its counter; interval and one-shot flag are constants of the callback, as every
caller uses one value per callback (the presentation time of an effect varies; the model takes one). `elapsed`, `compare` and `pending` are TIM5. A registration by the main thread is four kinds
of steps: the locked entry into the table, the reading of the elapsed ticks, the count-down of one handle, the
setup of the hardware timer. `swTimer_trigger` is one step per handle, the callback included. `exti0_isr` has a
higher priority than TIM5 and registers its timer in one step (`RegisterAtOnce`) at any moment when the mutex is free: between two
handles, and behind a callback that posts a message by copy (`Posts`), as the post ends the mutex that `swTimer_trigger` holds; the
look at the handle behind the call is then a step of its own (`TriggerPosted`). A callback is reduced to the timer it registers
(`Starts`) and to whether it posts, which is all the timers see of it.

The clock ticks between any two steps, and inside of a registration that nobody interrupts (`Durations`). A registration and a
trigger read the elapsed ticks (`swTimer.c:74`, `:131`) before they reset the counter (`hwTimer.c:52`): what ticks in between is
lost to every handle, at every setup. `spent` counts for each timer the ticks that pass, since it was registered, while this code is at work or its interrupt waits for
it, and those of the shortest setup of a registration (`Minimal`), by which a handle that had run out before is called later. `MaxBusy` bounds it in the runs (`Spare`), not in the theorems.
`age`, `wanted` and `spent` are history variables for the properties.

The numeric abstraction: ticks are a few units instead of 84 per microsecond, and `Forever`, the largest 64-bit
number in the code, is a value no counter reaches. Intervals of 2^32 ticks and more (51 s) are not modelled.

### Protocol

One interface. The sending thread is idle, in `genericProtocol_sendMessage` (`rest` is what its loop has not sent)
or between the calls that send a frame in pieces (`isSending` in the code); both are made of `Header`, `SendByte`,
`Trailer`. `wire` is the line, which may lose any symbol; the sender waits while it holds more than `LineSize` symbols, and begins a
frame on an empty line only. `mode`, `received`, `sum` and the buffer
(`buffer`, `id`, `packet`) are `genericProtocolReceiveState_t`; a call of `genericProtocol_receiveByte` is
`ReceiveByte`, `ReceivePacket` if it posts, `ReceiveStarved` if there is no buffer. `free` and `posted` count the
buffers in the pool and in the ring. What becomes of a posted packet is `MsgPump`'s business. `frame`, `intact`,
`synced`, `clean` are history.

Nobody in the repository calls `flawLess_ReceiveIndication`; the receiver is modelled against the sender
of the same file, as two boards with this firmware. Bytes left in a buffer by an earlier packet are left out, as they
are written over before they are used. Not modelled: the frames in pieces on interface 0, which have no header and
no escapes, and two threads sending on one interface, which the firmware does not do.

### Rpc

The dispatcher and the end point keep no state: `Calls` and `Probes` are functions of the buffer that `Protocol`
posts, evaluated in the step that posts it; `Answers` is the frame that goes back, if the flags ask for it and the function leaves a
result of some length in a buffer (`RPC.c:222-224`). What a function leaves (`Results`) and whether it has a buffer (`Buffered`) are constants. `ParameterLength` wraps around as the unsigned number does; that a
function is called only with parameters inside the packet follows from the comparison with its length
(`LengthFits`) and needs functions whose parameters are shorter than 65534 bytes, which is assumed. An empty
packet has its checksum taken for the number of the function; 0xff answers a probe then, no function of the table
is called. Not modelled: the frames that the probes send themselves.

### Cube

`at` and `reg` are the place and the register of each context: the main thread in `cube_init` and `onRenderMsg`, the
timer interrupt in the callbacks. `cube_pushLatch` runs in both and is seven steps (`Load`, `Darken`, `Store`,
`Load`, `Advance`, `Load`, `Light`, then `Arm`), as every read of `g_currentLayer` is one. `store` is the wire
of the latch, `regs` and `shown` the shift registers and what the LEDs show, `dma` the stream with its event
flags and the settings written to it. `cube_setupDMA` is a step per write: `StopStream` clears flags and register, `WriteSetting` sets the
channel, the increment and the direction one after the other, `StartStream` enables the stream. Between them a timer's callback could enable a stream that is not set up, or
have its enable undone. That it does not follows from the wait before them: `cube_reset` has registered the pulse of 50 us, `cube_init` waits for another 50 us after it (`cube.c:359-363`), so the
pulse is over then (`AwaitMosfets`); without the wait (mutant `AwaitNot`) the display does not settle. Hardware the manual leaves open is a choice: a stream may or may not start with flags set, a transfer cut off by
`cube_setupDMA` raises its flags late. `free` and `buf` are the buffers of `onRenderMsg`.

Taken from the durations: a transfer takes 49 us, is over when the next layer's timer fires (1 ms) and
shorter than a rendering, and the one `cube_init` starts ends before the first frame (50 ms); the wait outlasts the pulse; from the wait
to the end of `cube_setupDMA` are a few microseconds, in which the layer timer (1 ms) does not fire. Everything else may
happen at any moment, as `SwTimer` shows that timers are late and early. Layer L shows slice L-1 throughout: the slices are numbered by
the layer that is on while they are transferred. `cube.c:275` clears the flags at bit 24 where `cube.c:171` uses 22, and
`cube.c:286` takes the buffer with the number of the layer; neither matters, as the first transfer is not shown.

### Show

One effect per behaviour is followed with its static variables (`own`), any other is `other`. `frame` says who
painted the frame buffer, `converted` and `published` follow it to the display. The button and the presentation timer
switch (`SwitchToOwn`, `SwitchToOther`) at any point of another effect's rendering, at most once in one
(100 ms against less than 1 ms). Random numbers are choices. Of the pictures there is what the code reads back: topDownSwap's
columns, one of 64, and explosion's whole frame in a 4x4x4 cube with a life of two updates instead of 8x8x8 and three
(the code compares with its neighbours only).

What the model showed, with no text to contradict: morphCube keeps its direction over showings while the size starts
at 0, so the size goes down to 255 and the cube is dark for 12 s; the frame of topDownSwap stays mixed when a switch
falls between the call of another effect and its `memset`, and a column without an LED then stands still until
the presentation ends; explosion starts with an empty frame when it was left in an explosion. `MotionGoesOn` and
`EffectTakesOver` say how far this goes; `MotionGoesOn` says nothing of pongCube and wobbelCube, whose motion has no state it must come back to. helix and
sineSurf are not modelled, so that effects stay in the frame is shown of the others only. Five effects (morphCube, pongCube, simpleRunner, surface,
wobbelCube) give the macro `CUBE_RENDER_FUNCTION` two of its three arguments and do not compile as they stand; they are modelled
as if the presentation time were there.

### Firmware

`todo` are the init functions still to be called; within a level any order is possible. `ready` are the modules
initialised since the RAM was cleared. `Uses` says what an init function uses: the cleared RAM, the frequencies of the clock, the mutex, the pump, and all that `cube_init` uses.
`msgPump_init` takes the mutex of `system.c`, which is of the same level and may come later; this is harmless as `system_init` only clears the
counter that `memory_init` has cleared before (`OnlyCleared`), and `UsedAfterInit` makes this one exception. `main` is where `config_updateToFlash` is, `rom` the flash, where a
half word is a set of one bits: erasing sets, programming clears. `PowerLoss` may come at any step, leaves anything of a
sector being erased and any bits of a half word being programmed, and starts over with any RAM. `Set` is the application, from any context; `Update` its call from the
main thread, whose first loop compares one half word per step (`Compare`). `psc`, `cnt`, `uif`, `high` are TIM2 with its prescaler; `elapsed` is true time
in cycles of the timer's clock, `PerUs` of them in a microsecond. The counter and its high part are read in one step: the only reader, `cube_init`, is done before the first overflow, where two reads could differ. `asked`, `dirty`, `cut` are history.

No `CONFIG_VARIABLE` is declared in the repository; a default given to one would not take effect, as its section is not loaded and is
read from flash at the start.

## Runs

| run | question | bounds |
|---|---|---|
| `pump_safety` | every reference accounted for, no slot queued twice, mutex always given back, no call of `NULL`, retained payloads unchanged, every accepted message delivered | 2 messages with 1 slot, ring of 4, references up to 2, 2 payloads |
| `pump_full` | delivery in order and to all receivers when the ring fills up and when handlers unregister receivers | 1 message with 2 slots, ring of 2, 2 receivers |
| `pump_mutex` | finding: a post by copy inside a critical section ends it | |
| `pump_unregister` | finding: a receiver is still called after it was unregistered | 2 receivers |
| `timer_safety` | one handle per timer, hardware timer always armed, lateness bounded by another timer's interval and the ticks spent in the code, the button unmasked in the end | 3 timers (one that restarts itself, interval 2, a periodic one, 4, the button, 3), 3 handles, setups of at least 1 and 2 ticks, `MaxBusy` 1 |
| `timer_early` | finding: the render timer runs out early | the five timers of `cube.c` |
| `protocol_lossy` | what is posted is what was sent; one whole frame after any loss is enough to be in step; no buffer is lost; functions are called with the parameters that were sent, and answered | 5 symbols, limit 6, pool and ring of 2, 2 functions, requests without a parameter and with one (an escape character), pieces of up to one byte, `LineSize` 0 |
| `protocol_toolong` | finding: a part of a message that is too long is posted | 7 symbols, limit 3, `LineSize` 1, nothing lost |
| `cube_display` | no buffer torn, timers go on, latch in the dark, strays only leave, one layer at a time in the end | 8 layers, 3 buffers, as in the code |
| `show_effects` | effects stay in the frame, one LED per column, the wave reaches all, the chosen effect takes over, motion goes on | 8 levels, 8-bit numbers, 2 trigger messages; explosion in 4x4x4 |
| `firmware_power` | modules initialised before use, settings kept over losses of power, the time one part in `PerUs` + 1 slow and no more, every start ends | 3 half words of 1 bit, 2 losses of power, one period (2) of the counter, 2 cycles per unit |
| `firmware_overflow` | finding: the system time runs ahead after the first overflow | period of 3 |

The bounds are enough for the interesting cases: a ring that wraps and is full, a pool that is used up, a slot
posted again while its old entry is at the front, two receivers of which the first goes away, a timer that takes
the handle of one that just ended, a handle taken before and behind the one the trigger is at, counters below
zero. Two slots, two receivers and three timers are the smallest numbers that have them; the theorems
cover the others. In `protocol_lossy` the three control symbols are identifier, payload and checksum, packets are up to
as long as the limit allows (longer ones are in `protocol_toolong`), and with five symbols a wrong sum is often right by chance. A frame starts
when the line is empty: the receiver does not act on the sender, so more on the line would show nothing new.
Behaviours are not bounded, any number of frames follow each other. In `firmware_power` the second loss may hit the
update that repairs the first; three half words have one before, at and behind the cursor, and a bit of
each is like the others. `MaxUptime`, `BootTime` and `MaxLosses` are bounds; the time of a
start is below one period, as it is in the code. `MaxRef` stands for 255. `MaxLocks` bounds a caller that posts again and again into a full
ring. `CHECK_DEADLOCK FALSE` appears only where the code may really stop: in `pump_full`, when handlers unregister
what the pump is about to call, the call of `NULL` ends in a fault, and a post that finds the ring full keeps
interrupts off.

`NoNullCall` holds as no handler of this firmware unregisters a receiver (`IsrUnregisters = FALSE`); with one
that does, the pump would call `NULL`. It is checked under that assumption only and not proved. The ring of `pump_safety` never fills up (the early return that keeps the mutex is not reached); that of `pump_full` does. `TableFits` (a handle for every callback) holds in the firmware: 5 callbacks, 16 handles. `RingFits` too: 22 slots, 128 entries.

### Fairness

`MsgPump`: strong fairness of the pump's steps, as interrupts do not starve the main thread (the timers of the
cube need a small part of each millisecond) and receivers return; handlers and callbacks return.
`SwTimer`: time passes (strong: the bound `MaxBusy` holds it up while code is at work), the timer interrupt runs to its end
(weak), and interrupts leave the main thread time for the registration it is in (strong). No fairness of any
registration, post or press of the button is assumed.
`Cube`: strong for the main thread, which the handlers interrupt, weak for handlers, pending timers and transfers.
`Show`: weak for the rendering and its timer. Strong for an effect's update: an effect is called every 50 ms and compares with intervals
of up to a second, so time is up again and again; and for the random choices that move something, as a random
number that never changes would be no random number. No switch of effects is assumed.
`Firmware`: weak for the main thread and the counter; the power need not fail, and fails a bounded number of times.

## Findings

- `msg_msgPump.c:254`, `:272`: the copying post unlocks twice; inside the critical section of a timer callback,
  where the cube calls it, it enables interrupts (`pump_mutex`).
- `msg_msgPump.c:91`: a receiver can be in two entries; unregistering removes one (`pump_unregister`).
- `swTimer.c:81`, `:138`: a registration by a callback counts the ticks of the interval down a second time, so
  periodic timers run early (`timer_early`).
- `genericFlawLessProtocol.c:178`: what follows the cut of a message that is too long is searched for a beginning
  without regard to escapes, and may be posted (`protocol_toolong`).
- `systemTime.c:25`: the interrupt of the overflow does not clear its flag. After 71 minutes the handler is called for ever, the
  time runs ahead and the main thread stops (`firmware_overflow`).

Without a run: posting a buffer that its producer has locked frees it under its users (`msg_msgPump.c:205`); no
code of the repository does so, and the models leave it out by `ProducerMayRetain = FALSE`. `convertToSync` (`systemTime.c:74`) returns
milliseconds where its header speaks of microseconds; nobody sets the difference it adds. The ticks between the reading of
the elapsed ticks and the reset of the counter are lost at every setup of the timer (`swTimer.c:74`, `:131`, `hwTimer.c:52`), against
the comment of `swTimer.c:71` ("according to the time passed"): periodic timers drift, which `BoundedLateness` allows for with `spent`. `msgPump_init` uses the mutex of the
same level (see Firmware). The prescaler 84 (`systemTime.c:50`) divides by 85, so that a unit of the time which `systemTime.h:12` calls a microsecond is 1.2 %
too long; `TimeLags` says exactly that. `RPC_Interface.h:97-102` describes a header of four bytes with a length, the end point
(`RPC.c:182`) takes one of two: a request laid out as the comment says has its flags and parameters taken from the wrong places, and `CallsAsSent` speaks of the
header that the code reads.

## Proofs

All theorems hold for every value of the constants that satisfies the named assumptions of the modules.

- `TypeCorrect`, `SlotsAccounted`, `SlotsQueuedOnce` (`MsgPumpProofs`). The ring is consistent (`RingInv`: `tail` is `front + size` modulo the
  size). `SlotAccounting` says that the reference count of a slot is the sum of its ring entry, its producer and
  its holders. It is not inductive alone: that a free slot is in no entry follows from it, but that an entry pushed
  is the only one needs `QueuedOnce`, and that a slot taken by a producer is not held by a receiver needs `OwnedNotHeld`. Assumption: producers do not
  lock a buffer before they post it (`~ProducerMayRetain`); one that does frees it under its users.
- `MutexReleased`, `RetainedKept`, `ReceiversCalled` (`MsgPumpSafetyProofs`). With `RingFits` the slots in the ring are fewer than its
  entries by counting, so the early return that keeps the mutex is not reached.
- `DeliveredInOrder` (`MsgPumpSafetyProofs`): `MsgPump` implements `FifoDelivery` under `~ProducerMayRetain`. `At(k)` is the k-th entry behind the front.
  Every pending message is in an active entry (`PendingActive`), and by `SlotAccounting` an active slot is neither
  free nor owned, so nobody writes its payload. A post appends (`EnqueueFifo`); `Begin` delivers, `ClearFlag` finishes; a popped
  entry had stopped counting with `Begin`, so its pop, and a post of the slot before the pop, stutter or append.
- `TypeCorrect`, `HandlesUnique`, `TimerArmed` (`SwTimerProofs`). `OneHandleEach` is inductive under `TableFits`; that a free handle exists
  is the pigeonhole principle, that the search finds a first one follows from the well-foundedness of strict
  inclusion on finite sets. `Armed` speaks of quiet states only; its strengthening `ArmedInv` says that in all others
  a loop under way has seen, or has ahead of it, a handle in use.
- `LatenessBounded` (`SwTimerProofs`): a timer is called at most `MaxInterval` after it is due and the ticks `spent` in this code since it was
  registered; so the drift of a periodic timer is no more than the time the code takes. `Idle` is a timer's age without the ticks spent. `LatenessInv` has four main parts. `NoTicksLost`:
  what a handle's counter lacks to the end of its interval is in the idle ticks that a loop under way, or the next one, still
  subtracts; ticks lost at a setup are spent ones. Counters may be too small (that is the finding `timer_early`), never too large, which makes this an inequality.
  `SoonEnough`: the hardware timer is never set up for longer than the longest interval. `LookedAt`: a loop has taken the
  overdue handles behind it into account in `next`, but for the one it is about to look at behind a post (`JustPosted`). `Waiting`: a handle is not waited for beyond its bound, before or at
  the next match. Each leans on those before it, and `Waiting` on `OneHandleEach`, by which a timer's age is its handle's.
  Assumptions: `TableFits`, and `MinimumIsShort`: no interval is shorter than the shortest setup of a trigger (40 ticks in `swTimer.c`, intervals
  from 50 us, 4200 ticks, up). The shortest setup of a registration may be anything: the time it puts a match off is counted as spent.
- `TypeCorrect`, `BuffersConserved` (`ProtocolProofs`). The count is one more than the bytes stored and below the limit
  when one is stored, so the buffer is not written behind its end, whatever arrives. Buffers are conserved if the ring
  has an entry for each (`RingTakesPool`): then a post does not fail, and the second buffer that the receiver
  takes after a failed one is never taken.
- `FramesInStepAgain`, `NoPacketInvented` (`ProtocolProofs`), for every alphabet, packet and loss. `InStepAgain` and `NothingInvented` speak of the end of a frame;
  `Sound` says what is true in its middle: the symbols on the line take the receiver from its state to what the sender has
  sent so far (`Follows`), and a frame of which nothing was lost ends with no escape waiting for its second symbol
  (`AlignedAtEnd`, `AlignedBetween`). "Takes to" is `Reads`, a witness function over the line: one state of the receiver per
  symbol. The proofs extend it at the end when the sender writes and shorten it at the front when the receiver reads
  (`ReadsOn`, `ReadsFirst`), so the sum over a whole frame is carried along symbol by symbol and no induction over its length is needed.
  `FramesInStepAgain` assumes `RingTakesPool`: a post that fails would lose the packet.
- `ParametersOfPayload` (`RpcProofs`). From the bounds of the count in `Protocol`'s type invariant: the length that wraps around is larger than
  any function takes, so a called function has a whole header before its parameters.
- `RequestsCalled` (`RpcProofs`): with `Sound`, what is in the buffer at the last symbol of a frame is the packet that was sent, so the dispatcher calls the function
  that the request names with its parameters, and nothing else, and answers it if the request asks for that and there is a result.
- `TypeCorrect`, `ChainNeverBreaks`, `NoGhostLayer`, `NoStrayLayer`, `BuffersNeverTear` (`CubeProofs`). `Staged` ties
  how far `cube_init` is to where the main thread is; `Chained` is `ChainAlive` from the registration of the layer timer on;
  `Pushing` says that the layer a handler has read is still the current one, and is dark between `Darken` and `Light`.
  For the buffers `Reading` says which ones a transfer may read: the one on display or the one before, with three
  or more buffers neither is the free one.
- `TypeCorrect`, `ColumnsKeepTheirLed` (`ShowProofs`), for cubes of every size. The types alone are not inductive: `Within` says that the surface of wobbelSurf
  has not passed its end and that the spark of an explosion is below its height. `OneLed` is
  `OneLedPerColumn` without counting: the column is one level, which `topDownSwap` finds and moves (`MovedOne`).
- `WaveReachesAll` (`ShowProofs`): `BlastReachesAll` for cubes of every size, lives of two updates and more (`BlastLast > 1`, 3 in the code) and every
  centre. The update sees the neighbours before an LED faded and those behind it as they were, so the wave is not a sphere. `Lit` gives in
  closed form when an LED is lit, by its distances from the centre: one update per step in the order of the loops, two against it, and detours
  for the LEDs under the spark and beyond the centre. `BlastIsWave` says that the frame is at every update the wave that `Lit` describes (`SweptWave`), because no
  neighbour lights an LED earlier (`LitAfterPassed`, `LitAgainst`) and one lights it then (`LitByOne`). When no LED is lit, a first LED left out would
  have a lit neighbour (`WaveOver`). `SparkInside` keeps the centre off the border from which the wave could not start: on a
  border an LED under the spark has no neighbour to take the detour by.
- `TypeCorrect`, `SettingsSurvive`, `VariablesInStep`, `TimeIsSlow`, `InitializedBeforeUse` (`FirmwareProofs`). `Writing`
  describes the flash in the middle of an update: the half words before the cursor are what was asked, the others erased, so that programming, which only
  clears bits, gives the wanted ones. `Ordered` says that whatever is initialised has no lower level left to call; with the
  levels of the modules that gives `UsedAfterInit` in every order. `TimeIsSlow` says that before the first overflow the system time is the number of whole periods of `PerUs` + 1 cycles.

All invariants and action properties of the passing runs are proved but `NoNullCall`, which holds only because no handler unregisters a receiver. Only model-checked too: liveness, that is the delivery of
every message (`FifoLive`), `ButtonComesBack`, `DisplaySettles`, `Boots`, `EffectTakesOver` and `MotionGoesOn`.
Liveness under fairness is out of the prover's reach.

## Not modelled

- Generic FIFO (`misc/fifo/genericFiFo.h`): macros that nothing instantiates. Logging: compiled out by `NO_LOG_OUTPUT`.
- Mathematics (`src/math`): floating point, no state, no caller. The pictures of helix and sineSurf: floating-point functions of the time.
- Hardware setup (clock, GPIO, NVIC, SPI, RTC, random numbers): register writes without decisions. libopencm3 is third-party: its
  headers are constants, and with the drivers and the mathematics they are most of the lines of the repository, which is why
  the models cover few of all lines and most of the lines with state.
- In `system.c` the halt and reset functions, in `hwTimer.c` the register setup; in the protocol the frames in pieces on interface 0, which
  have no header and no escapes, and two threads sending on one interface, which the firmware does not do; the frames
  that the RPC probes send; the synchronised time.
- The composition of all modules in one model: `Cube` and `Show` take the timers' promise (they fire, at any moment) from `SwTimer` and the
  pump's (a posted trigger is handled once, in order) from `MsgPump`, where it is checked.
