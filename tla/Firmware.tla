------------------------------ MODULE Firmware ------------------------------
(***************************************************************************)
(* The start of the firmware and the two services that outlast it: the     *)
(* module initializer (flawless/init/systemInitializer.c), the clearing of *)
(* the RAM (target/stm32f4/memory.c), the configuration that is kept in    *)
(* flash (configuration.c, flash.c) and the system time (systemTime.c).    *)
(* The power may fail at any time.                                         *)
(*                                                                         *)
(* No file of the repository declares a CONFIG_VARIABLE; the application   *)
(* that does is external: it changes a variable at any time (an interrupt  *)
(* does too, in the middle of an update) and calls config_updateToFlash    *)
(* from the main thread.                                                   *)
(*                                                                         *)
(* A half word is the set of its bits that are one: an erase sets them     *)
(* all, programming can only clear bits.                                   *)
(*                                                                         *)
(* Time is counted in cycles of the clock of TIM2 (84 per microsecond).    *)
(* Durations: starting takes less than one period of the counter of the    *)
(* system time (71 minutes): BootTime and ResetTime bound it.  So the only *)
(* reader of the time, cube_init, reads the counter and its high part      *)
(* before the first overflow, and the two reads are one step.              *)
(***************************************************************************)
EXTENDS Integers, FiniteSets

CONSTANTS
    NumWords,       \* half words of the section .configuration
    Bits,           \* bits of a half word
    Period,         \* 2^32, the period of the counter TIM2
    HighWrap,       \* 2^32, the values of g_systemTimeHighPart
    PerUs,          \* CLOCK_APB1_TIMER_CLK / SYSTEM_TIME_RESOLUTION: cycles per us
    BootTime,       \* bound: cycles from systemTime_init to the wait of cube_init
    ResetTime,      \* CUBE_RESET_TIME_INTERVAL_US, the wait of cube_init
    MaxUptime,      \* bound: cycles the clock is followed
    MaxLosses       \* bound: losses of power

ASSUME FirmwareAssumption ==
    /\ NumWords \in Nat \ {0}
    /\ {Period, HighWrap, PerUs, BootTime, ResetTime, MaxUptime, MaxLosses} \subseteq Nat
    /\ HighWrap > 0
    /\ PerUs > 0
    /\ BootTime + ResetTime * (PerUs + 1) < Period * (PerUs + 1)

Words    == 1 .. NumWords
Contents == [Words -> SUBSET Bits]
Erased   == [w \in Words |-> Bits]
Zeroed   == [w \in Words |-> {}]

VARIABLES
    todo,       \* modules whose init function is not yet called
    ready,      \* modules that are initialized
    main,       \* where the main thread is; "run" is between two calls
    cursor,     \* the half word config_updateToFlash compares or programs next
    ram,        \* the configuration variables
    rom,        \* their copy in flash
    locked,     \* FLASH_CR is locked
    clock,      \* TIM2: the counter runs, its interrupt is enabled
    psc,        \* the counter of the prescaler of TIM2
    cnt,        \* TIM2_CNT
    uif,        \* the update flag of TIM2_SR
    high,       \* g_systemTimeHighPart
    since,      \* curTime in cube_init
    elapsed,    \* true time since systemTime_init, in cycles
    asked,      \* history: what the application last had written, by half word
    dirty,      \* history: half words changed since they were loaded or written
    cut,        \* history: the last update was cut short by a loss of power
    losses      \* losses of power so far

config == <<cursor, ram, rom, locked, asked, dirty, cut>>
time   == <<clock, psc, cnt, uif, high, since, elapsed>>
vars   == <<todo, ready, main, config, time, losses>>

Booted    == todo = {} /\ main # "wait"
Updating  == main \in {"erase", "program"}

-----------------------------------------------------------------------------
(* The modules                                                             *)

Modules == {"clock", "memory", "timer", "system", "floating", "msgPump",
            "systemTime", "configuration", "random", "swTimer", "rtc", "rpcManager",
            "packetDispatcher", "genericProtocol", "cube"}

\* Mutant: the software timers are initialized with the applications' modules.
LevelLate(m) ==
    IF m = "clock" THEN 0
    ELSE IF m = "memory" THEN 1
    ELSE IF m \in {"timer", "system", "floating", "msgPump"} THEN 2
    ELSE IF m \in {"systemTime", "configuration"} THEN 3
    ELSE IF m = "random" THEN 4
    ELSE IF m \in {"cube", "swTimer"} THEN 8
    ELSE 5

\* MODULE_INIT_FUNCTION
Level(m) ==
    IF m = "clock" THEN 0
    ELSE IF m = "memory" THEN 1
    ELSE IF m \in {"timer", "system", "floating", "msgPump"} THEN 2
    ELSE IF m \in {"systemTime", "configuration"} THEN 3
    ELSE IF m \in {"random", "swTimer"} THEN 4
    ELSE IF m = "cube" THEN 8
    ELSE 5

\* Modules whose state is in the RAM that memory_init clears.
InRam == {"system", "msgPump", "systemTime", "configuration", "swTimer", "rpcManager",
          "packetDispatcher", "genericProtocol", "timer", "cube"}

\* Modules whose init function sets its variables to what memory_init has left
\* them at: the lock counter of system_init.
OnlyCleared == {"system"}

\* What the init functions use besides their own variables: the frequency the
\* clock gives the timers, the mutex, buffers and registrations of the pump.
ClockUsers == {"timer", "systemTime", "random", "rtc"}

MutexUsers == {"msgPump"}

PumpUsers == {"packetDispatcher", "genericProtocol"}

CubeUses == {"clock", "system", "timer", "swTimer", "msgPump", "systemTime", "floating", "random"}

\* Modules whose variables or hardware the init function of m uses.
Uses(m) ==
    (IF m \in InRam THEN {"memory"} ELSE {}) \cup
    (IF m \in ClockUsers THEN {"clock"} ELSE {}) \cup
    (IF m \in MutexUsers THEN {"system"} ELSE {}) \cup
    (IF m \in PumpUsers THEN {"msgPump", "system"} ELSE {}) \cup
    (IF m = "cube" THEN CubeUses ELSE {})

\* The linker sorts the pointers by level, not within a level.
Calls(m) == m \in todo /\ \A n \in todo : Level(m) <= Level(n)

\* The interrupt of TIM2 has the highest priority.
Interrupted == clock /\ uif

-----------------------------------------------------------------------------
(* The system time                                                         *)

getSystemTimeUS == high * Period + cnt

Stop ==
    /\ clock' = FALSE /\ uif' = FALSE
    /\ psc' = 0 /\ cnt' = 0 /\ since' = 0 /\ elapsed' = 0

\* systemTime_init clears the flag that TIM_EGR_UG raised before it enables
\* the interrupt.
StartClock ==
    /\ clock' = TRUE /\ psc' = 0 /\ cnt' = 0 /\ high' = 0 /\ elapsed' = 0
    /\ uif' = FALSE
    /\ UNCHANGED since

Lasts ==
    IF Booted THEN elapsed < MaxUptime
    ELSE elapsed < BootTime + (IF main = "wait" THEN ResetTime * (PerUs + 1) ELSE 0)

\* Mutant: the timer gets no clock, RCC_APB1ENR_TIM2EN is not set.
TickUnclocked == clock /\ UNCHANGED vars

\* Mutant: PSC is zero, the counter counts every cycle.
CountUnscaled ==
    /\ psc' = 0
    /\ cnt' = (cnt + 1) % Period
    /\ uif' = (uif \/ cnt + 1 = Period)

\* systemTime_init sets PSC to PerUs: the timer divides its clock by PSC + 1.
Count ==
    \/ /\ psc < PerUs
       /\ psc' = psc + 1
       /\ UNCHANGED <<cnt, uif>>
    \/ /\ psc = PerUs
       /\ psc' = 0
       /\ cnt' = (cnt + 1) % Period
       /\ uif' = (uif \/ cnt + 1 = Period)

Tick ==
    /\ clock /\ Lasts
    /\ Count
    /\ elapsed' = elapsed + 1
    /\ UNCHANGED <<todo, ready, main, config, clock, high, since, losses>>

\* tim2_isr leaves the flag in TIM2_SR.
Isr ==
    /\ Interrupted
    /\ high' = (high + 1) % HighWrap
    /\ UNCHANGED <<todo, ready, main, config, clock, psc, cnt, uif, since, elapsed, losses>>

-----------------------------------------------------------------------------
(* The configuration                                                       *)

\* Mutant: the controller stays locked.
StartUpdateLocked == main' = "erase" /\ cursor' = 1 /\ UNCHANGED locked

StartUpdate == main' = "erase" /\ cursor' = 1 /\ locked' = FALSE

\* The first loop of config_updateToFlash, which interrupts may overtake.
Compare ==
    /\ main = "compare"
    /\ IF ram[cursor] # rom[cursor]
       THEN StartUpdate
       ELSE /\ cursor < NumWords => main' = "compare" /\ cursor' = cursor + 1
            /\ cursor = NumWords => main' = "run" /\ cursor' = cursor
            /\ UNCHANGED locked
    /\ UNCHANGED <<todo, ready, ram, rom, asked, dirty, cut, time, losses>>

\* A locked controller ignores what is written to it.
Erase ==
    /\ main = "erase"
    /\ main' = "program"
    /\ rom' = IF locked THEN rom ELSE Erased
    /\ UNCHANGED <<todo, ready, cursor, ram, locked, asked, dirty, cut, time, losses>>

Programmed == [rom EXCEPT ![cursor] = @ \cap ram[cursor]]

\* Mutant: the loop takes one half word too many.
NextWordBeyond ==
    /\ cursor' = cursor + 1
    /\ IF cursor <= NumWords
       THEN main' = "program" /\ UNCHANGED cut
       ELSE main' = "lock" /\ cut' = FALSE

NextWord ==
    IF cursor < NumWords
    THEN main' = "program" /\ cursor' = cursor + 1 /\ UNCHANGED cut
    ELSE main' = "lock" /\ cut' = FALSE /\ UNCHANGED cursor

\* flash_program_half_word reads the variable when its turn comes.
Program ==
    /\ main = "program"
    /\ rom' = IF locked THEN rom ELSE Programmed
    /\ asked' = IF Booted THEN [asked EXCEPT ![cursor] = ram[cursor]] ELSE asked
    /\ dirty' = dirty \ {cursor}
    /\ NextWord
    /\ UNCHANGED <<todo, ready, ram, locked, time, losses>>

Lock ==
    /\ main = "lock"
    /\ main' = "run"
    /\ locked' = TRUE
    /\ UNCHANGED <<todo, ready, cursor, ram, rom, asked, dirty, cut, time, losses>>

\* The application changes a variable, from any context.
Set ==
    /\ Booted
    /\ \E w \in Words, v \in SUBSET Bits :
          /\ ram' = [ram EXCEPT ![w] = v]
          /\ dirty' = dirty \cup {w}
    /\ UNCHANGED <<todo, ready, main, cursor, rom, locked, asked, cut, time, losses>>

Update ==
    /\ Booted /\ main = "run"
    /\ main' = "compare" /\ cursor' = 1
    /\ UNCHANGED <<todo, ready, ram, rom, locked, asked, dirty, cut, time, losses>>

-----------------------------------------------------------------------------
(* The init functions                                                      *)

Called(m) ==
    /\ main = "run" /\ Calls(m)
    /\ todo' = todo \ {m}

\* Clears the RAM from its begin up to the stack.
MemoryInit ==
    /\ Called("memory")
    /\ ready' = (ready \ InRam) \cup {"memory"}
    /\ ram' = Zeroed
    /\ high' = 0
    /\ dirty' = Words
    /\ UNCHANGED <<main, cursor, rom, locked, asked, cut, clock, psc, cnt, uif, since,
                   elapsed, losses>>

SystemTimeInit ==
    /\ Called("systemTime")
    /\ ready' = ready \cup {"systemTime"}
    /\ StartClock
    /\ UNCHANGED <<main, config, losses>>

\* Mutant: the zeroed variables are written instead of the flash read.
LoadNot == UNCHANGED <<ram, dirty>> /\ main' = "erase" /\ cursor' = 1 /\ locked' = FALSE

\* readCurrentConfigurationFromFlash, then config_updateToFlash finds nothing
\* to write.
Load ==
    /\ ram' = rom
    /\ dirty' = {}
    /\ main' = "run"
    /\ UNCHANGED <<cursor, locked>>

ConfigurationInit ==
    /\ Called("configuration")
    /\ ready' = ready \cup {"configuration"}
    /\ Load
    /\ UNCHANGED <<rom, asked, cut, time, losses>>

\* cube_init up to its wait for the transistors.
CubeInit ==
    /\ Called("cube")
    /\ main' = "wait"
    /\ since' = getSystemTimeUS
    /\ UNCHANGED <<ready, config, clock, psc, cnt, uif, high, elapsed, losses>>

\* The rest of cube_init.
CubeReady ==
    /\ main = "wait"
    /\ getSystemTimeUS >= since + ResetTime
    /\ main' = "run"
    /\ ready' = ready \cup {"cube"}
    /\ UNCHANGED <<todo, config, time, losses>>

OtherInit ==
    \E m \in todo \ {"memory", "systemTime", "configuration", "cube"} :
        /\ Called(m)
        /\ ready' = ready \cup {m}
        /\ UNCHANGED <<main, config, time, losses>>

-----------------------------------------------------------------------------

\* What a loss of power leaves of the sector being erased, or of the half word
\* being programmed.
Remains ==
    IF locked THEN {rom}
    ELSE IF main = "erase" THEN Contents
    ELSE IF main = "program"
    THEN {[rom EXCEPT ![cursor] = bits] :
              bits \in {b \in SUBSET rom[cursor] : rom[cursor] \cap ram[cursor] \subseteq b}}
    ELSE {rom}

PowerLoss ==
    /\ losses < MaxLosses
    /\ losses' = losses + 1
    /\ todo' = Modules /\ ready' = {} /\ main' = "run"
    /\ rom' \in Remains
    /\ cut' = (cut \/ Updating)
    /\ ram' \in Contents /\ dirty' = Words
    /\ high' \in 0 .. HighWrap - 1
    /\ locked' = TRUE /\ cursor' = 1
    /\ Stop
    /\ UNCHANGED asked

Init ==
    /\ todo = Modules /\ ready = {} /\ main = "run"
    /\ rom \in Contents /\ asked = rom /\ cut = FALSE
    /\ ram \in Contents /\ dirty = Words
    /\ locked = TRUE /\ cursor = 1
    /\ clock = FALSE /\ uif = FALSE /\ psc = 0 /\ cnt = 0 /\ since = 0 /\ elapsed = 0
    /\ high \in 0 .. HighWrap - 1
    /\ losses = 0

Boot == MemoryInit \/ SystemTimeInit \/ ConfigurationInit \/ CubeInit \/ CubeReady
        \/ OtherInit

Main == ~Interrupted /\ (Boot \/ Compare \/ Erase \/ Program \/ Lock)

Application == ~Interrupted /\ (Set \/ Update)

Next == Main \/ Application \/ Tick \/ Isr \/ PowerLoss

Spec == Init /\ [][Next]_vars

\* The main thread goes on and the counter counts.
FairSpec == Spec /\ WF_vars(Main) /\ WF_vars(Tick)

-----------------------------------------------------------------------------
(* Properties                                                              *)

\* The cursor stays in the section, the set of ready modules and the flags
\* keep their types.
TypeOK ==
    /\ todo \subseteq Modules /\ ready \subseteq Modules
    /\ main \in {"run", "wait", "compare", "erase", "program", "lock"}
    /\ cursor \in Words
    /\ ram \in Contents /\ rom \in Contents /\ asked \in Contents
    /\ dirty \subseteq Words
    /\ locked \in BOOLEAN /\ clock \in BOOLEAN /\ uif \in BOOLEAN /\ cut \in BOOLEAN
    /\ psc \in 0 .. PerUs /\ cnt \in Nat /\ since \in Nat /\ elapsed \in Nat /\ losses \in Nat
    /\ high \in 0 .. HighWrap - 1

\* Whatever the order the linker gives the init functions of a level, an init
\* function runs after those of the modules it uses, and after the RAM that
\* holds their state was cleared.  msgPump_init may run before system_init: the
\* mutex it takes needs no more than the cleared counter.
UsedAfterInit ==
    \A m \in ready \cup (IF main = "wait" THEN {"cube"} ELSE {}) :
        \A u \in Uses(m) : u \in ready \/ (u \in OnlyCleared /\ "memory" \in ready)

\* What the application had written to flash is what the flash holds, over
\* updates, starts and losses of power, unless the power failed during the
\* update itself.
Kept == ~Updating /\ ~cut => rom = asked

\* A variable that was not changed since the start or the last update equals
\* its copy in flash; after a torn update too.
InStep ==
    "configuration" \in ready /\ main \in {"run", "wait", "compare"} =>
        \A w \in Words \ dirty : ram[w] = rom[w]

\* Until the counter overflows for the first time, a unit of the system time is
\* PerUs + 1 cycles, where a microsecond has PerUs: it is never ahead of the
\* true time, and falls behind by one in 85 and never by more.
TimeLags ==
    clock /\ elapsed < Period * (PerUs + 1) =>
        /\ getSystemTimeUS * (PerUs + 1) <= elapsed
        /\ elapsed < (getSystemTimeUS + 1) * (PerUs + 1)

\* systemTime.h: the system time is in microseconds, in 64 bits.  It never
\* runs ahead of the time that has passed.
TimeNeverAhead == clock => getSystemTimeUS * PerUs <= elapsed

\* The firmware gets to its main loop, after every loss of power.
Boots == []<>Booted

=============================================================================
