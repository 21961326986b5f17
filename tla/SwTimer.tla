------------------------------ MODULE SwTimer ------------------------------
(***************************************************************************)
(* The software timers (framework/flawless/timer/swTimer.c) on the one     *)
(* hardware timer TIM5 (target/stm32f4/hwTimer.c), and the code that uses  *)
(* them (target/stm32f4/cube.c) reduced to which timer starts which.       *)
(*                                                                         *)
(* A handle counts down the ticks to the call of its callback.  The        *)
(* hardware timer counts up from its last setup and raises its interrupt   *)
(* when it reaches the compare value.  Three contexts run this code:       *)
(*   - the main thread registers and unregisters timers; it can be         *)
(*     interrupted between the locked sections of a registration;          *)
(*   - tim5_isr runs swTimer_trigger, which calls the callbacks of expired *)
(*     handles with the mutex held; it can be interrupted between handles; *)
(*   - exti0_isr, the button, has the highest priority and registers the   *)
(*     timer that ends its debounce interval in one piece.                 *)
(* Time passes between any two steps and in the middle of a registration   *)
(* nobody interrupts; what passes between the reading of the elapsed ticks *)
(* and the setup that resets the counter is lost to all handles.  A match  *)
(* raises the interrupt at any time, during a trigger for one more of them *)
(* after it: neither a setup nor tim5_isr's last statement takes back an   *)
(* interrupt that is pending in the NVIC.                                  *)
(* Intervals stay below 2^32 ticks (the prescaler of TIM5 is 0), and so    *)
(* does the counter.                                                       *)
(***************************************************************************)
EXTENDS Integers, FiniteSets

CONSTANTS
    MaxHandles,     \* SW_TIMER_MAX_HANDLES
    Callback, NoCallback,
    Interval,       \* ticks of each timer
    OneShot,        \* is the timer a one-shot?
    Starts,         \* the timer a callback registers, or NoCallback
    ThreadTimers,   \* timers the main thread registers
    Posts,          \* callbacks that post a message with a copy, see TriggerPosted
    ButtonTimer,    \* the timer exti0_isr registers
    MinRegister, MinTrigger,  \* "just some minimal time" of a setup
    Forever,        \* 0x7fffffffffffffff: no handle seen, beyond every counter
    MaxBusy         \* bound: ticks of a timer that pass while this code runs

ASSUME TimerAssumption ==
    /\ MaxHandles \in Nat
    /\ NoCallback \notin Callback
    /\ Interval \in [Callback -> Nat \ {0}]
    /\ OneShot \in [Callback -> BOOLEAN]
    /\ Starts \in [Callback -> Callback \cup {NoCallback}]
    /\ ThreadTimers \subseteq Callback
    /\ ButtonTimer \in Callback
    /\ MinRegister \in Nat \ {0} /\ MinTrigger \in Nat \ {0}
    /\ Posts \subseteq Callback
    /\ Forever \notin Int
    /\ MaxBusy \in Nat

VARIABLES
    handles,     \* g_swTimerHandles
    elapsed,     \* ticks since the last setup of the hardware timer
    compare,     \* its compare value, Passed when no match is ahead
    pending,     \* the interrupt of TIM5 is pending
    thread,      \* the registration the main thread is in
    trigger,     \* the swTimer_trigger under way
    masked,      \* the button's interrupt is masked
    wanted,      \* timers registered and not yet over
    age,         \* ticks since a timer was registered or its last call was due
    spent        \* ticks spent in this code since it was registered, see Tick

vars == <<handles, elapsed, compare, pending, thread, trigger, masked, wanted, age, spent>>

Slots   == 1 .. MaxHandles
Passed  == 0
Handle  == [callback : Callback \cup {NoCallback}, tickCounter : Int]
Unused  == [callback |-> NoCallback, tickCounter |-> 0]

\* An activity's place in its loop over the handles: its copy of the elapsed
\* ticks and the smallest counter seen so far.
Resting  == [pc |-> "rest", i |-> 1, ticks |-> 0, next |-> Forever]
Activity == [pc : {"rest", "read", "loop", "posted"}, i : 1 .. MaxHandles + 1,
             ticks : Nat, next : Int \cup {Forever}]

Init == /\ handles = [i \in Slots |-> Unused]
        /\ elapsed = 0 /\ compare = Passed /\ pending = FALSE
        /\ thread = Resting /\ trigger = Resting
        /\ masked = FALSE
        /\ wanted = {}
        /\ age = [cb \in Callback |-> 0] /\ spent = [cb \in Callback |-> 0]

-----------------------------------------------------------------------------
(* Handles and the hardware timer                                          *)

Smaller(x, y) == IF x # Forever /\ x < y THEN x ELSE y
Larger(x, y)  == IF x > y THEN x ELSE y

Active(h) == {i \in Slots : h[i].callback # NoCallback}

\* The callbacks in use, and the handles with the smallest counter.
InUse(h)  == {h[i].callback : i \in Active(h)}
Nearest(h) == {i \in Active(h) : \A j \in Active(h) : h[i].tickCounter <= h[j].tickCounter}

\* The handle a registration uses: the callback's own or the first free one.
First(S) == {i \in S : \A j \in S : i <= j}

Holding(h, cb) == {i \in Slots : h[i].callback = cb}

\* (mutant) the search stops at the first free handle
SlotForStopsEarly(h, cb) == First(Holding(h, cb) \cup Holding(h, NoCallback))

SlotFor(h, cb) == IF Holding(h, cb) # {} THEN First(Holding(h, cb))
                  ELSE First(Holding(h, NoCallback))

\* The locked part of a registration.
Entered(h, cb, start) ==
    [i \in Slots |-> IF i \in SlotFor(h, cb)
                     THEN [callback |-> cb, tickCounter |-> Interval[cb] + start]
                     ELSE h[i]]

\* (mutant) the time since the last setup is not counted
CountedDownNever(h, ticks) == h

\* Every handle in use is counted down by the ticks elapsed.
CountedDown(h, ticks) ==
    [i \in Slots |-> IF i \in Active(h) THEN [h[i] EXCEPT !.tickCounter = @ - ticks]
                     ELSE h[i]]

\* A registration nobody interrupts reads the elapsed ticks twice.
Registered(h, cb, start, now) == CountedDown(Entered(h, cb, start), now)

\* hw_timerSetupTimer: counts from 0 again.  An interrupt that is pending
\* already stays pending.
Setup(ticks) == elapsed' = 0 /\ compare' = ticks

\* (mutant) a counter that ran out is not set up again
SetupForFutureOnly(next, least) == IF next # Forever /\ next > 0 THEN Setup(Larger(next, least))
                                   ELSE UNCHANGED <<elapsed, compare>>

\* (mutant) the minimum is forgotten
SetupForNoMinimum(next, least) == IF next # Forever THEN Setup(next)
                                  ELSE UNCHANGED <<elapsed, compare>>

SetupFor(next, least) == IF next # Forever THEN Setup(Larger(next, least))
                         ELSE UNCHANGED <<elapsed, compare>>

\* The setup a registration nobody interrupts ends with.
SetupForNearest(h) == IF Active(h) = {} THEN UNCHANGED <<elapsed, compare>>
                      ELSE \E i \in Nearest(h) : SetupFor(h[i].tickCounter, MinRegister)

-----------------------------------------------------------------------------
(* Time                                                                    *)

\* Ticks pass for the timers that are registered then.
Aging(f, n) == [cb \in Callback |-> IF cb \in wanted' THEN f[cb] + n ELSE 0]

\* The code is at work, or its interrupt waits for the code it may not interrupt.
Busy == thread.pc # "rest" \/ trigger.pc # "rest" \/ pending

\* The hardware timer runs for the minimal time of a registration: a handle that
\* had run out is called that much later.
Minimal == compare \in 1 .. MinRegister

\* The bound: so many ticks of each timer pass while the code is at work.
Spare(n) == \A cb \in wanted : spent[cb] + n <= MaxBusy

\* One tick of TIM5.
Tick ==
    /\ compare # Passed \/ Busy
    /\ wanted # {} /\ (Busy => Spare(1))
    /\ elapsed' = elapsed + 1
    /\ pending' = (pending \/ elapsed' = compare)
    /\ compare' = IF elapsed' = compare THEN Passed ELSE compare
    /\ UNCHANGED <<handles, thread, trigger, masked, wanted>>
    /\ age' = Aging(age, 1)
    /\ spent' = IF Busy \/ Minimal THEN Aging(spent, 1) ELSE spent

\* A registration nobody interrupts takes n ticks, d of them before it reads the
\* elapsed ticks for the second time; the others are lost.
RegisterAtOnce(h, cb, n) ==
    /\ \E d \in 0 .. n : handles' = Registered(h, cb, elapsed, elapsed + d)
    /\ pending' = (pending \/ compare \in 1 .. elapsed + n)
    /\ SetupForNearest(handles')

Durations == {n \in 0 .. MaxBusy : n = 0 \/ Spare(n)}

-----------------------------------------------------------------------------
(* The main thread: swTimer_registerOnTimerUS, swTimer_unRegisterFromTimer *)

ThreadRuns == trigger.pc = "rest"

ThreadRegister(cb) ==
    /\ ThreadRuns /\ thread.pc = "rest" /\ Spare(1)
    /\ handles' = Entered(handles, cb, elapsed)
    /\ thread' = [thread EXCEPT !.pc = "read"]
    /\ wanted' = wanted \cup {cb}
    /\ age' = [age EXCEPT ![cb] = 0] /\ spent' = [spent EXCEPT ![cb] = 0]
    /\ UNCHANGED <<elapsed, compare, pending, trigger, masked>>

ThreadReadElapsed ==
    /\ ThreadRuns /\ thread.pc = "read"
    /\ thread' = [pc |-> "loop", i |-> 1, ticks |-> elapsed, next |-> Forever]
    /\ UNCHANGED <<handles, elapsed, compare, pending, trigger, masked, wanted, age, spent>>

ThreadCountDown ==
    /\ ThreadRuns /\ thread.pc = "loop" /\ thread.i \in Slots
    /\ IF thread.i \in Active(handles)
       THEN /\ handles' = [handles EXCEPT ![thread.i].tickCounter = @ - thread.ticks]
            /\ thread' = [thread EXCEPT !.i = @ + 1,
                            !.next = Smaller(@, handles'[thread.i].tickCounter)]
       ELSE thread' = [thread EXCEPT !.i = @ + 1] /\ UNCHANGED handles
    /\ UNCHANGED <<elapsed, compare, pending, trigger, masked, wanted, age, spent>>

ThreadSetup ==
    /\ ThreadRuns /\ thread.pc = "loop" /\ thread.i \notin Slots
    /\ SetupFor(thread.next, MinRegister)
    /\ thread' = Resting
    /\ UNCHANGED <<handles, pending, trigger, masked, wanted, age, spent>>

ThreadUnregister(cb) ==
    /\ ThreadRuns /\ thread.pc = "rest"
    /\ \E i \in First(Holding(handles, cb)) :
         handles' = [handles EXCEPT ![i].callback = NoCallback]
    /\ wanted' = wanted \ {cb}
    /\ age' = [age EXCEPT ![cb] = 0] /\ spent' = [spent EXCEPT ![cb] = 0]
    /\ UNCHANGED <<elapsed, compare, pending, thread, trigger, masked>>

-----------------------------------------------------------------------------
(* tim5_isr: swTimer_trigger                                               *)

TriggerStarts ==
    /\ trigger.pc = "rest" /\ pending
    /\ pending' = FALSE
    /\ trigger' = [pc |-> "loop", i |-> 1, ticks |-> elapsed, next |-> Forever]
    /\ UNCHANGED <<handles, elapsed, compare, thread, masked, wanted, age, spent>>

Expired(i) == i \in Active(handles) /\ handles[i].tickCounter <= trigger.ticks

Seen(h, i) == [trigger EXCEPT !.i = i + 1,
                 !.next = IF i \in Active(h) THEN Smaller(@, h[i].tickCounter) ELSE @]

\* One handle that has not run out.
TriggerPasses ==
    /\ trigger.pc = "loop" /\ trigger.i \in Slots /\ ~Expired(trigger.i)
    /\ handles' = IF trigger.i \in Active(handles)
                  THEN [handles EXCEPT ![trigger.i].tickCounter = @ - trigger.ticks]
                  ELSE handles
    /\ trigger' = Seen(handles', trigger.i)
    /\ UNCHANGED <<elapsed, compare, pending, thread, masked, wanted, age, spent>>

\* What is left of the ticks since a timer was due when it is called.
Left(cb) == IF OneShot[cb] THEN 0 ELSE Larger(0, age[cb] - Interval[cb])

\* One handle that has: a periodic one is scheduled again, a one-shot is
\* removed, then the callback runs with the mutex held.  The timer it starts
\* counts down all handles and sets the hardware timer up.
TriggerCalls ==
    /\ trigger.pc = "loop" /\ trigger.i \in Slots /\ Expired(trigger.i)
    /\ LET i  == trigger.i
           cb == handles[i].callback
           h  == [handles EXCEPT ![i] =
                    IF OneShot[cb] THEN [callback |-> NoCallback,
                                         tickCounter |-> @.tickCounter - trigger.ticks]
                    ELSE [callback |-> cb,
                          tickCounter |-> @.tickCounter - trigger.ticks + Interval[cb]]]
           started == Starts[cb]
       IN /\ wanted' = (wanted \ (IF OneShot[cb] THEN {cb} ELSE {}))
                         \cup ({started} \ {NoCallback})
          /\ masked' = (masked /\ cb # ButtonTimer)
          /\ \E n \in Durations :
               /\ IF started = NoCallback
                  THEN n = 0 /\ handles' = h /\ UNCHANGED <<elapsed, compare, pending>>
                  ELSE RegisterAtOnce(h, started, n)
               /\ age' = Aging([c \in Callback |->
                            IF c = started THEN 0 ELSE IF c = cb THEN Left(cb) ELSE age[c]], n)
               /\ spent' = Aging([c \in Callback |->
                              IF c = started THEN 0 ELSE spent[c]], n)
          /\ trigger' = IF cb \in Posts THEN [trigger EXCEPT !.pc = "posted", !.i = i + 1]
                        ELSE Seen(handles', i)
    /\ UNCHANGED thread

\* A post with a copy ends the mutex its caller holds (MsgPump): exti0_isr may run
\* between the callback and the look at the handle it belongs to.
TriggerPosted ==
    /\ trigger.pc = "posted"
    /\ trigger' = [Seen(handles, trigger.i - 1) EXCEPT !.pc = "loop"]
    /\ UNCHANGED <<handles, elapsed, compare, pending, thread, masked, wanted, age, spent>>

TriggerEnds ==
    /\ trigger.pc = "loop" /\ trigger.i \notin Slots
    /\ SetupFor(trigger.next, MinTrigger)
    /\ trigger' = Resting
    /\ UNCHANGED <<handles, pending, thread, masked, wanted, age, spent>>

-----------------------------------------------------------------------------
(* exti0_isr                                                               *)

\* The interrupt is masked until the debounce timer's callback.
ButtonPressed ==
    /\ ~masked /\ Spare(1)
    /\ masked' = TRUE
    /\ wanted' = wanted \cup {ButtonTimer}
    /\ \E n \in Durations : /\ RegisterAtOnce(handles, ButtonTimer, n)
                            /\ age' = Aging([age EXCEPT ![ButtonTimer] = 0], n)
                            /\ spent' = Aging([spent EXCEPT ![ButtonTimer] = 0], n)
    /\ UNCHANGED <<thread, trigger>>

-----------------------------------------------------------------------------
ThreadStep  == \/ ThreadReadElapsed \/ ThreadCountDown \/ ThreadSetup
TriggerStep == TriggerStarts \/ TriggerPasses \/ TriggerCalls \/ TriggerPosted \/ TriggerEnds

Next == \/ \E cb \in ThreadTimers : ThreadRegister(cb) \/ ThreadUnregister(cb)
        \/ ThreadStep \/ TriggerStep
        \/ ButtonPressed
        \/ Tick

Spec == Init /\ [][Next]_vars

\* Time passes, interrupt handlers run to their end, and interrupts leave the
\* main thread time for the registration it is in.
Fairness == SF_vars(Tick) /\ WF_vars(TriggerStep) /\ SF_vars(ThreadStep)

FairSpec == Spec /\ Fairness

-----------------------------------------------------------------------------
(* Properties                                                              *)

TypeOK ==
    /\ handles \in [Slots -> Handle]
    /\ elapsed \in Nat /\ compare \in Nat /\ pending \in BOOLEAN
    /\ thread \in Activity /\ trigger \in Activity
    /\ masked \in BOOLEAN
    /\ wanted \subseteq Callback
    /\ age \in [Callback -> Nat] /\ spent \in [Callback -> Nat]

\* A timer that was registered and is not over is in exactly one handle, and
\* no other handle is in use: registrations from the main thread, callbacks and
\* the button never duplicate a timer, overwrite another or get lost.
OneHandleEach ==
    /\ \A i, j \in Active(handles) : handles[i].callback = handles[j].callback => i = j
    /\ InUse(handles) = wanted

\* While no registration and no trigger is under way, a timer in use has the
\* hardware timer running towards a match, or its interrupt pending.
Armed == thread.pc = "rest" /\ trigger.pc = "rest" /\ Active(handles) # {}
           => compare # Passed \/ pending

\* Whatever is registered in between, a timer is called at most one interval of
\* another timer late, and later than that only by the ticks spent in this code:
\* what swTimer_trigger and the registrations lose of the time is not made up for.
MaxInterval == CHOOSE m \in {Interval[cb] : cb \in Callback} :
                 \A cb \in Callback : Interval[cb] <= m
BoundedLateness ==
    \A cb \in wanted : age[cb] <= Interval[cb] + MaxInterval + spent[cb]

\* The button is masked by its interrupt handler and comes back.
ButtonComesBack == masked ~> ~masked

\* swTimer.c:71, "now update all timers according to the time passed", and
\* cubeConfig.h:19, "20 updates per second": a periodic timer is not called
\* before the ticks of its interval have passed.
NeverEarly == trigger.pc = "loop" /\ trigger.i \in Slots /\ Expired(trigger.i) =>
                LET cb == handles[trigger.i].callback
                IN  OneShot[cb] \/ age[cb] >= Interval[cb]
=============================================================================
