--------------------------- MODULE SwTimerProofs ---------------------------
(***************************************************************************)
(* Theorems about the software timers, for every set of timers, every      *)
(* interval and every size of the table of handles.                        *)
(***************************************************************************)
EXTENDS SwTimer, FiniteSetTheorems, WellFoundedInduction, TLAPS

-----------------------------------------------------------------------------
(* Handles                                                                 *)

LEMMA SlotsFinite ==
    Slots \subseteq Nat /\ IsFiniteSet(Slots) /\ Cardinality(Slots) = MaxHandles
<1>1. MaxHandles \in Nat
  BY TimerAssumption
<1>2. /\ IsFiniteSet(1 .. MaxHandles)
      /\ Cardinality(1 .. MaxHandles) = IF 1 > MaxHandles THEN 0 ELSE MaxHandles - 1 + 1
  BY <1>1, FS_Interval, 1 \in Int, MaxHandles \in Int
<1> QED
  BY <1>1, <1>2 DEF Slots

\* A search through the handles finds a first one, if it finds any: the sets
\* of elements up to i have a smallest one, as strict inclusion is well-founded
\* on finite sets.
LEMMA FirstExists ==
    ASSUME NEW S \in SUBSET Slots, S # {}
    PROVE  \E m \in S : m \in First(S)
<1> DEFINE upTo(i) == {j \in S : j <= i}
           T == {upTo(i) : i \in S}
<1>1. IsFiniteSet(S) /\ S \subseteq Nat
  BY SlotsFinite, FS_Subset
<1>2. FiniteSubsetsOf(S) = SUBSET S
  BY <1>1, FS_FiniteSubsetsOfFinite
<1>3. IsWellFoundedOn(StrictSubsetOrdering(S), SUBSET S)
  BY <1>2, FS_StrictSubsetOrderingWellFounded
<1>4. T \subseteq SUBSET S /\ T # {}
  OBVIOUS
<1>5. PICK X \in T : \A Y \in T : ~ (<<Y, X>> \in StrictSubsetOrdering(S))
  <2> HIDE DEF T
  <2> QED
    BY <1>3, <1>4, WFMin
<1>6. PICK m \in S : X = upTo(m)
  BY <1>5
<1>7. ASSUME NEW j \in S PROVE m <= j
  <2>1. SUFFICES ASSUME j < m PROVE FALSE
    BY <1>1, <2>1
  <2> m \in Nat /\ j \in Nat /\ \A i \in S : i \in Nat
    BY <1>1
  <2>2. upTo(j) \subseteq upTo(m) /\ upTo(j) # upTo(m)
    <3>1. upTo(j) \subseteq upTo(m)
      <4>1. \A i \in S : i <= j => i <= m
        BY <1>1, <2>1
      <4> QED
        BY <4>1
    <3>2. m \in upTo(m) /\ m \notin upTo(j)
      BY <2>1
    <3> QED
      BY <3>1, <3>2
  <2>3. <<upTo(j), upTo(m)>> \in StrictSubsetOrdering(S)
    BY <2>2 DEF StrictSubsetOrdering
  <2> QED
    BY <1>5, <1>6, <2>3
<1> QED
  BY <1>7 DEF First

\* Any two elements a search finds first are the same.
LEMMA FirstUnique ==
    ASSUME NEW S \in SUBSET Slots, NEW i \in First(S), NEW j \in First(S)
    PROVE  i = j /\ i \in S
BY TimerAssumption DEF First, Slots

Handles   == [Slots -> Handle]
Unique(h) == \A i, j \in Active(h) : h[i].callback = h[j].callback => i = j

\* There is a handle for every timer of the program.
TableFits == IsFiniteSet(Callback) /\ Cardinality(Callback) <= MaxHandles

\* A callback that is in no handle finds a free one, if the others take at
\* most one each.
LEMMA FreeHandle ==
    ASSUME NEW h \in Handles, NEW cb \in Callback, TableFits, Unique(h),
           Holding(h, cb) = {}
    PROVE  Holding(h, NoCallback) # {}
<1> SUFFICES ASSUME Holding(h, NoCallback) = {} PROVE FALSE
  OBVIOUS
<1> DEFINE f == [i \in Slots |-> h[i].callback]
           U == Callback \ {cb}
<1>1. f \in [Slots -> U]
  BY DEF Handles, Handle, Holding
<1>2. IsFiniteSet(U) /\ Cardinality(U) = Cardinality(Callback) - 1
  BY FS_RemoveElement DEF TableFits
<1>3. IsFiniteSet(Slots) /\ Cardinality(Slots) = MaxHandles
  BY SlotsFinite
<1>4. Cardinality(Callback) \in Nat
  BY FS_CardinalityType DEF TableFits
<1>5. Cardinality(U) < Cardinality(Slots)
  BY <1>2, <1>3, <1>4, TimerAssumption DEF TableFits
<1>6. PICK i, j \in Slots : i # j /\ f[i] = f[j]
  <2> HIDE DEF f, U
  <2> QED
    BY <1>1, <1>2, <1>3, <1>5, FS_PigeonHole
<1>7. i \in Active(h) /\ j \in Active(h)
  BY DEF Active, Holding
<1> QED
  BY <1>6, <1>7 DEF Unique

\* The handle of a registration is one handle, its own or a free one.
LEMMA SlotForOne ==
    ASSUME NEW h \in Handles, NEW cb \in Callback, TableFits, Unique(h)
    PROVE  \E s \in Slots :
              /\ SlotFor(h, cb) = {s}
              /\ h[s].callback \in {cb, NoCallback}
              /\ \A i \in Slots : h[i].callback = cb => i = s
<1>1. Holding(h, cb) \in SUBSET Slots /\ Holding(h, NoCallback) \in SUBSET Slots
  BY DEF Holding
<1>2. CASE Holding(h, cb) # {}
  <2>1. PICK s \in Holding(h, cb) : s \in First(Holding(h, cb))
    BY <1>1, <1>2, FirstExists
  <2>2. First(Holding(h, cb)) = {s}
    BY <1>1, <2>1, FirstUnique
  <2>3. \A i \in Slots : h[i].callback = cb => i = s
    BY <2>1, TimerAssumption DEF Holding, Unique, Active
  <2> QED
    BY <1>2, <2>1, <2>2, <2>3 DEF SlotFor, Holding
<1>3. CASE Holding(h, cb) = {}
  <2>1. PICK s \in Holding(h, NoCallback) : s \in First(Holding(h, NoCallback))
    BY <1>1, <1>3, FreeHandle, FirstExists
  <2>2. First(Holding(h, NoCallback)) = {s}
    BY <1>1, <2>1, FirstUnique
  <2> QED
    BY <1>3, <2>1, <2>2 DEF SlotFor, Holding
<1> QED
  BY <1>2, <1>3

\* A registration puts its timer in exactly one handle and leaves the handles of
\* the others alone.
LEMMA EnterHandle ==
    ASSUME NEW h \in Handles, NEW cb \in Callback, NEW now \in Nat, TableFits, Unique(h)
    PROVE  /\ Unique(Entered(h, cb, now))
           /\ InUse(Entered(h, cb, now)) = InUse(h) \cup {cb}
<1> DEFINE e == Entered(h, cb, now)
<1>1. PICK s \in Slots : /\ SlotFor(h, cb) = {s}
                         /\ h[s].callback \in {cb, NoCallback}
                         /\ \A i \in Slots : h[i].callback = cb => i = s
  BY SlotForOne
<1>2. e[s].callback = cb /\ \A i \in Slots \ {s} : e[i] = h[i]
  BY <1>1 DEF Entered
<1>3. Active(e) = Active(h) \cup {s}
  BY <1>2, TimerAssumption DEF Active
<1>4. Unique(e)
  <2> HIDE DEF e
  <2> QED
    BY <1>1, <1>2, <1>3 DEF Unique, Active
<1>5. InUse(e) = InUse(h) \cup {cb}
  <2> HIDE DEF e
  <2>1. ASSUME NEW c \in InUse(e) PROVE c \in InUse(h) \cup {cb}
    BY <2>1, <1>2, <1>3 DEF InUse, Active
  <2>2. ASSUME NEW i \in Active(h) PROVE h[i].callback \in InUse(e)
    <3>1. i \in Active(e) /\ e[i].callback = h[i].callback
      BY <1>1, <1>2, <1>3, <2>2 DEF Active
    <3> QED
      BY <3>1 DEF InUse
  <2>3. cb \in InUse(e)
    BY <1>2, <1>3 DEF InUse
  <2> QED
    BY <2>1, <2>2, <2>3 DEF InUse
<1> QED
  BY <1>4, <1>5

\* What matters of the handles but their counters.
SameCallbacks(g, h) == \A i \in Slots : g[i].callback = h[i].callback

LEMMA CallbacksOnly ==
    ASSUME NEW g, NEW h, SameCallbacks(g, h)
    PROVE  Active(g) = Active(h) /\ InUse(g) = InUse(h) /\ (Unique(g) <=> Unique(h))
<1>1. Active(g) = Active(h)
  BY DEF SameCallbacks, Active
<1>2. \A i \in Active(g) : g[i].callback = h[i].callback
  BY DEF SameCallbacks, Active
<1> QED
  BY <1>1, <1>2 DEF InUse, Unique

\* A handle that is given up takes its timer out of use.
LEMMA LeaveHandle ==
    ASSUME NEW g \in Handles, NEW h \in Handles, NEW s \in Active(h), Unique(h),
           g[s].callback = NoCallback, \A i \in Slots \ {s} : g[i].callback = h[i].callback
    PROVE  Unique(g) /\ InUse(g) = InUse(h) \ {h[s].callback}
<1>1. s \in Slots /\ Active(g) = Active(h) \ {s}
  BY DEF Active
<1>2. \A i \in Active(g) : g[i].callback = h[i].callback /\ h[i].callback # h[s].callback
  BY <1>1 DEF Unique, Active
<1>3. Unique(g)
  BY <1>1, <1>2 DEF Unique
<1>4. InUse(g) = InUse(h) \ {h[s].callback}
  BY <1>1, <1>2 DEF InUse
<1> QED
  BY <1>3, <1>4

-----------------------------------------------------------------------------
(* Types                                                                   *)

\* A registration keeps the type of the handles.
LEMMA RegisterType ==
    ASSUME NEW h \in Handles, NEW cb \in Callback, NEW start \in Nat, NEW now \in Nat
    PROVE  /\ Entered(h, cb, start) \in Handles
           /\ Registered(h, cb, start, now) \in Handles
           /\ SameCallbacks(Registered(h, cb, start, now), Entered(h, cb, start))
<1> DEFINE e == Entered(h, cb, start)
<1>1. Interval[cb] + start \in Int
  BY TimerAssumption
<1>2. e \in Handles
  BY <1>1 DEF Entered, Handles, Handle
<1>3. CountedDown(e, now) \in Handles /\ SameCallbacks(CountedDown(e, now), e)
  <2> HIDE DEF e
  <2>1. ASSUME NEW i \in Slots
        PROVE  /\ e[i].tickCounter - now \in Int
               /\ [e[i] EXCEPT !.tickCounter = @ - now] \in Handle
               /\ [e[i] EXCEPT !.tickCounter = @ - now].callback = e[i].callback
    <3>1. e[i] \in Handle
      BY <1>2 DEF Handles
    <3>2. e[i].tickCounter - now \in Int
      BY <3>1 DEF Handle
    <3> QED
      BY <3>1, <3>2 DEF Handle
  <2> QED
    BY <1>2, <2>1 DEF CountedDown, Handles, SameCallbacks
<1> QED
  BY <1>2, <1>3 DEF Registered

\* The hardware timer is set up with a time ahead.
LEMMA SetupType ==
    ASSUME NEW next \in Int \cup {Forever}, NEW least \in Nat \ {0},
           elapsed \in Nat, compare \in Nat, SetupFor(next, least)
    PROVE  /\ elapsed' \in Nat /\ compare' \in Nat
           /\ next # Forever \/ compare # Passed => compare' # Passed
BY DEF SetupFor, Setup, Larger, Passed

LEMMA NearestType ==
    ASSUME NEW h \in Handles, elapsed \in Nat, compare \in Nat, SetupForNearest(h)
    PROVE  /\ elapsed' \in Nat /\ compare' \in Nat
           /\ Active(h) # {} \/ compare # Passed => compare' # Passed
<1>1. CASE Active(h) = {}
  BY <1>1 DEF SetupForNearest
<1>2. CASE Active(h) # {}
  <2>1. PICK i \in Nearest(h) : SetupFor(h[i].tickCounter, MinRegister)
    BY <1>2 DEF SetupForNearest
  <2>2. h[i].tickCounter \in Int /\ h[i].tickCounter # Forever
    BY TimerAssumption DEF Nearest, Active, Handles, Handle
  <2>3. MinRegister \in Nat \ {0}
    BY TimerAssumption
  <2> QED
    BY <2>1, <2>2, <2>3, SetupType
<1> QED
  BY <1>1, <1>2

LEMMA SmallerType ==
    ASSUME NEW x \in Int \cup {Forever}, NEW y \in Int
    PROVE  Smaller(x, y) \in Int /\ Smaller(x, y) # Forever
BY TimerAssumption DEF Smaller

\* A registration in one piece, from the reading at its start to the setup.
LEMMA AtOnce ==
    ASSUME NEW h, NEW cb, NEW n \in Nat, elapsed \in Nat, pending \in BOOLEAN,
           RegisterAtOnce(h, cb, n)
    PROVE  /\ \E now \in Nat : elapsed <= now /\ handles' = Registered(h, cb, elapsed, now)
           /\ SetupForNearest(handles')
           /\ pending' \in BOOLEAN /\ (pending => pending')
<1>1. PICK d \in 0 .. n : handles' = Registered(h, cb, elapsed, elapsed + d)
  BY DEF RegisterAtOnce
<1>2. elapsed + d \in Nat /\ elapsed <= elapsed + d
  OBVIOUS
<1>3. pending' = (pending \/ compare \in 1 .. elapsed + n)
  BY DEF RegisterAtOnce
<1>4. pending' \in BOOLEAN /\ (pending => pending')
  BY <1>3, Zenon
<1> QED
  BY <1>1, <1>2, <1>4 DEF RegisterAtOnce

LEMMA AgingType ==
    ASSUME NEW f \in [Callback -> Nat], NEW n \in Nat
    PROVE  Aging(f, n) \in [Callback -> Nat]
<1>1. \A cb \in Callback : (IF cb \in wanted' THEN f[cb] + n ELSE 0) \in Nat
  OBVIOUS
<1> QED
  BY <1>1, Zenon DEF Aging

\* One handle the trigger has dealt with.
LEMMA SeenType ==
    ASSUME NEW h \in Handles, NEW i \in Slots, trigger \in Activity
    PROVE  /\ Seen(h, i) \in Activity
           /\ Seen(h, i).pc = trigger.pc /\ Seen(h, i).i = i + 1
           /\ i \in Active(h) \/ trigger.next # Forever => Seen(h, i).next # Forever
<1>1. i + 1 \in 1 .. MaxHandles + 1
  BY TimerAssumption DEF Slots
<1>2. trigger.next \in Int \cup {Forever}
  BY DEF Activity
<1>3. h[i].tickCounter \in Int
  BY DEF Handles, Handle
<1> DEFINE n == IF i \in Active(h) THEN Smaller(trigger.next, h[i].tickCounter) ELSE trigger.next
<1>4. n \in Int \cup {Forever} /\ (i \in Active(h) \/ trigger.next # Forever => n # Forever)
  BY <1>2, <1>3, SmallerType
<1>5. Seen(h, i) = [trigger EXCEPT !.i = i + 1, !.next = n]
  BY DEF Seen
<1> HIDE DEF n
<1> QED
  BY <1>1, <1>4, <1>5 DEF Activity

LEMMA RestingType == Resting \in Activity
BY TimerAssumption DEF Resting, Activity

\* One handle the trigger calls: what becomes of it before the callback runs.
After(i) == LET cb == handles[i].callback
            IN  [handles EXCEPT ![i] =
                    IF OneShot[cb] THEN [callback |-> NoCallback,
                                         tickCounter |-> @.tickCounter - trigger.ticks]
                    ELSE [callback |-> cb,
                          tickCounter |-> @.tickCounter - trigger.ticks + Interval[cb]]]

LEMMA AfterType ==
    ASSUME TypeOK, NEW i \in Active(handles)
    PROVE  /\ handles[i].callback \in Callback
           /\ After(i) \in Handles
           /\ After(i)[i].callback = IF OneShot[handles[i].callback] THEN NoCallback
                                     ELSE handles[i].callback
           /\ \A j \in Slots \ {i} : After(i)[j] = handles[j]
<1> DEFINE cb == handles[i].callback
           r == IF OneShot[cb] THEN [callback |-> NoCallback,
                                     tickCounter |-> handles[i].tickCounter - trigger.ticks]
                ELSE [callback |-> cb,
                      tickCounter |-> handles[i].tickCounter - trigger.ticks + Interval[cb]]
<1>1. i \in Slots /\ handles[i] \in Handle /\ cb \in Callback
  BY DEF TypeOK, Active, Handle
<1>2. handles[i].tickCounter \in Int /\ trigger.ticks \in Nat /\ Interval[cb] \in Nat
  BY <1>1, TimerAssumption DEF TypeOK, Handle, Activity
<1>3. r \in Handle /\ r.callback = IF OneShot[cb] THEN NoCallback ELSE cb
  BY <1>1, <1>2 DEF Handle
<1>4. After(i) = [handles EXCEPT ![i] = r]
  <2>1. CASE OneShot[cb]
    BY <1>1, <2>1 DEF After, TypeOK
  <2>2. CASE ~OneShot[cb]
    BY <1>1, <2>2 DEF After, TypeOK
  <2> QED
    BY <2>1, <2>2
<1> HIDE DEF r
<1> QED
  BY <1>1, <1>3, <1>4 DEF Handles, TypeOK

\* The ages at a call, before the ticks it takes.
AgesAt(cb) == [c \in Callback |-> IF c = Starts[cb] THEN 0 ELSE IF c = cb THEN Left(cb) ELSE age[c]]
SpentAt(cb) == [c \in Callback |-> IF c = Starts[cb] THEN 0 ELSE spent[c]]

LEMMA AgeType ==
    ASSUME age \in [Callback -> Nat], spent \in [Callback -> Nat], NEW cb \in Callback
    PROVE  AgesAt(cb) \in [Callback -> Nat] /\ SpentAt(cb) \in [Callback -> Nat]
<1>1. Left(cb) \in Nat
  BY TimerAssumption DEF Left, Larger
<1> QED
  BY <1>1 DEF AgesAt, SpentAt

\* TriggerCalls in the terms of these lemmas.
LEMMA CallsStep ==
    ASSUME TriggerCalls, elapsed \in Nat, pending \in BOOLEAN
    PROVE  LET i == trigger.i
               cb == handles[i].callback
               started == Starts[cb]
           IN /\ trigger.pc = "loop" /\ i \in Slots /\ i \in Active(handles)
              /\ IF started = NoCallback
                 THEN handles' = After(i) /\ UNCHANGED <<elapsed, compare, pending>>
                 ELSE /\ \E now \in Nat : /\ elapsed <= now
                                         /\ handles' = Registered(After(i), started, elapsed, now)
                      /\ SetupForNearest(handles')
              /\ pending' \in BOOLEAN /\ (pending => pending')
              /\ trigger' = IF cb \in Posts THEN [trigger EXCEPT !.pc = "posted", !.i = i + 1]
                            ELSE Seen(handles', i)
              /\ \E n \in Nat : age' = Aging(AgesAt(cb), n) /\ spent' = Aging(SpentAt(cb), n)
<1> DEFINE i == trigger.i
           cb == handles[i].callback
           started == Starts[cb]
<1>1. PICK n \in Durations :
         /\ IF started = NoCallback
            THEN n = 0 /\ handles' = After(i) /\ UNCHANGED <<elapsed, compare, pending>>
            ELSE RegisterAtOnce(After(i), started, n)
         /\ age' = Aging(AgesAt(cb), n) /\ spent' = Aging(SpentAt(cb), n)
  BY DEF TriggerCalls, After, AgesAt, SpentAt
<1>2. n \in Nat
  BY TimerAssumption DEF Durations
<1>3. /\ trigger.pc = "loop" /\ i \in Slots /\ i \in Active(handles)
      /\ trigger' = IF cb \in Posts THEN [trigger EXCEPT !.pc = "posted", !.i = i + 1]
                    ELSE Seen(handles', i)
  BY DEF TriggerCalls, Expired
<1>4. CASE started = NoCallback
  <2>1. pending' = pending
    BY <1>1, <1>4
  <2>2. pending' \in BOOLEAN /\ (pending => pending')
    BY <2>1, Zenon
  <2> QED
    BY <1>1, <1>2, <1>3, <1>4, <2>2
<1>5. CASE started # NoCallback
  <2>1. RegisterAtOnce(After(i), started, n)
    BY <1>1, <1>5
  <2>2. /\ \E now \in Nat : elapsed <= now /\ handles' = Registered(After(i), started, elapsed, now)
        /\ SetupForNearest(handles')
        /\ pending' \in BOOLEAN /\ (pending => pending')
    BY <1>2, <2>1, AtOnce
  <2> QED
    BY <1>1, <1>2, <1>3, <1>5, <2>2
<1> QED
  BY <1>4, <1>5

\* What the call of a callback leaves in the handles and the hardware timer.
LEMMA CallsType ==
    ASSUME TypeOK, TriggerCalls
    PROVE  /\ handles' \in Handles
           /\ elapsed' \in Nat /\ compare' \in Nat
           /\ compare # Passed => compare' # Passed
           /\ \/ handles' = After(trigger.i)
              \/ Active(handles') # {} => compare' # Passed
<1> DEFINE i == trigger.i
           started == Starts[handles[i].callback]
<1>0. elapsed \in Nat /\ pending \in BOOLEAN /\ compare \in Nat
  BY DEF TypeOK
<1>1. i \in Active(handles)
  BY <1>0, CallsStep
<1>2. After(i) \in Handles /\ handles[i].callback \in Callback
  BY <1>1, AfterType
<1>4. CASE started = NoCallback
  BY <1>0, <1>2, <1>4, CallsStep
<1>5. CASE started # NoCallback
  <2>1. started \in Callback
    BY <1>2, <1>5, TimerAssumption
  <2>2. PICK now \in Nat : handles' = Registered(After(i), started, elapsed, now)
    BY <1>0, <1>5, CallsStep
  <2>3. handles' \in Handles
    BY <1>0, <1>2, <2>1, <2>2, RegisterType
  <2>4. SetupForNearest(handles')
    BY <1>0, <1>5, CallsStep
  <2> QED
    BY <1>0, <2>3, <2>4, NearestType
<1> QED
  BY <1>4, <1>5

\* Where the call of a callback leaves the trigger.
LEMMA CallsTrigger ==
    ASSUME TypeOK, TriggerCalls
    PROVE  /\ trigger' \in Activity /\ trigger'.i = trigger.i + 1
           /\ trigger'.ticks = trigger.ticks
           /\ \/ trigger'.pc = "posted" /\ trigger'.next = trigger.next
              \/ trigger'.pc = "loop" /\ trigger' = Seen(handles', trigger.i)
<1>1. trigger.pc = "loop" /\ trigger.i \in Slots /\ trigger \in Activity /\ handles' \in Handles
      /\ (\/ trigger' = [trigger EXCEPT !.pc = "posted", !.i = trigger.i + 1]
          \/ trigger' = Seen(handles', trigger.i))
  BY CallsStep, CallsType DEF TypeOK
<1>2. trigger.i + 1 \in 1 .. MaxHandles + 1
  BY <1>1, TimerAssumption DEF Slots
<1>3. CASE trigger' = [trigger EXCEPT !.pc = "posted", !.i = trigger.i + 1]
  BY <1>1, <1>2, <1>3 DEF Activity
<1>4. CASE trigger' = Seen(handles', trigger.i)
  <2>1. Seen(handles', trigger.i).ticks = trigger.ticks
    BY <1>1 DEF Seen, Activity
  <2> QED
    BY <1>1, <1>4, <2>1, SeenType
<1> QED
  BY <1>1, <1>3, <1>4

LEMMA PostedTrigger ==
    ASSUME TypeOK, TriggerPosted
    PROVE  /\ trigger' \in Activity /\ trigger'.pc = "loop" /\ trigger'.i = trigger.i
           /\ trigger'.ticks = trigger.ticks
           /\ trigger'.next = IF trigger.i - 1 \in Active(handles)
                              THEN Smaller(trigger.next, handles[trigger.i - 1].tickCounter)
                              ELSE trigger.next
<1> DEFINE n == IF trigger.i - 1 \in Active(handles)
                THEN Smaller(trigger.next, handles[trigger.i - 1].tickCounter)
                ELSE trigger.next
<1>1. trigger' = [Seen(handles, trigger.i - 1) EXCEPT !.pc = "loop"]
  BY DEF TriggerPosted
<1>2. trigger \in Activity /\ trigger.i \in Int /\ (trigger.i - 1) + 1 = trigger.i
  BY TimerAssumption DEF TypeOK, Activity
<1>3. n \in Int \cup {Forever}
  <2>1. CASE trigger.i - 1 \in Active(handles)
    <3>1. handles[trigger.i - 1].tickCounter \in Int
      BY <2>1 DEF Active, TypeOK, Handle
    <3> QED
      BY <1>2, <2>1, <3>1, SmallerType DEF Activity
  <2>2. CASE trigger.i - 1 \notin Active(handles)
    BY <1>2, <2>2 DEF Activity
  <2> QED
    BY <2>1, <2>2
<1>4. Seen(handles, trigger.i - 1) = [trigger EXCEPT !.i = trigger.i, !.next = n]
  BY <1>2 DEF Seen
<1> HIDE DEF n
<1>5. trigger' \in Activity /\ trigger'.pc = "loop" /\ trigger'.i = trigger.i
      /\ trigger'.ticks = trigger.ticks /\ trigger'.next = n
  BY <1>1, <1>2, <1>3, <1>4 DEF Activity
<1> QED
  BY <1>5 DEF n

LEMMA TypeStep == TypeOK /\ [Next]_vars => TypeOK'
<1> SUFFICES ASSUME TypeOK, [Next]_vars PROVE TypeOK'
  OBVIOUS
<1> USE DEF TypeOK
<1>h. handles \in Handles
  BY DEF Handles
<1>1. ASSUME NEW cb \in ThreadTimers, ThreadRegister(cb) PROVE TypeOK'
  <2>1. cb \in Callback
    BY TimerAssumption
  <2>2. handles' \in Handles
    BY <1>h, <1>1, <2>1, RegisterType DEF ThreadRegister
  <2>3. thread' \in Activity
    BY <1>1 DEF ThreadRegister, Activity
  <2>4. age' \in [Callback -> Nat] /\ spent' \in [Callback -> Nat]
    BY <1>1, <2>1 DEF ThreadRegister
  <2> QED
    BY <1>1, <2>1, <2>2, <2>3, <2>4 DEF ThreadRegister, Handles
<1>2. ASSUME NEW cb \in ThreadTimers, ThreadUnregister(cb) PROVE TypeOK'
  <2>1. PICK i \in First(Holding(handles, cb)) :
           handles' = [handles EXCEPT ![i].callback = NoCallback]
    BY <1>2 DEF ThreadUnregister
  <2>2. i \in Slots
    BY <2>1 DEF First, Holding
  <2>3. handles' \in [Slots -> Handle]
    BY <2>1, <2>2 DEF Handle
  <2> QED
    BY <1>2, <2>3 DEF ThreadUnregister
<1>3. ASSUME ThreadReadElapsed PROVE TypeOK'
  <2>1. thread' \in Activity
    BY <1>3, TimerAssumption DEF ThreadReadElapsed, Activity
  <2> QED
    BY <1>3, <2>1 DEF ThreadReadElapsed
<1>4. ASSUME ThreadCountDown PROVE TypeOK'
  <2>1. thread.i \in Slots /\ thread.i + 1 \in 1 .. MaxHandles + 1
    BY <1>4, TimerAssumption DEF ThreadCountDown, Slots
  <2>2. CASE thread.i \in Active(handles)
    <3>1. handles[thread.i].tickCounter - thread.ticks \in Int
      BY <2>1 DEF Handle, Activity
    <3>2. handles' = [handles EXCEPT ![thread.i].tickCounter = @ - thread.ticks]
      BY <1>4, <2>2 DEF ThreadCountDown
    <3>3. handles' \in [Slots -> Handle] /\ handles'[thread.i].tickCounter \in Int
      BY <2>1, <3>1, <3>2 DEF Handle
    <3>4. Smaller(thread.next, handles'[thread.i].tickCounter) \in Int
      BY <3>3, SmallerType DEF Activity
    <3>5. thread' \in Activity
      BY <1>4, <2>1, <2>2, <3>4 DEF ThreadCountDown, Activity
    <3> QED
      BY <1>4, <3>3, <3>5 DEF ThreadCountDown
  <2>3. CASE thread.i \notin Active(handles)
    <3>1. thread' \in Activity
      BY <1>4, <2>1, <2>3 DEF ThreadCountDown, Activity
    <3> QED
      BY <1>4, <2>3, <3>1 DEF ThreadCountDown
  <2> QED
    BY <2>2, <2>3
<1>5. ASSUME ThreadSetup PROVE TypeOK'
  <2>1. elapsed' \in Nat /\ compare' \in Nat
    BY <1>5, SetupType, TimerAssumption DEF ThreadSetup, Activity
  <2> QED
    BY <1>5, <2>1, RestingType DEF ThreadSetup
<1>6. ASSUME TriggerStarts PROVE TypeOK'
  <2>1. trigger' \in Activity
    BY <1>6, TimerAssumption DEF TriggerStarts, Activity
  <2> QED
    BY <1>6, <2>1 DEF TriggerStarts
<1>7. ASSUME TriggerPasses PROVE TypeOK'
  <2>1. trigger.i \in Slots
    BY <1>7 DEF TriggerPasses
  <2>2. handles[trigger.i].tickCounter - trigger.ticks \in Int
    BY <2>1 DEF Handle, Activity
  <2>3. handles' \in [Slots -> Handle]
    BY <1>7, <2>1, <2>2 DEF TriggerPasses, Handle
  <2>4. trigger' \in Activity
    BY <1>7, <2>1, <2>3, SeenType DEF TriggerPasses, Handles
  <2> QED
    BY <1>7, <2>3, <2>4 DEF TriggerPasses
<1>8. ASSUME TriggerCalls PROVE TypeOK'
  <2> DEFINE cb == handles[trigger.i].callback
  <2>1. trigger.i \in Active(handles) /\ cb \in Callback
    BY <1>8, CallsStep, AfterType
  <2>2. handles' \in Handles /\ elapsed' \in Nat /\ compare' \in Nat
    BY <1>8, CallsType
  <2>3. trigger' \in Activity
    BY <1>8, CallsTrigger
  <2>4. age' \in [Callback -> Nat] /\ spent' \in [Callback -> Nat]
    <3>1. PICK n \in Nat : age' = Aging(AgesAt(cb), n) /\ spent' = Aging(SpentAt(cb), n)
      BY <1>8, CallsStep
    <3>2. AgesAt(cb) \in [Callback -> Nat] /\ SpentAt(cb) \in [Callback -> Nat]
      BY <2>1, AgeType
    <3> QED
      BY <3>1, <3>2, AgingType
  <2>5. wanted' \subseteq Callback
    BY <1>8, <2>1, TimerAssumption DEF TriggerCalls
  <2>6. masked' \in BOOLEAN /\ UNCHANGED thread
    BY <1>8 DEF TriggerCalls
  <2>7. pending' \in BOOLEAN
    BY <1>8, CallsStep
  <2> QED
    BY <2>2, <2>3, <2>4, <2>5, <2>6, <2>7, Zenon DEF Handles
<1>p. ASSUME TriggerPosted PROVE TypeOK'
  <2>1. trigger' \in Activity
    BY <1>p, PostedTrigger
  <2> QED
    BY <1>p, <2>1 DEF TriggerPosted
<1>9. ASSUME TriggerEnds PROVE TypeOK'
  <2>1. elapsed' \in Nat /\ compare' \in Nat
    BY <1>9, SetupType, TimerAssumption DEF TriggerEnds, Activity
  <2> QED
    BY <1>9, <2>1, RestingType DEF TriggerEnds
<1>10. ASSUME ButtonPressed PROVE TypeOK'
  <2>1. ButtonTimer \in Callback
    BY TimerAssumption
  <2>2. PICK n \in Durations : /\ RegisterAtOnce(handles, ButtonTimer, n)
                               /\ age' = Aging([age EXCEPT ![ButtonTimer] = 0], n)
                               /\ spent' = Aging([spent EXCEPT ![ButtonTimer] = 0], n)
    BY <1>10 DEF ButtonPressed
  <2>3. n \in Nat
    BY TimerAssumption DEF Durations
  <2>4. /\ \E now \in Nat : handles' = Registered(handles, ButtonTimer, elapsed, now)
        /\ SetupForNearest(handles') /\ pending' \in BOOLEAN
    BY <2>2, <2>3, AtOnce
  <2>5. handles' \in Handles
    BY <1>h, <2>1, <2>4, RegisterType
  <2>6. elapsed' \in Nat /\ compare' \in Nat
    BY <2>4, <2>5, NearestType
  <2>7. age' \in [Callback -> Nat] /\ spent' \in [Callback -> Nat]
    <3>1. /\ [age EXCEPT ![ButtonTimer] = 0] \in [Callback -> Nat]
          /\ [spent EXCEPT ![ButtonTimer] = 0] \in [Callback -> Nat]
      BY <2>1
    <3> QED
      BY <2>2, <2>3, <3>1, AgingType
  <2>8. masked' \in BOOLEAN /\ wanted' \subseteq Callback /\ UNCHANGED <<thread, trigger>>
    BY <1>10, <2>1 DEF ButtonPressed
  <2> QED
    BY <2>4, <2>5, <2>6, <2>7, <2>8, Zenon DEF Handles
<1>11. ASSUME Tick PROVE TypeOK'
  <2>1. age' \in [Callback -> Nat] /\ spent' \in [Callback -> Nat]
    BY <1>11, AgingType DEF Tick
  <2>2. elapsed' \in Nat /\ compare' \in Nat
    BY <1>11 DEF Tick, Passed
  <2>3. pending' = (pending \/ elapsed' = compare)
    BY <1>11 DEF Tick
  <2>4. pending' \in BOOLEAN
    BY <2>3, Zenon
  <2>5. UNCHANGED <<handles, thread, trigger, masked, wanted>>
    BY <1>11 DEF Tick
  <2> QED
    BY <2>1, <2>2, <2>4, <2>5, Zenon
<1>12. CASE UNCHANGED vars
  BY <1>12 DEF vars
<1> QED
  BY <1>1, <1>2, <1>3, <1>4, <1>5, <1>6, <1>7, <1>8, <1>p, <1>9, <1>10, <1>11, <1>12
     DEF Next, ThreadStep, TriggerStep

LEMMA TypeInit == Init => TypeOK
<1> SUFFICES ASSUME Init PROVE TypeOK
  OBVIOUS
<1>1. handles \in [Slots -> Handle]
  BY DEF Init, Unused, Handle
<1> QED
  BY <1>1, RestingType DEF Init, TypeOK, Passed

\* All counters stay integers, the loops stay inside the table and the hardware
\* timer is never programmed with a time in the past, whatever callbacks, the
\* button and the main thread register.
THEOREM TypeCorrect == Spec => []TypeOK
BY TypeInit, TypeStep, PTL DEF Spec

-----------------------------------------------------------------------------
(* One handle for each timer                                               *)

\* OneHandleEach is inductive by itself when the table is large enough.
LEMMA HandlesStep ==
    ASSUME TableFits
    PROVE  TypeOK /\ OneHandleEach /\ [Next]_vars => OneHandleEach'
<1> SUFFICES ASSUME TypeOK, OneHandleEach, [Next]_vars PROVE OneHandleEach'
  OBVIOUS
<1>h. handles \in Handles /\ Unique(handles) /\ InUse(handles) = wanted /\ elapsed \in Nat
      /\ pending \in BOOLEAN
  BY DEF Handles, TypeOK, OneHandleEach, Unique
<1>g. Unique(handles') /\ InUse(handles') = wanted' => OneHandleEach'
  BY DEF OneHandleEach, Unique, InUse, Active
<1>1. ASSUME NEW cb \in ThreadTimers, ThreadRegister(cb) PROVE OneHandleEach'
  <2>1. cb \in Callback
    BY TimerAssumption
  <2> QED
    BY <1>h, <1>g, <1>1, <2>1, EnterHandle DEF ThreadRegister
<1>2. ASSUME NEW cb \in ThreadTimers, ThreadUnregister(cb) PROVE OneHandleEach'
  <2>1. PICK i \in First(Holding(handles, cb)) :
           handles' = [handles EXCEPT ![i].callback = NoCallback]
    BY <1>2 DEF ThreadUnregister
  <2>2. i \in Slots /\ handles[i].callback = cb /\ cb \in Callback
    BY <2>1, TimerAssumption DEF First, Holding
  <2>3. i \in Active(handles)
    BY <2>2, TimerAssumption DEF Active
  <2>4. /\ handles'[i].callback = NoCallback
        /\ \A j \in Slots \ {i} : handles'[j].callback = handles[j].callback
    BY <1>h, <2>1, <2>2 DEF Handles, Handle
  <2>5. handles' \in Handles
    BY TypeStep DEF TypeOK, Handles
  <2>6. Unique(handles') /\ InUse(handles') = InUse(handles) \ {cb}
    BY <1>h, <2>2, <2>3, <2>4, <2>5, LeaveHandle
  <2> QED
    BY <1>h, <1>g, <1>2, <2>6 DEF ThreadUnregister
<1>3. ASSUME ThreadCountDown PROVE OneHandleEach'
  <2>1. SameCallbacks(handles', handles)
    BY <1>h, <1>3 DEF ThreadCountDown, SameCallbacks, Handles, Handle
  <2>2. Unique(handles') /\ InUse(handles') = InUse(handles)
    BY <1>h, <2>1, CallbacksOnly
  <2> QED
    BY <1>h, <1>g, <1>3, <2>2 DEF ThreadCountDown
<1>4. ASSUME TriggerPasses PROVE OneHandleEach'
  <2>1. SameCallbacks(handles', handles)
    BY <1>h, <1>4 DEF TriggerPasses, SameCallbacks, Handles, Handle
  <2>2. Unique(handles') /\ InUse(handles') = InUse(handles)
    BY <1>h, <2>1, CallbacksOnly
  <2> QED
    BY <1>h, <1>g, <1>4, <2>2 DEF TriggerPasses
<1>5. ASSUME TriggerCalls PROVE OneHandleEach'
  <2> DEFINE i == trigger.i
             cb == handles[i].callback
             started == Starts[cb]
             left == wanted \ (IF OneShot[cb] THEN {cb} ELSE {})
  <2>1. i \in Active(handles) /\ cb \in Callback /\ After(i) \in Handles
    BY <1>h, <1>5, CallsStep, AfterType
  <2>2. Unique(After(i)) /\ InUse(After(i)) = left
    <3>1. CASE OneShot[cb]
      <4>1. /\ After(i)[i].callback = NoCallback
            /\ \A j \in Slots \ {i} : After(i)[j].callback = handles[j].callback
        BY <2>1, <3>1, AfterType
      <4> HIDE DEF i
      <4> QED
        BY <1>h, <2>1, <3>1, <4>1, LeaveHandle
    <3>2. CASE ~OneShot[cb]
      <4>1. SameCallbacks(After(i), handles)
        BY <2>1, <3>2, AfterType DEF SameCallbacks
      <4> QED
        BY <1>h, <3>2, <4>1, CallbacksOnly
    <3> QED
      BY <3>1, <3>2
  <2>3. wanted' = left \cup ({started} \ {NoCallback})
    BY <1>5 DEF TriggerCalls
  <2>4. CASE started = NoCallback
    <3>1. handles' = After(i)
      BY <1>h, <1>5, <2>4, CallsStep
    <3> HIDE DEF left
    <3> QED
      BY <1>g, <2>2, <2>3, <2>4, <3>1
  <2>5. CASE started # NoCallback
    <3>1. started \in Callback
      BY <2>1, <2>5, TimerAssumption
    <3>2. PICK now \in Nat : handles' = Registered(After(i), started, elapsed, now)
      BY <1>h, <1>5, <2>5, CallsStep
    <3> HIDE DEF left, started, i
    <3>3. /\ Unique(Entered(After(i), started, elapsed))
          /\ InUse(Entered(After(i), started, elapsed)) = left \cup {started}
      BY <1>h, <2>1, <2>2, <3>1, EnterHandle
    <3>4. SameCallbacks(handles', Entered(After(i), started, elapsed))
      BY <1>h, <2>1, <3>1, <3>2, RegisterType
    <3>5. Unique(handles') /\ InUse(handles') = left \cup {started}
      BY <3>3, <3>4, CallbacksOnly
    <3> QED
      BY <1>g, <2>3, <2>5, <3>5
  <2> QED
    BY <2>4, <2>5
<1>6. ASSUME ButtonPressed PROVE OneHandleEach'
  <2>1. ButtonTimer \in Callback
    BY TimerAssumption
  <2>2. wanted' = wanted \cup {ButtonTimer}
        /\ \E n \in Durations : RegisterAtOnce(handles, ButtonTimer, n)
    BY <1>6 DEF ButtonPressed
  <2>r. PICK now \in Nat : handles' = Registered(handles, ButtonTimer, elapsed, now)
    BY <1>h, <2>2, AtOnce, TimerAssumption DEF Durations
  <2>3. /\ Unique(Entered(handles, ButtonTimer, elapsed))
        /\ InUse(Entered(handles, ButtonTimer, elapsed)) = wanted \cup {ButtonTimer}
    BY <1>h, <2>1, EnterHandle
  <2>4. SameCallbacks(handles', Entered(handles, ButtonTimer, elapsed))
    BY <1>h, <2>1, <2>r, RegisterType
  <2> QED
    BY <1>g, <2>2, <2>3, <2>4, CallbacksOnly
<1>7. CASE UNCHANGED <<handles, wanted>>
  BY <1>h, <1>g, <1>7
<1> QED
  BY <1>1, <1>2, <1>3, <1>4, <1>5, <1>6, <1>7
     DEF Next, ThreadStep, TriggerStep, ThreadReadElapsed, ThreadSetup, TriggerStarts,
         TriggerPosted, TriggerEnds, Tick, vars

LEMMA HandlesInit == Init => OneHandleEach
BY DEF Init, OneHandleEach, Active, InUse, Unused

\* If the table has a handle for every timer of the program, each registered
\* timer is in exactly one handle and no other handle is in use.
THEOREM HandlesUnique == ASSUME TableFits PROVE Spec => []OneHandleEach
<1>1. TypeOK /\ OneHandleEach /\ [Next]_vars => OneHandleEach'
  BY HandlesStep
<1> QED
  BY <1>1, HandlesInit, TypeCorrect, PTL DEF Spec

-----------------------------------------------------------------------------
(* The hardware timer                                                      *)

\* The registration under way will set the hardware timer up: it has not read
\* the handles yet, has seen one in use, or has one ahead of it.
Covered == \/ thread.pc = "read"
           \/ /\ thread.pc = "loop"
              /\ thread.next # Forever \/ \E j \in Active(handles) : j >= thread.i

\* With no match ahead and no interrupt pending, a timer in use is one a loop
\* under way has seen or will see.
ArmedInv ==
    /\ trigger.pc # "read"
    /\ trigger.pc # "rest" /\ compare = Passed /\ ~pending =>
         \A j \in Active(handles) :
            j < trigger.i => trigger.next # Forever \/ (trigger.pc = "posted" /\ j = trigger.i - 1)
    /\ trigger.pc = "rest" /\ compare = Passed /\ ~pending =>
         Active(handles) = {} \/ Covered

LEMMA ArmedInLoop ==
    ASSUME trigger'.pc # "read", trigger'.pc # "rest",
           compare' = Passed /\ ~pending' =>
             \A j \in Active(handles') :
                j < trigger'.i => \/ trigger'.next # Forever
                                  \/ trigger'.pc = "posted" /\ j = trigger'.i - 1
    PROVE  ArmedInv'
BY DEF ArmedInv, Active, Passed

LEMMA ArmedStep == TypeOK /\ ArmedInv /\ [Next]_vars => ArmedInv'
<1> SUFFICES ASSUME TypeOK, ArmedInv, [Next]_vars PROVE ArmedInv'
  OBVIOUS
<1>t. TypeOK' /\ handles' \in Handles
  BY TypeStep DEF TypeOK, Handles
<1>a. Slots = 1 .. MaxHandles /\ MaxHandles \in Nat /\ Active(handles) \subseteq Slots
      /\ Active(handles') \subseteq Slots
  BY TimerAssumption DEF Slots, Active
<1>i. thread.i \in 1 .. MaxHandles + 1 /\ trigger.i \in 1 .. MaxHandles + 1
  BY DEF TypeOK, Activity
<1>1. ASSUME NEW cb \in ThreadTimers, ThreadRegister(cb) PROVE ArmedInv'
  BY <1>1 DEF ThreadRegister, ThreadRuns, ArmedInv, Covered
<1>2. ASSUME NEW cb \in ThreadTimers, ThreadUnregister(cb) PROVE ArmedInv'
  <2>1. PICK i \in First(Holding(handles, cb)) :
           handles' = [handles EXCEPT ![i].callback = NoCallback]
    BY <1>2 DEF ThreadUnregister
  <2>2. \A j \in Slots : handles'[j].callback \in {handles[j].callback, NoCallback}
    BY <2>1 DEF TypeOK, Handle
  <2>3. Active(handles') \subseteq Active(handles)
    BY <2>2 DEF Active
  <2>4. trigger.pc = "rest" /\ thread.pc = "rest" /\ UNCHANGED <<compare, pending, thread, trigger>>
    BY <1>2 DEF ThreadUnregister, ThreadRuns
  <2> QED
    BY <2>3, <2>4 DEF ArmedInv, Covered
<1>3. ASSUME ThreadReadElapsed PROVE ArmedInv'
  <2>1. /\ trigger.pc = "rest" /\ UNCHANGED <<handles, compare, pending, trigger>>
        /\ thread'.pc = "loop" /\ thread'.i = 1
    BY <1>3 DEF ThreadReadElapsed, ThreadRuns
  <2>2. \A j \in Active(handles) : j >= 1
    BY <1>a
  <2> QED
    BY <2>1, <2>2 DEF ArmedInv, Covered
<1>4. ASSUME ThreadCountDown PROVE ArmedInv'
  <2>1. /\ trigger.pc = "rest" /\ thread.pc = "loop" /\ thread'.pc = "loop" /\ thread'.i = thread.i + 1
        /\ UNCHANGED <<compare, pending, trigger>> /\ thread.i \in Slots
    BY <1>4 DEF ThreadCountDown, ThreadRuns, TypeOK, Activity
  <2>2. Active(handles') = Active(handles)
    BY <1>4 DEF ThreadCountDown, Active, TypeOK, Handle
  <2>3. CASE thread.i \in Active(handles)
    <3>1. thread'.next = Smaller(thread.next, handles'[thread.i].tickCounter)
      BY <1>4, <2>3 DEF ThreadCountDown, TypeOK, Activity
    <3>2. handles'[thread.i].tickCounter \in Int
      BY <1>t, <2>1 DEF Handles, Handle
    <3>3. thread'.next # Forever
      BY <3>1, <3>2, SmallerType DEF TypeOK, Activity
    <3> QED
      BY <2>1, <3>3 DEF ArmedInv, Covered
  <2>4. CASE thread.i \notin Active(handles)
    <3>1. thread'.next = thread.next
      BY <1>4, <2>4 DEF ThreadCountDown, TypeOK, Activity
    <3>2. \A j \in Active(handles) : j >= thread.i => j >= thread.i + 1
      BY <1>a, <1>i, <2>4
    <3> QED
      BY <2>1, <2>2, <3>1, <3>2 DEF ArmedInv, Covered
  <2> QED
    BY <2>3, <2>4
<1>5. ASSUME ThreadSetup PROVE ArmedInv'
  <2>1. /\ trigger.pc = "rest" /\ thread.pc = "loop" /\ thread.i \notin Slots
        /\ SetupFor(thread.next, MinRegister) /\ UNCHANGED <<handles, pending, trigger>>
    BY <1>5 DEF ThreadSetup, ThreadRuns
  <2>2. thread.next # Forever \/ compare # Passed => compare' # Passed
    BY <2>1, SetupType, TimerAssumption DEF TypeOK, Activity
  <2>3. \A j \in Active(handles) : ~ (j >= thread.i)
    BY <1>a, <1>i, <2>1
  <2> QED
    BY <2>1, <2>2, <2>3 DEF ArmedInv, Covered
<1>6. ASSUME TriggerStarts PROVE ArmedInv'
  <2>1. trigger'.pc = "loop" /\ trigger'.i = 1 /\ UNCHANGED handles
    BY <1>6 DEF TriggerStarts
  <2>2. \A j \in Active(handles) : ~ (j < 1)
    BY <1>a
  <2> QED
    BY <2>1, <2>2 DEF ArmedInv
<1>7. ASSUME TriggerPasses PROVE ArmedInv'
  <2>1. trigger.pc = "loop" /\ trigger.i \in Slots /\ trigger' = Seen(handles', trigger.i)
        /\ UNCHANGED <<elapsed, compare, pending>>
    BY <1>7 DEF TriggerPasses
  <2>2. /\ trigger'.pc = "loop" /\ trigger'.i = trigger.i + 1
        /\ trigger.i \in Active(handles') \/ trigger.next # Forever => trigger'.next # Forever
    BY <1>t, <2>1, SeenType DEF TypeOK
  <2>3. Active(handles') = Active(handles)
    BY <1>7 DEF TriggerPasses, Active, TypeOK, Handle
  <2>4. \A j \in Active(handles) : j < trigger.i + 1 => j < trigger.i \/ j = trigger.i
    BY <1>a, <1>i
  <2>5. compare = Passed /\ ~pending =>
          \A j \in Active(handles) : j < trigger.i => trigger.next # Forever
    BY <2>1 DEF ArmedInv
  <2>6. compare' = compare /\ pending' = pending
    BY <1>7 DEF TriggerPasses
  <2>7. ASSUME compare' = Passed, ~pending', NEW j \in Active(handles'), j < trigger'.i
        PROVE  trigger'.next # Forever
    BY <2>2, <2>3, <2>4, <2>5, <2>6, <2>7
  <2> QED
    BY <2>2, <2>7, ArmedInLoop
<1>8. ASSUME TriggerCalls PROVE ArmedInv'
  <2>1. trigger.pc = "loop" /\ trigger.i \in Slots /\ trigger.i \in Active(handles)
        /\ (pending => pending')
    BY <1>8, CallsStep DEF TypeOK
  <2>2. /\ trigger'.i = trigger.i + 1 /\ trigger'.pc \in {"loop", "posted"}
        /\ trigger'.pc = "loop" /\ trigger.i \in Active(handles') => trigger'.next # Forever
        /\ trigger.next # Forever => trigger'.next # Forever
    <3>1. CASE trigger'.pc = "posted" /\ trigger'.next = trigger.next
      BY <1>8, <3>1, CallsTrigger
    <3>2. CASE trigger'.pc = "loop" /\ trigger' = Seen(handles', trigger.i)
      BY <1>t, <2>1, <3>2, SeenType DEF TypeOK
    <3> QED
      BY <1>8, <3>1, <3>2, CallsTrigger
  <2>3. SUFFICES ASSUME compare' = Passed, ~pending', NEW j \in Active(handles'), j < trigger.i + 1
                 PROVE  \/ trigger'.next # Forever
                        \/ trigger'.pc = "posted" /\ j = (trigger.i + 1) - 1
    <3>1. trigger'.pc # "read" /\ trigger'.pc # "rest" /\ trigger'.i = trigger.i + 1
      BY <2>2
    <3> QED
      BY <3>1, ArmedInLoop
  <2>4. compare = Passed /\ handles' = After(trigger.i) /\ ~pending
    BY <1>8, <2>1, <2>3, CallsType
  <2>5. CASE j = trigger.i
    BY <1>i, <2>2, <2>3, <2>5
  <2>6. CASE j # trigger.i
    <3>1. j < trigger.i
      BY <1>a, <1>i, <2>3, <2>6
    <3>2. j \in Active(handles)
      BY <2>1, <2>4, <2>6, AfterType DEF Active
    <3>3. trigger.next # Forever
      BY <2>1, <2>4, <3>1, <3>2 DEF ArmedInv
    <3> QED
      BY <2>2, <3>3
  <2> QED
    BY <2>5, <2>6
<1>p. ASSUME TriggerPosted PROVE ArmedInv'
  <2>1. /\ trigger.pc = "posted" /\ trigger'.pc = "loop" /\ trigger'.i = trigger.i
        /\ trigger'.next = IF trigger.i - 1 \in Active(handles)
                           THEN Smaller(trigger.next, handles[trigger.i - 1].tickCounter)
                           ELSE trigger.next
        /\ UNCHANGED <<handles, compare, pending>>
    BY <1>p, PostedTrigger DEF TriggerPosted
  <2>2. SUFFICES ASSUME compare = Passed, ~pending, NEW j \in Active(handles), j < trigger.i
                 PROVE  trigger'.next # Forever
    BY <2>1 DEF ArmedInv
  <2>3. trigger.next # Forever \/ j = trigger.i - 1
    BY <2>1, <2>2 DEF ArmedInv
  <2>4. CASE trigger.i - 1 \in Active(handles)
    <3>1. handles[trigger.i - 1].tickCounter \in Int /\ trigger.next \in Int \cup {Forever}
      BY <1>a, <2>4 DEF TypeOK, Handle, Activity
    <3> QED
      BY <2>1, <2>4, <3>1, SmallerType
  <2>5. CASE trigger.i - 1 \notin Active(handles)
    BY <2>1, <2>2, <2>3, <2>5
  <2> QED
    BY <2>4, <2>5
<1>9. ASSUME TriggerEnds PROVE ArmedInv'
  <2>1. /\ trigger.pc = "loop" /\ trigger.i \notin Slots
        /\ SetupFor(trigger.next, MinTrigger) /\ trigger'.pc = "rest" /\ UNCHANGED <<handles, pending>>
    BY <1>9 DEF TriggerEnds, Resting
  <2>2. trigger.next # Forever \/ compare # Passed => compare' # Passed
    BY <2>1, SetupType, TimerAssumption DEF TypeOK, Activity
  <2>3. \A j \in Active(handles) : j < trigger.i
    BY <1>a, <1>i, <2>1
  <2> QED
    BY <2>1, <2>2, <2>3 DEF ArmedInv
<1>10. ASSUME ButtonPressed PROVE ArmedInv'
  <2>1. UNCHANGED <<thread, trigger>> /\ SetupForNearest(handles') /\ (pending => pending')
    <3>1. PICK n \in Durations : RegisterAtOnce(handles, ButtonTimer, n)
      BY <1>10 DEF ButtonPressed
    <3> QED
      BY <1>10, <3>1, AtOnce, TimerAssumption DEF ButtonPressed, Durations, TypeOK
  <2>2. Active(handles') # {} \/ compare # Passed => compare' # Passed
    BY <1>t, <2>1, NearestType DEF TypeOK
  <2> QED
    BY <2>1, <2>2 DEF ArmedInv
<1>11. ASSUME Tick PROVE ArmedInv'
  <2>1. UNCHANGED <<thread, trigger, handles>> /\ (pending => pending')
        /\ (compare' = compare \/ pending')
    BY <1>11 DEF Tick
  <2> QED
    BY <2>1 DEF ArmedInv, Covered
<1>12. CASE UNCHANGED vars
  BY <1>12 DEF vars, ArmedInv, Covered, Active
<1> QED
  BY <1>1, <1>2, <1>3, <1>4, <1>5, <1>6, <1>7, <1>8, <1>p, <1>9, <1>10, <1>11, <1>12
     DEF Next, ThreadStep, TriggerStep

LEMMA ArmedInit == Init => ArmedInv
BY DEF Init, ArmedInv, Resting, Active, Unused

LEMMA ArmedFollows == TypeOK /\ ArmedInv => Armed
BY DEF ArmedInv, Armed, Covered

\* While no registration and no trigger is under way, a timer in use has the
\* hardware timer running towards a match or its interrupt pending.
THEOREM TimerArmed == Spec => []Armed
BY TypeCorrect, ArmedInit, ArmedStep, ArmedFollows, PTL DEF Spec

-----------------------------------------------------------------------------
(* How late a timer is called                                              *)

\* The longest interval exists.
LEMMA LongestInterval ==
    ASSUME IsFiniteSet(Callback)
    PROVE  /\ MaxInterval \in Nat \ {0}
           /\ \A cb \in Callback : Interval[cb] <= MaxInterval
<1> DEFINE longer(c) == {d \in Callback : Interval[d] > Interval[c]}
           T == {longer(c) : c \in Callback}
<1>1. FiniteSubsetsOf(Callback) = SUBSET Callback
  BY FS_FiniteSubsetsOfFinite
<1>2. IsWellFoundedOn(StrictSubsetOrdering(Callback), SUBSET Callback)
  BY <1>1, FS_StrictSubsetOrderingWellFounded
<1>3. T \subseteq SUBSET Callback /\ T # {}
  <2>1. \A c \in Callback : longer(c) \in SUBSET Callback
    OBVIOUS
  <2>2. longer(ButtonTimer) \in T
    BY TimerAssumption
  <2> QED
    BY <2>1, <2>2
<1>4. PICK X \in T : \A Y \in T : ~ (<<Y, X>> \in StrictSubsetOrdering(Callback))
  <2> HIDE DEF T
  <2> QED
    BY <1>2, <1>3, WFMin
<1>5. PICK c \in Callback : X = longer(c)
  BY <1>4
<1>t. \A d \in Callback : Interval[d] \in Nat \ {0}
  BY TimerAssumption
<1>6. ASSUME NEW d \in Callback PROVE Interval[d] <= Interval[c]
  <2>1. SUFFICES ASSUME Interval[d] > Interval[c] PROVE FALSE
    BY <1>t
  <2>2. longer(d) \subseteq longer(c) /\ d \in longer(c) /\ d \notin longer(d)
    BY <1>t, <2>1
  <2>3. <<longer(d), longer(c)>> \in StrictSubsetOrdering(Callback)
    BY <2>2 DEF StrictSubsetOrdering
  <2> QED
    BY <1>4, <1>5, <2>3
<1>7. \E m \in {Interval[cb] : cb \in Callback} : \A cb \in Callback : Interval[cb] <= m
  BY <1>6
<1>8. /\ MaxInterval \in {Interval[cb] : cb \in Callback}
      /\ \A cb \in Callback : Interval[cb] <= MaxInterval
  BY <1>7 DEF MaxInterval
<1> QED
  BY <1>t, <1>8

\* The ticks since a timer was registered or due that were not spent in this code.
Idle(cb) == Larger(0, age[cb] - spent[cb])

\* The timer of a handle: its ticks, and its interval.
Aged(i) == Idle(handles[i].callback)
Due(i)  == Interval[handles[i].callback]

\* Counted down by so many ticks more, the handle runs out when its timer is due,
\* or before.
InTime(i, ticks) == Aged(i) + handles[i].tickCounter - ticks <= Due(i)

\* No ticks are forgotten: those since the last setup are counted, by a trigger or
\* a registration under way or the next one.
NoTicksLost == \A i \in Active(handles) :
    /\ trigger.pc = "rest" => InTime(i, elapsed)
    /\ trigger.pc # "rest" => InTime(i, IF i < trigger.i THEN 0 ELSE trigger.ticks)
    /\ thread.pc = "loop"  => InTime(i, IF i < thread.i THEN 0 ELSE thread.ticks)

\* The hardware timer is never set up for longer than the longest interval, or the
\* minimal time of a registration.
SoonEnough ==
    /\ compare > MinRegister => compare <= MaxInterval
    /\ compare # Passed => elapsed < compare
    /\ trigger.next # Forever => trigger.next <= MaxInterval
    /\ thread.next # Forever => thread.next <= MaxInterval

\* The setup at the end of the loop an activity is in comes before the timer is due.
Before(i, a) == a.next # Forever /\ Aged(i) + a.next <= Due(i)

\* The handle whose callback has just posted a message.
JustPosted(i) == trigger.pc = "posted" /\ i = trigger.i - 1

\* The handles a loop has gone through are not due, or it has taken them into account.
LookedAt == \A i \in Active(handles) :
    /\ thread.pc = "loop" /\ i < thread.i => Aged(i) <= Due(i) \/ Before(i, thread)
    /\ trigger.pc # "rest" /\ i < trigger.i =>
         \/ Aged(i) <= Due(i)
         \/ Aged(i) <= MaxInterval /\ (Before(i, trigger) \/ JustPosted(i))

\* A handle is waited for as long as the bound allows, and not beyond the next match
\* of the hardware timer.
Late(i) == Due(i) + MaxInterval
Waiting == \A i \in Active(handles) :
    /\ Aged(i) <= Late(i)
    /\ ~Busy /\ compare > MinRegister => Aged(i) + compare - elapsed <= Late(i)

-----------------------------------------------------------------------------
(* What a step does with a handle                                          *)

\* It stays the handle of its timer, d ticks nearer.
Carried(i, d) ==
    /\ i \in Active(handles)
    /\ handles'[i].callback = handles[i].callback
    /\ handles'[i].tickCounter <= handles[i].tickCounter - d
    /\ Aged(i)' <= Aged(i)

\* Its timer is registered; the counter also holds the ticks since the last setup.
Renewed(i, now) ==
    /\ Aged(i)' = 0
    /\ handles'[i].tickCounter <= Due(i)' + now

\* Its timer is periodic and called.
Recalled(i) ==
    /\ i \in Active(handles)
    /\ handles'[i].callback = handles[i].callback
    /\ handles[i].tickCounter <= trigger.ticks
    /\ handles'[i].tickCounter <= handles[i].tickCounter - trigger.ticks + Due(i)
    /\ Aged(i)' <= Larger(0, Aged(i) - Due(i))

LEMMA HandleTypes ==
    ASSUME TypeOK, NEW i \in Active(handles)
    PROVE  /\ i \in Nat /\ i \in Slots /\ i >= 1 /\ i <= MaxHandles
           /\ handles[i].callback \in Callback /\ handles[i].tickCounter \in Int
           /\ Aged(i) \in Nat /\ Due(i) \in Nat \ {0}
<1>1. i \in Slots /\ handles[i] \in Handle /\ handles[i].callback # NoCallback
  BY DEF TypeOK, Active
<1>2. handles[i].callback \in Callback /\ handles[i].tickCounter \in Int
  BY <1>1 DEF Handle
<1>3. age[handles[i].callback] \in Nat /\ spent[handles[i].callback] \in Nat
  BY <1>2 DEF TypeOK
<1> QED
  BY <1>1, <1>2, <1>3, TimerAssumption DEF Aged, Idle, Larger, Due, Slots

LEMMA ActivityTypes ==
    ASSUME TypeOK
    PROVE  /\ elapsed \in Nat /\ compare \in Nat /\ pending \in BOOLEAN
           /\ thread.i \in Nat /\ thread.ticks \in Nat /\ thread.next \in Int \cup {Forever}
           /\ trigger.i \in Nat /\ trigger.ticks \in Nat /\ trigger.next \in Int \cup {Forever}
           /\ thread.i <= MaxHandles + 1 /\ trigger.i <= MaxHandles + 1 /\ MaxHandles \in Nat
           /\ thread.pc \in {"rest", "read", "loop", "posted"}
           /\ trigger.pc \in {"rest", "read", "loop", "posted"}
           /\ thread.i >= 1 /\ trigger.i >= 1
  BY TimerAssumption DEF TypeOK, Activity

\* A registration that nobody interrupts, of a timer whose age is 0 then.
LEMMA RegisteredHandle ==
    ASSUME NEW h \in Handles, NEW cb \in Callback, NEW start \in Nat, NEW now \in Nat, start <= now,
           NEW i \in Active(Registered(h, cb, start, now))
    PROVE  /\ i \in Slots
           /\ \/ /\ Registered(h, cb, start, now)[i].callback = cb
                 /\ Registered(h, cb, start, now)[i].tickCounter <= Interval[cb]
              \/ /\ i \in Active(h)
                 /\ Registered(h, cb, start, now)[i].callback = h[i].callback
                 /\ Registered(h, cb, start, now)[i].tickCounter <= h[i].tickCounter - start
<1> DEFINE e == Entered(h, cb, start)
           g == Registered(h, cb, start, now)
<1>1. e \in Handles /\ SameCallbacks(g, e) /\ i \in Slots
  BY RegisterType DEF Active
<1>2. i \in Active(e)
  BY <1>1, CallbacksOnly
<1>3. g[i] = [e[i] EXCEPT !.tickCounter = @ - now]
  BY <1>1, <1>2 DEF Registered, CountedDown
<1>4. e[i] \in Handle
  BY <1>1 DEF Handles
<1>5. g[i].callback = e[i].callback /\ g[i].tickCounter = e[i].tickCounter - now
  <2> HIDE DEF e, g
  <2> QED
    BY <1>3, <1>4 DEF Handle
<1>6. CASE i \in SlotFor(h, cb)
  <2>1. e[i] = [callback |-> cb, tickCounter |-> Interval[cb] + start]
    BY <1>1, <1>6 DEF Entered
  <2>2. Interval[cb] \in Nat
    BY TimerAssumption
  <2> HIDE DEF e, g
  <2>4. e[i].callback = cb /\ e[i].tickCounter = Interval[cb] + start
    BY <2>1
  <2>3. g[i].callback = cb /\ g[i].tickCounter <= Interval[cb]
    BY <1>5, <2>2, <2>4
  <2> QED
    BY <1>1, <2>3 DEF g
<1>7. CASE i \notin SlotFor(h, cb)
  <2>1. e[i] = h[i]
    BY <1>1, <1>7 DEF Entered
  <2>2. i \in Active(h)
    BY <1>2, <2>1 DEF Active
  <2> HIDE DEF e, g
  <2>3. g[i].callback = h[i].callback /\ g[i].tickCounter <= h[i].tickCounter - start
    <3>1. h[i].tickCounter \in Int
      BY <1>4, <2>1 DEF Handle
    <3> QED
      BY <1>5, <2>1, <3>1
  <2> QED
    BY <1>1, <2>2, <2>3 DEF g
<1> QED
  BY <1>6, <1>7

\* The timer that is registered is in one of the handles, if there is one for it.
LEMMA RegisteredThere ==
    ASSUME NEW h \in Handles, NEW cb \in Callback, NEW start \in Nat, NEW now \in Nat, start <= now,
           TableFits, Unique(h)
    PROVE  \E i \in Active(Registered(h, cb, start, now)) :
              Registered(h, cb, start, now)[i].tickCounter <= Interval[cb]
<1> DEFINE e == Entered(h, cb, start)
           g == Registered(h, cb, start, now)
<1>1. e \in Handles /\ SameCallbacks(g, e)
  BY RegisterType
<1>2. PICK s \in Slots : SlotFor(h, cb) = {s}
  BY SlotForOne
<1>3. e[s] = [callback |-> cb, tickCounter |-> Interval[cb] + start]
  BY <1>2 DEF Entered
<1>4. s \in Active(e)
  BY <1>3, TimerAssumption DEF Active
<1>5. s \in Active(g)
  BY <1>1, <1>4, CallbacksOnly
<1>6. g[s] = [e[s] EXCEPT !.tickCounter = @ - now]
  BY <1>2, <1>4 DEF Registered, CountedDown
<1>7. g[s].tickCounter <= Interval[cb]
  <2> HIDE DEF e, g
  <2>1. e[s].tickCounter = Interval[cb] + start /\ e[s] \in Handle
    BY <1>1, <1>3 DEF Handles
  <2>2. g[s].tickCounter = e[s].tickCounter - now
    BY <1>6, <2>1 DEF Handle
  <2> QED
    BY <2>1, <2>2, TimerAssumption
<1> QED
  BY <1>5, <1>7

\* What the ages become: the ticks a step takes are spent in this code.
LEMMA IdleAfter ==
    ASSUME NEW f \in [Callback -> Nat], NEW g \in [Callback -> Nat], NEW n \in Nat,
           NEW c \in Callback, age' = Aging(f, n), spent' = Aging(g, n)
    PROVE  Larger(0, age'[c] - spent'[c]) <= Larger(0, f[c] - g[c])
<1>1. f[c] \in Nat /\ g[c] \in Nat
  OBVIOUS
<1>2. CASE c \in wanted'
  <2>1. age'[c] = f[c] + n /\ spent'[c] = g[c] + n
    BY <1>2 DEF Aging
  <2> QED
    BY <1>1, <2>1 DEF Larger
<1>3. CASE c \notin wanted'
  <2>1. age'[c] = 0 /\ spent'[c] = 0
    BY <1>3 DEF Aging
  <2> QED
    BY <1>1, <2>1 DEF Larger
<1> QED
  BY <1>2, <1>3

LEMMA IdleReset ==
    ASSUME TypeOK, NEW cb \in Callback, NEW c \in Callback, NEW f, NEW g,
           f = [age EXCEPT ![cb] = 0], g = [spent EXCEPT ![cb] = 0]
    PROVE  /\ f \in [Callback -> Nat] /\ g \in [Callback -> Nat]
           /\ c = cb => Larger(0, f[c] - g[c]) = 0
           /\ Larger(0, f[c] - g[c]) <= Idle(c)
<1>1. age[c] \in Nat /\ spent[c] \in Nat
  BY DEF TypeOK
<1>2. f[c] = (IF c = cb THEN 0 ELSE age[c]) /\ g[c] = (IF c = cb THEN 0 ELSE spent[c])
      /\ f \in [Callback -> Nat] /\ g \in [Callback -> Nat]
  BY DEF TypeOK
<1> QED
  BY <1>1, <1>2 DEF Idle, Larger

LEMMA IdleCalled ==
    ASSUME TypeOK, NEW cb \in Callback, NEW c \in Callback
    PROVE  LET left == Larger(0, AgesAt(cb)[c] - SpentAt(cb)[c])
           IN  /\ left \in Int
               /\ c = Starts[cb] => left = 0
               /\ c # cb => left <= Idle(c)
               /\ c = cb /\ ~OneShot[cb] => left <= Larger(0, Idle(cb) - Interval[cb])
<1>1. age[c] \in Nat /\ spent[c] \in Nat /\ Interval[c] \in Nat
  BY TimerAssumption DEF TypeOK
<1>2. /\ AgesAt(cb)[c] = IF c = Starts[cb] THEN 0 ELSE IF c = cb THEN Left(cb) ELSE age[c]
      /\ SpentAt(cb)[c] = IF c = Starts[cb] THEN 0 ELSE spent[c]
  BY DEF AgesAt, SpentAt
<1>3. CASE c = Starts[cb]
  BY <1>1, <1>2, <1>3 DEF Idle, Larger
<1>4. CASE c # Starts[cb] /\ c = cb
  <2>1. CASE OneShot[cb]
    BY <1>1, <1>2, <1>4, <2>1 DEF Left, Larger
  <2>2. CASE ~OneShot[cb]
    BY <1>1, <1>2, <1>4, <2>2 DEF Idle, Left, Larger
  <2> QED
    BY <2>1, <2>2
<1>5. CASE c # Starts[cb] /\ c # cb
  BY <1>1, <1>2, <1>5 DEF Idle, Larger
<1> QED
  BY <1>3, <1>4, <1>5

-----------------------------------------------------------------------------
(* The steps                                                               *)

LEMMA RegisterHandles ==
    ASSUME TypeOK, NEW cb \in ThreadTimers, ThreadRegister(cb), NEW i \in Active(handles')
    PROVE  Carried(i, 0) \/ Renewed(i, elapsed)
<1>0. cb \in Callback /\ i \in Slots /\ handles' = Entered(handles, cb, elapsed)
      /\ age' = [age EXCEPT ![cb] = 0] /\ spent' = [spent EXCEPT ![cb] = 0]
  BY TimerAssumption DEF ThreadRegister, Active
<1>1. CASE i \in SlotFor(handles, cb)
  <2>1. handles'[i] = [callback |-> cb, tickCounter |-> Interval[cb] + elapsed]
    BY <1>0, <1>1 DEF Entered
  <2>2. Larger(0, age'[cb] - spent'[cb]) = 0
    BY <1>0, IdleReset
  <2>3. Interval[cb] \in Nat /\ elapsed \in Nat
    BY <1>0, TimerAssumption DEF TypeOK
  <2> QED
    BY <2>1, <2>2, <2>3 DEF Renewed, Aged, Idle, Due
<1>2. CASE i \notin SlotFor(handles, cb)
  <2>1. handles'[i] = handles[i]
    BY <1>0, <1>2 DEF Entered
  <2>2. i \in Active(handles)
    BY <1>0, <2>1 DEF Active
  <2>3. handles[i].callback \in Callback /\ handles[i].tickCounter \in Int
    BY <2>2, HandleTypes
  <2>4. Larger(0, age'[handles[i].callback] - spent'[handles[i].callback]) <= Idle(handles[i].callback)
    BY <1>0, <2>3, IdleReset
  <2> QED
    BY <2>1, <2>2, <2>3, <2>4 DEF Carried, Aged, Idle
<1> QED
  BY <1>1, <1>2

LEMMA UnregisterHandles ==
    ASSUME TypeOK, NEW cb \in ThreadTimers, ThreadUnregister(cb), NEW i \in Active(handles')
    PROVE  Carried(i, 0)
<1>1. PICK s \in First(Holding(handles, cb)) :
         handles' = [handles EXCEPT ![s].callback = NoCallback]
  BY DEF ThreadUnregister
<1>2. s \in Slots /\ i \in Slots
  BY DEF First, Holding, Active
<1>3. i # s
  BY <1>1, <1>2 DEF Active, TypeOK, Handle
<1>4. handles'[i] = handles[i]
  BY <1>1, <1>2, <1>3 DEF TypeOK
<1>5. i \in Active(handles) /\ cb \in Callback
      /\ age' = [age EXCEPT ![cb] = 0] /\ spent' = [spent EXCEPT ![cb] = 0]
  BY <1>4, TimerAssumption DEF Active, ThreadUnregister
<1>6. handles[i].callback \in Callback /\ handles[i].tickCounter \in Int
  BY <1>5, HandleTypes
<1>7. Larger(0, age'[handles[i].callback] - spent'[handles[i].callback]) <= Idle(handles[i].callback)
  BY <1>5, <1>6, IdleReset
<1> QED
  BY <1>4, <1>5, <1>6, <1>7 DEF Carried, Aged, Idle

LEMMA CountDownHandles ==
    ASSUME TypeOK, ThreadCountDown, NEW i \in Active(handles')
    PROVE  Carried(i, IF i = thread.i THEN thread.ticks ELSE 0)
<1>1. thread.i \in Slots /\ i \in Slots /\ age' = age /\ spent' = spent
  BY DEF ThreadCountDown, Active
<1>2. CASE i = thread.i /\ thread.i \in Active(handles)
  <2>1. handles' = [handles EXCEPT ![i].tickCounter = @ - thread.ticks]
    BY <1>2 DEF ThreadCountDown
  <2>2. handles'[i].callback = handles[i].callback
        /\ handles'[i].tickCounter = handles[i].tickCounter - thread.ticks
    BY <1>1, <2>1 DEF TypeOK, Handle
  <2>3. handles'[i].tickCounter <= handles[i].tickCounter - thread.ticks
    BY <1>2, <2>2, HandleTypes, ActivityTypes
  <2> QED
    BY <1>1, <1>2, <2>2, <2>3, HandleTypes DEF Carried, Aged, Idle
<1>3. CASE ~(i = thread.i /\ thread.i \in Active(handles))
  <2>1. handles'[i] = handles[i]
    BY <1>1, <1>3 DEF ThreadCountDown, TypeOK, Handle
  <2>2. i \in Active(handles)
    BY <1>1, <2>1 DEF Active
  <2>3. i # thread.i
    BY <1>3, <2>2
  <2> QED
    BY <1>1, <2>1, <2>2, <2>3, HandleTypes DEF Carried, Aged, Idle
<1> QED
  BY <1>2, <1>3

LEMMA PassHandles ==
    ASSUME TypeOK, TriggerPasses, NEW i \in Active(handles')
    PROVE  /\ Carried(i, IF i = trigger.i THEN trigger.ticks ELSE 0)
           /\ i = trigger.i => handles'[i].tickCounter > 0
<1>1. trigger.i \in Slots /\ i \in Slots /\ age' = age /\ spent' = spent
  BY DEF TriggerPasses, Active
<1>2. CASE i = trigger.i /\ trigger.i \in Active(handles)
  <2>1. handles' = [handles EXCEPT ![i].tickCounter = @ - trigger.ticks]
    BY <1>2 DEF TriggerPasses
  <2>2. handles'[i].callback = handles[i].callback
        /\ handles'[i].tickCounter = handles[i].tickCounter - trigger.ticks
    BY <1>1, <2>1 DEF TypeOK, Handle
  <2>3. ~(handles[i].tickCounter <= trigger.ticks)
    BY <1>2 DEF TriggerPasses, Expired
  <2>4. handles'[i].tickCounter <= handles[i].tickCounter - trigger.ticks
        /\ handles'[i].tickCounter > 0
    BY <1>2, <2>2, <2>3, HandleTypes, ActivityTypes
  <2> QED
    BY <1>1, <1>2, <2>2, <2>4, HandleTypes DEF Carried, Aged, Idle
<1>3. CASE ~(i = trigger.i /\ trigger.i \in Active(handles))
  <2>1. handles'[i] = handles[i]
    BY <1>1, <1>3 DEF TriggerPasses, TypeOK, Handle
  <2>2. i \in Active(handles)
    BY <1>1, <2>1 DEF Active
  <2>3. i # trigger.i
    BY <1>3, <2>2
  <2> QED
    BY <1>1, <2>1, <2>2, <2>3, HandleTypes DEF Carried, Aged, Idle
<1> QED
  BY <1>2, <1>3

LEMMA ButtonHandles ==
    ASSUME TypeOK, ButtonPressed, NEW i \in Active(handles')
    PROVE  Carried(i, elapsed) \/ Renewed(i, 0)
<1>0. ButtonTimer \in Callback /\ i \in Slots /\ handles \in Handles /\ elapsed \in Nat
      /\ pending \in BOOLEAN
  BY TimerAssumption DEF Active, TypeOK, Handles, ButtonPressed
<1>n. PICK n \in Durations : /\ RegisterAtOnce(handles, ButtonTimer, n)
                            /\ age' = Aging([age EXCEPT ![ButtonTimer] = 0], n)
                            /\ spent' = Aging([spent EXCEPT ![ButtonTimer] = 0], n)
  BY DEF ButtonPressed
<1>d. n \in Nat
  BY TimerAssumption DEF Durations
<1>r. PICK now \in Nat : elapsed <= now /\ handles' = Registered(handles, ButtonTimer, elapsed, now)
  BY <1>0, <1>n, <1>d, AtOnce
<1> DEFINE f == [age EXCEPT ![ButtonTimer] = 0]
           g == [spent EXCEPT ![ButtonTimer] = 0]
<1>a. ASSUME NEW c \in Callback
      PROVE  /\ Larger(0, age'[c] - spent'[c]) <= Larger(0, f[c] - g[c])
             /\ Larger(0, age'[c] - spent'[c]) \in Nat
  <2>1. f \in [Callback -> Nat] /\ g \in [Callback -> Nat]
    BY <1>0, IdleReset
  <2>0. age' = Aging(f, n) /\ spent' = Aging(g, n)
    BY <1>n
  <2> HIDE DEF f, g
  <2>2. age'[c] \in Nat /\ spent'[c] \in Nat
    BY <1>d, <2>0, <2>1, AgingType
  <2> QED
    BY <1>d, <2>0, <2>1, <2>2, IdleAfter DEF Larger
<1>1. CASE /\ handles'[i].callback = ButtonTimer
           /\ handles'[i].tickCounter <= Interval[ButtonTimer]
  <2>1. Larger(0, f[ButtonTimer] - g[ButtonTimer]) = 0
    BY <1>0, IdleReset
  <2> HIDE DEF f, g
  <2>2. Larger(0, age'[ButtonTimer] - spent'[ButtonTimer]) = 0
    BY <1>0, <1>a, <2>1
  <2>3. Interval[ButtonTimer] \in Nat /\ handles'[i].tickCounter \in Int
    BY <1>0, <1>r, RegisterType, TimerAssumption DEF Handles, Handle
  <2> QED
    BY <1>1, <2>2, <2>3 DEF Renewed, Aged, Idle, Due
<1>2. CASE /\ i \in Active(handles) /\ handles'[i].callback = handles[i].callback
           /\ handles'[i].tickCounter <= handles[i].tickCounter - elapsed
  <2>1. handles[i].callback \in Callback /\ handles[i].tickCounter \in Int /\ Aged(i) \in Nat
    BY <1>2, HandleTypes
  <2>2. Larger(0, f[handles[i].callback] - g[handles[i].callback]) <= Idle(handles[i].callback)
        /\ Larger(0, f[handles[i].callback] - g[handles[i].callback]) \in Int
    <3>1. /\ f \in [Callback -> Nat] /\ g \in [Callback -> Nat]
          /\ Larger(0, f[handles[i].callback] - g[handles[i].callback]) <= Idle(handles[i].callback)
      BY <1>0, <2>1, IdleReset
    <3> HIDE DEF f, g
    <3>2. f[handles[i].callback] \in Nat /\ g[handles[i].callback] \in Nat
      BY <2>1, <3>1
    <3> QED
      BY <3>1, <3>2 DEF Larger
  <2> HIDE DEF f, g
  <2>3. Larger(0, age'[handles[i].callback] - spent'[handles[i].callback]) <= Idle(handles[i].callback)
    BY <1>a, <2>1, <2>2 DEF Aged
  <2> QED
    BY <1>0, <1>2, <2>1, <2>3 DEF Carried, Aged, Idle
<1> QED
  BY <1>0, <1>1, <1>2, <1>r, RegisteredHandle

LEMMA CallHandles ==
    ASSUME TypeOK, TriggerCalls, NEW i \in Active(handles')
    PROVE  \/ i # trigger.i /\ Carried(i, 0)
           \/ Renewed(i, 0)
           \/ i = trigger.i /\ Recalled(i)
<1> DEFINE k == trigger.i
           cb == handles[k].callback
           started == Starts[cb]
           a == After(k)
<1>0. elapsed \in Nat /\ pending \in BOOLEAN
  BY DEF TypeOK
<1>1. k \in Active(handles) /\ cb \in Callback /\ a \in Handles /\ i \in Slots
      /\ a[k].callback = (IF OneShot[cb] THEN NoCallback ELSE cb)
      /\ \A j \in Slots \ {k} : a[j] = handles[j]
  BY <1>0, CallsStep, AfterType DEF Active
<1>2. handles[k].tickCounter <= trigger.ticks
  BY DEF TriggerCalls, Expired
<1>3. /\ Interval[cb] \in Nat /\ trigger.ticks \in Nat /\ handles[k].tickCounter \in Int
      /\ a[k].tickCounter = handles[k].tickCounter - trigger.ticks
                              + (IF OneShot[cb] THEN 0 ELSE Interval[cb])
  <2>1. handles[k] \in Handle /\ k \in Slots
    BY <1>1 DEF TypeOK, Active
  <2>2. Interval[cb] \in Nat /\ trigger.ticks \in Nat /\ handles[k].tickCounter \in Int
    BY <1>1, HandleTypes, ActivityTypes, TimerAssumption
  <2>3. CASE OneShot[cb]
    BY <1>1, <2>1, <2>2, <2>3 DEF After, TypeOK
  <2>4. CASE ~OneShot[cb]
    BY <1>1, <2>1, <2>2, <2>4 DEF After, TypeOK
  <2> QED
    BY <2>2, <2>3, <2>4
<1>a. ASSUME NEW c \in Callback
      PROVE  /\ c = started => Larger(0, age'[c] - spent'[c]) = 0
             /\ c # cb => Larger(0, age'[c] - spent'[c]) <= Idle(c)
             /\ c = cb /\ ~OneShot[cb] =>
                  Larger(0, age'[c] - spent'[c]) <= Larger(0, Idle(cb) - Interval[cb])
  <2>1. PICK n \in Nat : age' = Aging(AgesAt(cb), n) /\ spent' = Aging(SpentAt(cb), n)
    BY <1>0, CallsStep
  <2>2. AgesAt(cb) \in [Callback -> Nat] /\ SpentAt(cb) \in [Callback -> Nat]
    BY <1>1, AgeType DEF TypeOK
  <2>3. age'[c] \in Nat /\ spent'[c] \in Nat
    BY <2>1, <2>2, AgingType
  <2> DEFINE new == Larger(0, age'[c] - spent'[c])
             left == Larger(0, AgesAt(cb)[c] - SpentAt(cb)[c])
  <2>4. new \in Nat /\ new <= left
    BY <2>1, <2>2, <2>3, IdleAfter DEF Larger
  <2>5. /\ left \in Int
        /\ c = started => left = 0
        /\ c # cb => left <= Idle(c)
        /\ c = cb /\ ~OneShot[cb] => left <= Larger(0, Idle(cb) - Interval[cb])
    BY <1>1, IdleCalled
  <2>6. Idle(c) \in Int /\ Larger(0, Idle(cb) - Interval[cb]) \in Int
    <3>1. age[c] \in Nat /\ spent[c] \in Nat /\ age[cb] \in Nat /\ spent[cb] \in Nat
      BY <1>1 DEF TypeOK
    <3> QED
      BY <1>3, <3>1 DEF Idle, Larger
  <2> HIDE DEF new, left
  <2>7. /\ c = started => new = 0
        /\ c # cb => new <= Idle(c)
        /\ c = cb /\ ~OneShot[cb] => new <= Larger(0, Idle(cb) - Interval[cb])
    BY <2>4, <2>5, <2>6
  <2> QED
    BY <2>7 DEF new
<1>4. \/ /\ started \in Callback /\ handles'[i].callback = started
         /\ handles'[i].tickCounter <= Interval[started]
      \/ /\ i \in Active(a) /\ handles'[i].callback = a[i].callback
         /\ handles'[i].tickCounter <= a[i].tickCounter
  <2>0. a[i].tickCounter \in Int
    BY <1>1 DEF Handles, Handle
  <2>1. CASE started = NoCallback
    <3>1. handles' = a
      BY <1>0, <2>1, CallsStep
    <3> HIDE DEF a
    <3> QED
      BY <2>0, <3>1
  <2>2. CASE started # NoCallback
    <3>1. started \in Callback
      BY <1>1, <2>2, TimerAssumption
    <3>2. PICK now \in Nat : elapsed <= now /\ handles' = Registered(a, started, elapsed, now)
      BY <1>0, <2>2, CallsStep
    <3>t. handles'[i].tickCounter \in Int
      BY <1>0, <1>1, <3>1, <3>2, RegisterType DEF Handles, Handle
    <3> HIDE DEF a, started
    <3> QED
      BY <1>0, <1>1, <2>0, <3>1, <3>2, <3>t, RegisteredHandle
  <2> QED
    BY <2>1, <2>2
<1>t. handles'[i].tickCounter \in Int
  BY <1>1, CallsType DEF Handles, Handle
<1> HIDE DEF a
<1>5. CASE /\ started \in Callback /\ handles'[i].callback = started
           /\ handles'[i].tickCounter <= Interval[started]
  <2>1. Larger(0, age'[started] - spent'[started]) = 0 /\ Interval[started] \in Nat
    BY <1>a, <1>5, TimerAssumption
  <2> QED
    BY <1>5, <1>t, <2>1 DEF Renewed, Aged, Idle, Due
<1>6. CASE /\ i \in Active(a) /\ handles'[i].callback = a[i].callback
           /\ handles'[i].tickCounter <= a[i].tickCounter /\ i # k
  <2>1. i \in Active(handles) /\ handles'[i].callback = handles[i].callback
        /\ handles'[i].tickCounter <= handles[i].tickCounter
    BY <1>1, <1>6 DEF Active
  <2>2. handles[i].callback \in Callback /\ handles[i].tickCounter \in Int /\ Aged(i) \in Nat
    BY <2>1, HandleTypes
  <2>3. Larger(0, age'[handles[i].callback] - spent'[handles[i].callback]) <= Idle(handles[i].callback)
    <3>1. CASE handles[i].callback # cb
      BY <1>a, <2>2, <3>1
    <3>2. CASE handles[i].callback = cb /\ ~OneShot[cb]
      <4>1. Larger(0, age'[cb] - spent'[cb]) <= Larger(0, Idle(cb) - Interval[cb])
        BY <1>1, <1>a, <3>2
      <4>2. age[cb] \in Nat /\ spent[cb] \in Nat /\ age'[cb] \in Nat /\ spent'[cb] \in Nat
        BY <1>1, TypeStep DEF TypeOK, Next, TriggerStep
      <4> QED
        BY <1>3, <3>2, <4>1, <4>2 DEF Idle, Larger
    <3>3. CASE handles[i].callback = cb /\ OneShot[cb]
      <4>1. Larger(0, age'[cb] - spent'[cb]) = 0
        <5>1. PICK n \in Nat : age' = Aging(AgesAt(cb), n) /\ spent' = Aging(SpentAt(cb), n)
          BY <1>0, CallsStep
        <5>2. AgesAt(cb) \in [Callback -> Nat] /\ SpentAt(cb) \in [Callback -> Nat]
              /\ spent[cb] \in Nat
          BY <1>1, AgeType DEF TypeOK
        <5>3. AgesAt(cb)[cb] = 0 /\ SpentAt(cb)[cb] \in Nat
          BY <1>1, <3>3, <5>2 DEF AgesAt, Left
        <5>4. age'[cb] \in Nat /\ spent'[cb] \in Nat
          BY <1>1, <5>1, <5>2, AgingType
        <5>5. Larger(0, age'[cb] - spent'[cb]) <= Larger(0, AgesAt(cb)[cb] - SpentAt(cb)[cb])
          BY <1>1, <5>1, <5>2, IdleAfter
        <5> QED
          BY <5>3, <5>4, <5>5 DEF Larger
      <4> QED
        BY <2>2, <3>3, <4>1 DEF Aged
    <3> QED
      BY <3>1, <3>2, <3>3
  <2> QED
    BY <1>6, <1>t, <2>1, <2>2, <2>3 DEF Carried, Aged, Idle
<1>7. CASE /\ i \in Active(a) /\ handles'[i].callback = a[i].callback
           /\ handles'[i].tickCounter <= a[i].tickCounter /\ i = k
  <2>1. ~OneShot[cb] /\ handles'[i].callback = cb
    BY <1>1, <1>7 DEF Active
  <2>2. Larger(0, age'[cb] - spent'[cb]) <= Larger(0, Idle(cb) - Interval[cb])
    BY <1>1, <1>a, <2>1
  <2>3. Aged(i)' <= Larger(0, Aged(i) - Due(i)) /\ Due(i) = Interval[cb]
    BY <1>7, <2>1, <2>2 DEF Aged, Idle, Due
  <2> QED
    BY <1>1, <1>2, <1>3, <1>7, <2>1, <2>3 DEF Recalled
<1> QED
  BY <1>4, <1>5, <1>6, <1>7

\* One tick: only outside of this code does it make a timer older.
LEMMA TickHandles ==
    ASSUME TypeOK, Tick, NEW i \in Active(handles')
    PROVE  /\ i \in Active(handles) /\ UNCHANGED <<handles, thread, trigger>>
           /\ Due(i)' = Due(i) /\ Aged(i)' \in Nat
           /\ Aged(i)' <= Aged(i) + 1
           /\ Busy \/ Minimal => Aged(i)' <= Aged(i)
<1>1. UNCHANGED <<handles, thread, trigger>> /\ i \in Active(handles)
  BY DEF Tick, Active
<1> DEFINE c == handles[i].callback
<1>2. c \in Callback /\ age \in [Callback -> Nat] /\ spent \in [Callback -> Nat]
      /\ age[c] \in Nat /\ spent[c] \in Nat
  BY <1>1, HandleTypes DEF TypeOK
<1>3. age' = Aging(age, 1) /\ spent' = IF Busy \/ Minimal THEN Aging(spent, 1) ELSE spent
  BY DEF Tick
<1>4. age'[c] \in {age[c] + 1, 0}
  BY <1>2, <1>3 DEF Aging
<1>5. CASE Busy \/ Minimal
  <2>1. spent' = Aging(spent, 1)
    BY <1>3, <1>5
  <2>2. age'[c] \in Nat /\ spent'[c] \in Nat
    BY <1>2, <1>3, <2>1, AgingType
  <2>3. Larger(0, age'[c] - spent'[c]) <= Larger(0, age[c] - spent[c])
    BY <1>2, <1>3, <2>1, IdleAfter
  <2> HIDE DEF c
  <2>4. /\ Larger(0, age'[c] - spent'[c]) \in Nat
        /\ Larger(0, age'[c] - spent'[c]) <= Larger(0, age[c] - spent[c]) + 1
    BY <1>2, <2>2, <2>3 DEF Larger
  <2> QED
    BY <1>1, <2>3, <2>4 DEF Aged, Idle, Due, c
<1>6. CASE ~(Busy \/ Minimal)
  <2>1. spent' = spent
    BY <1>3, <1>6
  <2> HIDE DEF c
  <2>4. /\ Larger(0, age'[c] - spent'[c]) \in Nat
        /\ Larger(0, age'[c] - spent'[c]) <= Larger(0, age[c] - spent[c]) + 1
    BY <1>2, <1>4, <2>1 DEF Larger
  <2> QED
    BY <1>1, <1>6, <2>4 DEF Aged, Idle, Due, c
<1> QED
  BY <1>5, <1>6

LEMMA HandlesTyped ==
    TypeOK => \A i \in Active(handles) :
       /\ i \in Nat /\ i \in Slots /\ i >= 1 /\ i <= MaxHandles
       /\ handles[i].callback \in Callback /\ handles[i].tickCounter \in Int
       /\ Aged(i) \in Nat /\ Due(i) \in Nat \ {0}
  BY HandleTypes

LEMMA NextHandleTypes ==
    TypeOK /\ [Next]_vars => \A i \in Active(handles') :
       /\ i \in Nat /\ i \in Slots /\ i >= 1 /\ i <= MaxHandles
       /\ handles'[i].callback \in Callback /\ handles'[i].tickCounter \in Int
       /\ Aged(i)' \in Nat /\ Due(i)' \in Nat \ {0}
<1>1. TypeOK' => (\A i \in Active(handles) :
       /\ i \in Nat /\ i \in Slots /\ i >= 1 /\ i <= MaxHandles
       /\ handles[i].callback \in Callback /\ handles[i].tickCounter \in Int
       /\ Aged(i) \in Nat /\ Due(i) \in Nat \ {0})'
  BY HandlesTyped, PTL
<1> QED
  BY <1>1, TypeStep DEF Active

LEMMA NextActivityTypes ==
    ASSUME TypeOK, [Next]_vars
    PROVE  /\ elapsed' \in Nat /\ compare' \in Nat /\ pending' \in BOOLEAN
           /\ thread'.i \in Nat /\ thread'.ticks \in Nat /\ thread'.next \in Int \cup {Forever}
           /\ trigger'.i \in Nat /\ trigger'.ticks \in Nat /\ trigger'.next \in Int \cup {Forever}
<1>1. TypeOK'
  BY TypeStep
<1> QED
  BY <1>1 DEF TypeOK, Activity

-----------------------------------------------------------------------------
(* No ticks are lost                                                       *)

InTimeNext(i, ticks) == Aged(i)' + handles'[i].tickCounter - ticks <= Due(i)'

LEMMA CarriedInTime ==
    ASSUME TypeOK, [Next]_vars, NEW i \in Active(handles'), NEW d \in Nat, Carried(i, d),
           NEW t \in Nat, NEW u \in Nat, InTime(i, t), t - d <= u
    PROVE  InTimeNext(i, u)
<1>1. Due(i)' = Due(i) /\ i \in Active(handles)
  BY DEF Carried, Due
<1>2. /\ handles[i].tickCounter \in Int /\ Aged(i) \in Nat /\ Due(i) \in Nat
      /\ handles'[i].tickCounter \in Int /\ Aged(i)' \in Nat
  BY <1>1, HandlesTyped, NextHandleTypes
<1>3. /\ handles'[i].tickCounter <= handles[i].tickCounter - d /\ Aged(i)' <= Aged(i)
      /\ Aged(i) + handles[i].tickCounter - t <= Due(i)
  BY DEF Carried, InTime
<1>4. Aged(i)' + handles'[i].tickCounter - u <= Due(i)
  BY <1>2, <1>3
<1> QED
  BY <1>1, <1>4 DEF InTimeNext

LEMMA RenewedInTime ==
    ASSUME TypeOK, [Next]_vars, NEW i \in Active(handles'), NEW now \in Nat, Renewed(i, now),
           NEW u \in Nat, now <= u
    PROVE  InTimeNext(i, u)
<1>1. handles'[i].tickCounter \in Int /\ Aged(i)' \in Nat /\ Due(i)' \in Nat
  BY NextHandleTypes
<1> QED
  BY <1>1 DEF InTimeNext, Renewed

LEMMA RecalledInTime ==
    ASSUME TypeOK, [Next]_vars, NEW i \in Active(handles'), Recalled(i),
           InTime(i, trigger.ticks), NEW u \in Nat
    PROVE  InTimeNext(i, u)
<1>1. Due(i)' = Due(i) /\ i \in Active(handles)
  BY DEF Recalled, Due
<1>2. /\ handles[i].tickCounter \in Int /\ Aged(i) \in Nat /\ Due(i) \in Nat
      /\ handles'[i].tickCounter \in Int /\ Aged(i)' \in Nat /\ trigger.ticks \in Nat
  BY <1>1, HandlesTyped, NextHandleTypes, ActivityTypes
<1>3. /\ handles[i].tickCounter <= trigger.ticks
      /\ handles'[i].tickCounter <= handles[i].tickCounter - trigger.ticks + Due(i)
      /\ Aged(i)' <= Larger(0, Aged(i) - Due(i))
      /\ Aged(i) + handles[i].tickCounter - trigger.ticks <= Due(i)
  BY DEF Recalled, InTime
<1>4. Aged(i)' + handles'[i].tickCounter - u <= Due(i)
  <2>1. CASE Aged(i)' <= 0
    BY <1>2, <1>3, <2>1
  <2>2. CASE Aged(i)' <= Aged(i) - Due(i)
    BY <1>2, <1>3, <2>2
  <2> QED
    BY <1>3, <2>1, <2>2 DEF Larger
<1> QED
  BY <1>1, <1>4 DEF InTimeNext

\* A step that leaves handles and ages alone.
LEMMA StillInTime ==
    ASSUME UNCHANGED <<handles, age, spent>>, NEW i
    PROVE  /\ Aged(i)' = Aged(i) /\ Due(i)' = Due(i)
           /\ \A t : InTimeNext(i, t) <=> InTime(i, t)
  BY DEF Aged, Idle, Due, InTimeNext, InTime

LEMMA SetupForEffect ==
    ASSUME NEW next, NEW least, SetupFor(next, least)
    PROVE  \/ next = Forever /\ elapsed' = elapsed /\ compare' = compare
           \/ next # Forever /\ elapsed' = 0 /\ compare' = Larger(next, least)
  BY DEF SetupFor, Setup

LEMMA NearestEffect ==
    ASSUME NEW h \in Handles, SetupForNearest(h), Active(h) # {}
    PROVE  /\ elapsed' = 0
           /\ \E m \in Active(h) : /\ compare' = Larger(h[m].tickCounter, MinRegister)
                                  /\ \A j \in Active(h) : h[m].tickCounter <= h[j].tickCounter
<1>1. PICK m \in Nearest(h) : SetupFor(h[m].tickCounter, MinRegister)
  BY DEF SetupForNearest
<1>2. /\ m \in Active(h) /\ m \in Slots
      /\ \A j \in Active(h) : h[m].tickCounter <= h[j].tickCounter
  BY <1>1 DEF Nearest, Active
<1>3. h[m].tickCounter # Forever
  BY <1>2, TimerAssumption DEF Handles, Handle
<1> QED
  BY <1>1, <1>2, <1>3, SetupForEffect

LEMMA NoTicksLostNext ==
    ASSUME \A i \in Active(handles') :
              /\ trigger'.pc = "rest" => InTimeNext(i, elapsed')
              /\ trigger'.pc # "rest" => InTimeNext(i, IF i < trigger'.i THEN 0 ELSE trigger'.ticks)
              /\ thread'.pc = "loop"  => InTimeNext(i, IF i < thread'.i THEN 0 ELSE thread'.ticks)
    PROVE  NoTicksLost'
  BY DEF NoTicksLost, InTimeNext, InTime, Active

LEMMA NoTicksLostStep ==
    ASSUME TypeOK, NoTicksLost, [Next]_vars
    PROVE  NoTicksLost'
<1> SUFFICES ASSUME NEW i \in Active(handles')
             PROVE  /\ trigger'.pc = "rest" => InTimeNext(i, elapsed')
                    /\ trigger'.pc # "rest" =>
                         InTimeNext(i, IF i < trigger'.i THEN 0 ELSE trigger'.ticks)
                    /\ thread'.pc = "loop" =>
                         InTimeNext(i, IF i < thread'.i THEN 0 ELSE thread'.ticks)
  BY NoTicksLostNext
<1> DEFINE Goal == /\ trigger'.pc = "rest" => InTimeNext(i, elapsed')
                   /\ trigger'.pc # "rest" =>
                        InTimeNext(i, IF i < trigger'.i THEN 0 ELSE trigger'.ticks)
                   /\ thread'.pc = "loop" =>
                        InTimeNext(i, IF i < thread'.i THEN 0 ELSE thread'.ticks)
           tickT == IF i < trigger.i THEN 0 ELSE trigger.ticks
           tickR == IF i < thread.i THEN 0 ELSE thread.ticks
<1>a. i \in Nat /\ i >= 1 /\ i <= MaxHandles /\ MaxHandles \in Nat /\ Slots = 1 .. MaxHandles
  BY NextHandleTypes, TimerAssumption DEF Slots
<1>b. /\ elapsed \in Nat /\ elapsed' \in Nat /\ tickT \in Nat /\ tickR \in Nat
      /\ trigger.i \in Nat /\ thread.i \in Nat /\ trigger.ticks \in Nat /\ thread.ticks \in Nat
  BY ActivityTypes, NextActivityTypes
<1>c. i \in Active(handles) =>
        /\ trigger.pc = "rest" => InTime(i, elapsed)
        /\ trigger.pc # "rest" => InTime(i, tickT)
        /\ thread.pc = "loop"  => InTime(i, tickR)
  BY DEF NoTicksLost
<1>1. ASSUME NEW cb \in ThreadTimers, ThreadRegister(cb) PROVE Goal
  <2>1. trigger.pc = "rest" /\ UNCHANGED <<elapsed, trigger>> /\ thread'.pc = "read"
    BY <1>1 DEF ThreadRegister, ThreadRuns, TypeOK, Activity
  <2>2. CASE Carried(i, 0)
    <3>1. i \in Active(handles) /\ elapsed - 0 <= elapsed
      BY <1>b, <2>2 DEF Carried
    <3>2. InTimeNext(i, elapsed)
      BY <1>b, <1>c, <2>1, <2>2, <3>1, CarriedInTime
    <3> QED
      BY <2>1, <3>2
  <2>3. CASE Renewed(i, elapsed)
    <3>1. InTimeNext(i, elapsed)
      BY <1>b, <2>3, RenewedInTime
    <3> QED
      BY <2>1, <3>1
  <2> QED
    BY <1>1, <2>2, <2>3, RegisterHandles
<1>2. ASSUME NEW cb \in ThreadTimers, ThreadUnregister(cb) PROVE Goal
  <2>1. trigger.pc = "rest" /\ UNCHANGED <<elapsed, trigger>> /\ thread'.pc = "rest"
    BY <1>2 DEF ThreadUnregister, ThreadRuns
  <2>2. Carried(i, 0) /\ i \in Active(handles) /\ elapsed - 0 <= elapsed
    BY <1>2, <1>b, UnregisterHandles DEF Carried
  <2>3. InTimeNext(i, elapsed)
    BY <1>b, <1>c, <2>1, <2>2, CarriedInTime
  <2> QED
    BY <2>1, <2>3
<1>3. ASSUME ThreadReadElapsed PROVE Goal
  <2>1. trigger.pc = "rest" /\ UNCHANGED <<elapsed, trigger, handles, age, spent>>
        /\ thread'.i = 1 /\ thread'.ticks = elapsed
    BY <1>3 DEF ThreadReadElapsed, ThreadRuns
  <2>2. InTimeNext(i, elapsed)
    BY <1>c, <2>1, StillInTime
  <2> QED
    BY <1>a, <2>1, <2>2
<1>4. ASSUME ThreadCountDown PROVE Goal
  <2> DEFINE d == IF i = thread.i THEN thread.ticks ELSE 0
  <2>1. /\ trigger.pc = "rest" /\ thread.pc = "loop" /\ thread'.pc = "loop"
        /\ thread'.i = thread.i + 1 /\ thread'.ticks = thread.ticks
        /\ UNCHANGED <<elapsed, trigger>>
    BY <1>4 DEF ThreadCountDown, ThreadRuns, TypeOK, Activity
  <2>2. Carried(i, d) /\ d \in Nat /\ i \in Active(handles)
    BY <1>4, <1>b, CountDownHandles DEF Carried
  <2>3. elapsed - d <= elapsed
    BY <1>b, <2>2
  <2>4. InTimeNext(i, elapsed)
    BY <1>b, <1>c, <2>1, <2>2, <2>3, CarriedInTime
  <2>5. InTimeNext(i, IF i < thread.i + 1 THEN 0 ELSE thread.ticks)
    <3> DEFINE u == IF i < thread.i + 1 THEN 0 ELSE thread.ticks
    <3>1. u \in Nat /\ tickR - d <= u
      BY <1>a, <1>b
    <3> HIDE DEF u, d, tickR
    <3>2. InTimeNext(i, u)
      BY <1>b, <1>c, <2>1, <2>2, <3>1, CarriedInTime
    <3> QED
      BY <3>2 DEF u
  <2> QED
    BY <2>1, <2>4, <2>5
<1>5. ASSUME ThreadSetup PROVE Goal
  <2>1. /\ trigger.pc = "rest" /\ thread.pc = "loop" /\ thread.i \notin Slots /\ thread'.pc = "rest"
        /\ SetupFor(thread.next, MinRegister) /\ UNCHANGED <<handles, age, spent, trigger>>
    BY <1>5 DEF ThreadSetup, ThreadRuns, Resting
  <2>2. i \in Active(handles) /\ i < thread.i
    BY <1>a, <1>b, <2>1, ActivityTypes
  <2>3. InTime(i, elapsed) /\ InTime(i, 0)
    BY <1>c, <2>1, <2>2
  <2>4. InTimeNext(i, elapsed')
    BY <2>1, <2>3, StillInTime, SetupForEffect
  <2> QED
    BY <2>1, <2>4
<1>6. ASSUME TriggerStarts PROVE Goal
  <2>1. /\ trigger.pc = "rest" /\ trigger'.pc = "loop" /\ trigger'.i = 1 /\ trigger'.ticks = elapsed
        /\ UNCHANGED <<handles, age, spent, thread>>
    BY <1>6 DEF TriggerStarts
  <2>2. InTimeNext(i, elapsed) /\ (thread.pc = "loop" => InTimeNext(i, tickR))
    BY <1>c, <2>1, StillInTime
  <2> QED
    BY <1>a, <2>1, <2>2
<1>7. ASSUME TriggerPasses PROVE Goal
  <2> DEFINE d == IF i = trigger.i THEN trigger.ticks ELSE 0
             u == IF i < trigger.i + 1 THEN 0 ELSE trigger.ticks
  <2>1. /\ trigger.pc = "loop" /\ trigger'.pc = "loop" /\ trigger'.i = trigger.i + 1
        /\ trigger'.ticks = trigger.ticks /\ UNCHANGED thread
    BY <1>7 DEF TriggerPasses, Seen, TypeOK, Activity
  <2>2. Carried(i, d) /\ d \in Nat /\ i \in Active(handles)
    BY <1>7, <1>b, PassHandles DEF Carried
  <2>3. u \in Nat /\ tickT - d <= u /\ tickR - d <= tickR
    BY <1>a, <1>b
  <2> HIDE DEF u, d, tickR, tickT
  <2>4. InTimeNext(i, u)
    BY <1>b, <1>c, <2>1, <2>2, <2>3, CarriedInTime
  <2>5. thread.pc = "loop" => InTimeNext(i, tickR)
    BY <1>b, <1>c, <2>2, <2>3, CarriedInTime
  <2> QED
    BY <2>1, <2>4, <2>5 DEF u, tickR
<1>8. ASSUME TriggerCalls PROVE Goal
  <2> DEFINE u == IF i < trigger.i + 1 THEN 0 ELSE trigger.ticks
  <2>1. /\ trigger.pc = "loop" /\ trigger'.pc # "rest" /\ trigger'.i = trigger.i + 1
        /\ trigger'.ticks = trigger.ticks /\ UNCHANGED thread
    BY <1>8, CallsTrigger DEF TriggerCalls
  <2>2. u \in Nat /\ 0 <= u /\ 0 <= tickR /\ tickR - 0 <= tickR /\ (i # trigger.i => tickT - 0 <= u)
        /\ (i = trigger.i => tickT = trigger.ticks)
    BY <1>a, <1>b
  <2> HIDE DEF u, tickR, tickT
  <2>3. InTimeNext(i, u) /\ (thread.pc = "loop" => InTimeNext(i, tickR))
    <3>1. CASE i # trigger.i /\ Carried(i, 0)
      <4>1. i \in Active(handles)
        BY <3>1 DEF Carried
      <4> QED
        BY <1>b, <1>c, <2>1, <2>2, <3>1, <4>1, CarriedInTime
    <3>2. CASE Renewed(i, 0)
      BY <1>b, <2>2, <3>2, RenewedInTime
    <3>3. CASE i = trigger.i /\ Recalled(i)
      <4>1. i \in Active(handles)
        BY <3>3 DEF Recalled
      <4>2. InTime(i, trigger.ticks)
        BY <1>c, <2>1, <2>2, <3>3, <4>1
      <4> QED
        BY <1>b, <2>2, <3>3, <4>2, RecalledInTime
    <3> QED
      BY <1>8, <3>1, <3>2, <3>3, CallHandles
  <2> QED
    BY <2>1, <2>3 DEF u, tickR
<1>p. ASSUME TriggerPosted PROVE Goal
  <2>1. /\ trigger.pc # "rest" /\ trigger'.pc # "rest" /\ trigger'.i = trigger.i
        /\ trigger'.ticks = trigger.ticks /\ UNCHANGED <<handles, age, spent, thread>>
    BY <1>p, PostedTrigger DEF TriggerPosted
  <2>2. i \in Active(handles)
    BY <2>1
  <2> QED
    BY <1>c, <2>1, <2>2, StillInTime
<1>9. ASSUME TriggerEnds PROVE Goal
  <2>1. /\ trigger.pc = "loop" /\ trigger.i \notin Slots /\ trigger'.pc = "rest"
        /\ UNCHANGED <<handles, age, spent, thread>>
    BY <1>9 DEF TriggerEnds, Resting
  <2>2. i \in Active(handles) /\ i < trigger.i
    BY <1>a, <1>b, <2>1, ActivityTypes
  <2>3. InTime(i, 0) /\ (thread.pc = "loop" => InTimeNext(i, tickR))
    BY <1>c, <2>1, <2>2, StillInTime
  <2>4. InTimeNext(i, elapsed')
    <3>1. Aged(i) \in Nat /\ handles[i].tickCounter \in Int /\ Due(i) \in Nat
      BY <2>2, HandlesTyped
    <3>2. InTime(i, elapsed')
      BY <1>b, <2>3, <3>1 DEF InTime
    <3> QED
      BY <2>1, <3>2, StillInTime
  <2> QED
    BY <2>1, <2>3, <2>4
<1>10. ASSUME ButtonPressed PROVE Goal
  <2>1. UNCHANGED <<trigger, thread>> /\ SetupForNearest(handles')
    BY <1>10, TimerAssumption, AtOnce DEF ButtonPressed, Durations, TypeOK
  <2>2. elapsed' = 0
    BY <2>1, TypeStep, NearestEffect DEF TypeOK, Handles
  <2>3. /\ elapsed - elapsed <= 0 /\ tickT - elapsed <= tickT /\ tickR - elapsed <= tickR
        /\ 0 <= tickT /\ 0 <= tickR
    BY <1>b
  <2> HIDE DEF tickR, tickT
  <2>4. /\ trigger.pc = "rest" => InTimeNext(i, 0)
        /\ trigger.pc # "rest" => InTimeNext(i, tickT)
        /\ thread.pc = "loop" => InTimeNext(i, tickR)
    <3>1. CASE Carried(i, elapsed)
      <4>1. i \in Active(handles)
        BY <3>1 DEF Carried
      <4>2. trigger.pc = "rest" => InTimeNext(i, 0)
        BY <1>b, <1>c, <2>3, <3>1, <4>1, CarriedInTime
      <4> QED
        BY <1>b, <1>c, <2>3, <3>1, <4>1, <4>2, CarriedInTime
    <3>2. CASE Renewed(i, 0)
      BY <1>b, <2>3, <3>2, RenewedInTime
    <3> QED
      BY <1>10, <3>1, <3>2, ButtonHandles
  <2> QED
    BY <2>1, <2>2, <2>4 DEF tickR, tickT
<1>11. ASSUME Tick PROVE Goal
  <2>1. /\ i \in Active(handles) /\ UNCHANGED <<handles, trigger, thread>>
        /\ Due(i)' = Due(i) /\ Aged(i)' \in Nat /\ Aged(i)' <= Aged(i) + 1
        /\ Busy => Aged(i)' <= Aged(i)
        /\ elapsed' = elapsed + 1
    BY <1>11, TickHandles DEF Tick
  <2>2. Aged(i) \in Nat /\ Due(i) \in Nat /\ handles[i].tickCounter \in Int
    BY <2>1, HandlesTyped
  <2> HIDE DEF tickR, tickT
  <2>3. trigger.pc = "rest" => InTimeNext(i, elapsed')
    BY <1>b, <1>c, <2>1, <2>2 DEF InTimeNext, InTime
  <2>4. trigger.pc # "rest" => InTimeNext(i, tickT)
    BY <1>b, <1>c, <2>1, <2>2 DEF InTimeNext, InTime, Busy
  <2>5. thread.pc = "loop" => InTimeNext(i, tickR)
    BY <1>b, <1>c, <2>1, <2>2 DEF InTimeNext, InTime, Busy
  <2> QED
    BY <2>1, <2>3, <2>4, <2>5 DEF tickR, tickT
<1>12. CASE UNCHANGED vars
  <2>1. UNCHANGED <<handles, age, spent, elapsed, trigger, thread>>
    BY <1>12 DEF vars
  <2> QED
    BY <1>c, <2>1, StillInTime
<1> QED
  BY <1>1, <1>2, <1>3, <1>4, <1>5, <1>6, <1>7, <1>8, <1>9, <1>10, <1>11, <1>12, <1>p
     DEF Next, ThreadStep, TriggerStep

-----------------------------------------------------------------------------
(* The hardware timer is set up soon enough                                *)

\* No interval is shorter than the shortest setup of a trigger.
MinimumIsShort == \A cb \in Callback : MinTrigger <= Interval[cb]

LEMMA Scale ==
    ASSUME TableFits, MinimumIsShort
    PROVE  /\ MaxInterval \in Nat \ {0}
           /\ \A cb \in Callback : Interval[cb] \in Nat \ {0} /\ Interval[cb] <= MaxInterval
           /\ MinRegister \in Nat \ {0} /\ MinTrigger \in Nat \ {0} /\ MinTrigger <= MaxInterval
           /\ \A cb \in Callback : MinTrigger <= Interval[cb]
<1>1. MaxInterval \in Nat \ {0} /\ \A cb \in Callback : Interval[cb] <= MaxInterval
  BY LongestInterval DEF TableFits
<1>2. ButtonTimer \in Callback /\ MinRegister \in Nat \ {0} /\ MinTrigger \in Nat \ {0}
      /\ \A cb \in Callback : Interval[cb] \in Nat \ {0}
  BY TimerAssumption
<1>3. MinTrigger <= Interval[ButtonTimer] /\ Interval[ButtonTimer] <= MaxInterval
  BY <1>1, <1>2 DEF MinimumIsShort
<1>4. MinTrigger <= MaxInterval
  BY <1>1, <1>2, <1>3
<1> QED
  BY <1>1, <1>2, <1>4 DEF MinimumIsShort

LEMMA SmallerBelow ==
    ASSUME NEW x \in Int \cup {Forever}, NEW y \in Int
    PROVE  /\ Smaller(x, y) \in Int /\ Smaller(x, y) <= y /\ Smaller(x, y) # Forever
           /\ x # Forever => Smaller(x, y) <= x
  BY TimerAssumption DEF Smaller

LEMMA SmallerSeen ==
    ASSUME NEW x, NEW y, NEW z, x \in Int \cup {Forever}, y \in Int, z = Smaller(x, y)
    PROVE  /\ z \in Int /\ z <= y /\ z # Forever
           /\ x # Forever => z <= x
  BY SmallerBelow

\* A setup that is not for longer than the longest interval, or for the minimal time.
Soon == /\ compare' > MinRegister => compare' <= MaxInterval
        /\ compare' # Passed => elapsed' < compare'

LEMMA SetupSoon ==
    ASSUME TypeOK, TableFits, MinimumIsShort, SoonEnough,
           NEW next \in Int \cup {Forever}, next # Forever => next <= MaxInterval,
           NEW least \in {MinRegister, MinTrigger}, SetupFor(next, least)
    PROVE  Soon
<1>1. /\ least \in Nat \ {0} /\ MaxInterval \in Nat /\ MinRegister \in Nat
      /\ least = MinRegister \/ least <= MaxInterval
  BY Scale
<1>2. CASE next = Forever
  <2>1. compare' = compare /\ elapsed' = elapsed
    BY <1>2 DEF SetupFor
  <2> QED
    BY <2>1 DEF SoonEnough, Soon
<1>3. CASE next # Forever
  <2>1. compare' = Larger(next, least) /\ elapsed' = 0
    BY <1>3 DEF SetupFor, Setup
  <2>2. next \in Int /\ next <= MaxInterval
    BY <1>3
  <2> QED
    BY <1>1, <2>1, <2>2 DEF Larger, Soon
<1> QED
  BY <1>2, <1>3

LEMMA NearestSoon ==
    ASSUME TableFits, MinimumIsShort, NEW h \in Handles, Unique(h), NEW cb \in Callback,
           NEW start \in Nat, NEW now \in Nat, start <= now,
           SetupForNearest(Registered(h, cb, start, now))
    PROVE  Soon
<1> DEFINE g == Registered(h, cb, start, now)
<1>1. g \in Handles
  BY RegisterType
<1>2. PICK i \in Active(g) : g[i].tickCounter <= Interval[cb]
  BY RegisteredThere
<1>3. PICK m \in Active(g) : /\ compare' = Larger(g[m].tickCounter, MinRegister)
                             /\ \A j \in Active(g) : g[m].tickCounter <= g[j].tickCounter
  BY <1>1, <1>2, NearestEffect
<1>4. elapsed' = 0
  BY <1>1, <1>2, NearestEffect
<1> HIDE DEF g
<1>5. g[m].tickCounter \in Int /\ g[m].tickCounter <= Interval[cb]
  <2>1. g[m].tickCounter \in Int /\ g[i].tickCounter \in Int /\ Interval[cb] \in Int
    BY <1>1, <1>2, <1>3, TimerAssumption DEF Handles, Handle, Active
  <2> QED
    BY <1>2, <1>3, <2>1
<1>6. /\ Interval[cb] \in Nat /\ Interval[cb] <= MaxInterval /\ MaxInterval \in Nat \ {0}
      /\ MinRegister \in Nat \ {0}
  BY Scale
<1> QED
  BY <1>3, <1>4, <1>5, <1>6 DEF Larger, Soon

LEMMA AfterUnique ==
    ASSUME TypeOK, Unique(handles), NEW k \in Active(handles)
    PROVE  Unique(After(k))
<1> DEFINE cb == handles[k].callback
<1>1. After(k) \in Handles /\ handles \in Handles
  BY AfterType DEF TypeOK, Handles
<1>2. CASE OneShot[cb]
  <2>1. /\ After(k)[k].callback = NoCallback
        /\ \A j \in Slots \ {k} : After(k)[j].callback = handles[j].callback
    BY <1>2, AfterType
  <2> QED
    BY <1>1, <2>1, LeaveHandle
<1>3. CASE ~OneShot[cb]
  <2>1. SameCallbacks(After(k), handles)
    BY <1>3, AfterType DEF SameCallbacks
  <2> QED
    BY <2>1, CallbacksOnly
<1> QED
  BY <1>2, <1>3

\* The counter of a handle a loop has gone through.
LEMMA SeenBelow ==
    ASSUME TypeOK, [Next]_vars, TableFits, MinimumIsShort, NEW i \in Active(handles'), InTimeNext(i, 0)
    PROVE  handles'[i].tickCounter \in Int /\ handles'[i].tickCounter <= MaxInterval
<1>1. /\ handles'[i].tickCounter \in Int /\ Aged(i)' \in Nat
      /\ handles'[i].callback \in Callback /\ Due(i)' = Interval[handles'[i].callback]
  BY NextHandleTypes DEF Due
<1>2. Due(i)' \in Nat /\ Due(i)' <= MaxInterval /\ MaxInterval \in Nat
  BY <1>1, Scale
<1> QED
  BY <1>1, <1>2 DEF InTimeNext

LEMMA NoTicksLostThen ==
    ASSUME NoTicksLost', NEW i \in Active(handles')
    PROVE  /\ trigger'.pc = "rest" => InTimeNext(i, elapsed')
           /\ trigger'.pc # "rest" => InTimeNext(i, IF i < trigger'.i THEN 0 ELSE trigger'.ticks)
           /\ thread'.pc = "loop"  => InTimeNext(i, IF i < thread'.i THEN 0 ELSE thread'.ticks)
  BY DEF NoTicksLost, InTimeNext, InTime, Active

\* The smallest counter that the registration's loop has seen so far.
LEMMA ThreadSees ==
    ASSUME TypeOK, NoTicksLost, ThreadCountDown
    PROVE  \/ /\ thread.i \notin Active(handles') /\ thread'.next = thread.next
           \/ /\ thread.i \in Active(handles')
              /\ thread'.next = Smaller(thread.next, handles'[thread.i].tickCounter)
              /\ InTimeNext(thread.i, 0)
<1>0. thread.i < thread.i + 1
  BY ActivityTypes
<1>1. thread.i \in Slots /\ thread'.i = thread.i + 1 /\ thread'.pc = "loop" /\ thread.i < thread.i + 1
  BY <1>0 DEF ThreadCountDown, TypeOK, Activity
<1>2. Active(handles') = Active(handles)
  BY DEF ThreadCountDown, Active, TypeOK, Handle
<1>3. [Next]_vars
  BY DEF Next, ThreadStep
<1>4. CASE thread.i \in Active(handles)
  <2>1. thread'.next = Smaller(thread.next, handles'[thread.i].tickCounter)
    BY <1>4 DEF ThreadCountDown, TypeOK, Activity
  <2>2. InTimeNext(thread.i, 0)
    BY <1>1, <1>2, <1>3, <1>4, NoTicksLostStep, NoTicksLostThen
  <2> QED
    BY <1>2, <1>4, <2>1, <2>2
<1>5. CASE thread.i \notin Active(handles)
  BY <1>2, <1>5 DEF ThreadCountDown, TypeOK, Activity
<1> QED
  BY <1>4, <1>5

\* And the trigger's, which looks at the handle of a callback that posts a message
\* only when the post is over.
Looks(i) == \/ TriggerPasses /\ i = trigger.i
            \/ TriggerCalls /\ trigger'.pc = "loop" /\ i = trigger.i
            \/ TriggerPosted /\ i = trigger.i - 1

LEMMA TriggerSees ==
    ASSUME TypeOK, NoTicksLost, NEW i, Looks(i)
    PROVE  /\ trigger.pc # "rest" /\ trigger'.pc = "loop" /\ trigger'.i = i + 1
           /\ thread' = thread
           /\ \/ i \notin Active(handles') /\ trigger'.next = trigger.next
              \/ /\ i \in Active(handles')
                 /\ trigger'.next = Smaller(trigger.next, handles'[i].tickCounter)
                 /\ InTimeNext(i, 0)
<1>1. [Next]_vars
  BY DEF Looks, Next, TriggerStep
<1>2. i \in Int /\ i < i + 1
  BY ActivityTypes DEF Looks
<1>3. /\ trigger.pc # "rest" /\ trigger'.pc = "loop" /\ trigger'.i = i + 1 /\ thread' = thread
      /\ \/ i \notin Active(handles') /\ trigger'.next = trigger.next
         \/ i \in Active(handles') /\ trigger'.next = Smaller(trigger.next, handles'[i].tickCounter)
  <2>1. CASE TriggerPasses /\ i = trigger.i
    BY <2>1 DEF TriggerPasses, Seen, TypeOK, Activity
  <2>2. CASE TriggerCalls /\ trigger'.pc = "loop" /\ i = trigger.i
    <3>1. trigger' = Seen(handles', i) /\ trigger.pc = "loop" /\ thread' = thread
      BY <2>2, CallsTrigger DEF TriggerCalls
    <3> QED
      BY <2>2, <3>1 DEF Seen, TypeOK, Activity
  <2>3. CASE TriggerPosted /\ i = trigger.i - 1
    <3>1. trigger.i = i + 1
      BY <2>3, ActivityTypes
    <3>2. trigger.pc = "posted" /\ handles' = handles /\ thread' = thread
      BY <2>3 DEF TriggerPosted
    <3> QED
      BY <2>3, <3>1, <3>2, PostedTrigger
  <2> QED
    BY <2>1, <2>2, <2>3 DEF Looks
<1>4. i \in Active(handles') => InTimeNext(i, 0)
  <2>1. SUFFICES ASSUME i \in Active(handles') PROVE InTimeNext(i, 0)
    OBVIOUS
  <2>2. NoTicksLost'
    BY <1>1, NoTicksLostStep
  <2> QED
    BY <1>2, <1>3, <2>1, <2>2, NoTicksLostThen
<1> QED
  BY <1>3, <1>4

\* The step of a callback that has posted a message leaves the look for later.
LEMMA TriggerLooks ==
    ASSUME TypeOK, TriggerPasses \/ TriggerCalls \/ TriggerPosted
    PROVE  \/ \E i : Looks(i)
           \/ /\ TriggerCalls /\ trigger'.pc = "posted" /\ trigger'.next = trigger.next
              /\ trigger'.i = trigger.i + 1 /\ thread' = thread
<1>1. CASE TriggerPasses
  BY <1>1 DEF Looks
<1>2. CASE TriggerPosted
  BY <1>2 DEF Looks
<1>3. CASE TriggerCalls
  <2>1. CASE trigger'.pc = "loop"
    BY <1>3, <2>1 DEF Looks
  <2>2. CASE trigger'.pc # "loop"
    BY <1>3, <2>2, CallsTrigger DEF TriggerCalls
  <2> QED
    BY <2>1, <2>2
<1> QED
  BY <1>1, <1>2, <1>3

LEMMA SoonEnoughStep ==
    ASSUME TableFits, MinimumIsShort, TypeOK, OneHandleEach, NoTicksLost, SoonEnough, [Next]_vars
    PROVE  SoonEnough'
<1>h. handles \in Handles /\ Unique(handles) /\ elapsed \in Nat
  BY DEF Handles, TypeOK, OneHandleEach, Unique
<1>t. thread.next \in Int \cup {Forever} /\ trigger.next \in Int \cup {Forever}
  BY ActivityTypes
<1>s. MaxInterval \in Nat
  BY Scale
<1>1. ASSUME NEW cb \in ThreadTimers, ThreadRegister(cb) \/ ThreadUnregister(cb) PROVE SoonEnough'
  <2>1. UNCHANGED <<elapsed, compare, pending, trigger>> /\ thread'.next = thread.next
    BY <1>1 DEF ThreadRegister, ThreadUnregister, TypeOK, Activity
  <2> QED
    BY <2>1 DEF SoonEnough
<1>2. ASSUME ThreadReadElapsed PROVE SoonEnough'
  BY <1>2 DEF ThreadReadElapsed, SoonEnough
<1>3. ASSUME ThreadCountDown PROVE SoonEnough'
  <2>1. UNCHANGED <<elapsed, compare, pending, trigger>>
    BY <1>3 DEF ThreadCountDown
  <2>2. thread'.next # Forever => thread'.next <= MaxInterval
    <3>1. CASE thread'.next = thread.next
      BY <3>1 DEF SoonEnough
    <3>2. CASE /\ thread.i \in Active(handles')
               /\ thread'.next = Smaller(thread.next, handles'[thread.i].tickCounter)
               /\ InTimeNext(thread.i, 0)
      <4>1. handles'[thread.i].tickCounter \in Int /\ handles'[thread.i].tickCounter <= MaxInterval
        BY <3>2, SeenBelow
      <4>2. thread'.next \in Int /\ thread'.next <= handles'[thread.i].tickCounter
        BY <1>t, <3>2, <4>1, SmallerSeen, Zenon
      <4> QED
        BY <1>s, <4>1, <4>2
    <3> QED
      BY <1>3, <3>1, <3>2, ThreadSees
  <2> QED
    BY <2>1, <2>2 DEF SoonEnough
<1>4. ASSUME ThreadSetup PROVE SoonEnough'
  <2>1. SetupFor(thread.next, MinRegister) /\ thread'.next = Forever /\ UNCHANGED <<pending, trigger>>
    BY <1>4 DEF ThreadSetup, Resting
  <2>2. Soon
    BY <1>t, <2>1, SetupSoon DEF SoonEnough
  <2> QED
    BY <2>1, <2>2 DEF SoonEnough, Soon
<1>5. ASSUME TriggerStarts PROVE SoonEnough'
  BY <1>5 DEF TriggerStarts, SoonEnough
<1>6. ASSUME TriggerPasses \/ TriggerCalls \/ TriggerPosted PROVE SoonEnough'
  <2>1. UNCHANGED thread
    BY <1>6 DEF TriggerPasses, TriggerCalls, TriggerPosted
  <2>2. Soon
    <3>1. CASE TriggerPasses \/ TriggerPosted
      BY <3>1 DEF TriggerPasses, TriggerPosted, SoonEnough, Soon
    <3>2. CASE TriggerCalls
      <4> DEFINE a == After(trigger.i)
                 started == Starts[handles[trigger.i].callback]
      <4>0. pending \in BOOLEAN
        BY DEF TypeOK
      <4>1. trigger.i \in Active(handles) /\ a \in Handles /\ Unique(a)
            /\ handles[trigger.i].callback \in Callback
        BY <1>h, <3>2, <4>0, CallsStep, AfterType, AfterUnique
      <4>2. CASE started = NoCallback
        <5>1. UNCHANGED <<elapsed, compare>>
          BY <1>h, <3>2, <4>0, <4>2, CallsStep
        <5> QED
          BY <5>1 DEF SoonEnough, Soon
      <4>3. CASE started # NoCallback
        <5>1. started \in Callback
          BY <4>1, <4>3, TimerAssumption
        <5>2. /\ \E now \in Nat : elapsed <= now /\ handles' = Registered(a, started, elapsed, now)
              /\ SetupForNearest(handles')
          BY <1>h, <3>2, <4>0, <4>3, CallsStep
        <5> HIDE DEF a, started
        <5> QED
          BY <1>h, <4>1, <5>1, <5>2, NearestSoon
      <4> QED
        BY <4>2, <4>3
    <3> QED
      BY <1>6, <3>1, <3>2
  <2>3. trigger'.next # Forever => trigger'.next <= MaxInterval
    <3>1. CASE trigger'.next = trigger.next
      BY <3>1 DEF SoonEnough
    <3>2. ASSUME NEW i \in Active(handles'), InTimeNext(i, 0),
                 trigger'.next = Smaller(trigger.next, handles'[i].tickCounter)
          PROVE  trigger'.next <= MaxInterval
      <4>1. handles'[i].tickCounter \in Int /\ handles'[i].tickCounter <= MaxInterval
        BY <3>2, SeenBelow
      <4>2. trigger'.next \in Int /\ trigger'.next <= handles'[i].tickCounter
        BY <1>t, <3>2, <4>1, SmallerSeen, Zenon
      <4> QED
        BY <1>s, <4>1, <4>2
    <3> QED
      BY <1>6, <3>1, <3>2, TriggerLooks, TriggerSees
  <2> QED
    BY <2>1, <2>2, <2>3 DEF SoonEnough, Soon
<1>7. ASSUME TriggerEnds PROVE SoonEnough'
  <2>1. SetupFor(trigger.next, MinTrigger) /\ trigger'.next = Forever /\ trigger'.pc = "rest"
        /\ UNCHANGED <<pending, thread>>
    BY <1>7 DEF TriggerEnds, Resting
  <2>2. Soon
    BY <1>t, <2>1, SetupSoon DEF SoonEnough
  <2> QED
    BY <2>1, <2>2 DEF SoonEnough, Soon
<1>8. ASSUME ButtonPressed PROVE SoonEnough'
  <2>1. UNCHANGED <<thread, trigger>> /\ ButtonTimer \in Callback
    BY <1>8, TimerAssumption DEF ButtonPressed
  <2>2. /\ \E now \in Nat : elapsed <= now /\ handles' = Registered(handles, ButtonTimer, elapsed, now)
        /\ SetupForNearest(handles')
    BY <1>8, TimerAssumption, AtOnce DEF ButtonPressed, Durations, TypeOK
  <2>3. Soon
    BY <1>h, <2>1, <2>2, NearestSoon
  <2> QED
    BY <2>1, <2>3 DEF SoonEnough, Soon
<1>9. ASSUME Tick PROVE SoonEnough'
  <2>1. UNCHANGED <<thread, trigger>> /\ elapsed' = elapsed + 1 /\ compare \in Nat
    BY <1>9 DEF Tick, TypeOK
  <2>2. \/ compare' = Passed
        \/ compare' = compare /\ elapsed' # compare
    BY <1>9 DEF Tick
  <2>3. MinRegister \in Nat
    BY Scale
  <2>4. Soon
    BY <1>h, <1>s, <2>1, <2>2, <2>3 DEF SoonEnough, Soon, Passed
  <2> QED
    BY <2>1, <2>4 DEF SoonEnough, Soon
<1>10. CASE UNCHANGED vars
  BY <1>10 DEF vars, SoonEnough
<1> QED
  BY <1>1, <1>2, <1>3, <1>4, <1>5, <1>6, <1>7, <1>8, <1>9, <1>10
     DEF Next, ThreadStep, TriggerStep

-----------------------------------------------------------------------------
(* What the loops have looked at                                           *)

\* Only a tick outside of this code makes a timer older.
Younger(i) == \/ Aged(i)' = 0
              \/ i \in Active(handles) /\ Due(i)' = Due(i) /\ Aged(i)' <= Aged(i)

LEMMA NoTimePasses ==
    ASSUME TypeOK, [Next]_vars, ~Tick, NEW i \in Active(handles')
    PROVE  Younger(i)
<1>1. ASSUME NEW d, Carried(i, d) PROVE Younger(i)
  BY <1>1 DEF Carried, Younger, Due
<1>2. ASSUME NEW now, Renewed(i, now) PROVE Younger(i)
  BY <1>2 DEF Renewed, Younger
<1>3. ASSUME Recalled(i) PROVE Younger(i)
  <2>1. i \in Active(handles) /\ Due(i)' = Due(i) /\ Aged(i)' <= Larger(0, Aged(i) - Due(i))
    BY <1>3 DEF Recalled, Due
  <2>2. Aged(i) \in Nat /\ Due(i) \in Nat /\ Aged(i)' \in Nat
    BY <2>1, HandlesTyped, NextHandleTypes
  <2>3. Aged(i)' <= Aged(i)
    BY <2>1, <2>2 DEF Larger
  <2> QED
    BY <2>1, <2>3 DEF Younger
<1>4. ASSUME UNCHANGED <<handles, age, spent>> PROVE Younger(i)
  <2>1. i \in Active(handles) /\ Aged(i)' = Aged(i) /\ Due(i)' = Due(i)
    BY <1>4 DEF Aged, Idle, Due
  <2>2. Aged(i) <= Aged(i)
    BY <2>1, HandlesTyped
  <2> QED
    BY <2>1, <2>2 DEF Younger
<1>5. CASE \E cb \in ThreadTimers : ThreadRegister(cb) \/ ThreadUnregister(cb)
  BY <1>1, <1>2, <1>5, RegisterHandles, UnregisterHandles
<1>6. CASE \/ ThreadReadElapsed \/ ThreadSetup
           \/ TriggerStarts \/ TriggerPosted \/ TriggerEnds \/ UNCHANGED vars
  BY <1>4, <1>6
     DEF ThreadReadElapsed, ThreadSetup, TriggerStarts, TriggerPosted, TriggerEnds, vars
<1>7. CASE ThreadCountDown
  BY <1>1, <1>7, CountDownHandles
<1>8. CASE TriggerPasses
  BY <1>1, <1>8, PassHandles
<1>9. CASE TriggerCalls
  BY <1>1, <1>2, <1>3, <1>9, CallHandles
<1>10. CASE ButtonPressed
  BY <1>1, <1>2, <1>10, ButtonHandles
<1> QED
  BY <1>5, <1>6, <1>7, <1>8, <1>9, <1>10 DEF Next, ThreadStep, TriggerStep

\* The limits a handle keeps when its timer does not get older.
LEMMA YoungerKeeps ==
    ASSUME TypeOK, [Next]_vars, TableFits, MinimumIsShort, NEW i \in Active(handles'), Younger(i)
    PROVE  /\ Aged(i)' <= Due(i)' \/ i \in Active(handles)
           /\ i \in Active(handles) => \/ Aged(i)' <= Due(i)'
                                       \/ Due(i)' = Due(i) /\ Aged(i)' <= Aged(i)
           /\ (i \in Active(handles) => Aged(i) <= Late(i)) => Aged(i)' <= Late(i)'
           /\ (i \in Active(handles) => Aged(i) < Late(i)) => Aged(i)' < Late(i)'
<1>1. Aged(i)' \in Nat /\ Due(i)' \in Nat \ {0} /\ MaxInterval \in Nat \ {0}
      /\ (i \in Active(handles) => Aged(i) \in Nat /\ Due(i) \in Nat)
  BY HandlesTyped, NextHandleTypes, Scale
<1>2. Late(i) = Due(i) + MaxInterval /\ Late(i)' = Due(i)' + MaxInterval
  BY DEF Late, MaxInterval
<1> QED
  BY <1>1, <1>2 DEF Younger

LEMMA LookedAtStep ==
    ASSUME TableFits, MinimumIsShort, TypeOK, NoTicksLost, LookedAt, Waiting, [Next]_vars
    PROVE  LookedAt'
<1> DEFINE Ready(i) == trigger'.next # Forever /\ Aged(i)' + trigger'.next <= Due(i)'
           Just(i) == trigger'.pc = "posted" /\ i = trigger'.i - 1
           Goal(i) ==
             /\ thread'.pc = "loop" /\ i < thread'.i =>
                  \/ Aged(i)' <= Due(i)'
                  \/ thread'.next # Forever /\ Aged(i)' + thread'.next <= Due(i)'
             /\ trigger'.pc # "rest" /\ i < trigger'.i =>
                  \/ Aged(i)' <= Due(i)'
                  \/ Aged(i)' <= MaxInterval /\ (Ready(i) \/ Just(i))
<1> SUFFICES ASSUME NEW i \in Active(handles') PROVE Goal(i)
  BY DEF LookedAt, Before, JustPosted, Active, MaxInterval
<1>a. /\ i \in Nat /\ i >= 1
      /\ handles'[i].tickCounter \in Int /\ Aged(i)' \in Nat /\ Due(i)' \in Nat
  BY NextHandleTypes
<1>b. i \in Active(handles) => Aged(i) \in Nat /\ Due(i) \in Nat
  BY HandlesTyped
<1>c. /\ thread.i \in Nat /\ trigger.i \in Nat
      /\ thread.next \in Int \cup {Forever} /\ trigger.next \in Int \cup {Forever}
      /\ MaxInterval \in Nat
  BY ActivityTypes, Scale
<1>y. \/ Tick /\ ~Busy
      \/ Aged(i)' <= Due(i)'
      \/ /\ i \in Active(handles) /\ Due(i)' = Due(i) /\ Aged(i)' <= Aged(i)
         /\ Tick => UNCHANGED <<thread, trigger>>
  <2>1. CASE Tick
    BY <2>1, TickHandles
  <2>2. CASE ~Tick
    BY <2>2, NoTimePasses, YoungerKeeps
  <2> QED
    BY <2>1, <2>2
<1>1. CASE Tick /\ ~Busy
  <2>1. thread'.pc = "rest" /\ trigger'.pc = "rest"
    BY <1>1 DEF Tick, Busy
  <2> QED
    BY <2>1
<1>2. CASE ~(Tick /\ ~Busy)
  <2>2. CASE Aged(i)' <= Due(i)'
    BY <2>2
  <2>3. CASE /\ i \in Active(handles) /\ Due(i)' = Due(i) /\ Aged(i)' <= Aged(i)
             /\ Tick => UNCHANGED <<thread, trigger>>
    <3>1. /\ thread.pc = "loop" /\ i < thread.i =>
                  \/ Aged(i) <= Due(i)
                  \/ thread.next # Forever /\ Aged(i) + thread.next <= Due(i)
          /\ trigger.pc # "rest" /\ i < trigger.i =>
               \/ Aged(i) <= Due(i)
               \/ /\ Aged(i) <= MaxInterval
                  /\ \/ trigger.next # Forever /\ Aged(i) + trigger.next <= Due(i)
                     \/ JustPosted(i)
      BY <2>3 DEF LookedAt, Before
    <3>t. thread.pc = "loop" /\ i < thread.i =>
                  \/ Aged(i)' <= Due(i)'
                  \/ thread.next # Forever /\ Aged(i)' + thread.next <= Due(i)'
      BY <1>a, <1>b, <1>c, <2>3, <3>1
    <3>r. trigger.pc # "rest" /\ i < trigger.i =>
               \/ Aged(i)' <= Due(i)'
               \/ /\ Aged(i)' <= MaxInterval
                  /\ \/ trigger.next # Forever /\ Aged(i)' + trigger.next <= Due(i)'
                     \/ JustPosted(i)
      BY <1>a, <1>b, <1>c, <2>3, <3>1
    <3>2. CASE UNCHANGED <<thread, trigger>>
      BY <3>t, <3>r, <3>2 DEF JustPosted
    <3>3. CASE \E cb \in ThreadTimers : ThreadRegister(cb)
      <4>1. thread'.pc = "read" /\ UNCHANGED trigger
        BY <3>3 DEF ThreadRegister, TypeOK, Activity
      <4> QED
        BY <3>r, <4>1 DEF JustPosted
    <3>4. CASE ThreadReadElapsed
      <4>1. thread'.i = 1 /\ UNCHANGED trigger
        BY <3>4 DEF ThreadReadElapsed
      <4> QED
        BY <1>a, <3>r, <4>1 DEF JustPosted
    <3>5. CASE ThreadSetup \/ TriggerEnds
      <4>1. \/ thread'.pc = "rest" /\ UNCHANGED trigger
            \/ trigger'.pc = "rest" /\ UNCHANGED thread
        BY <3>5 DEF ThreadSetup, TriggerEnds, Resting
      <4> QED
        BY <3>t, <3>r, <4>1 DEF JustPosted
    <3>6. CASE TriggerStarts
      <4>1. trigger'.i = 1 /\ UNCHANGED thread
        BY <3>6 DEF TriggerStarts
      <4> QED
        BY <1>a, <3>t, <4>1
    <3>7. CASE ThreadCountDown
      <4>1. thread.pc = "loop" /\ thread'.i = thread.i + 1 /\ UNCHANGED trigger
        BY <3>7 DEF ThreadCountDown, TypeOK, Activity
      <4>2. CASE thread.i \notin Active(handles') /\ thread'.next = thread.next
        <5>1. i < thread'.i => i < thread.i
          BY <1>a, <1>c, <4>1, <4>2
        <5> QED
          BY <3>t, <3>r, <4>1, <4>2, <5>1 DEF JustPosted
      <4>3. CASE /\ thread.i \in Active(handles')
                 /\ thread'.next = Smaller(thread.next, handles'[thread.i].tickCounter)
                 /\ InTimeNext(thread.i, 0)
        <5>1. handles'[thread.i].tickCounter \in Int
          BY <4>3, NextHandleTypes
        <5>2. /\ thread'.next \in Int /\ thread'.next # Forever
              /\ thread'.next <= handles'[thread.i].tickCounter
              /\ thread.next # Forever => thread'.next <= thread.next
          BY <1>c, <4>3, <5>1, SmallerSeen, Zenon
        <5>3. i < thread'.i => i < thread.i \/ i = thread.i
          BY <1>a, <1>c, <4>1
        <5>4. CASE i = thread.i
          <6>1. Aged(i)' + handles'[i].tickCounter <= Due(i)'
            <7>1. InTimeNext(i, 0)
              BY <4>3, <5>4, Zenon
            <7> QED
              BY <1>a, <7>1 DEF InTimeNext
          <6>2. Aged(i)' + thread'.next <= Due(i)'
            BY <1>a, <5>2, <5>4, <6>1
          <6> QED
            BY <3>r, <4>1, <5>2, <6>2 DEF JustPosted
        <5>5. CASE i # thread.i
          <6>1. thread.next # Forever /\ Aged(i)' + thread.next <= Due(i)'
                  => Aged(i)' + thread'.next <= Due(i)'
            BY <1>a, <1>c, <5>2
          <6> QED
            BY <3>t, <3>r, <4>1, <5>2, <5>3, <5>5, <6>1 DEF JustPosted
        <5> QED
          BY <5>4, <5>5
      <4> QED
        BY <3>7, <4>2, <4>3, ThreadSees
    <3>8. ASSUME TriggerCalls, i = trigger.i
          PROVE  Aged(i)' <= Due(i)' \/ Aged(i)' <= MaxInterval
      <4>1. CASE Renewed(i, 0)
        BY <1>a, <4>1 DEF Renewed
      <4>2. CASE Recalled(i)
        <5>1. Aged(i)' <= Larger(0, Aged(i) - Due(i)) /\ Aged(i) <= Due(i) + MaxInterval
          BY <2>3, <4>2 DEF Recalled, Waiting, Late
        <5> QED
          BY <1>a, <1>b, <1>c, <2>3, <5>1 DEF Larger
      <4> QED
        BY <3>8, <4>1, <4>2, CallHandles
    <3>9. ASSUME NEW k, Looks(k) PROVE Goal(i)
      <4>1. /\ trigger.pc # "rest" /\ trigger'.pc = "loop" /\ trigger'.i = k + 1 /\ thread' = thread
            /\ k \in Int
        BY <1>c, <3>9, TriggerSees DEF Looks
      <4>2. /\ i < k + 1 => i < k \/ i = k
            /\ i < k => i < trigger.i /\ ~JustPosted(i)
            /\ i = k => (i = trigger.i /\ (TriggerCalls \/ TriggerPasses)) \/ i < trigger.i
        <5>1. CASE k = trigger.i /\ (TriggerCalls \/ TriggerPasses)
          <6>1. trigger.pc = "loop"
            BY <5>1 DEF TriggerPasses, TriggerCalls
          <6> QED
            BY <1>a, <1>c, <4>1, <5>1, <6>1 DEF JustPosted
        <5>2. CASE k = trigger.i - 1
          BY <1>a, <1>c, <4>1, <5>2 DEF JustPosted
        <5> QED
          BY <3>9, <5>1, <5>2 DEF Looks
      <4>3. CASE k \notin Active(handles') /\ trigger'.next = trigger.next
        <5>1. i # k
          BY <4>3
        <5> QED
          BY <3>t, <3>r, <4>1, <4>2, <4>3, <5>1
      <4>4. CASE /\ k \in Active(handles') /\ InTimeNext(k, 0)
                 /\ trigger'.next = Smaller(trigger.next, handles'[k].tickCounter)
        <5>1. handles'[k].tickCounter \in Int
          BY <4>4, NextHandleTypes
        <5>2. /\ trigger'.next \in Int /\ trigger'.next # Forever
              /\ trigger'.next <= handles'[k].tickCounter
              /\ trigger.next # Forever => trigger'.next <= trigger.next
          BY <1>c, <4>4, <5>1, SmallerSeen, Zenon
        <5>3. CASE i = k
          <6>1. Aged(i)' + handles'[i].tickCounter <= Due(i)'
            <7>1. InTimeNext(i, 0)
              BY <4>4, <5>3, Zenon
            <7> QED
              BY <1>a, <7>1 DEF InTimeNext
          <6>2. Aged(i)' + trigger'.next <= Due(i)'
            BY <1>a, <5>2, <5>3, <6>1
          <6>3. Aged(i)' <= Due(i)' \/ Aged(i)' <= MaxInterval
            <7>1. CASE i < trigger.i
              BY <3>r, <4>1, <7>1
            <7>2. CASE i = trigger.i /\ TriggerCalls
              BY <3>8, <7>2
            <7>3. CASE i = trigger.i /\ TriggerPasses
              <8>1. handles'[i].tickCounter > 0
                BY <7>3, PassHandles
              <8> QED
                BY <1>a, <6>1, <8>1
            <7> QED
              BY <4>2, <5>3, <7>1, <7>2, <7>3
          <6> QED
            BY <3>t, <4>1, <5>2, <6>2, <6>3
        <5>4. CASE i # k
          <6>1. trigger.next # Forever /\ Aged(i)' + trigger.next <= Due(i)'
                  => Aged(i)' + trigger'.next <= Due(i)'
            BY <1>a, <1>c, <5>2
          <6> QED
            BY <3>t, <3>r, <4>1, <4>2, <5>2, <5>4, <6>1
        <5> QED
          BY <5>3, <5>4
      <4> QED
        BY <3>9, <4>3, <4>4, TriggerSees
    <3>10. CASE /\ TriggerCalls /\ trigger'.pc = "posted" /\ trigger'.next = trigger.next
                /\ trigger'.i = trigger.i + 1 /\ thread' = thread
      <4>1. trigger.pc = "loop" /\ trigger.pc # "rest"
        BY <3>10 DEF TriggerCalls
      <4>2. i < trigger'.i => i < trigger.i \/ i = trigger.i
        BY <1>a, <1>c, <3>10
      <4>3. CASE i = trigger.i
        <5>1. i = trigger'.i - 1
          BY <1>c, <3>10, <4>3
        <5> QED
          BY <3>t, <3>8, <3>10, <4>3, <5>1
      <4>4. CASE i # trigger.i
        BY <3>t, <3>r, <3>10, <4>1, <4>2, <4>4 DEF JustPosted
      <4> QED
        BY <4>3, <4>4
    <3> QED
      <4>1. (\E cb \in ThreadTimers : ThreadUnregister(cb)) => UNCHANGED <<thread, trigger>>
        BY DEF ThreadUnregister
      <4>3. TriggerPasses \/ TriggerCalls \/ TriggerPosted => Goal(i)
        BY <3>9, <3>10, TriggerLooks
      <4>2. ButtonPressed \/ UNCHANGED vars => UNCHANGED <<thread, trigger>>
        BY DEF ButtonPressed, vars
      <4> HIDE DEF Goal
      <4> QED
        BY <2>3, <3>2, <3>3, <3>4, <3>5, <3>6, <3>7, <4>1, <4>2, <4>3
           DEF Next, ThreadStep, TriggerStep
  <2> QED
    BY <1>2, <1>y, <2>2, <2>3
<1> QED
  BY <1>1, <1>2

-----------------------------------------------------------------------------
(* How long a handle is waited for                                         *)

\* A handle that is not overdue is reached by any setup that is soon enough.
LEMMA SoonReaches ==
    ASSUME TypeOK, [Next]_vars, TableFits, MinimumIsShort, SoonEnough',
           NEW i \in Active(handles'), Aged(i)' <= Due(i)', compare' > MinRegister
    PROVE  Aged(i)' + compare' - elapsed' <= Due(i)' + MaxInterval
<1>1. /\ Aged(i)' \in Nat /\ Due(i)' \in Nat /\ compare' \in Nat /\ elapsed' \in Nat
      /\ MaxInterval \in Nat
  BY NextHandleTypes, NextActivityTypes, Scale
<1>2. compare' <= MaxInterval
  BY DEF SoonEnough, MaxInterval
<1> QED
  BY <1>1, <1>2

\* The two ways a setup for a counter may come out.
LEMMA LargerReaches ==
    ASSUME NEW a \in Nat, NEW next \in Int, NEW least \in Nat, NEW late \in Nat,
           a + next <= late, a + least <= late
    PROVE  a + Larger(next, least) - 0 <= late
  BY DEF Larger

LEMMA WaitingNext ==
    ASSUME \A i \in Active(handles') :
              /\ Aged(i)' <= Due(i)' + MaxInterval
              /\ ~Busy' /\ compare' > MinRegister =>
                   Aged(i)' + compare' - elapsed' <= Due(i)' + MaxInterval
    PROVE  Waiting'
  BY DEF Waiting, Late, Active, MaxInterval

LEMMA WaitingStep ==
    ASSUME TableFits, MinimumIsShort, TypeOK, OneHandleEach, NoTicksLost, SoonEnough, LookedAt, Waiting,
           [Next]_vars
    PROVE  Waiting'
<1> DEFINE Bounded(i) == Aged(i)' <= Due(i)' + MaxInterval
           Reached(i) == ~Busy' /\ compare' > MinRegister =>
                           Aged(i)' + compare' - elapsed' <= Due(i)' + MaxInterval
<1> SUFFICES ASSUME NEW i \in Active(handles') PROVE Bounded(i) /\ Reached(i)
  BY WaitingNext
<1>a. /\ i \in Nat /\ i \in Slots /\ i <= MaxHandles /\ MaxHandles \in Nat
      /\ handles'[i].tickCounter \in Int /\ Aged(i)' \in Nat /\ Due(i)' \in Nat \ {0}
  BY NextHandleTypes, TimerAssumption
<1>b. i \in Active(handles) => Aged(i) \in Nat /\ Due(i) \in Nat \ {0}
  BY HandlesTyped
<1>c. /\ elapsed \in Nat /\ compare \in Nat /\ elapsed' \in Nat /\ compare' \in Nat
      /\ thread.next \in Int \cup {Forever} /\ trigger.next \in Int \cup {Forever}
      /\ MaxInterval \in Nat \ {0} /\ MinRegister \in Nat \ {0} /\ MinTrigger \in Nat \ {0}
  BY ActivityTypes, NextActivityTypes, Scale
<1>d. SoonEnough'
  BY SoonEnoughStep
<1>w. i \in Active(handles) =>
        /\ Aged(i) <= Due(i) + MaxInterval
        /\ ~Busy /\ compare > MinRegister => Aged(i) + compare - elapsed <= Due(i) + MaxInterval
  BY DEF Waiting, Late
<1>r. Aged(i)' <= Due(i)' => Reached(i)
  BY <1>d, SoonReaches
<1>1. CASE Tick
  <2>1. /\ i \in Active(handles) /\ Due(i)' = Due(i) /\ Aged(i)' <= Aged(i) + 1
        /\ Busy \/ Minimal => Aged(i)' <= Aged(i)
    BY <1>1, TickHandles
  <2>2. /\ compare # Passed \/ Busy
        /\ elapsed' = elapsed + 1 /\ UNCHANGED <<thread, trigger>>
        /\ pending' = (pending \/ elapsed' = compare)
        /\ compare' = IF elapsed' = compare THEN Passed ELSE compare
    BY <1>1 DEF Tick
  <2>3. CASE Busy \/ Minimal
    <3>1. Bounded(i)
      BY <1>a, <1>b, <1>c, <1>w, <2>1, <2>3
    <3>2. Busy' \/ ~(compare' > MinRegister)
      <4>1. CASE Busy
        <5>1. pending' \/ ~pending
          BY <2>2 DEF TypeOK
        <5> QED
          BY <2>2, <4>1, <5>1 DEF Busy
      <4>2. CASE Minimal
        BY <1>c, <2>2, <4>2 DEF Minimal, Passed
      <4> QED
        BY <2>3, <4>1, <4>2
    <3> QED
      BY <3>1, <3>2
  <2>4. CASE ~Busy /\ ~Minimal
    <3>1. compare > MinRegister /\ compare # Passed
      BY <1>c, <2>2, <2>4 DEF Minimal, Passed
    <3>2. elapsed < compare /\ Aged(i) + compare - elapsed <= Due(i) + MaxInterval
      BY <1>w, <2>1, <2>4, <3>1 DEF SoonEnough
    <3>3. Bounded(i)
      BY <1>a, <1>b, <1>c, <2>1, <3>2
    <3>4. compare' > MinRegister => compare' = compare
      BY <1>c, <2>2 DEF Passed
    <3>5. Reached(i)
      BY <1>a, <1>b, <1>c, <2>1, <2>2, <3>2, <3>4
    <3> QED
      BY <3>3, <3>5
  <2> QED
    BY <2>3, <2>4
<1>2. CASE ~Tick
  <2>0. Younger(i)
    BY <1>2, NoTimePasses
  <2>y. \/ Aged(i)' <= Due(i)'
        \/ i \in Active(handles) /\ Due(i)' = Due(i) /\ Aged(i)' <= Aged(i)
    BY <2>0, YoungerKeeps
  <2>1. Bounded(i)
    BY <1>a, <1>b, <1>c, <1>w, <2>y
  <2>3. CASE UNCHANGED <<thread, trigger, pending, elapsed, compare>>
    <3>1. CASE Aged(i)' <= Due(i)'
      BY <1>r, <2>1, <3>1
    <3>2. CASE i \in Active(handles) /\ Due(i)' = Due(i) /\ Aged(i)' <= Aged(i)
      <4>1. Busy' <=> Busy
        BY <2>3 DEF Busy
      <4>2. Reached(i)
        BY <1>a, <1>b, <1>c, <1>w, <2>3, <3>2, <4>1
      <4> QED
        BY <2>1, <4>2
    <3> QED
      BY <2>y, <3>1, <3>2
  <2>4. CASE ThreadReadElapsed \/ ThreadCountDown \/ \E cb \in ThreadTimers : ThreadRegister(cb)
    <3>1. thread'.pc = "read" \/ thread'.pc = "loop"
      <4>1. CASE ThreadReadElapsed
        BY <4>1 DEF ThreadReadElapsed
      <4>2. CASE ThreadCountDown
        BY <4>2 DEF ThreadCountDown, TypeOK, Activity
      <4>3. CASE \E cb \in ThreadTimers : ThreadRegister(cb)
        BY <4>3 DEF ThreadRegister, TypeOK, Activity
      <4> QED
        BY <2>4, <4>1, <4>2, <4>3
    <3> QED
      BY <2>1, <3>1 DEF Busy
  <2>5. CASE TriggerStarts \/ TriggerPasses \/ TriggerCalls \/ TriggerPosted
    <3>1. trigger'.pc # "rest"
      <4>1. CASE TriggerStarts
        BY <4>1 DEF TriggerStarts
      <4>2. CASE TriggerPasses \/ TriggerCalls \/ TriggerPosted
        BY <4>2, TriggerLooks, TriggerSees
      <4> QED
        BY <2>5, <4>1, <4>2
    <3> QED
      BY <2>1, <3>1 DEF Busy
  <2>6. CASE ThreadSetup
    <3>1. /\ trigger.pc = "rest" /\ thread.pc = "loop" /\ thread.i \notin Slots
          /\ UNCHANGED <<trigger, handles, age, spent>> /\ SetupFor(thread.next, MinRegister)
      BY <2>6 DEF ThreadSetup, ThreadRuns
    <3>2. i \in Active(handles) /\ Aged(i)' = Aged(i) /\ Due(i)' = Due(i) /\ i < thread.i
      BY <1>a, <3>1, StillInTime, ActivityTypes DEF Slots
    <3>3. CASE Aged(i) <= Due(i)
      BY <1>r, <2>1, <3>2, <3>3
    <3>4. CASE Before(i, thread)
      <4>1. elapsed' = 0 /\ compare' = Larger(thread.next, MinRegister)
            /\ thread.next \in Int /\ Aged(i)' + thread.next <= Due(i)'
        BY <1>c, <3>1, <3>2, <3>4, SetupForEffect DEF Before
      <4>2. compare' > MinRegister => compare' = thread.next
        BY <1>c, <4>1 DEF Larger
      <4>3. Reached(i)
        BY <1>a, <1>c, <4>1, <4>2
      <4> QED
        BY <2>1, <4>3
    <3> QED
      BY <3>1, <3>2, <3>3, <3>4 DEF LookedAt
  <2>7. CASE TriggerEnds
    <3>1. /\ trigger.pc = "loop" /\ trigger.i \notin Slots
          /\ UNCHANGED <<handles, age, spent>> /\ SetupFor(trigger.next, MinTrigger)
      BY <2>7 DEF TriggerEnds
    <3>2. i \in Active(handles) /\ Aged(i)' = Aged(i) /\ Due(i)' = Due(i) /\ i < trigger.i
      BY <1>a, <3>1, StillInTime, ActivityTypes DEF Slots
    <3>3. CASE Aged(i)' <= Due(i)'
      BY <1>r, <2>1, <3>3
    <3>4. CASE Aged(i)' <= MaxInterval /\ Before(i, trigger)
      <4>1. elapsed' = 0 /\ compare' = Larger(trigger.next, MinTrigger)
            /\ trigger.next \in Int /\ Aged(i)' + trigger.next <= Due(i)'
        BY <1>c, <3>1, <3>2, <3>4, SetupForEffect DEF Before
      <4>2. MinTrigger <= Due(i)'
        BY NextHandleTypes, Scale DEF Due
      <4>3. /\ Aged(i)' + trigger.next <= Due(i)' + MaxInterval
            /\ Aged(i)' + MinTrigger <= Due(i)' + MaxInterval
            /\ Due(i)' + MaxInterval \in Nat /\ MinTrigger \in Nat
        BY <1>a, <1>c, <3>4, <4>1, <4>2
      <4>4. Aged(i)' + Larger(trigger.next, MinTrigger) - 0 <= Due(i)' + MaxInterval
        BY <1>a, <4>1, <4>3, LargerReaches
      <4>5. Reached(i)
        BY <4>1, <4>4
      <4> QED
        BY <2>1, <4>5
    <3> QED
      BY <3>1, <3>2, <3>3, <3>4 DEF LookedAt, JustPosted
  <2>8. CASE ButtonPressed
    <3>1. UNCHANGED <<thread, trigger>> /\ SetupForNearest(handles') /\ handles' \in Handles
      BY <2>8, TypeStep, TimerAssumption, AtOnce DEF ButtonPressed, Durations, TypeOK, Handles
    <3>2. PICK m \in Active(handles') :
                 /\ compare' = Larger(handles'[m].tickCounter, MinRegister)
                 /\ \A j \in Active(handles') : handles'[m].tickCounter <= handles'[j].tickCounter
      BY <3>1, NearestEffect
    <3>3. elapsed' = 0
      BY <3>1, NearestEffect
    <3> DEFINE next == handles'[m].tickCounter
    <3>4. next \in Int /\ next <= handles'[i].tickCounter
      BY <3>2, NextHandleTypes
    <3>5. Reached(i)
      <4>1. SUFFICES ASSUME ~Busy', compare' > MinRegister
                     PROVE Aged(i)' + compare' - elapsed' <= Due(i)' + MaxInterval
        OBVIOUS
      <4>2. InTimeNext(i, elapsed')
        BY <4>1, NoTicksLostStep, NoTicksLostThen DEF Busy
      <4>3. Aged(i)' + handles'[i].tickCounter <= Due(i)'
        BY <1>a, <3>3, <4>2 DEF InTimeNext
      <4> HIDE DEF next
      <4>4. compare' = Larger(next, MinRegister)
        BY <3>2 DEF next
      <4>5. compare' = next
        BY <1>c, <3>4, <4>1, <4>4 DEF Larger
      <4> QED
        BY <1>a, <1>c, <3>3, <3>4, <4>3, <4>5
    <3> QED
      BY <2>1, <3>5
  <2> QED
    <3>1. (\E cb \in ThreadTimers : ThreadUnregister(cb)) \/ UNCHANGED vars
            => UNCHANGED <<thread, trigger, pending, elapsed, compare>>
      BY DEF ThreadUnregister, vars
    <3> HIDE DEF Bounded, Reached
    <3> QED
      BY <1>2, <2>3, <2>4, <2>5, <2>6, <2>7, <2>8, <3>1 DEF Next, ThreadStep, TriggerStep
<1> QED
  BY <1>1, <1>2

-----------------------------------------------------------------------------
(* How late a timer is called                                              *)

LatenessInv == NoTicksLost /\ SoonEnough /\ LookedAt /\ Waiting

LEMMA LatenessInit == ASSUME TableFits, Init PROVE LatenessInv
<1>1. Active(handles) = {}
  BY DEF Init, Active, Unused
<1>2. /\ compare = 0 /\ Passed = 0 /\ MaxInterval \in Nat /\ ~pending
      /\ trigger = Resting /\ thread = Resting
  BY LongestInterval DEF Init, Passed, TableFits
<1>3. SoonEnough
  BY <1>2 DEF SoonEnough, Resting
<1> QED
  BY <1>1, <1>3 DEF LatenessInv, NoTicksLost, LookedAt, Waiting

LEMMA LatenessStep ==
    ASSUME TableFits, MinimumIsShort
    PROVE  TypeOK /\ OneHandleEach /\ LatenessInv /\ [Next]_vars => LatenessInv'
  BY NoTicksLostStep, SoonEnoughStep, LookedAtStep, WaitingStep DEF LatenessInv

LEMMA LatenessFollows ==
    ASSUME TableFits, TypeOK, OneHandleEach, LatenessInv PROVE BoundedLateness
<1> SUFFICES ASSUME NEW cb \in wanted
             PROVE  age[cb] <= Interval[cb] + MaxInterval + spent[cb]
  BY DEF BoundedLateness
<1>1. PICK i \in Active(handles) : handles[i].callback = cb
  BY DEF OneHandleEach, InUse
<1>2. Aged(i) <= Late(i)
  BY DEF LatenessInv, Waiting
<1>3. Larger(0, age[cb] - spent[cb]) <= Interval[cb] + MaxInterval
  BY <1>1, <1>2 DEF Aged, Idle, Late, Due
<1>4. /\ cb \in Callback /\ age[cb] \in Nat /\ spent[cb] \in Nat /\ Interval[cb] \in Nat
      /\ MaxInterval \in Nat
  BY LongestInterval, TimerAssumption DEF TypeOK, TableFits
<1> QED
  BY <1>3, <1>4 DEF Larger

\* Whatever the main thread, the callbacks and the button register in between, a timer
\* is called at most the longest interval and the ticks spent in this code later than it
\* is due, if no interval is shorter than the minimal time of a trigger's setup.
THEOREM LatenessBounded == ASSUME TableFits, MinimumIsShort PROVE Spec => []BoundedLateness
<1>1. TypeOK /\ OneHandleEach /\ LatenessInv /\ [Next]_vars => LatenessInv'
  BY LatenessStep
<1>2. Init => LatenessInv
  BY LatenessInit
<1>3. TypeOK /\ OneHandleEach /\ LatenessInv => BoundedLateness
  BY LatenessFollows
<1> QED
  BY <1>1, <1>2, <1>3, TypeCorrect, HandlesUnique, PTL DEF Spec
=============================================================================
