--------------------------- MODULE FirmwareProofs ---------------------------
(***************************************************************************)
(* Proofs about the start of the firmware, its configuration and its       *)
(* system time, for every number and width of half words, every period of  *)
(* the clock and any number of losses of power.                            *)
(***************************************************************************)
EXTENDS Firmware, TLAPS

-----------------------------------------------------------------------------
(* Types                                                                   *)

LEMMA ProductNat == \A a, b \in Nat : a * b \in Nat
  BY SMT

LEMMA ZeroedTyped == Zeroed \in Contents /\ Erased \in Contents
  BY DEF Zeroed, Erased, Contents

LEMMA ChangedTyped ==
    ASSUME NEW f \in Contents, NEW w \in Words, NEW v \in SUBSET Bits
    PROVE  [f EXCEPT ![w] = v] \in Contents
  BY DEF Contents

LEMMA FirstWord == 1 \in Words
  BY FirmwareAssumption DEF Words

LEMMA HighZero == 0 \in 0 .. HighWrap - 1 /\ 0 \in 0 .. PerUs
  BY FirmwareAssumption

\* A loss of power in the middle of a write leaves some contents.
LEMMA RemainsTyped == TypeOK => \A r \in Remains : r \in Contents
<1> SUFFICES ASSUME TypeOK, NEW r \in Remains PROVE r \in Contents
  OBVIOUS
<1>1. CASE ~locked /\ main = "program"
  <2>1. PICK b \in SUBSET rom[cursor] : r = [rom EXCEPT ![cursor] = b]
    BY <1>1 DEF Remains
  <2>2. rom[cursor] \in SUBSET Bits
    BY DEF TypeOK, Contents
  <2> QED
    BY <2>1, <2>2, ChangedTyped DEF TypeOK
<1>2. CASE locked \/ main # "program"
  BY <1>2 DEF Remains, TypeOK
<1> QED
  BY <1>1, <1>2

LEMMA ProgrammedTyped == TypeOK => Programmed \in Contents
<1> SUFFICES ASSUME TypeOK PROVE Programmed \in Contents
  OBVIOUS
<1>1. rom[cursor] \cap ram[cursor] \in SUBSET Bits
  BY DEF TypeOK, Contents
<1> QED
  BY <1>1, ChangedTyped DEF TypeOK, Programmed

LEMMA NextWordTyped ==
    ASSUME TypeOK, NextWord
    PROVE  cursor' \in Words /\ main' \in {"program", "lock"} /\ cut' \in BOOLEAN
<1>1. cursor \in Words /\ cut \in BOOLEAN /\ NumWords \in Nat
  BY FirmwareAssumption DEF TypeOK
<1>2. CASE cursor < NumWords
  <2>1. main' = "program" /\ cursor' = cursor + 1 /\ cut' = cut
    BY <1>2 DEF NextWord
  <2>2. cursor + 1 \in Words
    BY <1>1, <1>2 DEF Words
  <2> QED
    BY <1>1, <2>1, <2>2
<1>3. CASE ~(cursor < NumWords)
  <2>1. main' = "lock" /\ cut' = FALSE /\ cursor' = cursor
    BY <1>3 DEF NextWord
  <2> QED
    BY <1>1, <2>1
<1> QED
  BY <1>2, <1>3

LEMMA CompareTyped ==
    ASSUME TypeOK, Compare
    PROVE  /\ cursor' \in Words /\ main' \in {"run", "compare", "erase"}
           /\ locked' \in BOOLEAN
           /\ main' = "erase" => cursor' = 1 /\ ~locked'
<1>1. cursor \in 1 .. NumWords /\ locked \in BOOLEAN /\ NumWords \in Nat
  BY FirmwareAssumption DEF TypeOK, Words
<1>2. CASE ram[cursor] # rom[cursor]
  BY <1>2, FirstWord DEF Compare, StartUpdate
<1>3. CASE ram[cursor] = rom[cursor] /\ cursor < NumWords
  <2>1. main' = "compare" /\ cursor' = cursor + 1 /\ locked' = locked
    BY <1>3 DEF Compare
  <2>2. cursor + 1 \in 1 .. NumWords
    BY <1>1, <1>3
  <2> QED
    BY <1>1, <2>1, <2>2 DEF Words
<1>4. CASE ram[cursor] = rom[cursor] /\ ~(cursor < NumWords)
  <2>1. cursor = NumWords
    BY <1>1, <1>4
  <2>2. main' = "run" /\ cursor' = cursor /\ locked' = locked
    BY <1>4, <2>1 DEF Compare
  <2> QED
    BY <1>1, <2>2 DEF Words
<1> QED
  BY <1>2, <1>3, <1>4

LEMMA PeriodPositive == Period > 0
<1>1. Period \in Nat /\ PerUs \in Nat /\ BootTime \in Nat /\ ResetTime \in Nat
  BY FirmwareAssumption
<1>2. ResetTime * (PerUs + 1) \in Nat
  BY <1>1, ProductNat
<1>3. Period * (PerUs + 1) > 0
  BY <1>1, <1>2, FirmwareAssumption, ProductNat
<1>4. Period = 0 => Period * (PerUs + 1) = 0
  BY <1>1
<1> QED
  BY <1>1, <1>3, <1>4

\* The time is a natural number.
LEMMA TimeTyped == TypeOK => getSystemTimeUS \in Nat
<1> SUFFICES ASSUME TypeOK PROVE getSystemTimeUS \in Nat
  OBVIOUS
<1>1. high \in Nat /\ cnt \in Nat /\ Period \in Nat
  BY FirmwareAssumption DEF TypeOK
<1>3. high * Period \in Nat
  BY <1>1, ProductNat
<1> QED
  BY <1>1, <1>3 DEF getSystemTimeUS

\* The type invariant holds initially and every step preserves it.
LEMMA TypeInit == Init => TypeOK
<1> SUFFICES ASSUME Init PROVE TypeOK
  OBVIOUS
<1>1. locked \in BOOLEAN /\ clock \in BOOLEAN /\ uif \in BOOLEAN /\ cut \in BOOLEAN
  BY DEF Init
<1>2. todo \subseteq Modules /\ ready \subseteq Modules
  BY DEF Init
<1>3. ram \in Contents /\ rom \in Contents /\ asked \in Contents
  BY DEF Init
<1>4. psc \in 0 .. PerUs /\ cnt \in Nat /\ since \in Nat /\ elapsed \in Nat /\ losses \in Nat
  BY FirmwareAssumption DEF Init
<1> QED
  BY <1>1, <1>2, <1>3, <1>4, FirstWord DEF Init, TypeOK

LEMMA TypeStep == TypeOK /\ [Next]_vars => TypeOK'
<1> SUFFICES ASSUME TypeOK, [Next]_vars PROVE TypeOK'
  OBVIOUS
<1> USE DEF TypeOK
<1>1. ASSUME MemoryInit PROVE TypeOK'
  <2>1. ready' \subseteq Modules /\ todo' \subseteq Modules
    BY <1>1 DEF MemoryInit, Called, Modules
  <2> QED
    BY <1>1, <2>1, ZeroedTyped, HighZero DEF MemoryInit
<1>2. ASSUME SystemTimeInit PROVE TypeOK'
  BY <1>2, HighZero DEF SystemTimeInit, Called, StartClock, config, Modules
<1>3. ASSUME ConfigurationInit PROVE TypeOK'
  BY <1>3 DEF ConfigurationInit, Called, Load, time, Modules
<1>4. ASSUME CubeInit PROVE TypeOK'
  BY <1>4, TimeTyped DEF CubeInit, Called, config, Modules
<1>5. ASSUME CubeReady PROVE TypeOK'
  BY <1>5 DEF CubeReady, config, time, Modules
<1>6. ASSUME OtherInit PROVE TypeOK'
  BY <1>6 DEF OtherInit, Called, config, time, Modules
<1>7. ASSUME Erase PROVE TypeOK'
  BY <1>7, ZeroedTyped DEF Erase, time
<1>8. ASSUME Program PROVE TypeOK'
  <2>1. rom' \in Contents
    BY <1>8, ProgrammedTyped DEF Program
  <2>2. asked' \in Contents
    <3>1. ram[cursor] \in SUBSET Bits
      BY DEF Contents
    <3>2. [asked EXCEPT ![cursor] = ram[cursor]] \in Contents
      BY <3>1, ChangedTyped
    <3> QED
      BY <1>8, <3>2 DEF Program
  <2>3. cursor' \in Words /\ main' \in {"program", "lock"} /\ cut' \in BOOLEAN
    BY <1>8, NextWordTyped DEF Program
  <2> QED
    BY <1>8, <2>1, <2>2, <2>3 DEF Program, time
<1>9. ASSUME Lock PROVE TypeOK'
  BY <1>9 DEF Lock, time
<1>10. ASSUME Set PROVE TypeOK'
  <2>1. PICK w \in Words, v \in SUBSET Bits :
            ram' = [ram EXCEPT ![w] = v] /\ dirty' = dirty \cup {w}
    BY <1>10 DEF Set
  <2>2. ram' \in Contents /\ dirty' \subseteq Words
    BY <2>1, ChangedTyped
  <2> QED
    BY <1>10, <2>2 DEF Set, time
<1>11. ASSUME Update PROVE TypeOK'
  BY <1>11, FirstWord DEF Update, time
<1>12. ASSUME Tick PROVE TypeOK'
  <2>1. psc' \in 0 .. PerUs /\ cnt' \in Nat /\ elapsed' \in Nat /\ uif' \in BOOLEAN
    <3>1. Period \in Nat /\ Period > 0 /\ PerUs \in Nat
      BY PeriodPositive, FirmwareAssumption
    <3>2. CASE psc < PerUs /\ psc' = psc + 1 /\ UNCHANGED <<cnt, uif>>
      BY <1>12, <3>1, <3>2 DEF Tick
    <3>3. CASE /\ psc = PerUs /\ psc' = 0 /\ cnt' = (cnt + 1) % Period
               /\ uif' = (uif \/ cnt + 1 = Period)
      <4>1. psc' \in 0 .. PerUs /\ cnt' \in Nat /\ elapsed' \in Nat
        BY <1>12, <3>1, <3>3 DEF Tick
      <4>2. uif' \in BOOLEAN
        BY <3>3
      <4> QED
        BY <4>1, <4>2
    <3> QED
      BY <1>12, <3>2, <3>3 DEF Tick, Count
  <2> QED
    BY <1>12, <2>1 DEF Tick, config
<1>13. ASSUME Isr PROVE TypeOK'
  <2>1. high' \in 0 .. HighWrap - 1
    BY <1>13, FirmwareAssumption DEF Isr
  <2> QED
    BY <1>13, <2>1 DEF Isr, config
<1>14. ASSUME PowerLoss PROVE TypeOK'
  <2>1. rom' \in Contents /\ cut' \in BOOLEAN /\ losses' \in Nat
    BY <1>14, RemainsTyped DEF PowerLoss
  <2> QED
    BY <1>14, <2>1, FirstWord, HighZero DEF PowerLoss, Stop
<1>15. ASSUME UNCHANGED vars PROVE TypeOK'
  BY <1>15 DEF vars, config, time
<1>16. ASSUME Compare PROVE TypeOK'
  <2>1. cursor' \in Words /\ main' \in {"run", "compare", "erase"} /\ locked' \in BOOLEAN
    BY <1>16, CompareTyped
  <2> QED
    BY <1>16, <2>1 DEF Compare, time
<1> QED
  BY <1>1, <1>2, <1>3, <1>4, <1>5, <1>6, <1>7, <1>8, <1>9, <1>10, <1>11, <1>12, <1>13,
     <1>14, <1>15, <1>16 DEF Next, Main, Boot, Application

\* Theorem: every variable keeps its type, the cursor of
\* config_updateToFlash stays in its section.
THEOREM TypeCorrect == Spec => []TypeOK
  BY TypeInit, TypeStep, PTL DEF Spec

-----------------------------------------------------------------------------
(* The configuration                                                       *)

\* While an update runs, the modules are initialized and the flash is
\* unlocked; the half words before the cursor are written, the others erased.
Writing ==
    /\ main \in {"compare", "erase", "program", "lock"} => todo = {}
    /\ main \in {"erase", "program", "lock"} => ~locked
    /\ main = "program" =>
          /\ \A w \in Words : w < cursor =>
                /\ rom[w] = asked[w]
                /\ w \notin dirty => ram[w] = rom[w]
          /\ \A w \in Words : w >= cursor => rom[w] = Bits
    /\ main = "erase" => cursor = 1

\* InStep, with the moment between the last half word and the lock.
Written ==
    main \in {"run", "wait", "compare", "lock"} => \A w \in Words \ dirty : ram[w] = rom[w]

FlashInv == TypeOK /\ Writing /\ Kept /\ Written

LEMMA FlashInit == Init => FlashInv
  BY TypeInit DEF Init, FlashInv, Writing, Kept, Written, Updating

\* One half word more is written.
LEMMA ProgramStep == FlashInv /\ Program => (Writing /\ Kept /\ Written)'
<1> SUFFICES ASSUME FlashInv, Program PROVE (Writing /\ Kept /\ Written)'
  OBVIOUS
<1> DEFINE c == cursor
<1>1. /\ main = "program" /\ todo = {} /\ ~locked /\ Booted /\ c \in Words
      /\ rom \in Contents /\ asked \in Contents /\ ram \in Contents
  BY DEF Program, FlashInv, Writing, TypeOK, Booted
<1>2. rom' = Programmed /\ ram' = ram /\ dirty' = dirty \ {c}
  BY <1>1 DEF Program
<1>3. asked' = [asked EXCEPT ![c] = ram[c]]
  BY <1>1 DEF Program
<1>4. rom[c] = Bits /\ ram[c] \in SUBSET Bits
  <2>1. c >= c /\ c \in Words
    BY <1>1 DEF Words
  <2> QED
    BY <1>1, <2>1 DEF FlashInv, Writing, Contents
<1>5. rom'[c] = ram[c] /\ \A w \in Words : w # c => rom'[w] = rom[w]
  BY <1>1, <1>2, <1>4 DEF Programmed, Contents
<1>6. asked'[c] = ram[c] /\ \A w \in Words : w # c => asked'[w] = asked[w]
  BY <1>1, <1>3 DEF Contents
<1>7. \A w \in Words : w <= c => rom'[w] = asked'[w] /\ (w \notin dirty' => ram'[w] = rom'[w])
  <2> SUFFICES ASSUME NEW w \in Words, w <= c
               PROVE  rom'[w] = asked'[w] /\ (w \notin dirty' => ram'[w] = rom'[w])
    OBVIOUS
  <2>1. CASE w = c
    BY <2>1, <1>2, <1>5, <1>6
  <2>2. CASE w # c
    <3>1. w < c
      BY <2>2, <1>1 DEF Words
    <3>2. rom[w] = asked[w] /\ (w \notin dirty => ram[w] = rom[w])
      BY <3>1, <1>1 DEF FlashInv, Writing
    <3> QED
      BY <2>2, <3>2, <1>2, <1>5, <1>6
  <2> QED
    BY <2>1, <2>2
<1>8. CASE c < NumWords
  <2>1. main' = "program" /\ cursor' = c + 1 /\ todo' = {} /\ ~locked'
    BY <1>1, <1>8 DEF Program, NextWord
  <2>2. \A w \in Words : w < cursor' => w <= c
    BY <1>1, <2>1 DEF Words
  <2>3. \A w \in Words : w >= cursor' => rom'[w] = Bits
    <3>1. \A w \in Words : w >= cursor' => w # c /\ w >= c
      BY <1>1, <2>1 DEF Words
    <3> QED
      BY <3>1, <1>1, <1>5 DEF FlashInv, Writing
  <2> QED
    BY <2>1, <2>2, <2>3, <1>7 DEF Writing, Kept, Written, Updating
<1>9. CASE ~(c < NumWords)
  <2>1. main' = "lock" /\ todo' = {} /\ ~locked'
    BY <1>1, <1>9 DEF Program, NextWord
  <2>2. \A w \in Words : w <= c
    BY <1>1, <1>9, FirmwareAssumption DEF Words
  <2>3. rom' = asked'
    <3>1. rom' \in Contents /\ asked' \in Contents
      BY <1>1, <1>2, <1>3, <1>4, ProgrammedTyped, ChangedTyped DEF FlashInv
    <3>2. \A w \in Words : rom'[w] = asked'[w]
      BY <1>7, <2>2
    <3> QED
      BY <3>1, <3>2 DEF Contents
  <2>4. \A w \in Words \ dirty' : ram'[w] = rom'[w]
    BY <1>7, <2>2
  <2> QED
    BY <2>1, <2>3, <2>4 DEF Writing, Kept, Written, Updating
<1> QED
  BY <1>8, <1>9

\* A variable changes, and is dirty from then on.
LEMMA SetStep == FlashInv /\ Set => (Writing /\ Kept /\ Written)'
<1> SUFFICES ASSUME FlashInv, Set PROVE (Writing /\ Kept /\ Written)'
  OBVIOUS
<1>1. PICK x \in Words, v \in SUBSET Bits :
          ram' = [ram EXCEPT ![x] = v] /\ dirty' = dirty \cup {x}
  BY DEF Set
<1>2. ram \in Contents
  BY DEF FlashInv, TypeOK
<1>3. \A w \in Words : w \notin dirty' => ram'[w] = ram[w] /\ w \notin dirty
  BY <1>1, <1>2 DEF Contents
<1>4. /\ todo' = todo /\ main' = main /\ cursor' = cursor /\ rom' = rom
      /\ (locked' <=> locked) /\ asked' = asked /\ (cut' <=> cut)
  BY DEF Set
<1>5. Writing'
  BY <1>3, <1>4 DEF FlashInv, Writing
<1>6. Kept' /\ Written'
  BY <1>3, <1>4 DEF FlashInv, Kept, Written, Updating
<1> QED
  BY <1>5, <1>6

LEMMA CompareStep == FlashInv /\ Compare => (Writing /\ Kept /\ Written)'
<1> SUFFICES ASSUME FlashInv, Compare PROVE (Writing /\ Kept /\ Written)'
  OBVIOUS
<1>1. main = "compare" /\ todo = {} /\ todo' = todo
  BY DEF Compare, FlashInv, Writing
<1>2. rom' = rom /\ ram' = ram /\ asked' = asked /\ dirty' = dirty /\ (cut' <=> cut)
  BY DEF Compare
<1>3. main' \in {"run", "compare", "erase"} /\ (main' = "erase" => cursor' = 1 /\ ~locked')
  BY CompareTyped DEF FlashInv
<1> QED
  BY <1>1, <1>2, <1>3 DEF FlashInv, Writing, Kept, Written, Updating

LEMMA EraseStep == FlashInv /\ Erase => (Writing /\ Kept /\ Written)'
<1> SUFFICES ASSUME FlashInv, Erase PROVE (Writing /\ Kept /\ Written)'
  OBVIOUS
<1>1. todo' = {} /\ ~locked' /\ main' = "program" /\ cursor' = 1 /\ rom' = Erased
  BY DEF Erase, FlashInv, Writing
<1>2. \A w \in Words : ~(w < 1) /\ Erased[w] = Bits
  BY DEF Words, Erased
<1> QED
  BY <1>1, <1>2 DEF Writing, Kept, Written, Updating

\* A loss of power outside an update leaves the flash as it is.
LEMMA LossStep == FlashInv /\ PowerLoss => (Writing /\ Kept /\ Written)'
<1> SUFFICES ASSUME FlashInv, PowerLoss PROVE (Writing /\ Kept /\ Written)'
  OBVIOUS
<1>1. main' = "run" /\ dirty' = Words /\ asked' = asked /\ (cut' <=> cut \/ Updating)
  BY DEF PowerLoss
<1>2. ~Updating => rom' = rom
  BY DEF PowerLoss, Remains, Updating
<1> QED
  BY <1>1, <1>2 DEF FlashInv, Writing, Kept, Written, Updating

\* Any other step leaves the update alone, or starts or ends it.
LEMMA FlashStep == FlashInv /\ [Next]_vars => FlashInv'
<1> SUFFICES ASSUME FlashInv, [Next]_vars PROVE (Writing /\ Kept /\ Written)'
  BY TypeStep DEF FlashInv
<1> USE DEF FlashInv, Writing, Kept, Written, Updating
<1>1. ASSUME MemoryInit PROVE (Writing /\ Kept /\ Written)'
  BY <1>1 DEF MemoryInit, Called
<1>2. ASSUME SystemTimeInit PROVE (Writing /\ Kept /\ Written)'
  BY <1>2 DEF SystemTimeInit, Called, config
<1>3. ASSUME ConfigurationInit PROVE (Writing /\ Kept /\ Written)'
  BY <1>3 DEF ConfigurationInit, Called, Load
<1>4. ASSUME CubeInit PROVE (Writing /\ Kept /\ Written)'
  BY <1>4 DEF CubeInit, Called, config
<1>5. ASSUME CubeReady PROVE (Writing /\ Kept /\ Written)'
  BY <1>5 DEF CubeReady, config
<1>6. ASSUME OtherInit PROVE (Writing /\ Kept /\ Written)'
  BY <1>6 DEF OtherInit, Called, config
<1>7. ASSUME Lock PROVE (Writing /\ Kept /\ Written)'
  BY <1>7 DEF Lock
<1>8. ASSUME Update PROVE (Writing /\ Kept /\ Written)'
  BY <1>8 DEF Update, Booted
<1>9. ASSUME Tick PROVE (Writing /\ Kept /\ Written)'
  BY <1>9 DEF Tick, config
<1>10. ASSUME Isr PROVE (Writing /\ Kept /\ Written)'
  BY <1>10 DEF Isr, config
<1>11. ASSUME UNCHANGED vars PROVE (Writing /\ Kept /\ Written)'
  BY <1>11 DEF vars, config
<1> QED
  BY <1>1, <1>2, <1>3, <1>4, <1>5, <1>6, <1>7, <1>8, <1>9, <1>10, <1>11, ProgramStep,
     SetStep, CompareStep, EraseStep, LossStep DEF Next, Main, Boot, Application

\* Theorem: the settings the application had written survive every start and
\* every loss of power that does not fall into an update.
THEOREM SettingsSurvive == Spec => []Kept
<1>1. FlashInv => Kept
  BY DEF FlashInv
<1> QED
  BY <1>1, FlashInit, FlashStep, PTL DEF Spec

\* Theorem: the variables and their copy in flash agree, but for the ones
\* changed since the start or the last update.
THEOREM VariablesInStep == Spec => []InStep
<1>1. FlashInv => InStep
  BY DEF FlashInv, Written, InStep
<1> QED
  BY <1>1, FlashInit, FlashStep, PTL DEF Spec

-----------------------------------------------------------------------------
(* The system time                                                         *)

\* Before the first overflow the flag of the timer is not raised, the high
\* part is zero, and the cycles counted are in the counter and the prescaler.
Clocked ==
    /\ cnt \in 0 .. Period - 1
    /\ clock /\ elapsed < Period * (PerUs + 1) =>
          ~uif /\ high = 0 /\ elapsed = cnt * (PerUs + 1) + psc

ClockInv == TypeOK /\ Clocked

LEMMA ClockInit == Init => ClockInv
<1>1. Init => cnt = 0 /\ ~clock /\ Period > 0
  BY PeriodPositive DEF Init
<1> QED
  BY <1>1, TypeInit, FirmwareAssumption DEF ClockInv, Clocked

LEMMA TickStep == ClockInv /\ Tick => Clocked'
<1> SUFFICES ASSUME ClockInv, Tick PROVE Clocked'
  OBVIOUS
<1> DEFINE D == PerUs + 1
           P == Period * D
           C == cnt * D
<1>1. /\ Period \in Nat /\ PerUs \in Nat /\ cnt \in 0 .. Period - 1 /\ psc \in 0 .. PerUs
      /\ elapsed \in Nat /\ elapsed' = elapsed + 1 /\ clock /\ high' = high
  BY FirmwareAssumption DEF Tick, ClockInv, Clocked, TypeOK
<1>2. D \in Nat /\ P \in Nat /\ C \in Nat /\ cnt \in Nat
  BY <1>1, ProductNat
<1>3. ASSUME elapsed' < P PROVE ~uif /\ high = 0 /\ elapsed = C + psc
  <2>1. elapsed < P
    BY <1>1, <1>2, <1>3
  <2> QED
    BY <1>1, <2>1 DEF ClockInv, Clocked
<1>4. CASE psc < PerUs /\ psc' = psc + 1 /\ UNCHANGED <<cnt, uif>>
  <2>1. elapsed' < P => ~uif' /\ high' = 0 /\ elapsed' = C + psc'
    BY <1>1, <1>2, <1>3, <1>4
  <2> QED
    BY <1>1, <1>4, <2>1 DEF Clocked
<1>5. CASE /\ psc = PerUs /\ psc' = 0 /\ cnt' = (cnt + 1) % Period
           /\ uif' = (uif \/ cnt + 1 = Period)
  <2>1. cnt' = (IF cnt + 1 = Period THEN 0 ELSE cnt + 1)
    BY <1>1, <1>2, <1>5
  <2>2. cnt' \in 0 .. Period - 1
    BY <1>1, <2>1
  <2>3. (cnt + 1) * D = C + D
    BY <1>2
  <2>4. ASSUME elapsed' < P PROVE ~uif' /\ high' = 0 /\ elapsed' = cnt' * D + psc'
    <3>1. ~uif /\ high = 0 /\ elapsed' = C + D
      BY <1>1, <1>2, <1>3, <1>5, <2>4
    <3>2. cnt + 1 # Period
      BY <2>3, <2>4, <3>1
    <3>3. cnt' = cnt + 1 /\ cnt' * D + psc' = C + D /\ ~uif'
      <4>1. cnt' = cnt + 1 /\ ~uif'
        BY <1>5, <2>1, <3>1, <3>2
      <4>2. cnt' * D = C + D
        BY <4>1, <2>3
      <4> HIDE DEF D, C
      <4> QED
        BY <1>2, <1>5, <4>1, <4>2
    <3> QED
      BY <1>1, <3>1, <3>3
  <2> QED
    BY <1>1, <2>2, <2>4 DEF Clocked
<1> QED
  BY <1>4, <1>5 DEF Tick, Count

LEMMA ClockStep == ClockInv /\ [Next]_vars => ClockInv'
<1> SUFFICES ASSUME ClockInv, [Next]_vars PROVE Clocked'
  BY TypeStep DEF ClockInv
<1>1. ASSUME MemoryInit PROVE Clocked'
  BY <1>1 DEF MemoryInit, ClockInv, Clocked
<1>2. ASSUME SystemTimeInit PROVE Clocked'
  <2>1. cnt' = 0 /\ psc' = 0 /\ high' = 0 /\ elapsed' = 0 /\ ~uif'
    BY <1>2 DEF SystemTimeInit, StartClock
  <2>2. cnt' * (PerUs + 1) = 0
    BY <2>1, FirmwareAssumption
  <2> QED
    BY <2>1, <2>2, PeriodPositive, FirmwareAssumption DEF Clocked
<1>3. ASSUME PowerLoss PROVE Clocked'
  <2>1. cnt' = 0 /\ ~clock'
    BY <1>3 DEF PowerLoss, Stop
  <2> QED
    BY <2>1, PeriodPositive, FirmwareAssumption DEF Clocked
<1>4. ASSUME Isr PROVE Clocked'
  BY <1>4 DEF Isr, Interrupted, ClockInv, Clocked
<1>5. ASSUME CubeInit PROVE Clocked'
  BY <1>5 DEF CubeInit, ClockInv, Clocked
<1>6. ASSUME \/ ConfigurationInit \/ CubeReady \/ OtherInit \/ Erase \/ Program \/ Lock
             \/ Set \/ Update \/ Compare
      PROVE Clocked'
  <2>1. UNCHANGED time
    BY <1>6 DEF ConfigurationInit, CubeReady, OtherInit, Erase, Program, Lock, Set, Update,
               Compare
  <2> QED
    BY <2>1 DEF time, ClockInv, Clocked
<1>7. ASSUME UNCHANGED vars PROVE Clocked'
  BY <1>7 DEF vars, time, ClockInv, Clocked
<1> QED
  BY <1>1, <1>2, <1>3, <1>4, <1>5, <1>6, <1>7, TickStep DEF Next, Main, Boot, Application

\* Theorem: until the counter overflows for the first time, the system time is
\* the number of whole periods of PerUs + 1 cycles that have passed: it is never
\* ahead of the true time, and behind it by the one cycle in each period.
THEOREM TimeIsSlow == Spec => []TimeLags
<1>1. ClockInv => TimeLags
  <2> SUFFICES ASSUME ClockInv, clock, elapsed < Period * (PerUs + 1)
               PROVE  /\ getSystemTimeUS * (PerUs + 1) <= elapsed
                      /\ elapsed < (getSystemTimeUS + 1) * (PerUs + 1)
    BY DEF TimeLags
  <2> DEFINE C == cnt * (PerUs + 1)
  <2>1. /\ high = 0 /\ elapsed = C + psc /\ psc \in 0 .. PerUs
        /\ cnt \in Nat /\ elapsed \in Nat /\ Period \in Nat /\ PerUs \in Nat
    BY FirmwareAssumption DEF ClockInv, Clocked, TypeOK
  <2>2. getSystemTimeUS = cnt
    BY <2>1 DEF getSystemTimeUS
  <2>3. C \in Nat /\ (cnt + 1) * (PerUs + 1) = C + (PerUs + 1)
    BY <2>1, ProductNat
  <2> HIDE DEF C
  <2>4. C <= elapsed /\ elapsed < C + (PerUs + 1)
    BY <2>1, <2>3
  <2> QED
    BY <2>2, <2>3, <2>4 DEF C
<1> QED
  BY <1>1, ClockInit, ClockStep, PTL DEF Spec

-----------------------------------------------------------------------------
(* The order of the init functions                                         *)

\* A module only uses modules of lower levels, and modules that need no more
\* than the cleared RAM; memory_init comes before all but the clock.
LEMMA Levels ==
    /\ \A m \in Modules : Level(m) \in Nat
    /\ \A m \in Modules : \A u \in Uses(m) :
          /\ u \in Modules
          /\ Level(u) < Level(m) \/ (u \in OnlyCleared /\ "memory" \in Uses(m))
    /\ \A m \in Modules : Level(m) < Level("memory") => m \notin InRam
    /\ \A m \in Modules : "memory" \in Uses(m) =>
          Level("memory") < Level(m) /\ "memory" \in Modules
  BY DEF Modules, Level, Uses, InRam, OnlyCleared, ClockUsers, MutexUsers, PumpUsers, CubeUses

Waiting == IF main = "wait" THEN {"cube"} ELSE {}

\* Modules are initialized level by level.
Ordered ==
    /\ todo \cup ready \cup Waiting = Modules
    /\ todo \cap ready = {} /\ todo \cap Waiting = {}
    /\ \A m \in ready \cup Waiting, n \in todo : Level(m) <= Level(n)
    /\ main \in {"compare", "erase", "program", "lock"} => todo = {}

LEMMA OrderInit == Init => Ordered
  BY DEF Init, Ordered, Waiting

\* The init function of a module moves it from todo to ready.
LEMMA CallStep ==
    ASSUME Ordered, TypeOK, NEW m \in Modules, Called(m), main = "run"
    PROVE  /\ todo' = todo \ {m} /\ m \in todo /\ Waiting = {}
           /\ ready \cup {m} \cup todo' = Modules
           /\ todo' \cap (ready \cup {m}) = {}
           /\ \A k \in ready \cup {m}, n \in todo' : Level(k) <= Level(n)
  BY DEF Called, Calls, Ordered, Waiting

LEMMA OrderStep == TypeOK /\ Ordered /\ [Next]_vars => Ordered'
<1> SUFFICES ASSUME TypeOK, Ordered, [Next]_vars PROVE Ordered'
  OBVIOUS
<1>1. ASSUME NEW m \in Modules, Called(m), main' = main, ready' = ready \cup {m}
      PROVE  Ordered'
  BY <1>1, CallStep DEF Called, Ordered, Waiting
<1>2. ASSUME MemoryInit PROVE Ordered'
  <2>1. "memory" \in Modules /\ main = "run" /\ Called("memory") /\ main' = main
    BY <1>2 DEF Modules, MemoryInit, Called
  <2>2. ready \cap InRam = {}
    <3> SUFFICES ASSUME NEW k \in ready PROVE k \notin InRam
      OBVIOUS
    <3>1. k \in Modules /\ Level(k) <= Level("memory") /\ k # "memory"
      BY <2>1 DEF TypeOK, Ordered, Called, Calls
    <3>2. Level(k) < Level("memory") \/ k \in {"clock"}
      BY <3>1 DEF Modules, Level
    <3> QED
      BY <3>1, <3>2, Levels DEF InRam
  <2>3. ready' = ready \cup {"memory"}
    BY <1>2, <2>2 DEF MemoryInit
  <2> QED
    BY <2>1, <2>3, <1>1
<1>3. ASSUME SystemTimeInit PROVE Ordered'
  BY <1>1, <1>3 DEF SystemTimeInit, Modules
<1>4. ASSUME ConfigurationInit PROVE Ordered'
  <2>1. main' = main
    BY <1>4 DEF ConfigurationInit, Called, Load
  <2> QED
    BY <1>1, <1>4, <2>1 DEF ConfigurationInit, Modules
<1>5. ASSUME OtherInit PROVE Ordered'
  BY <1>1, <1>5 DEF OtherInit, TypeOK
<1>6. ASSUME CubeInit PROVE Ordered'
  <2>1. "cube" \in Modules /\ main = "run" /\ Called("cube") /\ main' = "wait" /\ ready' = ready
    BY <1>6 DEF Modules, CubeInit, Called
  <2> QED
    BY <2>1, CallStep DEF Ordered, Waiting
<1>7. ASSUME CubeReady PROVE Ordered'
  BY <1>7 DEF CubeReady, Ordered, Waiting
<1>8. ASSUME PowerLoss PROVE Ordered'
  BY <1>8 DEF PowerLoss, Ordered, Waiting
<1>9. ASSUME Update PROVE Ordered'
  BY <1>9 DEF Update, Booted, Ordered, Waiting
<1>10. ASSUME Compare \/ Erase \/ Program \/ Lock PROVE Ordered'
  <2>1. /\ main \in {"compare", "erase", "program", "lock"} /\ todo' = todo /\ ready' = ready
        /\ main' \in {"run", "compare", "erase", "program", "lock"}
    BY <1>10, CompareTyped DEF Compare, Erase, Program, NextWord, Lock
  <2> QED
    BY <2>1 DEF Ordered, Waiting
<1>11. ASSUME Set \/ Tick \/ Isr \/ UNCHANGED vars PROVE Ordered'
  <2>1. todo' = todo /\ ready' = ready /\ main' = main
    BY <1>11 DEF Set, Tick, Isr, vars
  <2> QED
    BY <2>1 DEF Ordered, Waiting
<1> QED
  BY <1>2, <1>3, <1>4, <1>5, <1>6, <1>7, <1>8, <1>9, <1>10, <1>11
     DEF Next, Main, Boot, Application

\* A module of a lower level than one that is initialized, or being
\* initialized, is initialized.
LEMMA LowerReady ==
    ASSUME TypeOK, Ordered, NEW m \in ready \cup Waiting, NEW u \in Modules, Level(u) < Level(m)
    PROVE  u \in ready
<1>1. m \in Modules
  BY DEF Ordered
<1>2. Level(u) \in Nat /\ Level(m) \in Nat
  BY <1>1, Levels
<1>3. u \notin todo
  BY <1>2 DEF Ordered
<1>4. u \notin Waiting
  BY <1>1 DEF Waiting, Level, Modules
<1> QED
  BY <1>3, <1>4 DEF Ordered

LEMMA OrderedUse == TypeOK /\ Ordered => UsedAfterInit
<1> SUFFICES ASSUME TypeOK, Ordered, NEW m \in ready \cup Waiting, NEW u \in Uses(m)
             PROVE  u \in ready \/ (u \in OnlyCleared /\ "memory" \in ready)
  BY DEF UsedAfterInit, Waiting
<1>1. m \in Modules
  BY DEF Ordered
<1>2. u \in Modules
  BY <1>1, Levels
<1>3. CASE Level(u) < Level(m)
  BY <1>2, <1>3, LowerReady
<1>4. CASE u \in OnlyCleared /\ "memory" \in Uses(m)
  BY <1>1, <1>4, Levels, LowerReady
<1> QED
  BY <1>1, <1>3, <1>4, Levels

\* Theorem: in whatever order the linker places the init functions of a level,
\* a module is initialized after those its init function uses, and its state is
\* not cleared afterwards; the mutex, which the pump may take before system_init,
\* has its cleared counter by then.
THEOREM InitializedBeforeUse == Spec => []UsedAfterInit
<1>1. Init => TypeOK /\ Ordered
  BY TypeInit, OrderInit
<1>2. TypeOK /\ Ordered /\ [Next]_vars => (TypeOK /\ Ordered)'
  BY TypeStep, OrderStep
<1> QED
  BY <1>1, <1>2, OrderedUse, PTL DEF Spec

=============================================================================
