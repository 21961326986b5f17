--------------------------- MODULE MsgPumpProofs ---------------------------
(***************************************************************************)
(* Theorems about the message pump, for every pool, queue size and number  *)
(* of receivers.                                                           *)
(***************************************************************************)
EXTENDS MsgPump, FiniteSetTheorems, TLAPS

-----------------------------------------------------------------------------
(* The state space of the model                                            *)

\* A slot is a pair of a message and an index of its pool.
LEMMA SlotMessage == ASSUME NEW s \in Slot PROVE s[1] \in MsgId /\ s # <<>>
BY DEF Slot

\* The increment of a ring index, without the modulus.
LEMMA NextPosition ==
    ASSUME NEW p \in Position
    PROVE  (p + 1) % QueueSize = IF p + 1 = QueueSize THEN 0 ELSE p + 1
BY SizeAssumption DEF Position

\* front is an occupied position while the ring is not empty.
LEMMA FrontOccupied ==
    ASSUME TypeOK, RingInv, size # 0
    PROVE  front \in Occupied /\ Current \in Slot
<1>1. front \in 0 .. QueueSize - 1 /\ tail \in 0 .. QueueSize - 1 /\ size \in Nat
  BY DEF TypeOK, Position
<1>2. QueueSize \in Nat
  BY SizeAssumption
<1>3. front \in Occupied
  BY <1>1, <1>2 DEF RingInv, Occupied
<1>4. QED
  BY <1>3 DEF RingInv, Current

\* A post leaves the ring typed and consistent when the ring is not full.
LEMMA EnqueueRing ==
    ASSUME TypeOK, RingInv, ~QueueFull, NEW s \in Slot, Enqueue(s), pc' = pc
    PROVE  /\ msgQueue' \in [Position -> Slot \cup {<<>>}]
           /\ front' \in Position /\ tail' \in Position /\ size' \in 0 .. QueueSize
           /\ RingInv'
           /\ Occupied' = Occupied \cup {tail} /\ tail \notin Occupied
<1>1. /\ front \in 0 .. QueueSize - 1 /\ tail \in 0 .. QueueSize - 1
      /\ size \in 0 .. QueueSize /\ QueueSize \in Nat \ {0}
      /\ msgQueue \in [Position -> Slot \cup {<<>>}]
  BY SizeAssumption DEF TypeOK, Position
<1>2. tail' = IF tail + 1 = QueueSize THEN 0 ELSE tail + 1
  BY <1>1, NextPosition DEF Enqueue, Position
<1>3. size' = size + 1 /\ front' = front /\ msgQueue' = [msgQueue EXCEPT ![tail] = s]
  BY DEF Enqueue
<1>4. size = tail - front \/ size = tail - front + QueueSize
  BY DEF RingInv
<1>5. size < QueueSize
  BY <1>1, <1>4 DEF QueueFull
<1>6. tail' \in 0 .. QueueSize - 1 /\ size' \in 1 .. QueueSize
  BY <1>1, <1>2, <1>3, <1>5
<1>7. size' = tail' - front' \/ size' = tail' - front' + QueueSize
  BY <1>1, <1>2, <1>3, <1>4, <1>5
<1>8. Occupied' = Occupied \cup {tail} /\ tail \notin Occupied
  BY <1>1, <1>2, <1>3, <1>4, <1>5, <1>6 DEF Occupied
<1>9. ASSUME NEW p \in Occupied' PROVE msgQueue'[p] \in Slot
  <2>1. CASE p = tail
    BY <2>1, <1>1, <1>3 DEF Position
  <2>2. CASE p # tail
    <3>1. p \in Occupied
      BY <2>2, <1>8
    <3>2. msgQueue[p] \in Slot
      BY <3>1 DEF RingInv
    <3>3. p \in Position
      BY <3>1, <1>1 DEF Occupied, Position
    <3>4. QED
      BY <2>2, <3>2, <3>3, <1>1, <1>3
  <2>3. QED
    BY <2>1, <2>2
<1>10. msgQueue' \in [Position -> Slot \cup {<<>>}]
  BY <1>1, <1>3 DEF Position
<1>11. RingInv'
  <2>1. \A p \in Occupied' : msgQueue'[p] \in Slot
    BY <1>9
  <2>2. size' > 0
    BY <1>6
  <2>3. QED
    BY <1>7, <2>1, <2>2 DEF RingInv
<1>12. front' \in Position /\ tail' \in Position /\ size' \in 0 .. QueueSize
  BY <1>1, <1>3, <1>6 DEF Position
<1>13. QED
  BY <1>8, <1>10, <1>11, <1>12

\* Popping the front entry of a non-empty ring leaves it typed and consistent.
LEMMA PopRing ==
    ASSUME TypeOK, RingInv, size # 0,
           front' = (front + 1) % QueueSize, size' = size - 1,
           tail' = tail, msgQueue' = msgQueue, pc' = "idle"
    PROVE  /\ front' \in Position /\ size' \in 0 .. QueueSize
           /\ RingInv'
           /\ Occupied' = Occupied \ {front}
<1>1. /\ front \in 0 .. QueueSize - 1 /\ tail \in 0 .. QueueSize - 1
      /\ size \in 0 .. QueueSize /\ QueueSize \in Nat \ {0}
  BY SizeAssumption DEF TypeOK, Position
<1>2. front' = IF front + 1 = QueueSize THEN 0 ELSE front + 1
  BY <1>1, NextPosition DEF Position
<1>3. size = tail - front \/ size = tail - front + QueueSize
  BY DEF RingInv
<1>4. front' \in 0 .. QueueSize - 1 /\ size' \in 0 .. QueueSize
  BY <1>1, <1>2
<1>5. size' = tail' - front' \/ size' = tail' - front' + QueueSize
  BY <1>1, <1>2, <1>3
<1>6. Occupied' = Occupied \ {front}
  BY <1>1, <1>2, <1>3, <1>4 DEF Occupied
<1>7. \A p \in Occupied' : msgQueue'[p] \in Slot
  BY <1>6 DEF RingInv
<1>8. QED
  BY <1>4, <1>5, <1>6, <1>7 DEF RingInv, Position

-----------------------------------------------------------------------------
(* Type correctness                                                        *)

TypeInv == TypeOK /\ RingInv

\* Occupied depends on the ring only, so RingInv survives every step that
\* leaves the ring and the idle states of the pump alone.
LEMMA RingUnchanged ==
    ASSUME RingInv, UNCHANGED ring,
           pc' \notin {"init", "idle"} => pc \notin {"init", "idle"} \/ size > 0
    PROVE  RingInv'
BY DEF RingInv, ring, Occupied

\* The interface keeps the types.
LEMMA ApiTypes == ASSUME TypeInv, Api PROVE TypeInv'
<1>a. /\ TypeOK /\ RingInv
  BY DEF TypeInv
<1>1. ASSUME NEW id \in MsgId, NEW cb \in Callback, Register(id, cb) PROVE TypeInv'
  <2>1. callbackVector' \in [MsgId -> Vector]
    BY <1>1, <1>a DEF TypeOK, Register, Vector
  <2>2. RingInv'
    BY <1>1, <1>a, RingUnchanged DEF Register, main
  <2>3. QED
    BY <1>1, <1>a, <2>1, <2>2 DEF TypeInv, TypeOK, Register, pools, ring, main
<1>2. ASSUME NEW id \in MsgId, NEW cb \in Callback, Unregister(id, cb) PROVE TypeInv'
  <2>1. callbackVector' \in [MsgId -> Vector]
    BY <1>2, <1>a DEF TypeOK, Unregister, Vector
  <2>2. due' \subseteq MsgId \X Callback
    BY <1>2, <1>a DEF TypeOK, Unregister
  <2>3. RingInv'
    BY <1>2, <1>a, RingUnchanged DEF Unregister
  <2>4. QED
    BY <1>2, <1>a, <2>1, <2>2, <2>3 DEF TypeInv, TypeOK, Unregister, pools, ring
<1>3. CASE PostQueueFull
  <2>1. RingInv'
    BY <1>3, <1>a, RingUnchanged DEF PostQueueFull, main
  <2>2. QED
    BY <1>3, <1>a, <2>1 DEF TypeInv, TypeOK, PostQueueFull, pools, ring, main
<1>4. ASSUME NEW id \in MsgId, NEW d \in Data, PostCopy(id, d) PROVE TypeInv'
  <2>1. PICK s \in Slot :
          /\ FirstFree(id, s)
          /\ refCount' = [refCount EXCEPT ![s] = @ + 1]
          /\ flag' = [flag EXCEPT ![s] = "PostedNotDispatched"]
          /\ data' = [data EXCEPT ![s] = d]
          /\ Enqueue(s)
    BY <1>4 DEF PostCopy
  <2>2. refCount[s] = 0
    BY <2>1 DEF FirstFree, IsFree
  <2>3. refCount' \in [Slot -> 0 .. MaxRef]
    BY <2>1, <2>2, <1>a, SizeAssumption DEF TypeOK
  <2>4. flag' \in [Slot -> Flag] /\ data' \in [Slot -> Data]
    BY <2>1, <1>a DEF TypeOK, Flag
  <2>5. /\ ~QueueFull /\ UNCHANGED <<callbackVector, main, context, owned, held>>
        /\ lockCounter' = Decremented(Decremented(lockCounter + 1))
    BY <1>4 DEF PostCopy
  <2>6. lockCounter' \in Nat
    BY <2>5, <1>a DEF TypeOK, Decremented
  <2>7. /\ msgQueue' \in [Position -> Slot \cup {<<>>}]
        /\ front' \in Position /\ tail' \in Position /\ size' \in 0 .. QueueSize
        /\ RingInv'
    BY <2>1, <2>5, <1>a, EnqueueRing DEF main
  <2>8. QED
    BY <2>3, <2>4, <2>5, <2>6, <2>7, <1>a DEF TypeInv, TypeOK, main
<1>5. ASSUME NEW s \in Slot, PostInternal(s) PROVE TypeInv'
  <2>1. /\ ~QueueFull /\ owned' = owned \ {s}
        /\ UNCHANGED <<data, callbackVector, main, context, lockCounter, held>>
    BY <1>5 DEF PostInternal
  <2>2. CASE /\ flag' = [flag EXCEPT ![s] = "PostedNotDispatched"]
             /\ Enqueue(s) /\ UNCHANGED refCount
    <3>1. /\ msgQueue' \in [Position -> Slot \cup {<<>>}]
          /\ front' \in Position /\ tail' \in Position /\ size' \in 0 .. QueueSize
          /\ RingInv'
      BY <2>1, <2>2, <1>a, EnqueueRing DEF main
    <3>2. flag' \in [Slot -> Flag]
      BY <2>2, <1>a DEF TypeOK, Flag
    <3>3. QED
      BY <2>1, <2>2, <3>1, <3>2, <1>a DEF TypeInv, TypeOK, main
  <2>3. CASE /\ flag' = [flag EXCEPT ![s] = "Nothing"]
             /\ refCount' = [refCount EXCEPT ![s] = 0] /\ UNCHANGED ring
    <3>1. RingInv'
      BY <2>1, <2>3, <1>a, RingUnchanged DEF main
    <3>2. flag' \in [Slot -> Flag] /\ refCount' \in [Slot -> 0 .. MaxRef]
      BY <2>3, <1>a, SizeAssumption DEF TypeOK, Flag
    <3>3. QED
      BY <2>1, <2>3, <3>1, <3>2, <1>a DEF TypeInv, TypeOK, main, ring
  <2>4. QED
    BY <1>5, <2>2, <2>3 DEF PostInternal
<1>6. ASSUME NEW id \in MsgId, GetFreeBuffer(id) PROVE TypeInv'
  <2>1. PICK s \in Slot :
          /\ FirstFree(id, s)
          /\ refCount' = [refCount EXCEPT ![s] = @ + 1]
          /\ flag' = [flag EXCEPT ![s] = "InUse"]
          /\ owned' = owned \cup {s}
    BY <1>6 DEF GetFreeBuffer
  <2>2. UNCHANGED <<data, ring, callbackVector, main, context, lockCounter, held>>
    BY <1>6 DEF GetFreeBuffer
  <2>3. refCount[s] = 0
    BY <2>1 DEF FirstFree, IsFree
  <2>4. refCount' \in [Slot -> 0 .. MaxRef]
    BY <2>1, <2>3, <1>a, SizeAssumption DEF TypeOK
  <2>5. flag' \in [Slot -> Flag] /\ owned' \subseteq Slot
    BY <2>1, <1>a DEF TypeOK, Flag
  <2>6. RingInv'
    BY <2>2, <1>a, RingUnchanged DEF main
  <2>7. QED
    BY <2>2, <2>4, <2>5, <2>6, <1>a DEF TypeInv, TypeOK, main, ring
<1>7. ASSUME NEW s \in Slot, NEW d \in Data, FillBuffer(s, d) PROVE TypeInv'
  <2>1. RingInv'
    BY <1>7, <1>a, RingUnchanged DEF FillBuffer, main
  <2>2. QED
    BY <1>7, <1>a, <2>1 DEF TypeInv, TypeOK, FillBuffer, main, ring
<1>8. ASSUME NEW s \in Slot, LockMessage(s) PROVE TypeInv'
  <2>1. RingInv'
    BY <1>8, <1>a, RingUnchanged DEF LockMessage, main
  <2>2. refCount' \in [Slot -> 0 .. MaxRef] /\ held' \in [Slot -> Nat]
    BY <1>8, <1>a, SizeAssumption DEF LockMessage, TypeOK
  <2>3. QED
    BY <1>8, <1>a, <2>1, <2>2 DEF TypeInv, TypeOK, LockMessage, main, ring
<1>9. ASSUME NEW s \in Slot, UnlockMessage(s) PROVE TypeInv'
  <2>1. RingInv'
    BY <1>9, <1>a, RingUnchanged DEF UnlockMessage, main
  <2>2. refCount' \in [Slot -> 0 .. MaxRef] /\ held' \in [Slot -> Nat]
    BY <1>9, <1>a, SizeAssumption DEF UnlockMessage, TypeOK, Decremented
  <2>3. QED
    BY <1>9, <1>a, <2>1, <2>2 DEF TypeInv, TypeOK, UnlockMessage, main, ring
<1>10. QED
  BY <1>1, <1>2, <1>3, <1>4, <1>5, <1>6, <1>7, <1>8, <1>9 DEF Api

\* The pump keeps the types.
LEMMA PumpTypes == ASSUME TypeInv, PumpStep PROVE TypeInv'
<1>a. TypeOK /\ RingInv
  BY DEF TypeInv
<1>b. size # 0 => Current \in Slot /\ Current[1] \in MsgId
  BY <1>a, FrontOccupied, SlotMessage
<1>c. pc \notin {"init", "idle"} => size # 0
  BY <1>a DEF RingInv
<1>1. CASE StartPump
  <2>1. RingInv'
    BY <1>1, <1>a, RingUnchanged DEF StartPump
  <2>2. QED
    BY <1>1, <1>a, <2>1 DEF TypeInv, TypeOK, StartPump, pools, ring
<1>2. CASE Begin
  <2>1. size # 0 /\ size > 0
    BY <1>2, <1>a DEF Begin, TypeOK
  <2>2. RingInv'
    BY <1>2, <1>a, <2>1, RingUnchanged DEF Begin
  <2>3. flag' \in [Slot -> Flag]
    BY <1>2, <1>a DEF Begin, TypeOK, Flag
  <2>4. Receivers(Current[1]) \subseteq Callback
    <3>1. callbackVector[Current[1]] \in Vector
      BY <1>a, <1>b, <2>1 DEF TypeOK
    <3>2. QED
      BY <3>1 DEF Receivers, Vector
  <2>5. due' \subseteq MsgId \X Callback /\ called' = {}
    BY <1>2, <1>b, <2>1, <2>4 DEF Begin
  <2>6. QED
    BY <1>2, <1>a, <2>2, <2>3, <2>5, SizeAssumption DEF TypeInv, TypeOK, Begin, ring
<1>3. CASE CheckReceiver
  <2>1. RingInv'
    BY <1>3, <1>a, RingUnchanged DEF CheckReceiver
  <2>2. index' \in 1 .. MaxReceivers + 1
    BY <1>3, <1>a, SizeAssumption DEF TypeOK, CheckReceiver
  <2>3. QED
    BY <1>3, <1>a, <2>1, <2>2 DEF TypeInv, TypeOK, CheckReceiver, pools, ring
<1>4. CASE CallReceiver
  <2>1. RingInv'
    BY <1>4, <1>a, RingUnchanged DEF CallReceiver
  <2>2. called' \subseteq MsgId \X Callback
    <3>1. Current[1] \in MsgId /\ index \in 1 .. MaxReceivers
      BY <1>4, <1>a, <1>b, <1>c, SizeAssumption DEF TypeOK, CallReceiver
    <3>2. callbackVector[Current[1]][index] \in Callback \cup {NoCallback}
      BY <3>1, <1>a DEF TypeOK, Vector
    <3>3. called \subseteq MsgId \X Callback
      BY <1>a DEF TypeOK
    <3>4. QED
      BY <1>4, <3>1, <3>2, <3>3 DEF CallReceiver
  <2>3. QED
    BY <1>4, <1>a, <2>1, <2>2, SizeAssumption DEF TypeInv, TypeOK, CallReceiver, pools, ring
<1>5. CASE ReceiverReturns
  <2>1. RingInv'
    BY <1>5, <1>a, RingUnchanged DEF ReceiverReturns
  <2>2. QED
    BY <1>5, <1>a, <2>1, SizeAssumption DEF TypeInv, TypeOK, ReceiverReturns, pools, ring
<1>6. CASE ClearFlag
  <2>1. RingInv'
    BY <1>6, <1>a, RingUnchanged DEF ClearFlag
  <2>2. flag' \in [Slot -> Flag]
    BY <1>6, <1>a DEF ClearFlag, TypeOK, Flag
  <2>3. QED
    BY <1>6, <1>a, <2>1, <2>2 DEF TypeInv, TypeOK, ClearFlag, ring
<1>7. CASE ReleaseBuffer
  <2>1. RingInv'
    BY <1>7, <1>a, RingUnchanged DEF ReleaseBuffer
  <2>2. refCount' \in [Slot -> 0 .. MaxRef]
    BY <1>7, <1>a, <1>b, <1>c, SizeAssumption DEF ReleaseBuffer, TypeOK, Decremented
  <2>3. QED
    BY <1>7, <1>a, <2>1, <2>2 DEF TypeInv, TypeOK, ReleaseBuffer, ring
<1>8. CASE PopEntry
  <2>1. size # 0
    BY <1>8, <1>c DEF PopEntry
  <2>2. front' \in Position /\ size' \in 0 .. QueueSize /\ RingInv'
    BY <1>8, <1>a, <2>1, PopRing DEF PopEntry
  <2>3. QED
    BY <1>8, <1>a, <2>2 DEF TypeInv, TypeOK, PopEntry, pools
<1>9. QED
  BY <1>1, <1>2, <1>3, <1>4, <1>5, <1>6, <1>7, <1>8 DEF PumpStep

\* Interrupt handlers change nothing but the context and the mutex.
Handler == EnterHandler \/ EnterTimerCallback \/ LeaveTimerCallback \/ LeaveHandler

LEMMA HandlerTypes == ASSUME TypeInv, Handler PROVE TypeInv'
<1>1. /\ UNCHANGED <<pools, ring, callbackVector, main, owned, held>>
      /\ context' \in {"thread", "handler", "timerCallback"}
      /\ lockCounter' \in Nat
  BY DEF TypeInv, TypeOK, Handler, EnterHandler, EnterTimerCallback,
         LeaveTimerCallback, LeaveHandler, Decremented
<1>2. RingInv'
  BY <1>1, RingUnchanged DEF TypeInv, main
<1>3. QED
  BY <1>1, <1>2 DEF TypeInv, TypeOK, pools, ring, main

LEMMA InitTypes == Init => TypeInv
<1>1. SUFFICES ASSUME Init PROVE TypeInv
  OBVIOUS
<1>2. TypeOK
  <2>1. refCount \in [Slot -> 0 .. MaxRef] /\ held \in [Slot -> Nat]
    BY <1>1, SizeAssumption DEF Init
  <2>2. flag \in [Slot -> Flag] /\ data \in [Slot -> Data]
    BY <1>1, ValueAssumption DEF Init, Flag
  <2>3. /\ msgQueue \in [Position -> Slot \cup {<<>>}]
        /\ front \in Position /\ tail \in Position /\ size \in 0 .. QueueSize
    BY <1>1, SizeAssumption DEF Init, Position
  <2>4. callbackVector \in [MsgId -> Vector]
    BY <1>1 DEF Init, Vector
  <2>5. index \in 1 .. MaxReceivers + 1
    BY <1>1, SizeAssumption DEF Init
  <2>6. QED
    BY <1>1, <2>1, <2>2, <2>3, <2>4, <2>5 DEF Init, TypeOK
<1>3. RingInv
  <2>1. size = 0 /\ front = 0 /\ tail = 0 /\ pc = "init"
    BY <1>1 DEF Init
  <2>2. QED
    BY <2>1 DEF RingInv, Occupied
<1>4. QED
  BY <1>2, <1>3 DEF TypeInv

LEMMA NextTypes == TypeInv /\ [Next]_vars => TypeInv'
<1>1. SUFFICES ASSUME TypeInv, [Next]_vars PROVE TypeInv'
  OBVIOUS
<1>2. CASE Api
  BY <1>1, <1>2, ApiTypes
<1>3. CASE PumpStep
  BY <1>1, <1>3, PumpTypes
<1>4. CASE Handler
  BY <1>1, <1>4, HandlerTypes
<1>5. CASE UNCHANGED vars
  BY <1>1, <1>5 DEF TypeInv, TypeOK, RingInv, Occupied, vars, pools, ring, main
<1>6. QED
  BY <1>1, <1>2, <1>3, <1>4, <1>5 DEF Next, Handler

\* The ring indices, the reference counts and the queue size of
\* msg_msgPump.c stay in range and the ring stays consistent, whatever the
\* pools, the queue size and the clients: size is the distance from front to
\* tail, and the pump only ever dereferences entries that were posted.
THEOREM TypeCorrect == Spec => []TypeOK
<1>1. Spec => []TypeInv
  BY InitTypes, NextTypes, PTL DEF Spec
<1>2. TypeInv => TypeOK
  BY DEF TypeInv
<1>3. QED
  BY <1>1, <1>2, PTL

-----------------------------------------------------------------------------
(* Slot accounting                                                         *)

\* What a producer got is referenced by it alone.
OwnedNotHeld == \A s \in owned : held[s] = 0

SlotInv == TypeInv /\ SlotAccounting /\ QueuedOnce /\ OwnedNotHeld

\* Occupied and active entries lie in the ring.
LEMMA ActivePosition == ASSUME TypeInv PROVE Occupied \subseteq Position /\ Active \subseteq Occupied
<1>1. /\ front \in 0 .. QueueSize - 1 /\ tail \in 0 .. QueueSize - 1
      /\ size \in Nat /\ QueueSize \in Nat
  BY SizeAssumption DEF TypeInv, TypeOK, Position
<1>2. Occupied \subseteq 0 .. QueueSize - 1
  BY <1>1 DEF Occupied
<1>3. QED
  BY <1>2 DEF Active, Position

\* A post adds one entry; the slot the pump works on stays the same.
LEMMA EnqueueQueue ==
    ASSUME TypeInv, ~QueueFull, NEW s \in Slot, Enqueue(s), pc' = pc
    PROVE  /\ Active' = Active \cup {tail} /\ tail \notin Active
           /\ \A t \in Slot : InQueue(t)' <=> InQueue(t) \/ t = s
           /\ pc \notin {"init", "idle"} => Current' = Current
<1>1. /\ Occupied' = Occupied \cup {tail} /\ tail \notin Occupied
      /\ msgQueue' = [msgQueue EXCEPT ![tail] = s] /\ front' = front
  BY EnqueueRing DEF TypeInv, Enqueue
<1>2. pc \notin {"init", "idle"} => front \in Occupied /\ front # tail
  BY <1>1, FrontOccupied DEF TypeInv, RingInv
<1>3. Active' = Active \cup {tail} /\ tail \notin Active
  BY <1>1, <1>2 DEF Active
<1>4. msgQueue \in [Position -> Slot \cup {<<>>}] /\ tail \in Position
  BY DEF TypeInv, TypeOK
<1>5. msgQueue'[tail] = s /\ \A p : p # tail => msgQueue'[p] = msgQueue[p] \/ p \notin Position
  BY <1>1, <1>4
<1>6. \A p \in Active : p \in Position
  BY ActivePosition
<1>7. \A p \in Active : msgQueue'[p] = msgQueue[p]
  BY <1>3, <1>5, <1>6
<1>8. \A t \in Slot : InQueue(t)' <=> InQueue(t) \/ t = s
  BY <1>3, <1>5, <1>7 DEF InQueue
<1>9. pc \notin {"init", "idle"} => Current' = Current
  BY <1>1, <1>2, <1>5 DEF Current, TypeInv, TypeOK
<1>10. QED
  BY <1>3, <1>8, <1>9

\* While the pump holds its reference, the front entry is active.
LEMMA CurrentInQueue ==
    ASSUME TypeInv, pc \notin {"init", "idle", "released"}
    PROVE  Current \in Slot /\ front \in Active /\ InQueue(Current)
<1>1. front \in Occupied /\ Current \in Slot
  BY FrontOccupied DEF TypeInv, RingInv
<1>2. front \in Active
  BY <1>1 DEF Active
<1>3. QED
  BY <1>1, <1>2 DEF InQueue, Current

\* A slot handed out is used by nobody.
LEMMA FreeSlotUnused ==
    ASSUME SlotInv, NEW s \in Slot, IsFree(s)
    PROVE  /\ ~InQueue(s) /\ s \notin owned /\ held[s] = 0
           /\ pc \notin {"init", "idle", "released"} => s # Current
<1>1. held[s] \in Nat
  BY DEF SlotInv, TypeInv, TypeOK
<1>2. ~InQueue(s) /\ s \notin owned /\ held[s] = 0
  BY <1>1 DEF SlotInv, SlotAccounting, IsFree
<1>3. QED
  BY <1>2, CurrentInQueue DEF SlotInv

\* Steps that touch neither the ring nor the pump's control see the same queue.
LEMMA SameQueue ==
    ASSUME UNCHANGED ring, pc' = "released" <=> pc = "released"
    PROVE  /\ Active' = Active /\ Current' = Current
           /\ \A t : InQueue(t)' <=> InQueue(t)
           /\ QueuedOnce => QueuedOnce'
BY DEF ring, Active, Occupied, Current, InQueue, QueuedOnce

LEMMA FrameSlots ==
    ASSUME SlotInv, UNCHANGED <<refCount, flag, ring, pc, owned, held>>
    PROVE  SlotAccounting' /\ QueuedOnce'
<1>1. /\ \A t : InQueue(t)' <=> InQueue(t)
      /\ Current' = Current /\ QueuedOnce'
  BY SameQueue DEF SlotInv
<1>2. SlotAccounting'
  BY <1>1 DEF SlotInv, SlotAccounting, Dispatching
<1>3. QED
  BY <1>1, <1>2

\* The pump's internal steps between Begin and ClearFlag.
LEMMA DispatchSlots ==
    ASSUME SlotInv, UNCHANGED <<refCount, flag, ring, owned, held>>,
           Dispatching, Dispatching'
    PROVE  SlotAccounting' /\ QueuedOnce'
<1>1. /\ \A t : InQueue(t)' <=> InQueue(t)
      /\ Current' = Current /\ QueuedOnce'
  BY SameQueue DEF SlotInv, Dispatching
<1>2. SlotAccounting'
  BY <1>1 DEF SlotInv, SlotAccounting, Dispatching
<1>3. QED
  BY <1>1, <1>2

\* Queueing a slot that is free or owned, with reference count 1.
LEMMA PostSlots ==
    ASSUME SlotInv, ~QueueFull, NEW s \in Slot, Enqueue(s), pc' = pc, held' = held,
           held[s] = 0, ~InQueue(s),
           refCount' = [refCount EXCEPT ![s] = 1],
           flag' = [flag EXCEPT ![s] = "PostedNotDispatched"],
           owned' = owned \ {s}
    PROVE  SlotAccounting' /\ QueuedOnce'
<1>a. TypeInv
  BY DEF SlotInv
<1>1. /\ Active' = Active \cup {tail} /\ tail \notin Active
      /\ \A t \in Slot : InQueue(t)' <=> InQueue(t) \/ t = s
      /\ pc \notin {"init", "idle"} => Current' = Current
  BY <1>a, EnqueueQueue
<1>2. pc \notin {"init", "idle", "released"} => Current # s
  BY <1>a, CurrentInQueue
<1>3. refCount \in [Slot -> 0 .. MaxRef] /\ flag \in [Slot -> Flag]
  BY <1>a DEF TypeInv, TypeOK
<1>4. SlotAccounting'
  <2>1. ASSUME NEW t \in Slot PROVE
          /\ ~(InQueue(t)' /\ t \in owned')
          /\ refCount'[t] = held'[t] + (IF InQueue(t)' \/ t \in owned' THEN 1 ELSE 0)
          /\ flag'[t] = IF t \in owned' \/ (Dispatching' /\ t = Current') THEN "InUse"
                        ELSE IF InQueue(t)' /\ ~(pc' = "cleared" /\ t = Current')
                             THEN "PostedNotDispatched"
                        ELSE "Nothing"
    <3>1. CASE t = s
      BY <3>1, <1>1, <1>2, <1>3 DEF Dispatching
    <3>2. CASE t # s
      <4>1. refCount'[t] = refCount[t] /\ flag'[t] = flag[t] /\ held'[t] = held[t]
        BY <3>2, <1>3
      <4>2. (InQueue(t)' <=> InQueue(t)) /\ (t \in owned' <=> t \in owned)
        BY <3>2, <1>1
      <4>3. QED
        BY <4>1, <4>2, <1>1 DEF SlotInv, SlotAccounting, Dispatching
    <3>3. QED
      BY <3>1, <3>2
  <2>2. QED
    BY <2>1 DEF SlotAccounting
<1>5. QueuedOnce'
  <2>1. msgQueue' = [msgQueue EXCEPT ![tail] = s]
        /\ tail \in Position /\ msgQueue \in [Position -> Slot \cup {<<>>}]
    BY <1>a DEF Enqueue, TypeInv, TypeOK
  <2>2. \A p \in Active : p \in Position /\ msgQueue'[p] = msgQueue[p] /\ msgQueue[p] # s
    <3>1. ASSUME NEW p \in Active PROVE p \in Position /\ p # tail /\ msgQueue[p] # s
      BY <1>1, <1>a, ActivePosition DEF InQueue
    <3>2. QED
      BY <2>1, <3>1
  <2>3. QED
    BY <1>1, <2>1, <2>2 DEF SlotInv, QueuedOnce
<1>6. QED
  BY <1>4, <1>5

\* The interface, called by producers that do not lock what they are about to
\* post: magic recovery is out of reach and every path keeps the accounts.
LEMMA ApiSlots ==
    ASSUME ~ProducerMayRetain, SlotInv, Api
    PROVE  SlotAccounting' /\ QueuedOnce' /\ OwnedNotHeld'
<1>a. /\ refCount \in [Slot -> 0 .. MaxRef] /\ flag \in [Slot -> Flag]
      /\ held \in [Slot -> Nat] /\ owned \subseteq Slot
  BY DEF SlotInv, TypeInv, TypeOK
<1>1. ASSUME NEW id \in MsgId, NEW cb \in Callback, Register(id, cb) \/ Unregister(id, cb)
      PROVE  SlotAccounting' /\ QueuedOnce' /\ OwnedNotHeld'
  <2>1. UNCHANGED <<refCount, flag, ring, pc, owned, held>>
    BY <1>1 DEF Register, Unregister, pools, main
  <2>2. QED
    BY <2>1, FrameSlots DEF SlotInv, OwnedNotHeld
<1>2. CASE PostQueueFull
  <2>1. UNCHANGED <<refCount, flag, ring, pc, owned, held>>
    BY <1>2 DEF PostQueueFull, pools, main
  <2>2. QED
    BY <2>1, FrameSlots DEF SlotInv, OwnedNotHeld
<1>3. ASSUME NEW id \in MsgId, NEW d \in Data, PostCopy(id, d)
      PROVE  SlotAccounting' /\ QueuedOnce' /\ OwnedNotHeld'
  <2>1. PICK s \in Slot :
          /\ FirstFree(id, s)
          /\ refCount' = [refCount EXCEPT ![s] = @ + 1]
          /\ flag' = [flag EXCEPT ![s] = "PostedNotDispatched"]
          /\ Enqueue(s)
    BY <1>3 DEF PostCopy
  <2>2. ~QueueFull /\ pc' = pc /\ owned' = owned /\ held' = held
    BY <1>3 DEF PostCopy, main
  <2>3. IsFree(s)
    BY <2>1 DEF FirstFree
  <2>4. held[s] = 0 /\ ~InQueue(s) /\ s \notin owned
    BY <2>3, FreeSlotUnused
  <2>5. refCount' = [refCount EXCEPT ![s] = 1] /\ owned' = owned \ {s}
    BY <2>1, <2>2, <2>3, <2>4, <1>a DEF IsFree
  <2>6. QED
    BY <2>1, <2>2, <2>4, <2>5, PostSlots DEF SlotInv, OwnedNotHeld
<1>4. ASSUME NEW s \in Slot, PostInternal(s)
      PROVE  SlotAccounting' /\ QueuedOnce' /\ OwnedNotHeld'
  <2>1. ~QueueFull /\ s \in owned /\ pc' = pc /\ owned' = owned \ {s} /\ held' = held
    BY <1>4 DEF PostInternal, main
  <2>2. held[s] = 0 /\ ~InQueue(s) /\ refCount[s] = 1 /\ flag[s] = "InUse"
    BY <2>1, <1>a DEF SlotInv, SlotAccounting, OwnedNotHeld
  <2>3. flag' = [flag EXCEPT ![s] = "PostedNotDispatched"] /\ Enqueue(s)
        /\ refCount' = refCount
    BY <1>4, <2>2 DEF PostInternal
  <2>4. refCount' = [refCount EXCEPT ![s] = 1]
    BY <2>2, <2>3, <1>a
  <2>5. QED
    BY <2>1, <2>2, <2>3, <2>4, PostSlots DEF SlotInv, OwnedNotHeld
<1>5. ASSUME NEW id \in MsgId, GetFreeBuffer(id)
      PROVE  SlotAccounting' /\ QueuedOnce' /\ OwnedNotHeld'
  <2>1. PICK s \in Slot :
          /\ FirstFree(id, s)
          /\ refCount' = [refCount EXCEPT ![s] = @ + 1]
          /\ flag' = [flag EXCEPT ![s] = "InUse"]
          /\ owned' = owned \cup {s}
    BY <1>5 DEF GetFreeBuffer
  <2>2. UNCHANGED <<ring, pc, held>>
    BY <1>5 DEF GetFreeBuffer, main
  <2>3. refCount[s] = 0 /\ IsFree(s)
    BY <2>1 DEF FirstFree, IsFree
  <2>4. held[s] = 0 /\ ~InQueue(s) /\ s \notin owned
    BY <2>3, FreeSlotUnused
  <2>5. /\ \A t : InQueue(t)' <=> InQueue(t)
        /\ Current' = Current /\ QueuedOnce'
    BY <2>2, SameQueue DEF SlotInv
  <2>6. SlotAccounting'
    BY <2>1, <2>2, <2>3, <2>4, <2>5, <1>a DEF SlotInv, SlotAccounting, Dispatching
  <2>7. QED
    BY <2>1, <2>2, <2>4, <2>5, <2>6 DEF SlotInv, OwnedNotHeld
<1>6. ASSUME NEW s \in Slot, NEW d \in Data, FillBuffer(s, d)
      PROVE  SlotAccounting' /\ QueuedOnce' /\ OwnedNotHeld'
  <2>1. UNCHANGED <<refCount, flag, ring, pc, owned, held>>
    BY <1>6 DEF FillBuffer, main
  <2>2. QED
    BY <2>1, FrameSlots DEF SlotInv, OwnedNotHeld
<1>7. ASSUME NEW s \in Slot, LockMessage(s)
      PROVE  SlotAccounting' /\ QueuedOnce' /\ OwnedNotHeld'
  <2>1. /\ pc = "receiver" /\ s = Current
        /\ refCount' = [refCount EXCEPT ![s] = @ + 1]
        /\ held' = [held EXCEPT ![s] = @ + 1]
        /\ UNCHANGED <<flag, ring, pc, owned>>
    BY <1>7 DEF LockMessage, main
  <2>2. /\ \A t : InQueue(t)' <=> InQueue(t)
        /\ Current' = Current /\ QueuedOnce'
    BY <2>1, SameQueue DEF SlotInv
  <2>3. s \notin owned
    BY <2>1, CurrentInQueue DEF SlotInv, SlotAccounting
  <2>4. SlotAccounting'
    BY <2>1, <2>2, <1>a DEF SlotInv, SlotAccounting, Dispatching
  <2>5. QED
    BY <2>1, <2>2, <2>3, <2>4, <1>a DEF SlotInv, OwnedNotHeld
<1>8. ASSUME NEW s \in Slot, UnlockMessage(s)
      PROVE  SlotAccounting' /\ QueuedOnce' /\ OwnedNotHeld'
  <2>1. /\ held[s] > 0
        /\ refCount' = [refCount EXCEPT ![s] = Decremented(@)]
        /\ held' = [held EXCEPT ![s] = @ - 1]
        /\ UNCHANGED <<flag, ring, pc, owned>>
    BY <1>8 DEF UnlockMessage, main
  <2>2. /\ \A t : InQueue(t)' <=> InQueue(t)
        /\ Current' = Current /\ QueuedOnce'
    BY <2>1, SameQueue DEF SlotInv
  <2>3. refCount[s] > 0 /\ refCount'[s] = refCount[s] - 1 /\ held'[s] = held[s] - 1
    BY <2>1, <1>a DEF SlotInv, SlotAccounting, Decremented
  <2>4. SlotAccounting'
    BY <2>1, <2>2, <2>3, <1>a DEF SlotInv, SlotAccounting, Dispatching
  <2>5. QED
    BY <2>1, <2>2, <2>4, <1>a DEF SlotInv, OwnedNotHeld
<1>9. QED
  BY <1>1, <1>2, <1>3, <1>4, <1>5, <1>6, <1>7, <1>8 DEF Api

\* The pump: its reference goes with ReleaseBuffer, not before and not twice.
LEMMA PumpSlots ==
    ASSUME SlotInv, PumpStep
    PROVE  SlotAccounting' /\ QueuedOnce' /\ OwnedNotHeld'
<1>a. /\ refCount \in [Slot -> 0 .. MaxRef] /\ flag \in [Slot -> Flag]
      /\ held \in [Slot -> Nat] /\ owned \subseteq Slot
      /\ TypeInv
  BY DEF SlotInv, TypeInv, TypeOK
<1>b. pc \notin {"init", "idle", "released"} =>
        Current \in Slot /\ front \in Active /\ InQueue(Current)
  BY <1>a, CurrentInQueue
<1>c. owned' = owned /\ held' = held
  BY DEF PumpStep, StartPump, Begin, CheckReceiver, CallReceiver, ReceiverReturns,
         ClearFlag, ReleaseBuffer, PopEntry
<1>d. OwnedNotHeld'
  BY <1>c DEF SlotInv, OwnedNotHeld
<1>1. CASE StartPump
  <2>1. UNCHANGED <<refCount, flag, ring>> /\ pc = "init" /\ pc' = "idle"
    BY <1>1 DEF StartPump, pools
  <2>2. /\ \A t : InQueue(t)' <=> InQueue(t)
        /\ QueuedOnce'
    BY <2>1, SameQueue DEF SlotInv
  <2>3. SlotAccounting'
    BY <2>1, <2>2, <1>c DEF SlotInv, SlotAccounting, Dispatching
  <2>4. QED
    BY <2>2, <2>3, <1>d
<1>2. CASE Begin
  <2>1. /\ pc = "idle" /\ pc' = "check" /\ size # 0
        /\ flag' = [flag EXCEPT ![Current] = "InUse"]
        /\ UNCHANGED <<refCount, ring>>
    BY <1>2 DEF Begin
  <2>2. /\ \A t : InQueue(t)' <=> InQueue(t)
        /\ Current' = Current /\ QueuedOnce'
    BY <2>1, SameQueue DEF SlotInv
  <2>3. front \in Occupied /\ Current \in Slot
    BY <2>1, <1>a, FrontOccupied DEF TypeInv
  <2>4. InQueue(Current)
    BY <2>1, <2>3 DEF InQueue, Active, Current
  <2>5. Current \notin owned
    BY <2>3, <2>4 DEF SlotInv, SlotAccounting
  <2>6. SlotAccounting'
    BY <2>1, <2>2, <2>3, <2>5, <1>a, <1>c DEF SlotInv, SlotAccounting, Dispatching
  <2>7. QED
    BY <2>2, <2>6, <1>d
<1>3. CASE CheckReceiver \/ CallReceiver \/ ReceiverReturns
  <2>1. UNCHANGED <<refCount, flag, ring, owned, held>> /\ Dispatching /\ Dispatching'
    BY <1>3 DEF CheckReceiver, CallReceiver, ReceiverReturns, pools, Dispatching
  <2>2. QED
    BY <2>1, <1>d, DispatchSlots
<1>4. CASE ClearFlag
  <2>1. /\ pc = "check" /\ pc' = "cleared"
        /\ flag' = [flag EXCEPT ![Current] = "Nothing"]
        /\ UNCHANGED <<refCount, ring>>
    BY <1>4 DEF ClearFlag
  <2>2. /\ \A t : InQueue(t)' <=> InQueue(t)
        /\ Current' = Current /\ QueuedOnce'
    BY <2>1, SameQueue DEF SlotInv
  <2>3. Current \in Slot /\ Current \notin owned
    BY <2>1, <1>b DEF SlotInv, SlotAccounting
  <2>4. SlotAccounting'
    BY <2>1, <2>2, <2>3, <1>a, <1>c DEF SlotInv, SlotAccounting, Dispatching
  <2>5. QED
    BY <2>2, <2>4, <1>d
<1>5. CASE ReleaseBuffer
  <2>1. /\ pc = "cleared" /\ pc' = "released"
        /\ refCount' = [refCount EXCEPT ![Current] = Decremented(@)]
        /\ UNCHANGED <<flag, ring>>
    BY <1>5 DEF ReleaseBuffer
  <2>2. /\ Active' = Active \ {front} /\ Current' = Current
        /\ UNCHANGED <<msgQueue, front>>
    BY <2>1 DEF Active, Occupied, ring, Current
  <2>3. ~InQueue(Current)'
    BY <2>1, <2>2, <1>b DEF SlotInv, QueuedOnce, InQueue, Current
  <2>4. \A t \in Slot : t # Current => (InQueue(t)' <=> InQueue(t))
    BY <2>2 DEF InQueue, Current
  <2>5. /\ Current \in Slot /\ Current \notin owned
        /\ refCount[Current] = held[Current] + 1 /\ flag[Current] = "Nothing"
    BY <2>1, <1>b DEF SlotInv, SlotAccounting, Dispatching
  <2>6. refCount'[Current] = held[Current]
    BY <2>1, <2>5, <1>a DEF Decremented
  <2>7. SlotAccounting'
    <3>1. ASSUME NEW t \in Slot PROVE
            /\ ~(InQueue(t)' /\ t \in owned')
            /\ refCount'[t] = held'[t] + (IF InQueue(t)' \/ t \in owned' THEN 1 ELSE 0)
            /\ flag'[t] = IF t \in owned' \/ (Dispatching' /\ t = Current') THEN "InUse"
                          ELSE IF InQueue(t)' /\ ~(pc' = "cleared" /\ t = Current')
                               THEN "PostedNotDispatched"
                          ELSE "Nothing"
      <4>1. CASE t = Current
        BY <4>1, <2>1, <2>2, <2>3, <2>5, <2>6, <1>a, <1>c DEF Dispatching
      <4>2. CASE t # Current
        BY <4>2, <2>1, <2>2, <2>4, <1>a, <1>c DEF SlotInv, SlotAccounting, Dispatching
      <4>3. QED
        BY <4>1, <4>2
    <3>2. QED
      BY <3>1 DEF SlotAccounting
  <2>8. QueuedOnce'
    BY <2>2 DEF SlotInv, QueuedOnce
  <2>9. QED
    BY <2>7, <2>8, <1>d
<1>6. CASE PopEntry
  <2>1. /\ pc = "released" /\ pc' = "idle" /\ size # 0
        /\ UNCHANGED <<refCount, flag, msgQueue>>
    BY <1>6, <1>a DEF PopEntry, pools, TypeInv, RingInv
  <2>2. Occupied' = Occupied \ {front}
    BY <1>6, <2>1, <1>a, PopRing DEF PopEntry, TypeInv
  <2>3. Active' = Active
    BY <2>1, <2>2 DEF Active
  <2>4. (\A t : InQueue(t)' <=> InQueue(t)) /\ QueuedOnce'
    BY <2>1, <2>3 DEF InQueue, QueuedOnce, SlotInv
  <2>5. SlotAccounting'
    BY <2>1, <2>4, <1>c DEF SlotInv, SlotAccounting, Dispatching
  <2>6. QED
    BY <2>4, <2>5, <1>d
<1>7. QED
  BY <1>1, <1>2, <1>3, <1>4, <1>5, <1>6 DEF PumpStep

LEMMA InitSlots == Init => SlotInv
<1>1. SUFFICES ASSUME Init PROVE SlotInv
  OBVIOUS
<1>2. TypeInv
  BY <1>1, InitTypes
<1>3. Active = {} /\ \A s : ~InQueue(s)
  BY <1>1 DEF Init, Active, Occupied, InQueue
<1>4. SlotAccounting
  BY <1>1, <1>3 DEF Init, SlotAccounting, Dispatching
<1>5. QED
  BY <1>1, <1>2, <1>3, <1>4 DEF Init, SlotInv, QueuedOnce, OwnedNotHeld

LEMMA NextSlots == ~ProducerMayRetain => (SlotInv /\ [Next]_vars => SlotInv')
<1>1. SUFFICES ASSUME ~ProducerMayRetain, SlotInv, [Next]_vars PROVE SlotInv'
  OBVIOUS
<1>2. TypeInv'
  BY <1>1, NextTypes DEF SlotInv
<1>3. SlotAccounting' /\ QueuedOnce' /\ OwnedNotHeld'
  <2>1. CASE Api
    BY <1>1, <2>1, ApiSlots
  <2>2. CASE PumpStep
    BY <1>1, <2>2, PumpSlots
  <2>3. CASE Handler \/ UNCHANGED vars
    <3>1. UNCHANGED <<refCount, flag, ring, pc, owned, held>>
      BY <2>3 DEF Handler, EnterHandler, EnterTimerCallback, LeaveTimerCallback,
                  LeaveHandler, vars, pools, main
    <3>2. QED
      BY <1>1, <3>1, FrameSlots DEF SlotInv, OwnedNotHeld
  <2>4. QED
    BY <1>1, <2>1, <2>2, <2>3 DEF Next, Handler
<1>4. QED
  BY <1>2, <1>3 DEF SlotInv

\* As long as producers do not lock a buffer before they post it, every
\* reference has exactly one owner: a free slot is neither queued nor retained
\* and no slot is lost, for every pool and queue size.
THEOREM SlotsAccounted ==
    ASSUME ~ProducerMayRetain PROVE Spec => []SlotAccounting
<1>1. SlotInv => SlotAccounting
  BY DEF SlotInv
<1>2. SlotInv /\ [Next]_vars => SlotInv'
  BY NextSlots
<1>3. QED
  BY <1>1, <1>2, InitSlots, PTL DEF Spec

\* Under the same condition no slot is queued twice, so no post overwrites a
\* message that is still waiting.
THEOREM SlotsQueuedOnce ==
    ASSUME ~ProducerMayRetain PROVE Spec => []QueuedOnce
<1>1. SlotInv => QueuedOnce
  BY DEF SlotInv
<1>2. SlotInv /\ [Next]_vars => SlotInv'
  BY NextSlots
<1>3. QED
  BY <1>1, <1>2, InitSlots, PTL DEF Spec

=============================================================================
