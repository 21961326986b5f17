------------------------ MODULE MsgPumpSafetyProofs ------------------------
(***************************************************************************)
(* What follows from the slot accounts of MsgPumpProofs: the ring never    *)
(* fills up and the mutex is never left locked, retained messages keep     *)
(* their payload; the promises to the receivers; and that the pump         *)
(* implements FifoDelivery.                                                *)
(***************************************************************************)
EXTENDS MsgPumpProofs, SequenceTheorems

-----------------------------------------------------------------------------
(* The ring holds at most one entry more than there are slots              *)

LEMMA OccupiedCardinality ==
    ASSUME TypeInv
    PROVE  IsFiniteSet(Occupied) /\ Cardinality(Occupied) = size
<1>1. /\ front \in 0 .. QueueSize - 1 /\ tail \in 0 .. QueueSize - 1
      /\ size \in 0 .. QueueSize /\ QueueSize \in Nat \ {0}
      /\ size = tail - front \/ size = tail - front + QueueSize
  BY SizeAssumption DEF TypeInv, TypeOK, RingInv, Position
<1>2. CASE size = 0
  BY <1>2, FS_EmptySet DEF Occupied
<1>3. CASE size # 0 /\ front < tail
  <2>1. Occupied = front .. tail - 1
    BY <1>3 DEF Occupied
  <2>2. IsFiniteSet(front .. tail - 1) /\ Cardinality(front .. tail - 1) = tail - front
    BY <1>1, <1>3, FS_Interval
  <2>3. QED
    BY <1>1, <1>3, <2>1, <2>2
<1>4. CASE size # 0 /\ ~(front < tail)
  <2> DEFINE upper == front .. QueueSize - 1
             lower == 0 .. tail - 1
  <2>1. Occupied = upper \cup lower
    BY <1>4 DEF Occupied
  <2>2. IsFiniteSet(upper) /\ Cardinality(upper) = QueueSize - front
    BY <1>1, FS_Interval
  <2>3. IsFiniteSet(lower) /\ Cardinality(lower) = tail
    BY <1>1, FS_Interval
  <2>4. upper \cap lower = {}
    BY <1>1, <1>4
  <2>5. Cardinality(upper \cap lower) = 0
    BY <2>4, FS_EmptySet
  <2>6. IsFiniteSet(upper \cup lower)
        /\ Cardinality(upper \cup lower) = Cardinality(upper) + Cardinality(lower)
                                            - Cardinality(upper \cap lower)
    BY <2>2, <2>3, FS_Union
  <2>7. Cardinality(upper \cup lower) = QueueSize - front + tail
    BY <1>1, <2>2, <2>3, <2>5, <2>6
  <2>8. size = tail - front + QueueSize
    BY <1>1, <1>4
  <2> HIDE DEF upper, lower
  <2>9. QED
    BY <1>1, <2>1, <2>6, <2>7, <2>8
<1>5. QED
  BY <1>2, <1>3, <1>4

\* The active entries are distinct slots, and at most one entry is not active.
LEMMA RingBound ==
    ASSUME SlotInv, IsFiniteSet(Slot)
    PROVE  size <= Cardinality(Slot) + 1
<1>a. TypeInv /\ size \in Nat
  BY DEF SlotInv, TypeInv, TypeOK
<1>1. IsFiniteSet(Occupied) /\ Cardinality(Occupied) = size
  BY <1>a, OccupiedCardinality
<1>2. IsFiniteSet(Active) /\ Cardinality(Active) >= size - 1
  <2>1. CASE pc = "released"
    <3>1. Active = Occupied \ {front}
      BY <2>1 DEF Active
    <3>2. IsFiniteSet(Occupied \ {front})
          /\ Cardinality(Occupied \ {front}) =
               IF front \in Occupied THEN Cardinality(Occupied) - 1 ELSE Cardinality(Occupied)
      BY <1>1, FS_RemoveElement
    <3>3. QED
      BY <1>a, <1>1, <3>1, <3>2
  <2>2. CASE pc # "released"
    <3>1. Active = Occupied
      BY <2>2 DEF Active
    <3>2. QED
      BY <1>a, <1>1, <3>1
  <2>3. QED
    BY <2>1, <2>2
<1>3. DEFINE f == [p \in Active |-> msgQueue[p]]
<1>4. \A p \in Active : msgQueue[p] \in Slot
  BY <1>a, ActivePosition DEF TypeInv, RingInv
<1>5. f \in Injection(Active, Slot)
  BY <1>4 DEF SlotInv, QueuedOnce, Injection, IsInjective
<1>6. Cardinality(Active) <= Cardinality(Slot)
  BY <1>5, FS_Injection
<1>7. Cardinality(Active) \in Nat /\ Cardinality(Slot) \in Nat
  BY <1>2, FS_CardinalityType
<1>8. QED
  BY <1>a, <1>2, <1>6, <1>7

-----------------------------------------------------------------------------
(* The mutex                                                               *)

\* The pools and the ring of a configuration: the ring has room for every slot
\* and for the entry the pump has released but not popped, and one more.
RingFits == IsFiniteSet(Slot) /\ Cardinality(Slot) + 1 < QueueSize

LEMMA NotFull == ASSUME SlotInv, RingFits PROVE ~QueueFull
<1>1. size <= Cardinality(Slot) + 1 /\ Cardinality(Slot) \in Nat
  BY RingBound, FS_CardinalityType DEF RingFits
<1>2. /\ front \in Int /\ tail \in Int /\ size \in Nat /\ QueueSize \in Nat
      /\ size = tail - front \/ size = tail - front + QueueSize
  BY SizeAssumption DEF SlotInv, TypeInv, TypeOK, RingInv, Position
<1>3. QED
  BY <1>1, <1>2 DEF QueueFull, RingFits

MutexInv == lockCounter <= IF context = "timerCallback" THEN 1 ELSE 0

LEMMA NextMutex ==
    ASSUME RingFits, SlotInv, MutexInv, [Next]_vars
    PROVE  MutexInv'
<1>a. lockCounter \in Nat /\ context \in {"thread", "handler", "timerCallback"}
  BY DEF SlotInv, TypeInv, TypeOK
<1>b. ~QueueFull
  BY NotFull
<1>1. CASE Api
  <2>1. context' = context
    BY <1>1 DEF Api, Register, Unregister, PostQueueFull, PostCopy, PostInternal,
                GetFreeBuffer, FillBuffer, LockMessage, UnlockMessage
  <2>2. lockCounter' = lockCounter \/ lockCounter' = Decremented(Decremented(lockCounter + 1))
    BY <1>1, <1>b DEF Api, Register, Unregister, PostQueueFull, PostCopy, PostInternal,
                GetFreeBuffer, FillBuffer, LockMessage, UnlockMessage
  <2>3. lockCounter' <= lockCounter /\ lockCounter' \in Nat
    BY <2>2, <1>a DEF Decremented
  <2>4. QED
    BY <2>1, <2>3, <1>a DEF MutexInv
<1>2. CASE PumpStep
  BY <1>2 DEF PumpStep, StartPump, Begin, CheckReceiver, CallReceiver, ReceiverReturns,
              ClearFlag, ReleaseBuffer, PopEntry, MutexInv
<1>3. CASE EnterHandler
  BY <1>3, <1>a DEF EnterHandler, MutexInv
<1>4. CASE EnterTimerCallback
  BY <1>4, <1>a DEF EnterTimerCallback, MutexInv
<1>5. CASE LeaveTimerCallback
  BY <1>5, <1>a DEF LeaveTimerCallback, MutexInv, Decremented
<1>6. CASE LeaveHandler
  BY <1>6, <1>a DEF LeaveHandler, MutexInv
<1>7. CASE UNCHANGED vars
  BY <1>7 DEF vars, MutexInv
<1>8. QED
  BY <1>1, <1>2, <1>3, <1>4, <1>5, <1>6, <1>7 DEF Next

\* The early return of msgPump_postMessage that keeps the mutex
\* (msg_msgPump.c:152-155) is out of reach in every configuration whose ring
\* is longer than its pools by two: interrupts come back after every call.
THEOREM MutexReleased ==
    ASSUME ~ProducerMayRetain, RingFits PROVE Spec => []NoLockLeak
<1>1. Init => MutexInv
  BY DEF Init, MutexInv
<1>2. SlotInv /\ MutexInv /\ [Next]_vars => SlotInv' /\ MutexInv'
  BY NextSlots, NextMutex
<1>3. SlotInv /\ MutexInv => NoLockLeak
  BY DEF SlotInv, TypeInv, TypeOK, MutexInv, NoLockLeak
<1>4. QED
  BY <1>1, <1>2, <1>3, InitSlots, PTL DEF Spec

-----------------------------------------------------------------------------
(* Retained messages                                                       *)

\* A payload is written when its slot is claimed or while its producer owns
\* it; a retained slot is neither.
THEOREM RetainedKept ==
    ASSUME ~ProducerMayRetain PROVE Spec => RetainedDataStable
<1>1. ASSUME SlotInv, [Next]_vars, NEW s \in Slot, held[s] > 0
      PROVE  data'[s] = data[s]
  <2>a. data \in [Slot -> Data]
    BY <1>1 DEF SlotInv, TypeInv, TypeOK
  <2>1. ASSUME NEW id \in MsgId, NEW d \in Data, PostCopy(id, d) PROVE data'[s] = data[s]
    <3>1. PICK t \in Slot : FirstFree(id, t) /\ data' = [data EXCEPT ![t] = d]
      BY <2>1 DEF PostCopy
    <3>2. held[t] = 0
      BY <1>1, <3>1, FreeSlotUnused DEF FirstFree
    <3>3. QED
      BY <1>1, <2>a, <3>1, <3>2
  <2>2. ASSUME NEW t \in Slot, NEW d \in Data, FillBuffer(t, d) PROVE data'[s] = data[s]
    BY <1>1, <2>a, <2>2 DEF FillBuffer, SlotInv, OwnedNotHeld
  <2>3. CASE Api
    BY <2>1, <2>2, <2>3 DEF Api, Register, Unregister, PostQueueFull, PostInternal,
                            GetFreeBuffer, LockMessage, UnlockMessage, pools
  <2>4. CASE PumpStep \/ Handler \/ UNCHANGED vars
    BY <2>4 DEF PumpStep, StartPump, Begin, CheckReceiver, CallReceiver, ReceiverReturns,
                ClearFlag, ReleaseBuffer, PopEntry, Handler, EnterHandler,
                EnterTimerCallback, LeaveTimerCallback, LeaveHandler, vars, pools
  <2>5. QED
    BY <1>1, <2>3, <2>4 DEF Next, Handler
<1>2. SlotInv /\ [Next]_vars =>
        [\A s \in Slot : held[s] > 0 /\ held'[s] > 0 => data'[s] = data[s]]_vars
  BY <1>1
<1>3. SlotInv /\ [Next]_vars => SlotInv'
  BY NextSlots
<1>4. QED
  BY <1>2, <1>3, InitSlots, PTL DEF Spec, RetainedDataStable

-----------------------------------------------------------------------------
(* Receivers                                                               *)

\* The entries the pump has still to visit in the dispatch under way.
ToVisit == (IF pc = "receiver" THEN index + 1 ELSE index) .. MaxReceivers

\* A receiver that is due was called or stands in an entry still to visit.
DueReachable ==
    /\ pc \in {"check", "call", "receiver"} =>
         \A e \in due : /\ e[1] = Current[1]
                        /\ \/ e \in called
                           \/ \E i \in ToVisit : callbackVector[e[1]][i] = e[2]
    /\ AllReceiversCalled

\* Steps that leave the receivers and the pump alone.
LEMMA FrameDue ==
    ASSUME DueReachable, UNCHANGED <<callbackVector, pc, index, due, called>>,
           pc \in {"check", "call", "receiver"} => Current' = Current
    PROVE  DueReachable'
BY DEF DueReachable, AllReceiversCalled, ToVisit

LEMMA ApiDue == ASSUME TypeInv, DueReachable, Api PROVE DueReachable'
<1>a. /\ callbackVector \in [MsgId -> Vector] /\ due \subseteq MsgId \X Callback
      /\ index \in Nat /\ MaxReceivers \in Nat
  BY SizeAssumption DEF TypeInv, TypeOK
<1>b. ToVisit \subseteq 1 .. MaxReceivers
  BY <1>a DEF ToVisit, TypeInv, TypeOK
<1>1. ASSUME NEW id \in MsgId, NEW cb \in Callback, Register(id, cb) PROVE DueReachable'
  <2>1. PICK i \in 1 .. MaxReceivers :
          /\ callbackVector[id][i] \in {NoCallback, cb}
          /\ callbackVector' = [callbackVector EXCEPT ![id][i] = cb]
    BY <1>1 DEF Register
  <2>2. UNCHANGED <<ring, pc, index, due, called>>
    BY <1>1 DEF Register, main
  <2>3. ASSUME NEW e \in due, NEW j \in 1 .. MaxReceivers, callbackVector[e[1]][j] = e[2]
        PROVE  callbackVector'[e[1]][j] = e[2]
    <3>1. e[1] \in MsgId /\ e[2] \in Callback /\ e[2] # NoCallback
      BY <1>a, ValueAssumption
    <3>2. callbackVector[id] \in Vector /\ callbackVector[e[1]] \in Vector
      BY <1>a, <3>1
    <3>3. CASE e[1] = id
      BY <3>3, <3>1, <3>2, <2>1, <2>3, <1>a DEF Vector
    <3>4. CASE e[1] # id
      BY <3>4, <3>1, <2>1, <2>3, <1>a
    <3>5. QED
      BY <3>3, <3>4
  <2>4. QED
    BY <2>2, <2>3, <1>b DEF DueReachable, AllReceiversCalled, ToVisit, Current, ring
<1>2. ASSUME NEW id \in MsgId, NEW cb \in Callback, Unregister(id, cb) PROVE DueReachable'
  <2>1. PICK i \in 1 .. MaxReceivers :
          /\ callbackVector[id][i] = cb
          /\ callbackVector' = [callbackVector EXCEPT ![id][i] = NoCallback]
    BY <1>2 DEF Unregister
  <2>2. UNCHANGED <<ring, pc, index, called>> /\ due' = due \ {<<id, cb>>}
    BY <1>2 DEF Unregister
  <2>3. ASSUME NEW e \in due', NEW j \in 1 .. MaxReceivers, callbackVector[e[1]][j] = e[2]
        PROVE  callbackVector'[e[1]][j] = e[2]
    <3>1. e \in MsgId \X Callback /\ e # <<id, cb>>
      BY <1>a, <2>2
    <3>2. e[1] \in MsgId /\ (e[1] = id => e[2] # cb)
      BY <3>1
    <3>3. callbackVector[id] \in Vector
      BY <1>a
    <3>4. CASE e[1] = id
      BY <3>4, <3>2, <3>3, <2>1, <2>3, <1>a DEF Vector
    <3>5. CASE e[1] # id
      BY <3>5, <3>2, <2>1, <2>3, <1>a
    <3>6. QED
      BY <3>4, <3>5
  <2>4. QED
    BY <2>2, <2>3, <1>b DEF DueReachable, AllReceiversCalled, ToVisit, Current, ring
<1>3. ASSUME NEW s \in Slot, ~QueueFull, Enqueue(s),
             UNCHANGED <<callbackVector, pc, index, due, called>>
      PROVE  DueReachable'
  <2>1. pc \notin {"init", "idle"} => Current' = Current
    BY <1>3, EnqueueQueue
  <2>2. QED
    BY <1>3, <2>1, FrameDue
<1>4. CASE UNCHANGED <<ring, callbackVector, pc, index, due, called>>
  <2>1. Current' = Current
    BY <1>4 DEF Current, ring
  <2>2. QED
    BY <1>4, <2>1, FrameDue
<1>5. QED
  BY <1>1, <1>2, <1>3, <1>4 DEF Api, PostQueueFull, PostCopy, PostInternal, GetFreeBuffer,
       FillBuffer, LockMessage, UnlockMessage, main

LEMMA PumpDue == ASSUME TypeInv, DueReachable, PumpStep PROVE DueReachable'
<1>a. /\ callbackVector \in [MsgId -> Vector] /\ due \subseteq MsgId \X Callback
      /\ index \in Nat /\ MaxReceivers \in Nat
  BY SizeAssumption DEF TypeInv, TypeOK
<1>1. CASE StartPump \/ PopEntry
  BY <1>1 DEF StartPump, PopEntry, DueReachable, AllReceiversCalled
<1>2. CASE Begin
  <2>1. /\ pc' = "check" /\ index' = 1 /\ Current' = Current
        /\ due' = {Current[1]} \X Receivers(Current[1])
        /\ callbackVector' = callbackVector
    BY <1>2 DEF Begin, Current, ring
  <2>2. ASSUME NEW e \in due'
        PROVE  e[1] = Current[1] /\ \E i \in 1 .. MaxReceivers : callbackVector[e[1]][i] = e[2]
    BY <2>1 DEF Receivers
  <2>3. QED
    BY <2>1, <2>2 DEF DueReachable, AllReceiversCalled, ToVisit
<1>3. CASE CheckReceiver
  <2>1. /\ Current' = Current
        /\ UNCHANGED <<callbackVector, due, called>> /\ pc = "check"
        /\ \/ pc' = "call" /\ index' = index
           \/ /\ pc' = "check" /\ index' = index + 1
              /\ callbackVector[Current[1]][index] = NoCallback
    BY <1>3 DEF CheckReceiver, Current, ring
  <2>2. \A e \in due : e[2] # NoCallback
    BY <1>a, ValueAssumption
  <2>3. \A i \in ToVisit : pc' = "call" \/ i = index \/ i \in ToVisit'
    BY <2>1, <1>a DEF ToVisit
  <2>4. pc' = "call" => ToVisit' = ToVisit
    BY <2>1 DEF ToVisit
  <2>5. QED
    BY <2>1, <2>2, <2>3, <2>4 DEF DueReachable, AllReceiversCalled
<1>4. CASE CallReceiver
  <2>1. /\ Current' = Current
        /\ UNCHANGED <<callbackVector, due, index>> /\ pc = "call"
        /\ \/ pc' = "fault"
           \/ /\ pc' = "receiver"
              /\ called' = called \cup {<<Current[1], callbackVector[Current[1]][index]>>}
    BY <1>4 DEF CallReceiver, Current, ring
  <2>2. \A i \in ToVisit : pc' = "fault" \/ i = index \/ i \in ToVisit'
    BY <2>1, <1>a DEF ToVisit
  <2>3. ASSUME pc' = "receiver", NEW e \in due'
        PROVE  /\ e[1] = Current'[1]
               /\ \/ e \in called'
                  \/ \E i \in ToVisit' : callbackVector'[e[1]][i] = e[2]
    <3>1. e \in MsgId \X Callback /\ e[1] = Current[1]
      BY <1>a, <2>1, <2>3 DEF DueReachable
    <3>2. CASE e \in called
      BY <3>1, <3>2, <2>1, <2>3
    <3>3. ASSUME NEW i \in ToVisit, callbackVector[e[1]][i] = e[2]
          PROVE  e \in called' \/ \E k \in ToVisit' : callbackVector'[e[1]][k] = e[2]
      <4>1. CASE i = index
        <5>1. e = <<e[1], e[2]>>
          BY <3>1
        <5>2. QED
          BY <3>1, <3>3, <4>1, <5>1, <2>1, <2>3
      <4>2. CASE i # index
        BY <3>3, <4>2, <2>1, <2>2, <2>3
      <4>3. QED
        BY <4>1, <4>2
    <3>4. QED
      BY <3>1, <3>2, <3>3, <2>1 DEF DueReachable
  <2>4. QED
    BY <2>1, <2>3 DEF DueReachable, AllReceiversCalled
<1>5. CASE ReceiverReturns
  <2>1. /\ Current' = Current /\ UNCHANGED <<callbackVector, due, called>>
        /\ pc = "receiver" /\ pc' = "check" /\ index' = index + 1
    BY <1>5 DEF ReceiverReturns, Current, ring
  <2>2. ToVisit' = ToVisit
    BY <2>1 DEF ToVisit
  <2>3. QED
    BY <2>1, <2>2 DEF DueReachable, AllReceiversCalled
<1>6. CASE ClearFlag
  <2>1. /\ UNCHANGED <<due, called>> /\ pc = "check" /\ pc' = "cleared"
        /\ index > MaxReceivers
    BY <1>6 DEF ClearFlag
  <2>2. ToVisit = {}
    BY <2>1, <1>a DEF ToVisit
  <2>3. QED
    BY <2>1, <2>2 DEF DueReachable, AllReceiversCalled
<1>7. CASE ReleaseBuffer
  BY <1>7 DEF ReleaseBuffer, DueReachable, AllReceiversCalled
<1>8. QED
  BY <1>1, <1>2, <1>3, <1>4, <1>5, <1>6, <1>7 DEF PumpStep

\* Whatever is registered and unregistered while a message is dispatched, by
\* receivers or by interrupt handlers, a receiver that was registered when the
\* dispatch began and was not unregistered is called before the buffer is
\* given back.
THEOREM ReceiversCalled == Spec => []AllReceiversCalled
<1>1. Init => DueReachable
  BY DEF Init, DueReachable, AllReceiversCalled
<1>2. TypeInv /\ DueReachable /\ [Next]_vars => DueReachable'
  <2>1. SUFFICES ASSUME TypeInv, DueReachable, [Next]_vars PROVE DueReachable'
    OBVIOUS
  <2>2. CASE Handler \/ UNCHANGED vars
    <3>1. UNCHANGED <<callbackVector, pc, index, due, called>> /\ Current' = Current
      BY <2>2 DEF Handler, EnterHandler, EnterTimerCallback, LeaveTimerCallback,
                  LeaveHandler, vars, ring, main, Current
    <3>2. QED
      BY <2>1, <3>1, FrameDue
  <2>3. QED
    BY <2>1, <2>2, ApiDue, PumpDue DEF Next, Handler
<1>3. DueReachable => AllReceiversCalled
  BY DEF DueReachable
<1>4. QED
  BY <1>1, <1>2, <1>3, InitTypes, NextTypes, PTL DEF Spec

-----------------------------------------------------------------------------
(* The refinement of FifoDelivery                                          *)

\* The position of the k-th entry behind the front of the ring.
At(k) == (front + k) % QueueSize

LEMMA AtPosition ==
    ASSUME TypeInv, NEW k \in 0 .. QueueSize
    PROVE  /\ At(k) = IF front + k < QueueSize THEN front + k ELSE front + k - QueueSize
           /\ At(k) \in Position
<1>1. /\ front \in 0 .. QueueSize - 1 /\ QueueSize \in Nat \ {0} /\ k \in 0 .. QueueSize
  BY SizeAssumption DEF TypeInv, TypeOK, Position
<1>2. At(k) = IF front + k < QueueSize THEN front + k ELSE front + k - QueueSize
  BY <1>1 DEF At
<1>3. QED
  BY <1>1, <1>2 DEF Position

\* The entries behind the front are the occupied positions.
LEMMA AtOccupied ==
    ASSUME TypeInv
    PROVE  /\ \A k \in 0 .. size - 1 : At(k) \in Occupied
           /\ \A k \in 1 .. size - 1 : At(k) # front
           /\ At(size) = tail
<1>1. /\ front \in 0 .. QueueSize - 1 /\ tail \in 0 .. QueueSize - 1
      /\ size \in 0 .. QueueSize /\ QueueSize \in Nat \ {0}
      /\ size = tail - front \/ size = tail - front + QueueSize
  BY SizeAssumption DEF TypeInv, TypeOK, RingInv, Position
<1>2. \A k \in 0 .. size : At(k) = IF front + k < QueueSize THEN front + k
                                    ELSE front + k - QueueSize
  BY <1>1, AtPosition
<1>3. At(size) = tail
  BY <1>1, <1>2
<1>4. \A k \in 1 .. size - 1 : At(k) # front
  BY <1>1, <1>2
<1>5. ASSUME NEW k \in 0 .. size - 1 PROVE At(k) \in Occupied
  <2>1. CASE front < tail
    BY <1>1, <1>2, <1>5, <2>1 DEF Occupied
  <2>2. CASE ~(front < tail)
    BY <1>1, <1>2, <1>5, <2>2 DEF Occupied
  <2>3. QED
    BY <2>1, <2>2
<1>6. QED
  BY <1>3, <1>4, <1>5

\* The queue of FifoDelivery and its oldest message, as MsgPump maps them.
Length  == size - Taken
Pending == [k \in 1 .. Length |-> MessageIn(msgQueue[(front + Taken + k - 1) % QueueSize])]
Now     == IF Dispatching THEN MessageIn(Current) ELSE NoMessage

\* The k-th pending message is in an active entry.
LEMMA PendingActive ==
    ASSUME TypeInv, NEW k \in 1 .. Length
    PROVE  /\ (front + Taken + k - 1) % QueueSize = At(Taken + k - 1)
           /\ At(Taken + k - 1) \in Active
           /\ msgQueue[At(Taken + k - 1)] \in Slot
<1>1. size \in Nat /\ front \in Nat /\ Taken \in {0, 1} /\ k \in Nat
  BY DEF TypeInv, TypeOK, Position, Taken
<1>2. Taken + k - 1 \in 0 .. size - 1 /\ (Taken = 1 => Taken + k - 1 \in 1 .. size - 1)
  BY <1>1 DEF Length
<1>3. At(Taken + k - 1) \in Occupied /\ (Taken = 1 => At(Taken + k - 1) # front)
  BY <1>2, AtOccupied
<1>4. At(Taken + k - 1) \in Active
  BY <1>3 DEF Active, Taken
<1>5. (front + Taken + k - 1) % QueueSize = At(Taken + k - 1)
  BY <1>1 DEF At
<1>6. QED
  BY <1>3, <1>4, <1>5 DEF TypeInv, RingInv

LEMMA MessageType ==
    ASSUME TypeInv, NEW s \in Slot
    PROVE  MessageIn(s) \in MsgId \X Data /\ MessageIn(s) # NoMessage
BY SlotMessage DEF TypeInv, TypeOK, MessageIn, NoMessage

\* What is pending is a sequence of messages, before a step and after it.
LEMMA PendingType ==
    ASSUME TypeInv
    PROVE  /\ Length \in Nat
           /\ Pending \in [1 .. Length -> MsgId \X Data]
           /\ Pending \in Seq(MsgId \X Data) /\ Len(Pending) = Length
<1>1. Length \in Nat
  BY DEF TypeInv, TypeOK, RingInv, Taken, Length
<1>2. Pending \in [1 .. Length -> MsgId \X Data]
  BY PendingActive, MessageType DEF Pending
<1>3. Pending \in Seq(MsgId \X Data) /\ Len(Pending) = Length
  BY <1>1, <1>2
<1>4. QED
  BY <1>1, <1>2, <1>3

LEMMA PendingTypeNext ==
    TypeInv' => (Pending \in Seq(MsgId \X Data) /\ Len(Pending) = Length)'
<1>1. TypeInv => (Pending \in Seq(MsgId \X Data) /\ Len(Pending) = Length)
  BY PendingType
<1>2. QED
  BY <1>1, PTL

\* Steps that leave the ring and the payload of what is in it alone.
LEMMA FrameFifo ==
    ASSUME TypeInv, UNCHANGED <<ring, Taken, Dispatching>>,
           \A p \in Active : data'[msgQueue[p]] = data[msgQueue[p]],
           Dispatching => front \in Active
    PROVE  UNCHANGED <<Pending, Now>>
<1>1. Length' = Length
  BY DEF Length, ring
<1>2. \A k \in 1 .. Length :
        MessageIn(msgQueue[(front + Taken + k - 1) % QueueSize])'
          = MessageIn(msgQueue[(front + Taken + k - 1) % QueueSize])
  BY PendingActive DEF MessageIn, ring
<1>3. Pending' = Pending
  BY <1>1, <1>2 DEF Pending
<1>4. Now' = Now
  BY DEF Now, Current, MessageIn, ring
<1>5. QED
  BY <1>3, <1>4

\* A post appends its message.
LEMMA EnqueueFifo ==
    ASSUME TypeInv, TypeInv', ~QueueFull, NEW s \in Slot, Enqueue(s), pc' = pc,
           \A p \in Active : data'[msgQueue[p]] = data[msgQueue[p]]
    PROVE  Fifo!Accept
<1> DEFINE m == <<s[1], data'[s]>>
<1>1. m \in MsgId \X Data
  BY SlotMessage DEF TypeInv, TypeOK
<1>a. /\ size \in Nat /\ front \in Nat /\ Taken \in {0, 1}
      /\ msgQueue \in [Position -> Slot \cup {<<>>}] /\ tail \in Position
  BY DEF TypeInv, TypeOK, Position, Taken
<1>b. /\ Taken' = Taken /\ front' = front /\ size' = size + 1
      /\ msgQueue' = [msgQueue EXCEPT ![tail] = s]
  BY DEF Enqueue, Taken
<1>2. Length \in Nat /\ Length = size - Taken /\ Length' = Length + 1
  BY <1>a, <1>b, PendingType DEF Length
<1>3. tail \notin Active
  BY EnqueueQueue
<1>4. ASSUME NEW k \in 1 .. Length PROVE Pending'[k] = Pending[k]
  <2> DEFINE p == (front + Taken + k - 1) % QueueSize
  <2>1. p \in Active /\ p \in Position /\ p # tail
    BY <1>3, PendingActive, ActivePosition
  <2>2. msgQueue'[p] = msgQueue[p] /\ data'[msgQueue[p]] = data[msgQueue[p]]
    BY <1>a, <1>b, <2>1
  <2>3. Pending[k] = MessageIn(msgQueue[p])
    BY DEF Pending
  <2>4. Pending'[k] = <<(msgQueue'[p])[1], data'[msgQueue'[p]]>>
    BY <1>b, <1>2 DEF Pending, MessageIn
  <2>5. QED
    BY <2>2, <2>3, <2>4 DEF MessageIn
<1>5. Pending'[Length + 1] = m
  <2>a. front' + Taken' + (Length + 1) - 1 = front + size
    BY <1>a, <1>b, <1>2
  <2>1. (front' + Taken' + (Length + 1) - 1) % QueueSize = At(size)
    BY <2>a DEF At
  <2>2. msgQueue'[At(size)] = s
    BY <1>a, <1>b, AtOccupied
  <2>3. Length + 1 \in 1 .. Length'
    BY <1>2
  <2>4. Pending'[Length + 1] = <<(msgQueue'[At(size)])[1], data'[msgQueue'[At(size)]]>>
    BY <2>1, <2>3 DEF Pending, MessageIn
  <2>5. QED
    BY <2>2, <2>4
<1>6. Pending' = Append(Pending, m)
  <2>1. Pending \in Seq(MsgId \X Data) /\ Len(Pending) = Length
    BY PendingType
  <2>2. Pending' \in Seq(MsgId \X Data) /\ Len(Pending') = Length + 1
    BY <1>2, PendingTypeNext
  <2> HIDE DEF m
  <2>3. /\ Append(Pending, m) \in Seq(MsgId \X Data) /\ Len(Append(Pending, m)) = Length + 1
        /\ \A k \in 1 .. Length : Append(Pending, m)[k] = Pending[k]
        /\ Append(Pending, m)[Length + 1] = m
    BY <1>1, <1>2, <2>1
  <2>4. \A k \in 1 .. Length + 1 : k \in 1 .. Length \/ k = Length + 1
    BY <1>2
  <2>5. QED
    BY <1>4, <1>5, <2>2, <2>3, <2>4, SeqEqual
<1>7. Now' = Now
  <2>1. Dispatching' = Dispatching /\ (Dispatching => pc \notin {"init", "idle", "released"})
    BY DEF Dispatching
  <2>2. CASE Dispatching
    <3>1. Current' = Current /\ front \in Active
      BY <2>1, <2>2, EnqueueQueue, CurrentInQueue
    <3>2. data'[Current] = data[Current]
      BY <3>1 DEF Current
    <3>3. QED
      BY <2>1, <2>2, <3>1, <3>2 DEF Now, MessageIn
  <2>3. CASE ~Dispatching
    BY <2>1, <2>3 DEF Now
  <2>4. QED
    BY <2>2, <2>3
<1>8. QED
  BY <1>1, <1>6, <1>7 DEF Fifo!Accept, Pending, Length, Now

\* A slot that is queued is neither claimed nor written by anyone.
LEMMA ApiFifo ==
    ASSUME SlotInv, TypeInv', Api
    PROVE  Fifo!Accept \/ UNCHANGED <<Pending, Now>>
<1>a. TypeInv /\ data \in [Slot -> Data]
  BY DEF SlotInv, TypeInv, TypeOK
<1>b. \A p \in Active : msgQueue[p] \in Slot /\ InQueue(msgQueue[p])
  BY <1>a, ActivePosition DEF TypeInv, RingInv, InQueue
<1>c. Dispatching => front \in Active
  BY <1>a, CurrentInQueue DEF Dispatching
<1>1. ASSUME NEW id \in MsgId, NEW d \in Data, PostCopy(id, d) PROVE Fifo!Accept
  <2>1. PICK s \in Slot : FirstFree(id, s) /\ data' = [data EXCEPT ![s] = d] /\ Enqueue(s)
    BY <1>1 DEF PostCopy
  <2>2. ~InQueue(s)
    BY <2>1, FreeSlotUnused DEF FirstFree
  <2>3. \A p \in Active : data'[msgQueue[p]] = data[msgQueue[p]]
    BY <1>a, <1>b, <2>1, <2>2
  <2>4. ~QueueFull /\ pc' = pc
    BY <1>1 DEF PostCopy, main
  <2>5. QED
    BY <1>a, <2>1, <2>3, <2>4, EnqueueFifo
<1>2. ASSUME NEW s \in Slot, PostInternal(s)
      PROVE  Fifo!Accept \/ UNCHANGED <<Pending, Now>>
  <2>1. data' = data /\ pc' = pc /\ ~QueueFull /\ (Enqueue(s) \/ UNCHANGED ring)
    BY <1>2 DEF PostInternal, main
  <2>2. CASE Enqueue(s)
    BY <1>a, <2>1, <2>2, EnqueueFifo
  <2>3. CASE UNCHANGED ring
    <3>1. UNCHANGED <<ring, Taken, Dispatching>>
      BY <2>1, <2>3 DEF Taken, Dispatching
    <3>2. QED
      BY <1>a, <1>c, <2>1, <3>1, FrameFifo
  <2>4. QED
    BY <2>1, <2>2, <2>3
<1>3. ASSUME NEW s \in Slot, NEW d \in Data, FillBuffer(s, d)
      PROVE  UNCHANGED <<Pending, Now>>
  <2>1. s \in owned /\ data' = [data EXCEPT ![s] = d] /\ pc' = pc /\ UNCHANGED ring
    BY <1>3 DEF FillBuffer, main
  <2>2. ~InQueue(s)
    BY <2>1 DEF SlotInv, SlotAccounting
  <2>3. \A p \in Active : data'[msgQueue[p]] = data[msgQueue[p]]
    BY <1>a, <1>b, <2>1, <2>2
  <2>4. UNCHANGED <<ring, Taken, Dispatching>>
    BY <2>1 DEF Taken, Dispatching
  <2>5. QED
    BY <1>a, <1>c, <2>3, <2>4, FrameFifo
<1>4. CASE UNCHANGED <<ring, data, pc>>
  <2>1. UNCHANGED <<ring, Taken, Dispatching>> /\ data' = data
    BY <1>4 DEF Taken, Dispatching
  <2>2. QED
    BY <1>a, <1>c, <2>1, FrameFifo
<1>5. QED
  BY <1>1, <1>2, <1>3, <1>4 DEF Api, Register, Unregister, PostQueueFull, GetFreeBuffer,
       LockMessage, UnlockMessage, main, pools

\* The pump takes the oldest message when it begins, is done with it when it
\* clears the flag, and pops an entry that no longer counts.
LEMMA PumpFifo ==
    ASSUME TypeInv, TypeInv', PumpStep
    PROVE  Fifo!Deliver \/ Fifo!Finish \/ UNCHANGED <<Pending, Now>>
<1>c. Dispatching => front \in Active
  BY CurrentInQueue DEF Dispatching
<1>1. CASE Begin
  <2>1. /\ pc = "idle" /\ pc' = "check" /\ size # 0 /\ data' = data /\ UNCHANGED ring
        /\ Taken = 0 /\ Taken' = 1 /\ ~Dispatching /\ Dispatching'
    BY <1>1 DEF Begin, Taken, Dispatching
  <2>2. /\ Length = size /\ Length \in Nat \ {0} /\ Length' = Length - 1
        /\ front \in Nat /\ front' = front
    BY <2>1, PendingType DEF Length, ring, TypeInv, TypeOK, Position
  <2>3. /\ Pending \in Seq(MsgId \X Data) /\ Len(Pending) = Length
        /\ Pending' \in Seq(MsgId \X Data) /\ Len(Pending') = Length'
    BY PendingType, PendingTypeNext
  <2>4. Pending # <<>>
    BY <2>2, <2>3, EmptySeq
  <2>5. Now = NoMessage /\ Now' = Head(Pending)
    <3>1. Pending[1] = MessageIn(msgQueue[(front + 0 + 1 - 1) % QueueSize])
      BY <2>1, <2>2 DEF Pending
    <3>a. front \in 0 .. QueueSize - 1 /\ QueueSize \in Nat \ {0}
      BY SizeAssumption DEF TypeInv, TypeOK, Position
    <3>2. front + 0 + 1 - 1 = front /\ front % QueueSize = front
      BY <3>a
    <3>3. Head(Pending) = MessageIn(Current)
      BY <2>3, <2>4, <3>1, <3>2 DEF Current
    <3>4. QED
      BY <2>1, <3>3 DEF Now, Current, MessageIn, ring
  <2>6. Pending' = Tail(Pending)
    <3>1. /\ Tail(Pending) \in Seq(MsgId \X Data) /\ Len(Tail(Pending)) = Length - 1
          /\ \A k \in 1 .. Length - 1 : Tail(Pending)[k] = Pending[k + 1]
      BY <2>2, <2>3, <2>4, HeadTailProperties
    <3>2. ASSUME NEW k \in 1 .. Length - 1 PROVE Pending'[k] = Pending[k + 1]
      <4>1. front + 1 + k - 1 = front + 0 + (k + 1) - 1 /\ k + 1 \in 1 .. Length
        BY <2>2
      <4>2. QED
        BY <2>1, <2>2, <4>1 DEF Pending, MessageIn, ring
    <3>3. QED
      BY <2>2, <2>3, <3>1, <3>2, SeqEqual
  <2>7. QED
    BY <2>4, <2>5, <2>6 DEF Fifo!Deliver, Pending, Length, Now
<1>2. CASE ClearFlag
  <2>1. /\ pc = "check" /\ pc' = "cleared" /\ data' = data /\ UNCHANGED ring
        /\ Taken' = Taken /\ Dispatching /\ ~Dispatching'
    BY <1>2 DEF ClearFlag, Taken, Dispatching
  <2>2. Now # NoMessage /\ Now' = NoMessage
    BY <2>1, CurrentInQueue, MessageType DEF Now
  <2>3. Pending' = Pending
    BY <2>1 DEF Pending, Length, MessageIn, ring
  <2>4. QED
    BY <2>2, <2>3 DEF Fifo!Finish, Pending, Length, Now
<1>3. CASE PopEntry
  <2>1. /\ pc = "released" /\ pc' = "idle" /\ data' = data /\ msgQueue' = msgQueue
        /\ front' = (front + 1) % QueueSize /\ size' = size - 1
        /\ Taken = 1 /\ Taken' = 0 /\ ~Dispatching /\ ~Dispatching'
    BY <1>3 DEF PopEntry, Taken, Dispatching, pools
  <2>2. Length' = Length /\ size \in 1 .. QueueSize
    BY <2>1 DEF Length, TypeInv, TypeOK, RingInv
  <2>3. ASSUME NEW k \in 1 .. Length
        PROVE  (front' + 0 + k - 1) % QueueSize = (front + 1 + k - 1) % QueueSize
    <3>1. /\ front \in 0 .. QueueSize - 1 /\ QueueSize \in Nat \ {0}
          /\ k \in 1 .. size - 1 /\ size \in 1 .. QueueSize
          /\ front' = IF front + 1 = QueueSize THEN 0 ELSE front + 1
      BY <2>1, <2>2, NextPosition, SizeAssumption DEF Length, TypeInv, TypeOK, Position
    <3>2. (front + 1 + k - 1) % QueueSize
             = IF front + k < QueueSize THEN front + k ELSE front + k - QueueSize
      BY <3>1
    <3>3. (front' + 0 + k - 1) % QueueSize
             = IF front' + k - 1 < QueueSize THEN front' + k - 1 ELSE front' + k - 1 - QueueSize
      BY <3>1
    <3>4. QED
      BY <3>1, <3>2, <3>3
  <2>4. Pending' = Pending
    BY <2>1, <2>2, <2>3 DEF Pending, MessageIn
  <2>5. QED
    BY <2>1, <2>4 DEF Now
<1>4. CASE StartPump \/ CheckReceiver \/ CallReceiver \/ ReceiverReturns \/ ReleaseBuffer
  <2>1. UNCHANGED <<ring, Taken, Dispatching>> /\ data' = data
    BY <1>4 DEF StartPump, CheckReceiver, CallReceiver, ReceiverReturns, ReleaseBuffer,
                Taken, Dispatching, pools
  <2>2. QED
    BY <1>c, <2>1, FrameFifo
<1>5. QED
  BY <1>1, <1>2, <1>3, <1>4 DEF PumpStep

\* The pump implements FifoDelivery for every pool and queue size, as long as
\* producers do not lock a buffer before they post it: what was accepted is
\* delivered once, in order and unaltered, although slots and ring entries are
\* used again and again, by the main thread and by interrupt handlers.
THEOREM DeliveredInOrder ==
    ASSUME ~ProducerMayRetain PROVE Spec => FifoOrder
<1>1. Init => Fifo!Init
  <2> SUFFICES ASSUME Init PROVE Fifo!Init
    OBVIOUS
  <2>a. size = 0 /\ pc = "init"
    BY DEF Init
  <2>b. Taken = 0 /\ ~Dispatching
    BY <2>a DEF Taken, Dispatching
  <2>1. Length = 0 /\ ~Dispatching
    BY <2>a, <2>b DEF Length
  <2>2. Pending = <<>> /\ Now = NoMessage
    <3>1. TypeInv
      BY InitTypes
    <3>2. QED
      BY <2>1, <3>1, PendingType, EmptySeq DEF Now
  <2>3. QED
    BY <2>2 DEF Fifo!Init, Pending, Length, Now
<1>2. SlotInv /\ [Next]_vars => [Fifo!Next]_Fifo!vars
  <2> SUFFICES ASSUME SlotInv, [Next]_vars PROVE [Fifo!Next]_Fifo!vars
    OBVIOUS
  <2>1. TypeInv /\ TypeInv'
    BY NextTypes DEF SlotInv
  <2>2. CASE Api
    <3>1. Fifo!Accept \/ UNCHANGED <<Pending, Now>>
      BY <2>1, <2>2, ApiFifo
    <3>2. QED
      BY <3>1 DEF Fifo!Next, Fifo!vars, Pending, Length, Now
  <2>3. CASE PumpStep
    <3>1. Fifo!Deliver \/ Fifo!Finish \/ UNCHANGED <<Pending, Now>>
      BY <2>1, <2>3, PumpFifo
    <3>2. QED
      BY <3>1 DEF Fifo!Next, Fifo!vars, Pending, Length, Now
  <2>4. CASE Handler \/ UNCHANGED vars
    <3>1. UNCHANGED <<ring, Taken, Dispatching>> /\ data' = data
      BY <2>4 DEF Handler, EnterHandler, EnterTimerCallback, LeaveTimerCallback,
                  LeaveHandler, vars, main, pools, Taken, Dispatching
    <3>2. Dispatching => front \in Active
      BY <2>1, CurrentInQueue DEF Dispatching
    <3>3. UNCHANGED <<Pending, Now>>
      BY <2>1, <3>1, <3>2, FrameFifo
    <3>4. QED
      BY <3>3 DEF Fifo!Next, Fifo!vars, Pending, Length, Now
  <2>5. QED
    BY <2>2, <2>3, <2>4 DEF Next, Handler
<1>3. SlotInv /\ [Next]_vars => SlotInv'
  BY NextSlots
<1>4. QED
  BY <1>1, <1>2, <1>3, InitSlots, PTL DEF Spec, FifoOrder, Fifo!Spec

=============================================================================
