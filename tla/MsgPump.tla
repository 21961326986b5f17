------------------------------ MODULE MsgPump ------------------------------
(***************************************************************************)
(* The message pump of the "flawless" framework                            *)
(* (framework/flawless/core/msg_msgPump.c) on the interrupt mutex of       *)
(* target/stm32f4/system.c.                                                *)
(*                                                                         *)
(* Every message identifier owns a pool of slots.  A slot is a reference   *)
(* count, a flag and the payload.  A post claims a slot and appends it to  *)
(* one ring queue; the main loop (msgPump_pumpMessage) takes the entry at  *)
(* the front, calls every receiver of that message in the main thread,     *)
(* clears the flag, drops its reference and finally pops the entry.        *)
(*                                                                         *)
(* Two kinds of code call the interface: the main thread (module           *)
(* initialisation and, later, the receivers) and interrupt handlers.  A    *)
(* handler can arrive between any two steps of the pump while interrupts   *)
(* are enabled, i.e. while lockCounter = 0; the functions of the interface *)
(* run with interrupts disabled and are single steps here.                 *)
(***************************************************************************)
EXTENDS Integers, Sequences, FiniteSets

CONSTANTS
    MsgId,             \* message identifiers with a pool
    MsgAmount,         \* slots of each pool (msgAmount of the descriptor)
    QueueSize,         \* MSG_PUMP_MSG_QUEUE_MAX_SIZE
    MaxReceivers,      \* MAX_AMOUNT_OF_MSG_RECERIVER_PER_MESSAGE
    Callback,          \* receivers
    NoCallback,        \* a NULL entry of a callback vector
    Data,              \* payloads
    Zero,              \* the payload of memset(..., 0, ...)
    MaxRef,            \* largest reference count (255 in an uint8_t)
    MaxLocks,          \* bound on lockCounter for a caller that retries forever
    ProducerMayRetain, \* may a producer lock a buffer before posting it?
    IsrUnregisters     \* may an interrupt handler unregister a receiver?

Slot == UNION {{id} \X (1..MsgAmount[id]) : id \in MsgId}

ASSUME PoolAssumption == MsgAmount \in [MsgId -> Nat]
ASSUME SizeAssumption == /\ QueueSize \in Nat \ {0}
                         /\ MaxReceivers \in Nat
                         /\ MaxRef \in Nat \ {0}
                         /\ MaxLocks \in Nat
ASSUME ValueAssumption == /\ NoCallback \notin Callback
                          /\ Zero \in Data
                          /\ ProducerMayRetain \in BOOLEAN
                          /\ IsrUnregisters \in BOOLEAN

VARIABLES
    refCount, flag, data,          \* the pools, slot by slot
    msgQueue, front, tail, size,   \* the ring of posted slots
    callbackVector,                \* receivers of each message
    pc, index,                     \* control of the main thread
    context,                       \* who is running
    lockCounter,                   \* system.c; interrupts are on iff it is 0
    owned,                         \* slots a producer got and has not posted
    held,                          \* lockMessage calls not yet undone
    due, called                    \* receivers of the current dispatch

pools == <<refCount, flag, data>>
ring  == <<msgQueue, front, tail, size>>
main  == <<pc, index, due, called>>
vars  == <<pools, ring, callbackVector, main, context, lockCounter, owned, held>>

Flag     == {"Nothing", "PostedNotDispatched", "InUse"}
Position == 0 .. QueueSize - 1
Vector   == [1..MaxReceivers -> Callback \cup {NoCallback}]

Init == /\ refCount = [s \in Slot |-> 0]
        /\ flag = [s \in Slot |-> "Nothing"]
        /\ data = [s \in Slot |-> Zero]
        /\ msgQueue = [p \in Position |-> <<>>]
        /\ front = 0 /\ tail = 0 /\ size = 0
        /\ callbackVector = [id \in MsgId |-> [i \in 1..MaxReceivers |-> NoCallback]]
        /\ pc = "init" /\ index = 1
        /\ context = "thread"
        /\ lockCounter = 0
        /\ owned = {}
        /\ held = [s \in Slot |-> 0]
        /\ due = {} /\ called = {}

-----------------------------------------------------------------------------
(* Helpers                                                                 *)

\* system_mutex_unlock and msgPump_unlockMessage never go below 0; an unlock of
\* the mutex at 0 enables interrupts again.
Decremented(c) == IF c > 0 THEN c - 1 ELSE 0

Receivers(id) == {callbackVector[id][i] : i \in 1..MaxReceivers} \ {NoCallback}

QueueFull == front = tail /\ size # 0

\* (mutant) the reference count is not looked at
IsFreeByFlag(s) == flag[s] = "Nothing"

IsFree(s) == refCount[s] = 0 /\ flag[s] = "Nothing"

\* The search for a slot takes the first free one of the pool.
FirstFree(id, s) ==
    /\ s \in Slot /\ s[1] = id /\ IsFree(s)
    /\ \A t \in Slot : t[1] = id /\ t[2] < s[2] => ~IsFree(t)

Enqueue(s) == /\ msgQueue' = [msgQueue EXCEPT ![tail] = s]
              /\ tail' = (tail + 1) % QueueSize
              /\ size' = size + 1
              /\ UNCHANGED front

\* The slot the pump works on; the front of the ring does not move before
\* the pump pops it.
Current == msgQueue[front]

\* The interface is called by module initialisation, by receivers and by
\* interrupt handlers.
Caller == context # "thread" \/ pc \in {"init", "receiver"}

-----------------------------------------------------------------------------
(* The interface                                                           *)

\* msgPump_registerOnMessage: the first entry that is empty or already holds
\* the callback.
Register(id, cb) ==
    /\ context = "thread" /\ pc \in {"init", "receiver"}
    /\ \E i \in 1..MaxReceivers :
         /\ callbackVector[id][i] \in {NoCallback, cb}
         /\ \A j \in 1..i-1 : callbackVector[id][j] \notin {NoCallback, cb}
         /\ callbackVector' = [callbackVector EXCEPT ![id][i] = cb]
    /\ UNCHANGED <<pools, ring, main, context, lockCounter, owned, held>>

\* (mutant) the entries behind the removed one move up
UnregisterCompacts(id, cb) ==
    /\ Caller /\ (context = "thread" \/ IsrUnregisters)
    /\ \E i \in 1..MaxReceivers :
         /\ callbackVector[id][i] = cb
         /\ callbackVector' = [callbackVector EXCEPT ![id] =
              [j \in 1..MaxReceivers |-> IF j < i THEN @[j]
                                         ELSE IF j < MaxReceivers THEN @[j + 1]
                                         ELSE NoCallback]]
    /\ due' = due \ {<<id, cb>>}
    /\ UNCHANGED <<pools, ring, pc, index, called, context, lockCounter, owned, held>>

\* msgPump_unregisterFromMessage: clears the first entry with the callback.
\* The receiver is no longer due in the dispatch under way.
Unregister(id, cb) ==
    /\ Caller /\ (context = "thread" \/ IsrUnregisters)
    /\ \E i \in 1..MaxReceivers :
         /\ callbackVector[id][i] = cb
         /\ \A j \in 1..i-1 : callbackVector[id][j] # cb
         /\ callbackVector' = [callbackVector EXCEPT ![id][i] = NoCallback]
    /\ due' = due \ {<<id, cb>>}
    /\ UNCHANGED <<pools, ring, pc, index, called, context, lockCounter, owned, held>>

\* The early return of msgPump_postMessage: the mutex taken on entry is kept.
PostQueueFull ==
    /\ Caller /\ QueueFull /\ lockCounter < MaxLocks
    /\ lockCounter' = lockCounter + 1
    /\ UNCHANGED <<pools, ring, callbackVector, main, context, owned, held>>

\* msgPump_postMessage with a payload of the caller: it is copied into a free
\* slot.  The mutex is unlocked twice on this path.  Without a free slot the
\* call changes nothing.
PostCopy(id, d) ==
    /\ Caller /\ ~QueueFull
    /\ \E s \in Slot :
         /\ FirstFree(id, s)
         /\ refCount' = [refCount EXCEPT ![s] = @ + 1]
         /\ flag' = [flag EXCEPT ![s] = "PostedNotDispatched"]
         /\ data' = [data EXCEPT ![s] = d]
         /\ Enqueue(s)
    /\ lockCounter' = Decremented(Decremented(lockCounter + 1))
    /\ UNCHANGED <<callbackVector, main, context, owned, held>>

\* msgPump_postMessage with a pointer got from msgPump_getFreeBuffer: posted
\* without a copy when nobody else references it, otherwise the slot is
\* marked free ("magic recovery") and the post fails.
PostInternal(s) ==
    /\ Caller /\ ~QueueFull
    /\ s \in owned
    /\ \/ /\ refCount[s] = 1 /\ flag[s] = "InUse"
          /\ flag' = [flag EXCEPT ![s] = "PostedNotDispatched"]
          /\ Enqueue(s)
          /\ UNCHANGED refCount
       \/ /\ refCount[s] # 1 \/ flag[s] # "InUse"
          /\ flag' = [flag EXCEPT ![s] = "Nothing"]
          /\ refCount' = [refCount EXCEPT ![s] = 0]
          /\ UNCHANGED ring
    /\ owned' = owned \ {s}
    /\ UNCHANGED <<data, callbackVector, main, context, lockCounter, held>>

\* msgPump_getFreeBuffer: the producer owns the slot until it posts it.
GetFreeBuffer(id) ==
    /\ Caller
    /\ \E s \in Slot :
         /\ FirstFree(id, s)
         /\ refCount' = [refCount EXCEPT ![s] = @ + 1]
         /\ flag' = [flag EXCEPT ![s] = "InUse"]
         /\ owned' = owned \cup {s}
    /\ UNCHANGED <<data, ring, callbackVector, main, context, lockCounter, held>>

\* The producer fills a buffer it owns (receiveByte does so byte by byte).
FillBuffer(s, d) ==
    /\ Caller
    /\ s \in owned
    /\ data' = [data EXCEPT ![s] = d]
    /\ UNCHANGED <<refCount, flag, ring, callbackVector, main, context,
                   lockCounter, owned, held>>

\* (mutant) the count may be one too large
LockMessageOverflows(s) ==
    /\ Caller /\ context = "thread" /\ pc = "receiver" /\ s = Current
    /\ refCount[s] <= MaxRef
    /\ refCount' = [refCount EXCEPT ![s] = @ + 1]
    /\ held' = [held EXCEPT ![s] = @ + 1]
    /\ UNCHANGED <<flag, data, ring, callbackVector, main, context, lockCounter, owned>>

\* msgPump_lockMessage, by a receiver for the message it was called with or
\* by a producer for a buffer it owns.
LockMessage(s) ==
    /\ Caller
    /\ \/ context = "thread" /\ pc = "receiver" /\ s = Current
       \/ ProducerMayRetain /\ s \in owned
    /\ refCount[s] < MaxRef
    /\ refCount' = [refCount EXCEPT ![s] = @ + 1]
    /\ held' = [held EXCEPT ![s] = @ + 1]
    /\ UNCHANGED <<flag, data, ring, callbackVector, main, context, lockCounter, owned>>

\* msgPump_unlockMessage, as often as msgPump_lockMessage succeeded.
UnlockMessage(s) ==
    /\ Caller
    /\ held[s] > 0
    /\ refCount' = [refCount EXCEPT ![s] = Decremented(@)]
    /\ held' = [held EXCEPT ![s] = @ - 1]
    /\ UNCHANGED <<flag, data, ring, callbackVector, main, context, lockCounter, owned>>

Api == \/ \E id \in MsgId, cb \in Callback : Register(id, cb) \/ Unregister(id, cb)
       \/ PostQueueFull
       \/ \E id \in MsgId, d \in Data : PostCopy(id, d)
       \/ \E id \in MsgId : GetFreeBuffer(id)
       \/ \E s \in Slot, d \in Data : FillBuffer(s, d)
       \/ \E s \in Slot : PostInternal(s) \/ LockMessage(s) \/ UnlockMessage(s)

-----------------------------------------------------------------------------
(* Interrupt handlers                                                      *)

\* A handler is entered between two steps of the main thread.
EnterHandler ==
    /\ context = "thread" /\ lockCounter = 0
    /\ context' = "handler"
    /\ UNCHANGED <<pools, ring, callbackVector, main, lockCounter, owned, held>>

\* swTimer_trigger calls a timer callback between system_mutex_lock() and
\* system_mutex_unlock().
EnterTimerCallback ==
    /\ context = "handler"
    /\ context' = "timerCallback"
    /\ lockCounter' = lockCounter + 1
    /\ UNCHANGED <<pools, ring, callbackVector, main, owned, held>>

\* (mutant) the critical section is not left
LeaveTimerCallbackLocked ==
    /\ context = "timerCallback"
    /\ context' = "handler"
    /\ UNCHANGED <<pools, ring, callbackVector, main, lockCounter, owned, held>>

LeaveTimerCallback ==
    /\ context = "timerCallback"
    /\ context' = "handler"
    /\ lockCounter' = Decremented(lockCounter)
    /\ UNCHANGED <<pools, ring, callbackVector, main, owned, held>>

LeaveHandler ==
    /\ context = "handler"
    /\ context' = "thread"
    /\ UNCHANGED <<pools, ring, callbackVector, main, lockCounter, owned, held>>

-----------------------------------------------------------------------------
(* msgPump_pumpMessage, the loop of the main thread                        *)

\* systemInitialize() is done, main() enters the pump.
StartPump ==
    /\ context = "thread" /\ pc = "init"
    /\ pc' = "idle"
    /\ UNCHANGED <<pools, ring, callbackVector, index, due, called, context,
                   lockCounter, owned, held>>

\* (mutant) the last message is left in the queue
BeginKeepsLast ==
    /\ context = "thread" /\ pc = "idle"
    /\ size > 1
    /\ flag' = [flag EXCEPT ![Current] = "InUse"]
    /\ pc' = "check" /\ index' = 1
    /\ due' = {Current[1]} \X Receivers(Current[1]) /\ called' = {}
    /\ UNCHANGED <<refCount, data, ring, callbackVector, context, lockCounter,
                   owned, held>>

Begin ==
    /\ context = "thread" /\ pc = "idle"
    /\ size # 0
    /\ flag' = [flag EXCEPT ![Current] = "InUse"]
    /\ pc' = "check" /\ index' = 1
    /\ due' = {Current[1]} \X Receivers(Current[1]) /\ called' = {}
    /\ UNCHANGED <<refCount, data, ring, callbackVector, context, lockCounter,
                   owned, held>>

\* (mutant) the entry is called without a look at it
CheckReceiverSkipped ==
    /\ context = "thread" /\ pc = "check"
    /\ index <= MaxReceivers
    /\ pc' = "call"
    /\ UNCHANGED <<pools, ring, callbackVector, index, due, called, context,
                   lockCounter, owned, held>>

\* The entry is compared with NULL ...
CheckReceiver ==
    /\ context = "thread" /\ pc = "check"
    /\ index <= MaxReceivers
    /\ IF callbackVector[Current[1]][index] # NoCallback
       THEN pc' = "call" /\ UNCHANGED index
       ELSE index' = index + 1 /\ UNCHANGED pc
    /\ UNCHANGED <<pools, ring, callbackVector, due, called, context,
                   lockCounter, owned, held>>

\* ... and read again for the call; calling NULL ends in a fault.
CallReceiver ==
    /\ context = "thread" /\ pc = "call"
    /\ LET cb == callbackVector[Current[1]][index] IN
         IF cb = NoCallback
         THEN pc' = "fault" /\ UNCHANGED called
         ELSE pc' = "receiver" /\ called' = called \cup {<<Current[1], cb>>}
    /\ UNCHANGED <<pools, ring, callbackVector, index, due, context,
                   lockCounter, owned, held>>

ReceiverReturns ==
    /\ context = "thread" /\ pc = "receiver"
    /\ pc' = "check" /\ index' = index + 1
    /\ UNCHANGED <<pools, ring, callbackVector, due, called, context,
                   lockCounter, owned, held>>

ClearFlag ==
    /\ context = "thread" /\ pc = "check"
    /\ index > MaxReceivers
    /\ flag' = [flag EXCEPT ![Current] = "Nothing"]
    /\ pc' = "cleared"
    /\ UNCHANGED <<refCount, data, ring, callbackVector, index, due, called,
                   context, lockCounter, owned, held>>

\* (mutant) the pump frees the slot whatever references are left
ReleaseBufferResets ==
    /\ context = "thread" /\ pc = "cleared"
    /\ refCount' = [refCount EXCEPT ![Current] = 0]
    /\ pc' = "released"
    /\ UNCHANGED <<flag, data, ring, callbackVector, index, due, called,
                   context, lockCounter, owned, held>>

\* msgPump_unlockMessage(message->buffer): from here on the slot may be
\* posted again although its entry is still at the front of the ring.
ReleaseBuffer ==
    /\ context = "thread" /\ pc = "cleared"
    /\ refCount' = [refCount EXCEPT ![Current] = Decremented(@)]
    /\ pc' = "released"
    /\ UNCHANGED <<flag, data, ring, callbackVector, index, due, called,
                   context, lockCounter, owned, held>>

\* (mutant) the front wraps one entry too early
PopEntryShortRing ==
    /\ context = "thread" /\ pc = "released"
    /\ front' = (front + 1) % (QueueSize - 1)
    /\ size' = size - 1
    /\ pc' = "idle"
    /\ UNCHANGED <<pools, msgQueue, tail, callbackVector, index, due,
                   called, context, lockCounter, owned, held>>

PopEntry ==
    /\ context = "thread" /\ pc = "released"
    /\ front' = (front + 1) % QueueSize
    /\ size' = size - 1
    /\ pc' = "idle"
    /\ UNCHANGED <<pools, msgQueue, tail, callbackVector, index, due, called,
                   context, lockCounter, owned, held>>

PumpStep == \/ StartPump \/ Begin \/ CheckReceiver \/ CallReceiver
            \/ ReceiverReturns \/ ClearFlag \/ ReleaseBuffer \/ PopEntry

Next == \/ Api \/ PumpStep
        \/ EnterHandler \/ EnterTimerCallback \/ LeaveTimerCallback \/ LeaveHandler

Spec == Init /\ [][Next]_vars

\* Receivers and handlers return, and handlers leave the main thread time to
\* make progress.
Fairness == /\ SF_vars(PumpStep)
            /\ WF_vars(LeaveTimerCallback)
            /\ SF_vars(LeaveHandler)

FairSpec == Spec /\ Fairness

-----------------------------------------------------------------------------
(* Properties                                                              *)

\* The ring positions that hold an entry, and those whose entry still has its
\* reference: an entry at the front that ReleaseBuffer let go is about to be
\* popped.
Occupied == IF size = 0 THEN {}
            ELSE IF front < tail THEN front .. tail - 1
            ELSE (front .. QueueSize - 1) \cup (0 .. tail - 1)
Active   == Occupied \ (IF pc = "released" THEN {front} ELSE {})

InQueue(s) == \E p \in Active : msgQueue[p] = s

Dispatching == pc \in {"check", "call", "receiver", "fault"}

TypeOK ==
    /\ refCount \in [Slot -> 0 .. MaxRef]
    /\ flag \in [Slot -> Flag]
    /\ data \in [Slot -> Data]
    /\ msgQueue \in [Position -> Slot \cup {<<>>}]
    /\ front \in Position /\ tail \in Position /\ size \in 0 .. QueueSize
    /\ callbackVector \in [MsgId -> Vector]
    /\ pc \in {"init", "idle", "check", "call", "receiver", "cleared", "released", "fault"}
    /\ index \in 1 .. MaxReceivers + 1
    /\ pc \in {"call", "receiver"} => index <= MaxReceivers
    /\ context \in {"thread", "handler", "timerCallback"}
    /\ lockCounter \in Nat
    /\ owned \subseteq Slot
    /\ held \in [Slot -> Nat]
    /\ due \subseteq MsgId \X Callback /\ called \subseteq MsgId \X Callback

\* The ring is consistent: size is the distance from front to tail, every
\* entry is a slot, and there is one while the pump is at work.
RingInv ==
    /\ size = tail - front \/ size = tail - front + QueueSize
    /\ \A p \in Occupied : msgQueue[p] \in Slot
    /\ pc \notin {"init", "idle"} => size > 0

\* Every reference of a slot has an owner: the ring, the producer that got the
\* buffer, or a client that locked it, and the flag says which.  So a free slot
\* is used by nobody (nothing queued or retained is overwritten by the next
\* post) and no slot is lost: a slot nobody uses is free again.
SlotAccounting ==
    \A s \in Slot :
      /\ ~(InQueue(s) /\ s \in owned)
      /\ refCount[s] = held[s] + (IF InQueue(s) \/ s \in owned THEN 1 ELSE 0)
      /\ flag[s] = IF s \in owned \/ (Dispatching /\ s = Current) THEN "InUse"
                   ELSE IF InQueue(s) /\ ~(pc = "cleared" /\ s = Current)
                        THEN "PostedNotDispatched"
                   ELSE "Nothing"

\* No slot is queued twice: an entry for the slot that is being popped is the
\* only exception.
QueuedOnce == \A p, q \in Active : msgQueue[p] = msgQueue[q] => p = q

\* The early return of msgPump_postMessage keeps the mutex: it would leave
\* interrupts off for good.  Outside a timer callback's critical section the
\* mutex is free whenever no interface function runs.
NoLockLeak == context # "timerCallback" => lockCounter = 0

\* The pump never calls through a NULL entry although it reads the entry twice.
NoNullCall == pc # "fault"

\* Every receiver registered when the dispatch began, and not unregistered
\* since, has been called when the buffer is given back.
AllReceiversCalled == pc \in {"cleared", "released"} => due \subseteq called

\* The payload of a message a receiver locked does not change before it is
\* unlocked, however many messages are posted meanwhile.
RetainedDataStable ==
    [][\A s \in Slot : held[s] > 0 /\ held'[s] > 0 => data'[s] = data[s]]_vars

\* msg_msgPump.h:95-96: unregister removes the function from the message.
UnregisterRemoves ==
    [][\A id \in MsgId, cb \in Callback :
         Unregister(id, cb) => \A i \in 1..MaxReceivers : callbackVector'[id][i] # cb]_vars

\* system.h:15: the mutex "must be safe for recursive usage", so what a timer
\* callback calls cannot end the critical section of swTimer_trigger.
CriticalSectionKept == context = "timerCallback" => lockCounter > 0

\* Refinement: the ring and the slots as the queue of FifoDelivery.  Delivery
\* of a message starts with Begin and ends with ClearFlag; from Begin on, its
\* entry no longer counts as pending.
MessageIn(s) == <<s[1], data[s]>>
NoMessage == <<>>
Taken == IF pc \in {"init", "idle"} THEN 0 ELSE 1
Fifo == INSTANCE FifoDelivery WITH
    Message <- MsgId \X Data,
    pending <- [k \in 1 .. size - Taken |->
                  MessageIn(msgQueue[(front + Taken + k - 1) % QueueSize])],
    current <- IF Dispatching THEN MessageIn(Current) ELSE NoMessage

\* Accepted messages are delivered exactly once, in order, unaltered.
FifoOrder == Fifo!Spec

\* And each accepted message is delivered eventually.
FifoLive == Fifo!LiveSpec
=============================================================================
