------------------------------ MODULE AsyncQueue ------------------------------
(***************************************************************************)
(* AsyncQueue (include/corouv/async_queue.h): a deque with one semaphore   *)
(* that counts its items and, when it is bounded, one that counts its free *)
(* slots.  The two semaphores are used through what they promise, the      *)
(* module PermitPool, which AsyncSemaphore implements.  Of the deque only  *)
(* the length matters here.                                                *)
(***************************************************************************)
EXTENDS Naturals, FiniteSets

CONSTANTS
  QueueUsers,  \* coroutines and threads that use the queue
  Capacity,    \* the constructor's argument, when it is not kUnbounded
  MaxLength    \* bound on the length of an unbounded queue

ASSUME QueueAssumption ==
  /\ IsFiniteSet(QueueUsers)
  /\ Capacity \in Nat
  /\ MaxLength \in Nat
  /\ Capacity <= MaxLength

VARIABLES
  length,    \* _queue.size()
  hasSlots,  \* the queue is bounded: _slots is not null
  place,     \* where each task is
  orphans,   \* history: items of the deque whose permit a pop that threw consumed
  sAvail, sLine, sBefore, sReserved, sOwed,  \* _slots
  iAvail, iLine, iBefore, iReserved, iOwed   \* _items

slotVars == <<sAvail, sLine, sBefore, sReserved, sOwed>>
itemVars == <<iAvail, iLine, iBefore, iReserved, iOwed>>
asyncQueueVars == <<length, hasSlots, place, orphans, slotVars, itemVars>>

\* Not used while hasSlots is FALSE.
Slots == INSTANCE PermitPool
  WITH Clients <- QueueUsers, Lossy <- {}, Capacity <- Capacity, Initial <- Capacity,
       avail <- sAvail, line <- sLine, before <- sBefore, reserved <- sReserved, owed <- sOwed

\* release() of _items overflows only beyond any size the deque can have.
ItemPool == INSTANCE PermitPool
  WITH Clients <- QueueUsers, Lossy <- {}, Capacity <- MaxLength + 1, Initial <- 0,
       avail <- iAvail, line <- iLine, before <- iBefore, reserved <- iReserved, owed <- iOwed

Places == {"idle",
           "pushWait",   \* push: co_await _slots->acquire()
           "store",      \* push / try_push: before push_back
           "giveBack",   \* push_back threw: before _slots->release()
           "announce",   \* before _items.release()
           "popWait",    \* pop: co_await _items.acquire()
           "take",       \* pop / try_pop: before pop_front
           "free",       \* before _slots->release()
           "underflow"}  \* the deque was empty after _items.acquire()

QueueTypeOK ==
  /\ length \in Nat
  /\ hasSlots \in BOOLEAN
  /\ place \in [QueueUsers -> Places]
  /\ orphans \in Nat
  /\ Slots!PoolTypeOK
  /\ ItemPool!PoolTypeOK

QueueInit ==
  /\ length = 0
  /\ hasSlots \in BOOLEAN
  /\ place = [t \in QueueUsers |-> "idle"]
  /\ orphans = 0
  /\ Slots!PoolInit
  /\ ItemPool!PoolInit

Enters(t, label) == place' = [place EXCEPT ![t] = label]
Standing(label) == {t \in QueueUsers : place[t] = label}

------------------------------------------------------------------------------
\* push() and emplace(): acquire a slot of a bounded queue.
QueuePush(t) ==
  /\ place[t] = "idle"
  /\ IF hasSlots
     THEN /\ Slots!Reserve(t) \/ Slots!Join(t)
          /\ Enters(t, "pushWait")
     ELSE /\ length + Cardinality(Standing("store")) < MaxLength
          /\ Enters(t, "store")
          /\ UNCHANGED slotVars
  /\ UNCHANGED <<hasSlots, orphans, length, itemVars>>

\* _slots->acquire() returns.
PushGranted(t) ==
  /\ place[t] = "pushWait"
  /\ Slots!Take(t)
  /\ Enters(t, "store")
  /\ UNCHANGED <<hasSlots, orphans, length, itemVars>>

\* _slots->acquire() throws: cancelled while it waited.
PushCanceled(t) ==
  /\ place[t] = "pushWait"
  /\ Slots!Leave(t)
  /\ Enters(t, "idle")
  /\ UNCHANGED <<hasSlots, orphans, length, itemVars>>

\* try_push(): a bounded queue without a free slot refuses.
QueueTryPush(t) ==
  /\ place[t] = "idle"
  /\ IF hasSlots
     THEN Slots!TakeNow
     ELSE length + Cardinality(Standing("store")) < MaxLength /\ UNCHANGED slotVars
  /\ Enters(t, "store")
  /\ UNCHANGED <<hasSlots, orphans, length, itemVars>>

\* push_back, under _mu.
Store(t) ==
  /\ place[t] = "store"
  /\ length' = length + 1
  /\ Enters(t, "announce")
  /\ UNCHANGED <<hasSlots, orphans, slotVars, itemVars>>

\* push_back throws and the slot is forgotten (mutant).
StoreThrows_KeepSlot(t) ==
  /\ place[t] = "store"
  /\ Enters(t, "idle")
  /\ UNCHANGED <<hasSlots, orphans, length, slotVars, itemVars>>

\* push_back throws: the slot is to be given back.
StoreThrows(t) ==
  /\ place[t] = "store"
  /\ Enters(t, IF hasSlots THEN "giveBack" ELSE "idle")
  /\ UNCHANGED <<hasSlots, orphans, length, slotVars, itemVars>>

\* _items.release().
Announce(t) ==
  /\ place[t] = "announce"
  /\ ItemPool!Put(1)
  /\ Enters(t, "idle")
  /\ UNCHANGED <<hasSlots, orphans, length, slotVars>>

\* pop(): acquire an item.
QueuePop(t) ==
  /\ place[t] = "idle"
  /\ ItemPool!Reserve(t) \/ ItemPool!Join(t)
  /\ Enters(t, "popWait")
  /\ UNCHANGED <<hasSlots, orphans, length, slotVars>>

\* _items.acquire() returns.
PopGranted(t) ==
  /\ place[t] = "popWait"
  /\ ItemPool!Take(t)
  /\ Enters(t, "take")
  /\ UNCHANGED <<hasSlots, orphans, length, slotVars>>

\* _items.acquire() throws: cancelled while it waited.
PopCanceled(t) ==
  /\ place[t] = "popWait"
  /\ ItemPool!Leave(t)
  /\ Enters(t, "idle")
  /\ UNCHANGED <<hasSlots, orphans, length, slotVars>>

\* try_pop().
QueueTryPop(t) ==
  /\ place[t] = "idle"
  /\ ItemPool!TakeNow
  /\ Enters(t, "take")
  /\ UNCHANGED <<hasSlots, orphans, length, slotVars>>

\* pop_front that does not give the slot back (mutant).
TakeItem_NoFree(t) ==
  /\ place[t] = "take"
  /\ length' = IF length = 0 THEN 0 ELSE length - 1
  /\ Enters(t, IF length = 0 THEN "underflow" ELSE "idle")
  /\ UNCHANGED <<hasSlots, orphans, slotVars, itemVars>>

\* pop_front, under _mu.  On an empty deque pop() gives the item permit back and
\* throws "internal underflow", try_pop() gives it back and reports no item.
TakeItem(t) ==
  /\ place[t] = "take"
  /\ IF length = 0
     THEN /\ ItemPool!Put(1)
          /\ Enters(t, "underflow")
          /\ UNCHANGED length
     ELSE /\ length' = length - 1
          /\ Enters(t, IF hasSlots THEN "free" ELSE "idle")
          /\ UNCHANGED itemVars
  /\ UNCHANGED <<hasSlots, orphans, slotVars>>

\* The move out of _queue.front() throws: the item stays where it is, and the
\* permit that pop() or try_pop() acquired for it is not given back.
TakeThrows(t) ==
  /\ place[t] = "take"
  /\ length > 0
  /\ orphans' = orphans + 1
  /\ Enters(t, "idle")
  /\ UNCHANGED <<hasSlots, length, slotVars, itemVars>>

\* _slots->release(), by pop, or by push after push_back threw.
FreeSlot(t) ==
  /\ place[t] \in {"free", "giveBack"}
  /\ Slots!Put(1)
  /\ Enters(t, "idle")
  /\ UNCHANGED <<hasSlots, orphans, length, itemVars>>

QueueNext ==
  \E t \in QueueUsers :
    \/ QueuePush(t) \/ PushGranted(t) \/ PushCanceled(t) \/ QueueTryPush(t)
    \/ Store(t) \/ StoreThrows(t) \/ Announce(t)
    \/ QueuePop(t) \/ PopGranted(t) \/ PopCanceled(t) \/ QueueTryPop(t)
    \/ TakeItem(t) \/ TakeThrows(t) \/ FreeSlot(t)

QueueSpec == QueueInit /\ [][QueueNext]_asyncQueueVars

------------------------------------------------------------------------------
(***************************************************************************)
(* Properties                                                              *)
(***************************************************************************)

\* The deque and the two semaphores agree at every step.  An item of the deque is
\* counted by exactly one permit of _items, or its pusher is about to release
\* it, or its popper holds it, or the move out of a pop threw and consumed it;
\* there is never a permit without an item, so that "internal underflow" does
\* not happen even after such a throw.  A slot
\* of a bounded queue is free, reserved, used by an item, or in the hands of a
\* task between acquire and release; none leaks when push_back throws or a
\* waiting push is cancelled.
Accounted ==
  /\ length = iOwed + orphans + Cardinality(Standing("take"))
               + Cardinality(Standing("announce"))
  /\ Standing("underflow") = {}
  /\ hasSlots => Capacity = sOwed + length + Cardinality(Standing("store"))
                           + Cardinality(Standing("free")) + Cardinality(Standing("giveBack"))

\* When nobody is in the middle of an operation, nobody waits for an item that
\* is there or for a slot that is free.  A pop whose move threw leaves one item
\* behind that no later pop is woken for.
NoStuckWaiter ==
  (\A t \in QueueUsers : place[t] = "idle" \/ t \in sLine \/ t \in iLine) =>
    /\ length > orphans => iLine = {}
    /\ hasSlots /\ length < Capacity => sLine = {}
==============================================================================
