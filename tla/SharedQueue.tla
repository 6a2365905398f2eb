----------------------------- MODULE SharedQueue -----------------------------
(***************************************************************************)
(* The queue of peers: a std::deque, a mutex and a condition variable.     *)
(*                                                                         *)
(* A step is a critical section of the mutex, or what a call does outside  *)
(* of it: notify_one is called after the mutex has been released, and the  *)
(* caller of pop_front copies the element out of the memory pop_front      *)
(* returned a reference to, after the element has been removed.            *)
(*                                                                         *)
(* The deque keeps its elements in nodes of NodeSize and frees a node when *)
(* its last element is popped; clear frees them all.                       *)
(***************************************************************************)
EXTENDS Naturals, Sequences, FiniteSets

CONSTANTS
    Thread,      \* threads that take from the queue
    Item,        \* what is put in it
    Garbage,     \* what freed memory may hold
    NoSlot,      \* no reference is held
    NodeSize,    \* elements in a node of the deque
    MaxLen       \* bound of the model on the length of the queue

ASSUME ThreadAssumption == IsFiniteSet(Thread)
ASSUME NodeSizeAssumption == NodeSize \in Nat \ {0}
ASSUME MaxLenAssumption == MaxLen \in Nat
ASSUME NoSlotAssumption == NoSlot \notin [item : Item, live : BOOLEAN]
ASSUME GarbageAssumption == Garbage \notin Item

VARIABLES
    queue,      \* queue_
    popped,     \* elements popped from the first node
    waiting,    \* threads blocked in cond_.wait
    woken,      \* threads woken that have not yet looked at the queue again
    notifying,  \* calls between their unlock and their notify_one
    slot        \* the reference pop_front returned to a thread

queueVars == <<queue, popped, waiting, woken, notifying, slot>>

Slot == [item : Item, live : BOOLEAN]

QueueInit ==
    /\ queue = <<>>
    /\ popped = 0
    /\ waiting = {}
    /\ woken = {}
    /\ notifying = 0
    /\ slot = [t \in Thread |-> NoSlot]

(* The references that are held, now to freed memory.                      *)
Freed == [t \in Thread |-> IF slot[t] = NoSlot THEN NoSlot
                                               ELSE [slot[t] EXCEPT !.live = FALSE]]

PushBack(item) ==
    /\ Len(queue) < MaxLen
    /\ queue' = Append(queue, item)
    /\ notifying' = notifying + 1
    /\ UNCHANGED <<popped, waiting, woken, slot>>

Clear ==
    /\ queue' = <<>>
    /\ popped' = 0
    /\ slot' = Freed
    /\ notifying' = notifying + 1
    /\ UNCHANGED <<waiting, woken>>

(* Mutant: nobody is notified.                                             *)
NotifyOne_Nobody ==
    /\ notifying > 0
    /\ notifying' = notifying - 1
    /\ UNCHANGED <<queue, popped, waiting, woken, slot>>

NotifyOne ==
    /\ notifying > 0
    /\ notifying' = notifying - 1
    /\ \/ /\ waiting = {}
          /\ UNCHANGED <<waiting, woken>>
       \/ \E t \in waiting :
             /\ waiting' = waiting \ {t}
             /\ woken' = woken \cup {t}
    /\ UNCHANGED <<queue, popped, slot>>

(* A thread that is neither blocked nor about to use what it popped.       *)
Awake(t) == t \notin waiting /\ slot[t] = NoSlot

(* Mutant: the thread waits although the queue is not empty.               *)
Wait_Always(t) ==
    /\ Awake(t)
    /\ waiting' = waiting \cup {t}
    /\ woken' = woken \ {t}
    /\ UNCHANGED <<queue, popped, notifying, slot>>

(* while (queue_.empty()) cond_.wait(mlock): entered, or after a wakeup.   *)
Wait(t) ==
    /\ Awake(t)
    /\ queue = <<>>
    /\ waiting' = waiting \cup {t}
    /\ woken' = woken \ {t}
    /\ UNCHANGED <<queue, popped, notifying, slot>>

(* The condition variable may wake a thread for no reason.                 *)
SpuriousWakeup(t) ==
    /\ t \in waiting
    /\ waiting' = waiting \ {t}
    /\ woken' = woken \cup {t}
    /\ UNCHANGED <<queue, popped, notifying, slot>>

(* pop_front: a reference to the first element, which is then removed.     *)
PopFront(t) ==
    /\ Awake(t)
    /\ queue # <<>>
    /\ queue' = Tail(queue)
    /\ woken' = woken \ {t}
    /\ \/ /\ popped + 1 < NodeSize
          /\ popped' = popped + 1
          /\ slot' = [slot EXCEPT ![t] = [item |-> Head(queue), live |-> TRUE]]
       \/ /\ popped + 1 = NodeSize          \* the node is freed
          /\ popped' = 0
          /\ slot' = [Freed EXCEPT ![t] = [item |-> Head(queue), live |-> FALSE]]
    /\ UNCHANGED <<waiting, notifying>>

(* The caller copies the element: from freed memory, it may get garbage.   *)
Copy(t, item) ==
    /\ slot[t] # NoSlot
    /\ \/ item = slot[t].item
       \/ ~slot[t].live /\ item = Garbage
    /\ slot' = [slot EXCEPT ![t] = NoSlot]
    /\ UNCHANGED <<queue, popped, waiting, woken, notifying>>

QueueNext ==
    \/ \E item \in Item : PushBack(item)
    \/ Clear
    \/ NotifyOne
    \/ \E t \in Thread : \/ PopFront(t) \/ Wait(t) \/ SpuriousWakeup(t)
                         \/ \E item \in Item \cup {Garbage} : Copy(t, item)

QueueSpec == QueueInit /\ [][QueueNext]_queueVars

-----------------------------------------------------------------------------
(* The variables' types; no thread is both blocked and woken, or blocked   *)
(* with a reference in its hands.                                          *)
QueueTypeOK ==
    /\ queue \in Seq(Item)
    /\ popped \in 0 .. NodeSize - 1
    /\ waiting \in SUBSET Thread
    /\ woken \in SUBSET Thread
    /\ waiting \cap woken = {}
    /\ notifying \in Nat
    /\ slot \in [Thread -> Slot \cup {NoSlot}]
    /\ \A t \in waiting \cup woken : slot[t] = NoSlot

(* No wakeup is lost, although notify_one is called without the mutex and  *)
(* any thread may take an element that another one was woken for: while a  *)
(* thread is blocked, each element of the queue has a thread that is awake *)
(* to take it, or a notification on its way.                               *)
NoLostWakeup ==
    waiting # {} => Len(queue) <= Cardinality(woken) + notifying
=============================================================================
