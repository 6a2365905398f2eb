------------------------- MODULE TorrentClientProofs -------------------------
(***************************************************************************)
(* The queue of peers loses no wakeup; the client uses it by its           *)
(* operations, joins its threads before it returns, and ends none of them  *)
(* before the download is complete, for any number of threads, peers and   *)
(* pieces, any number of calls that put or clear, and any size of the      *)
(* deque's nodes.                                                          *)
(***************************************************************************)
EXTENDS TorrentClient, FiniteSetTheorems, TLAPS

-----------------------------------------------------------------------------
(* The queue.                                                              *)

USE ThreadAssumption, NodeSizeAssumption, MaxLenAssumption

(* References that are freed stay references.                              *)
LEMMA FreedType ==
    ASSUME QueueTypeOK
    PROVE  /\ Freed \in [Thread -> Slot \cup {NoSlot}]
           /\ \A t \in Thread : slot[t] = NoSlot => Freed[t] = NoSlot
  BY DEF QueueTypeOK, Freed, Slot

LEMMA QueueInitType == QueueInit => QueueTypeOK
  BY DEF QueueInit, QueueTypeOK

LEMMA QueueNextType == QueueTypeOK /\ [QueueNext]_queueVars => QueueTypeOK'
  <1> SUFFICES ASSUME QueueTypeOK, [QueueNext]_queueVars PROVE QueueTypeOK'
    OBVIOUS
  <1> USE FreedType
  <1>1. ASSUME NEW item \in Item, PushBack(item) PROVE QueueTypeOK'
    BY <1>1 DEF PushBack, QueueTypeOK
  <1>2. CASE Clear
    BY <1>2 DEF Clear, QueueTypeOK
  <1>3. CASE NotifyOne
    BY <1>3 DEF NotifyOne, QueueTypeOK
  <1>4. ASSUME NEW t \in Thread, PopFront(t) PROVE QueueTypeOK'
    <2>1. queue' \in Seq(Item) /\ Head(queue) \in Item
      BY <1>4 DEF PopFront, QueueTypeOK
    <2>2. popped' \in 0 .. NodeSize - 1
      BY <1>4 DEF PopFront, QueueTypeOK
    <2>3. slot' \in [Thread -> Slot \cup {NoSlot}]
      <3>1. \A b \in BOOLEAN : [item |-> Head(queue), live |-> b] \in Slot
        BY <2>1 DEF Slot
      <3>2. slot \in [Thread -> Slot \cup {NoSlot}] /\ Freed \in [Thread -> Slot \cup {NoSlot}]
        BY FreedType DEF QueueTypeOK
      <3>3. \E b \in BOOLEAN :
               \/ slot' = [slot EXCEPT ![t] = [item |-> Head(queue), live |-> b]]
               \/ slot' = [Freed EXCEPT ![t] = [item |-> Head(queue), live |-> b]]
        BY <1>4 DEF PopFront
      <3> QED  BY <3>1, <3>2, <3>3
    <2>4. \A u \in waiting' \cup woken' : slot'[u] = NoSlot
      BY <1>4 DEF PopFront, QueueTypeOK, Awake
    <2> QED  BY <1>4, <2>1, <2>2, <2>3, <2>4 DEF PopFront, QueueTypeOK
  <1>5. ASSUME NEW t \in Thread, Wait(t) PROVE QueueTypeOK'
    BY <1>5 DEF Wait, Awake, QueueTypeOK
  <1>6. ASSUME NEW t \in Thread, SpuriousWakeup(t) PROVE QueueTypeOK'
    BY <1>6 DEF SpuriousWakeup, QueueTypeOK
  <1>7. ASSUME NEW t \in Thread, NEW item \in Item \cup {Garbage}, Copy(t, item)
        PROVE  QueueTypeOK'
    BY <1>7 DEF Copy, QueueTypeOK
  <1>8. CASE UNCHANGED queueVars
    BY <1>8 DEF queueVars, QueueTypeOK
  <1> QED
    BY <1>1, <1>2, <1>3, <1>4, <1>5, <1>6, <1>7, <1>8 DEF QueueNext

(* The type invariant of SharedQueue: above all, a thread that is blocked  *)
(* or has just been woken holds no reference into the deque.               *)
THEOREM QueueTypeCorrect == QueueSpec => []QueueTypeOK
  BY QueueInitType, QueueNextType, PTL DEF QueueSpec

-----------------------------------------------------------------------------

(* Adding a thread to, or removing it from, the woken ones.                *)
LEMMA CountWoken ==
    ASSUME QueueTypeOK, NEW t \in Thread
    PROVE  /\ Cardinality(woken) \in Nat
           /\ t \notin woken => Cardinality(woken \cup {t}) = Cardinality(woken) + 1
           /\ Cardinality(woken \ {t}) =
                IF t \in woken THEN Cardinality(woken) - 1 ELSE Cardinality(woken)
  <1>1. IsFiniteSet(woken)
    BY FS_Subset DEF QueueTypeOK
  <1> QED
    BY <1>1, FS_CardinalityType, FS_AddElement, FS_RemoveElement

LEMMA NoLostWakeupNext ==
    QueueTypeOK /\ NoLostWakeup /\ [QueueNext]_queueVars => NoLostWakeup'
  <1> SUFFICES ASSUME QueueTypeOK, NoLostWakeup, [QueueNext]_queueVars, waiting' # {}
               PROVE  Len(queue)' <= Cardinality(woken)' + notifying'
    BY DEF NoLostWakeup
  <1>0. /\ IsFiniteSet(woken) /\ Cardinality(woken) \in Nat
        /\ Len(queue) \in Nat /\ notifying \in Nat
    BY FS_Subset, FS_CardinalityType DEF QueueTypeOK
  <1>1. ASSUME NEW item \in Item, PushBack(item)
        PROVE  Len(queue)' <= Cardinality(woken)' + notifying'
    <2>1. Len(queue') = Len(queue) + 1 /\ notifying' = notifying + 1
      BY <1>1 DEF PushBack, QueueTypeOK
    <2>2. Len(queue) <= Cardinality(woken) + notifying /\ woken' = woken
      BY <1>1 DEF PushBack, NoLostWakeup
    <2> QED
      BY <1>0, <2>1, <2>2
  <1>2. CASE Clear
    <2>1. Len(queue') = 0 /\ notifying' = notifying + 1 /\ woken' = woken
      BY <1>2 DEF Clear
    <2> QED
      BY <1>0, <2>1
  <1>3. CASE NotifyOne
    <2>1. PICK t \in waiting : waiting' = waiting \ {t} /\ woken' = woken \cup {t}
      BY <1>3 DEF NotifyOne
    <2>2. Cardinality(woken') = Cardinality(woken) + 1
      BY <2>1, CountWoken DEF QueueTypeOK
    <2>3. Len(queue') = Len(queue) /\ notifying' = notifying - 1
      BY <1>3 DEF NotifyOne
    <2> QED
      BY <1>0, <2>1, <2>2, <2>3 DEF NoLostWakeup
  <1>4. ASSUME NEW t \in Thread, PopFront(t)
        PROVE  Len(queue)' <= Cardinality(woken)' + notifying'
    <2>1. Len(queue') = Len(queue) - 1
      BY <1>4 DEF PopFront, QueueTypeOK
    <2>2. Cardinality(woken') >= Cardinality(woken) - 1 /\ Cardinality(woken') \in Nat
      <3>1. woken' = woken \ {t}
        BY <1>4 DEF PopFront
      <3>2. Cardinality(woken') \in Nat
        BY <1>0, <3>1, FS_Subset, FS_CardinalityType
      <3>3. Cardinality(woken') =
              IF t \in woken THEN Cardinality(woken) - 1 ELSE Cardinality(woken)
        BY <3>1, CountWoken
      <3> QED  BY <1>0, <3>2, <3>3
    <2>3. Len(queue) <= Cardinality(woken) + notifying /\ notifying' = notifying
      BY <1>4 DEF PopFront, NoLostWakeup
    <2> QED
      BY <1>0, <2>1, <2>2, <2>3
  <1>5. ASSUME NEW t \in Thread, Wait(t)
        PROVE  Len(queue)' <= Cardinality(woken)' + notifying'
    <2>1. Len(queue') = 0 /\ notifying' = notifying
      BY <1>5 DEF Wait
    <2>2. Cardinality(woken') \in Nat
      BY <1>5, <1>0, FS_RemoveElement, FS_CardinalityType, FS_Subset, CountWoken DEF Wait
    <2> QED
      BY <1>0, <2>1, <2>2
  <1>6. ASSUME NEW t \in Thread, SpuriousWakeup(t)
        PROVE  Len(queue)' <= Cardinality(woken)' + notifying'
    <2>1. Cardinality(woken') = Cardinality(woken) + 1
      BY <1>6, CountWoken DEF SpuriousWakeup, QueueTypeOK
    <2> QED
      BY <1>0, <1>6, <2>1 DEF SpuriousWakeup, NoLostWakeup
  <1>7. ASSUME NEW t \in Thread, NEW item \in Item \cup {Garbage}, Copy(t, item)
        PROVE  Len(queue)' <= Cardinality(woken)' + notifying'
    BY <1>7 DEF Copy, NoLostWakeup
  <1>8. CASE UNCHANGED queueVars
    BY <1>8 DEF queueVars, NoLostWakeup
  <1> QED
    BY <1>1, <1>2, <1>3, <1>4, <1>5, <1>6, <1>7, <1>8 DEF QueueNext

(* SharedQueue loses no wakeup: push_back may notify after it has released *)
(* the mutex, and pop_front may overtake a thread that was woken.          *)
THEOREM NoWakeupLost == QueueSpec => []NoLostWakeup
  <1>1. QueueInit => NoLostWakeup
    BY DEF QueueInit, NoLostWakeup
  <1> QED
    BY <1>1, NoLostWakeupNext, QueueTypeCorrect, PTL DEF QueueSpec

-----------------------------------------------------------------------------
(* The client.                                                             *)

USE DummyAssumption, AnswersAssumption, SizesAssumption

(* A client's step is a step of the queue, or leaves it alone.             *)
LEMMA ClientStepsQueue ==
    ASSUME ClientTypeOK, [ClientNext]_allVars
    PROVE  [QueueNext]_queueVars
  <1>1. CASE UNCHANGED allVars
    BY <1>1 DEF allVars
  <1>2. CASE MainStep
    <2>1. CASE \/ Spawned \/ MainLoop \/ Decide \/ Ask \/ Answer \/ Join
               \/ DestroyManager \/ Exit \/ \E t \in Thread : Spawn(t)
      BY <2>1 DEF Spawned, MainLoop, Decide, Ask, Answer, AnswerPeers, AnswerNone,
                  AnswerThrows, Join, DestroyManager, Exit, Spawn
    <2>2. CASE ClearQueue
      BY <2>2 DEF ClearQueue, QueueNext
    <2>3. CASE PushPeers \/ PushDummies
      <3>1. CASE pushing # <<>> /\ PushBack(Head(pushing))
        <4>1. Head(pushing) \in Item
          BY <3>1 DEF ClientTypeOK
        <4> QED  BY <3>1, <4>1 DEF QueueNext
      <3>2. CASE NotifyOne \/ UNCHANGED queueVars
        BY <3>2 DEF QueueNext
      <3> QED  BY <2>3, <3>1, <3>2 DEF PushPeers, PushDummies, PushNext, Notify
    <2> QED  BY <1>2, <2>1, <2>2, <2>3 DEF MainStep
  <1>3. ASSUME NEW t \in Thread, ThreadStep(t) \/ Wakeup(t) \/ CommitPiece(t)
        PROVE  [QueueNext]_queueVars
    BY <1>3 DEF ThreadStep, PopPeer, Block, TakePeer, ThreadLoop, Leave, Wakeup,
                CommitPiece, QueueNext
  <1>4. CASE UseAfterDestroy \/ ProgressWakes \/ ProgressDisplays
    BY <1>4 DEF UseAfterDestroy, ProgressWakes, ProgressDisplays
  <1> QED  BY <1>1, <1>2, <1>3, <1>4 DEF ClientNext

-----------------------------------------------------------------------------

(* The part of the type invariant that is not about the queue.             *)
MainTypeOK ==
    /\ main \in MainLocations
    /\ at \in [Thread -> {"unborn", "loop", "pop", "popped", "work", "done"}]
    /\ have \in 0 .. totalPieces
    /\ pushing \in Seq(Item)
    /\ left \in 0 .. Word - 1
    /\ manager \in BOOLEAN
    /\ progress \in {"sleep", "display", "ended"}
    /\ process \in {"running", "exited", "crashed"}

LEMMA WordIsPositive == Word \in Nat \ {0} /\ fileSize \in 0 .. Word - 1
  BY DEF SizesAssumption

LEMMA ClientInitType == ClientInit => ClientTypeOK
  BY QueueInitType, WordIsPositive DEF ClientInit, ClientTypeOK, MainLocations

LEMMA MainNextType == ClientTypeOK /\ [ClientNext]_allVars => MainTypeOK'
  <1> SUFFICES ASSUME ClientTypeOK, [ClientNext]_allVars PROVE MainTypeOK'
    OBVIOUS
  <1> USE DEF MainTypeOK, MainLocations
  <1>0. MainTypeOK
    BY DEF ClientTypeOK
  <1>1. CASE UNCHANGED allVars
    BY <1>0, <1>1 DEF allVars, clientVars
  <1>2. CASE MainStep
    <2>1. CASE Spawned \/ Decide \/ ClearQueue \/ Join \/ DestroyManager \/ Exit
      BY <1>0, <2>1 DEF Spawned, Decide, ClearQueue, Join, DestroyManager, Exit
    <2>2. CASE MainLoop
      <3>1. Cardinality(Thread) \in Nat
        BY FS_CardinalityType
      <3>2. Dummies(Cardinality(Thread)) \in Seq(Item)
        BY <3>1 DEF Dummies
      <3> QED  BY <1>0, <2>2, <3>2 DEF MainLoop
    <2>3. CASE Ask
      <3>1. (Word + fileSize - BytesDownloaded) % Word \in 0 .. Word - 1
        BY <1>0, WordIsPositive DEF BytesDownloaded
      <3> QED  BY <1>0, <2>3, <3>1 DEF Ask
    <2>4. CASE Answer
      BY <1>0, <2>4 DEF Answer, AnswerPeers, AnswerNone, AnswerThrows
    <2>5. CASE PushPeers \/ PushDummies
      BY <1>0, <2>5 DEF PushPeers, PushDummies, PushNext, Notify
    <2>6. ASSUME NEW t \in Thread, Spawn(t) PROVE MainTypeOK'
      BY <1>0, <2>6 DEF Spawn
    <2> QED  BY <1>2, <2>1, <2>2, <2>3, <2>4, <2>5, <2>6 DEF MainStep
  <1>3. ASSUME NEW t \in Thread, ThreadStep(t) \/ Wakeup(t) \/ CommitPiece(t)
        PROVE  MainTypeOK'
    <2>1. CASE CommitPiece(t)
      BY <1>0, <2>1 DEF CommitPiece
    <2>2. CASE TakePeer(t)
      BY <1>0, <2>2 DEF TakePeer
    <2>3. CASE PopPeer(t) \/ Block(t) \/ ThreadLoop(t) \/ Leave(t) \/ Wakeup(t)
      BY <1>0, <2>3 DEF PopPeer, Block, ThreadLoop, Leave, Wakeup, clientVars
    <2> QED  BY <1>3, <2>1, <2>2, <2>3 DEF ThreadStep
  <1>4. CASE UseAfterDestroy \/ ProgressWakes \/ ProgressDisplays
    BY <1>0, <1>4 DEF UseAfterDestroy, ProgressWakes, ProgressDisplays
  <1> QED  BY <1>1, <1>2, <1>3, <1>4 DEF ClientNext

LEMMA ClientNextType == ClientTypeOK /\ [ClientNext]_allVars => ClientTypeOK'
  <1> SUFFICES ASSUME ClientTypeOK, [ClientNext]_allVars PROVE ClientTypeOK'
    OBVIOUS
  <1>1. QueueTypeOK'
    BY ClientStepsQueue, QueueNextType DEF ClientTypeOK
  <1>2. MainTypeOK'
    BY MainNextType
  <1> QED  BY <1>1, <1>2 DEF ClientTypeOK, MainTypeOK

(* The type invariant of TorrentClient.                                    *)
THEOREM ClientTypeCorrect == ClientSpec => []ClientTypeOK
  BY ClientInitType, ClientNextType, PTL DEF ClientSpec

(* downloadFile, terminate and the threads use the queue as its            *)
(* specification says: TorrentClient implements SharedQueue.               *)
THEOREM ClientUsesQueue == ClientSpec => UsesSharedQueue
  <1>1. ClientInit => QueueInit
    BY DEF ClientInit
  <1> QED
    BY <1>1, ClientStepsQueue, ClientTypeCorrect, PTL
       DEF ClientSpec, UsesSharedQueue, QueueSpec

(* No wakeup is lost while the client refills the queue, nor when          *)
(* terminate puts the dummy peers in it.                                   *)
THEOREM ClientLosesNoWakeup == ClientSpec => []NoLostWakeup
  BY ClientUsesQueue, NoWakeupLost, PTL DEF UsesSharedQueue

-----------------------------------------------------------------------------

(* From join on, every thread has ended, and stays so.                     *)
Joined == main \in {"return", "returned"} => \A t \in Thread : at[t] = "done"

LEMMA JoinedNext == ClientTypeOK /\ Joined /\ [ClientNext]_allVars => Joined'
  <1> SUFFICES ASSUME ClientTypeOK, Joined, [ClientNext]_allVars PROVE Joined'
    OBVIOUS
  <1> USE DEF Joined
  <1>1. CASE UNCHANGED allVars
    BY <1>1 DEF allVars, clientVars
  <1>2. CASE MainStep
    <2>1. CASE \/ Spawned \/ MainLoop \/ Decide \/ Ask \/ Answer \/ ClearQueue
               \/ PushPeers \/ PushDummies \/ \E t \in Thread : Spawn(t)
      BY <2>1 DEF Spawned, MainLoop, Decide, Ask, Answer, AnswerPeers, AnswerNone,
           AnswerThrows, ClearQueue, PushPeers, PushDummies, PushNext, Notify, Spawn,
           MainAt
    <2>2. CASE Join \/ DestroyManager \/ Exit
      BY <2>2 DEF Join, DestroyManager, Exit, MainAt
    <2> QED  BY <1>2, <2>1, <2>2 DEF MainStep
  <1>3. ASSUME NEW t \in Thread, ThreadStep(t) \/ Wakeup(t) \/ CommitPiece(t)
        PROVE  Joined'
    BY <1>3 DEF ThreadStep, PopPeer, Block, TakePeer, ThreadLoop, Leave, Wakeup,
                CommitPiece, ThreadAt, clientVars
  <1>4. CASE UseAfterDestroy \/ ProgressWakes \/ ProgressDisplays
    BY <1>4 DEF UseAfterDestroy, ProgressWakes, ProgressDisplays
  <1> QED  BY <1>1, <1>2, <1>3, <1>4 DEF ClientNext

(* When downloadFile has returned, no connection thread is left that could *)
(* use the piece manager it has destroyed.                                 *)
THEOREM ThreadsJoined == ClientSpec => []JoinedAtReturn
  <1>1. ClientInit => Joined
    BY DEF ClientInit, Joined
  <1>2. Joined => JoinedAtReturn
    BY DEF Joined, JoinedAtReturn
  <1> QED
    BY <1>1, <1>2, JoinedNext, ClientTypeCorrect, PTL DEF ClientSpec

-----------------------------------------------------------------------------

(* While the download is not complete there is no dummy peer anywhere, and *)
(* no thread has ended.                                                    *)
RealPeer == Item \ {Dummy}
NoDummyYet ==
    have # totalPieces =>
        /\ queue \in Seq(RealPeer)
        /\ pushing \in Seq(RealPeer)
        /\ \A t \in Thread : slot[t] # NoSlot => slot[t].item # Dummy
        /\ \A t \in Thread : at[t] # "done"

LEMMA NoDummyNext ==
    ASSUME Answers \subseteq Seq(RealPeer), ClientTypeOK, NoDummyYet,
           [ClientNext]_allVars
    PROVE  NoDummyYet'
  <1> SUFFICES ASSUME have' # totalPieces PROVE NoDummyYet'
    BY DEF NoDummyYet
  <1> USE DEF NoDummyYet
  <1>1. CASE UNCHANGED allVars
    BY <1>1 DEF allVars, clientVars, queueVars
  <1>2. CASE MainStep
    <2>1. CASE Spawned \/ MainLoop \/ Decide \/ Ask \/ Answer \/ Join
               \/ DestroyManager \/ Exit \/ \E t \in Thread : Spawn(t)
      BY <2>1 DEF Spawned, MainLoop, Decide, Ask, Answer, AnswerPeers, AnswerNone,
           AnswerThrows, Join, DestroyManager, Exit, Spawn, IsComplete, queueVars,
           ClientTypeOK
    <2>2. CASE ClearQueue
      <3>1. \A t \in Thread : slot'[t] # NoSlot =>
                slot[t] # NoSlot /\ slot'[t].item = slot[t].item
        BY <2>2 DEF ClearQueue, Clear, Freed, ClientTypeOK, QueueTypeOK, Slot
      <3> QED  BY <2>2, <3>1 DEF ClearQueue, Clear
    <2>3. CASE PushPeers \/ PushDummies
      <3>1. CASE (NotifyOne /\ UNCHANGED pushing) \/ UNCHANGED <<queueVars, pushing>>
        BY <2>3, <3>1 DEF PushPeers, PushDummies, PushNext, Notify, NotifyOne, queueVars
      <3>2. CASE /\ pushing # <<>>
                 /\ PushBack(Head(pushing))
                 /\ pushing' = Tail(pushing)
        <4>1. have # totalPieces /\ UNCHANGED at
          BY <2>3 DEF PushPeers, PushDummies, PushNext, Notify
        <4>2. Head(pushing) \in RealPeer /\ pushing' \in Seq(RealPeer)
          BY <3>2, <4>1
        <4>3. queue' \in Seq(RealPeer) /\ UNCHANGED slot
          BY <3>2, <4>1, <4>2 DEF PushBack
        <4> QED  BY <4>1, <4>2, <4>3
      <3> QED  BY <2>3, <3>1, <3>2 DEF PushPeers, PushDummies, PushNext, Notify
    <2> QED  BY <1>2, <2>1, <2>2, <2>3 DEF MainStep
  <1>3. ASSUME NEW t \in Thread, PopPeer(t) PROVE NoDummyYet'
    <2>1. have # totalPieces /\ UNCHANGED pushing
      BY <1>3 DEF PopPeer
    <2>2. Head(queue) \in RealPeer /\ queue' \in Seq(RealPeer)
      BY <1>3, <2>1 DEF PopPeer, PopFront
    <2>a. /\ slot \in [Thread -> Slot \cup {NoSlot}]
          /\ DOMAIN Freed = Thread
          /\ \A u \in Thread : Freed[u] # NoSlot =>
                slot[u] # NoSlot /\ Freed[u].item = slot[u].item
      BY DEF Freed, ClientTypeOK, QueueTypeOK, Slot
    <2>b. \/ slot' = [slot EXCEPT ![t] = [item |-> Head(queue), live |-> TRUE]]
          \/ slot' = [Freed EXCEPT ![t] = [item |-> Head(queue), live |-> FALSE]]
      BY <1>3 DEF PopPeer, PopFront
    <2>3. slot'[t].item = Head(queue)
      BY <2>a, <2>b
    <2>4. \A u \in Thread \ {t} : slot'[u] # NoSlot =>
              slot[u] # NoSlot /\ slot'[u].item = slot[u].item
      BY <2>a, <2>b
    <2>5. \A u \in Thread : at'[u] # "done"
      BY <1>3, <2>1 DEF PopPeer, ClientTypeOK
    <2> QED  BY <2>1, <2>2, <2>3, <2>4, <2>5 DEF RealPeer
  <1>4. ASSUME NEW t \in Thread, TakePeer(t) PROVE NoDummyYet'
    <2>1. have # totalPieces /\ UNCHANGED <<queue, pushing>>
      BY <1>4 DEF TakePeer, Copy
    <2>2. PICK item \in Item \cup {Garbage} :
              /\ Copy(t, item)
              /\ item = Dummy => at' = [at EXCEPT ![t] = "done"]
              /\ item # Dummy => at' \in {at, [at EXCEPT ![t] = "work"]}
      BY <1>4, GarbageAssumption DEF TakePeer
    <2>3. item # Dummy
      BY <2>1, <2>2, GarbageAssumption DEF Copy
    <2> QED
      BY <2>1, <2>2, <2>3 DEF Copy, ClientTypeOK, QueueTypeOK
  <1>5. ASSUME NEW t \in Thread, Block(t) \/ ThreadLoop(t) \/ Leave(t) \/ Wakeup(t)
                                   \/ CommitPiece(t)
        PROVE  NoDummyYet'
    BY <1>5 DEF Block, ThreadLoop, Leave, Wakeup, CommitPiece, Wait, SpuriousWakeup,
                clientVars, queueVars, IsComplete, ClientTypeOK
  <1>6. CASE UseAfterDestroy \/ ProgressWakes \/ ProgressDisplays
    BY <1>6 DEF UseAfterDestroy, ProgressWakes, ProgressDisplays, queueVars
  <1> QED
    BY <1>1, <1>2, <1>3, <1>4, <1>5, <1>6 DEF ClientNext, ThreadStep

(* If the tracker never lists the address the client uses for its dummy    *)
(* peers, no thread ends before the download is complete.                  *)
THEOREM ThreadsStay ==
    ASSUME Answers \subseteq Seq(Item \ {Dummy})
    PROVE  ClientSpec => []EndsOnlyAtEnd
  <1>1. ClientInit => NoDummyYet
    BY DEF ClientInit, QueueInit, NoDummyYet
  <1>2. NoDummyYet => EndsOnlyAtEnd
    BY DEF NoDummyYet, EndsOnlyAtEnd
  <1>3. ClientTypeOK /\ NoDummyYet /\ [ClientNext]_allVars => NoDummyYet'
    BY NoDummyNext DEF RealPeer
  <1> QED
    BY <1>1, <1>2, <1>3, ClientTypeCorrect, PTL DEF ClientSpec

-----------------------------------------------------------------------------

(* What is left of the file when a piece is missing, without wraparound.   *)
LEMMA LeftIsExact ==
    ASSUME have \in 0 .. totalPieces - 1
    PROVE  (Word + fileSize - BytesDownloaded) % Word <= fileSize
  <1>1. have * pieceLength <= (totalPieces - 1) * pieceLength
    <2>1. \A a, b, c \in Nat : a <= b => a * c <= b * c
      BY Z3
    <2> QED  BY <2>1, SizesAssumption
  <1>2. have * pieceLength \in 0 .. fileSize
    BY <1>1, SizesAssumption, Z3
  <1>3. \A n, d \in Nat : n < d => (d + n) % d = n
    BY Z3
  <1>4. fileSize - have * pieceLength \in Nat /\ fileSize - have * pieceLength < Word
    BY <1>2, WordIsPositive
  <1> QED
    BY <1>2, <1>3, <1>4, WordIsPositive, SizesAssumption DEF BytesDownloaded

LEMMA ReportsLeftNext ==
    ClientTypeOK /\ ReportsLeft /\ [ClientNext]_allVars => ReportsLeft'
  <1> SUFFICES ASSUME ClientTypeOK, ReportsLeft, [ClientNext]_allVars PROVE ReportsLeft'
    OBVIOUS
  <1>1. CASE Ask
    BY <1>1, LeftIsExact, WordIsPositive DEF Ask, ReportsLeft, ClientTypeOK, SizesAssumption
  <1>2. CASE UNCHANGED left /\ have' \in {have, have + 1} /\ have' \in 0 .. totalPieces
    BY <1>2 DEF ReportsLeft, ClientTypeOK
  <1>3. CASE UNCHANGED allVars
    BY <1>3, <1>2 DEF allVars, clientVars, ReportsLeft
  <1>4. CASE MainStep
    BY <1>1, <1>2, <1>4 DEF MainStep, Spawned, MainLoop, Decide, Answer, AnswerPeers,
         AnswerNone, AnswerThrows, ClearQueue, PushPeers, PushDummies, PushNext, Notify,
         Join, DestroyManager, Exit, Spawn, ClientTypeOK
  <1>5. ASSUME NEW t \in Thread, ThreadStep(t) \/ Wakeup(t) \/ CommitPiece(t)
        PROVE  ReportsLeft'
    BY <1>2, <1>5 DEF ThreadStep, PopPeer, Block, TakePeer, ThreadLoop, Leave, Wakeup,
                CommitPiece, clientVars, ClientTypeOK
  <1>6. CASE UseAfterDestroy \/ ProgressWakes \/ ProgressDisplays
    BY <1>6, <1>2 DEF UseAfterDestroy, ProgressWakes, ProgressDisplays, ClientTypeOK
  <1> QED  BY <1>3, <1>4, <1>5, <1>6 DEF ClientNext

(* The unsigned difference the tracker is sent as left= wraps only if the  *)
(* download was completed after the main loop's test.                      *)
THEOREM LeftWrapsOnlyAtEnd == ClientSpec => []ReportsLeft
  <1>1. ClientInit => ReportsLeft
    BY DEF ClientInit, ReportsLeft, SizesAssumption
  <1> QED
    BY <1>1, ReportsLeftNext, ClientTypeCorrect, PTL DEF ClientSpec
=============================================================================
