---------------------------- MODULE TorrentClient ----------------------------
(***************************************************************************)
(* TorrentClient::downloadFile: it creates the piece manager (and with it  *)
(* the detached progress thread) and the connection threads, asks the      *)
(* tracker for peers whenever the queue is empty or a minute has passed,   *)
(* and when the download is complete sends each thread a dummy peer, joins *)
(* the threads and destroys the manager.                                   *)
(*                                                                         *)
(* The connection threads, which PeerConnection models in detail, are      *)
(* reduced to their dealings with the queue and to the number of pieces    *)
(* they commit.  The tracker is the environment: it answers with one of    *)
(* the lists of Answers, with no peers, or, if TrackerThrows, with         *)
(* something retrievePeers or decodeResponse throws an exception for.      *)
(***************************************************************************)
EXTENDS SharedQueue

CONSTANTS
    Dummy,          \* the peer 0.0.0.0
    Answers,        \* the non-empty lists of peers the tracker may answer with
    TrackerThrows,  \* the tracker's answer may be one that is not understood
    totalPieces,    \* pieces of the torrent
    pieceLength,    \* bytes of a piece
    fileSize,       \* bytes of the file: the last piece may be shorter
    Durations,      \* seconds the progress thread may have to display
    Word            \* 2^64: one more than the largest unsigned long

ASSUME DummyAssumption == Dummy \in Item
ASSUME AnswersAssumption == Answers \subseteq Seq(Item)
ASSUME ThrowsAssumption == TrackerThrows \in BOOLEAN
ASSUME DurationsAssumption == Durations \subseteq Nat
ASSUME SizesAssumption ==
    /\ totalPieces \in Nat \ {0}
    /\ pieceLength \in Nat \ {0}
    /\ fileSize \in (totalPieces - 1) * pieceLength + 1 .. totalPieces * pieceLength
    /\ Word \in Nat
    /\ totalPieces * pieceLength < Word

VARIABLES
    main,      \* where the main thread is in downloadFile and terminate
    at,        \* where each connection thread is
    have,      \* number of pieces in PieceManager::havePieces
    pushing,   \* peers the main thread has still to put in the queue
    left,      \* what the tracker is told about the bytes that are left
    manager,   \* the piece manager has not been destroyed
    progress,  \* where the progress thread is in trackProgress
    process    \* "running", "exited", or "crashed"

clientVars == <<main, at, have, pushing, left, manager, progress, process>>
allVars == <<queueVars, clientVars>>

Running == process = "running"

(* Mutant: the last piece is not waited for.                               *)
IsComplete_OneShort == have + 1 >= totalPieces

(* PieceManager::isComplete.                                               *)
IsComplete == have = totalPieces

ClientInit ==
    /\ QueueInit
    /\ main = "spawn"
    /\ at = [t \in Thread |-> "unborn"]
    /\ have = 0
    /\ pushing = <<>>
    /\ left = fileSize
    /\ manager = TRUE
    /\ progress = "sleep"
    /\ process = "running"

-----------------------------------------------------------------------------
(* The main thread.                                                        *)

MainAt(l) == Running /\ main = l

Spawn(t) ==
    /\ MainAt("spawn")
    /\ at[t] = "unborn"
    /\ at' = [at EXCEPT ![t] = "loop"]
    /\ UNCHANGED <<queueVars, main, have, pushing, left, manager, progress, process>>

Spawned ==
    /\ MainAt("spawn")
    /\ \A t \in Thread : at[t] # "unborn"
    /\ main' = "loop"
    /\ UNCHANGED <<queueVars, at, have, pushing, left, manager, progress, process>>

Dummies(n) == [i \in 1 .. n |-> Dummy]

(* Mutant: the threads are left to the flag stop() sets.                   *)
MainLoop_NoDummies ==
    /\ MainAt("loop")
    /\ \/ IsComplete /\ main' = "join" /\ UNCHANGED pushing
       \/ ~IsComplete /\ main' = "decide" /\ UNCHANGED pushing
    /\ UNCHANGED <<queueVars, at, have, left, manager, progress, process>>

(* if (isComplete()) break; then terminate makes one dummy per thread.     *)
MainLoop ==
    /\ MainAt("loop")
    /\ \/ IsComplete /\ main' = "dummies" /\ pushing' = Dummies(Cardinality(Thread))
       \/ ~IsComplete /\ main' = "decide" /\ UNCHANGED pushing
    /\ UNCHANGED <<queueVars, at, have, left, manager, progress, process>>

(* The tracker is asked if the queue is empty (which it is the first time) *)
(* or if 60 seconds have passed.                                           *)
Decide ==
    /\ MainAt("decide")
    /\ \/ main' = "ask"
       \/ queue # <<>> /\ main' = "loop"
    /\ UNCHANGED <<queueVars, at, have, pushing, left, manager, progress, process>>

(* Mutant: the piece that is being downloaded is counted.                  *)
BytesDownloaded_OneMore == (have + 1) * pieceLength

(* PieceManager::bytesDownloaded counts whole pieces.                      *)
BytesDownloaded == have * pieceLength

(* Mutant: the difference is not taken modulo the word size.               *)
Ask_Signed ==
    /\ MainAt("ask")
    /\ left' = fileSize - BytesDownloaded
    /\ main' = "answer"
    /\ UNCHANGED <<queueVars, at, have, pushing, manager, progress, process>>

(* fileSize - bytesDownloaded, in unsigned arithmetic.                     *)
Ask ==
    /\ MainAt("ask")
    /\ left' = (Word + fileSize - BytesDownloaded) % Word
    /\ main' = "answer"
    /\ UNCHANGED <<queueVars, at, have, pushing, manager, progress, process>>

(* retrievePeers returns peers, none, or does not return.                  *)
AnswerPeers ==
    /\ MainAt("answer")
    /\ pushing' \in Answers
    /\ main' = "clear"
    /\ UNCHANGED <<queueVars, at, have, left, manager, progress, process>>

AnswerNone ==
    /\ MainAt("answer")
    /\ main' = "loop"
    /\ UNCHANGED <<queueVars, at, have, pushing, left, manager, progress, process>>

AnswerThrows ==
    /\ MainAt("answer")
    /\ TrackerThrows
    /\ main' = "unwind"
    /\ UNCHANGED <<queueVars, at, have, pushing, left, manager, progress, process>>

(* Mutant: the queue is emptied behind its back.                           *)
ClearQueue_Silent ==
    /\ MainAt("clear")
    /\ queue' = <<>> /\ popped' = 0 /\ slot' = Freed
    /\ UNCHANGED <<waiting, woken, notifying>>
    /\ main' = "push"
    /\ UNCHANGED <<at, have, pushing, left, manager, progress, process>>

ClearQueue ==
    /\ MainAt("clear")
    /\ Clear
    /\ main' = "notify"
    /\ UNCHANGED <<at, have, pushing, left, manager, progress, process>>

(* One iteration of a loop that pushes a peer, and the loop's end.  A call *)
(* of push_back notifies once it has released the mutex.                   *)
PushNext(loop, notify, end) ==
    /\ MainAt(loop)
    /\ \/ /\ pushing # <<>>
          /\ PushBack(Head(pushing))
          /\ pushing' = Tail(pushing)
          /\ main' = notify
       \/ /\ pushing = <<>>
          /\ main' = end
          /\ UNCHANGED <<queueVars, pushing>>
    /\ UNCHANGED <<at, have, left, manager, progress, process>>

Notify(notify, loop) ==
    /\ MainAt(notify)
    /\ NotifyOne
    /\ main' = loop
    /\ UNCHANGED <<at, have, pushing, left, manager, progress, process>>

(* terminate: stop() sets the flag of objects no thread runs on, so that   *)
(* the dummies are all a thread may see of the end; then join, in turn.    *)
PushPeers == PushNext("push", "notify", "loop") \/ Notify("notify", "push")
PushDummies == PushNext("dummies", "dummy_notify", "join") \/ Notify("dummy_notify", "dummies")

Join ==
    /\ MainAt("join")
    /\ \A t \in Thread : at[t] = "done"
    /\ main' = "return"
    /\ UNCHANGED <<queueVars, at, have, pushing, left, manager, progress, process>>

(* downloadFile's end, by return or by an exception, destroys the manager. *)
DestroyManager ==
    /\ \/ MainAt("return") /\ main' = "returned"
       \/ MainAt("unwind") /\ main' = "unwound"
    /\ manager' = FALSE
    /\ UNCHANGED <<queueVars, at, have, pushing, left, progress, process>>

(* The client is destroyed and main ends the process, and with it detached *)
(* threads; but destroying a joinable std::thread is std::terminate.       *)
Exit ==
    /\ \/ MainAt("returned") /\ process' = "exited"
       \/ MainAt("unwound") /\ process' = IF Thread = {} THEN "exited" ELSE "crashed"
    /\ UNCHANGED <<queueVars, main, at, have, pushing, left, manager, progress>>

Answer == AnswerPeers \/ AnswerNone \/ AnswerThrows

MainStep ==
    \/ Spawned \/ MainLoop \/ Decide \/ Ask \/ Answer \/ ClearQueue
    \/ PushPeers \/ PushDummies \/ Join \/ DestroyManager \/ Exit
    \/ \E t \in Thread : Spawn(t)

-----------------------------------------------------------------------------
(* The connection threads.                                                 *)

ThreadAt(t, l) == Running /\ at[t] = l

ThreadLoop(t) ==
    /\ ThreadAt(t, "loop") /\ manager
    /\ at' = [at EXCEPT ![t] = IF IsComplete THEN "done" ELSE "pop"]
    /\ UNCHANGED <<queueVars, main, have, pushing, left, manager, progress, process>>

PopPeer(t) ==
    /\ ThreadAt(t, "pop")
    /\ PopFront(t)
    /\ at' = [at EXCEPT ![t] = "popped"]
    /\ UNCHANGED <<main, have, pushing, left, manager, progress, process>>

Block(t) ==
    /\ ThreadAt(t, "pop")
    /\ Wait(t)
    /\ UNCHANGED clientVars

Wakeup(t) ==
    /\ ThreadAt(t, "pop")
    /\ SpuriousWakeup(t)
    /\ UNCHANGED clientVars

(* The thread ends at a dummy peer, and connects to any other.             *)
TakePeer(t) ==
    /\ ThreadAt(t, "popped")
    /\ \E item \in Item \cup {Garbage} :
          /\ Copy(t, item)
          /\ \/ item = Dummy /\ at' = [at EXCEPT ![t] = "done"] /\ UNCHANGED process
             \/ item = Garbage /\ process' = "crashed" /\ UNCHANGED at
             \/ /\ item \notin {Dummy, Garbage}
                /\ at' = [at EXCEPT ![t] = "work"]
                /\ UNCHANGED process
    /\ UNCHANGED <<main, have, pushing, left, manager, progress>>

(* A piece is finished on the connection.                                  *)
CommitPiece(t) ==
    /\ ThreadAt(t, "work") /\ manager
    /\ have < totalPieces
    /\ have' = have + 1
    /\ UNCHANGED <<queueVars, main, at, pushing, left, manager, progress, process>>

(* The connection is lost, cannot be established, or the inner loop ends.  *)
Leave(t) ==
    /\ ThreadAt(t, "work") /\ manager
    /\ at' = [at EXCEPT ![t] = "loop"]
    /\ UNCHANGED <<queueVars, main, have, pushing, left, manager, progress, process>>

(* Calling a manager that has been destroyed.                              *)
UseAfterDestroy ==
    /\ Running /\ ~manager
    /\ \/ \E t \in Thread : at[t] \in {"loop", "work"}
       \/ progress # "ended"
    /\ process' = "crashed"
    /\ UNCHANGED <<queueVars, main, at, have, pushing, left, manager, progress>>

ThreadStep(t) ==
    PopPeer(t) \/ Block(t) \/ TakePeer(t) \/ ThreadLoop(t) \/ Leave(t)

-----------------------------------------------------------------------------
(* The progress thread: while (!isComplete()) displayProgressBar(), with a *)
(* second's sleep before each test.                                        *)

ProgressWakes ==
    /\ Running /\ progress = "sleep" /\ manager
    /\ progress' = IF IsComplete THEN "ended" ELSE "display"
    /\ UNCHANGED <<queueVars, main, at, have, pushing, left, manager, process>>

(* formatTime pads the hours to 2 - length digits, an unsigned difference: *)
(* with three digits it wraps, and std::string throws.                     *)
FormatTimeThrows(seconds) == seconds \div 3600 > 99

(* An exception ends the process, as nothing catches it in the thread.     *)
ProgressDisplays ==
    /\ Running /\ progress = "display" /\ manager
    /\ \E seconds \in Durations :
          \/ ~FormatTimeThrows(seconds) /\ progress' = "sleep" /\ UNCHANGED process
          \/ FormatTimeThrows(seconds) /\ process' = "crashed" /\ UNCHANGED progress
    /\ UNCHANGED <<queueVars, main, at, have, pushing, left, manager>>

ClientNext ==
    \/ MainStep
    \/ \E t \in Thread : ThreadStep(t) \/ Wakeup(t) \/ CommitPiece(t)
    \/ UseAfterDestroy
    \/ ProgressWakes \/ ProgressDisplays

ClientSpec == ClientInit /\ [][ClientNext]_allVars

-----------------------------------------------------------------------------
(* Properties.                                                             *)

MainLocations == {"spawn", "loop", "decide", "ask", "answer", "clear", "notify",
                  "push", "dummies", "dummy_notify", "join", "return", "returned",
                  "unwind", "unwound"}

ClientTypeOK ==
    /\ QueueTypeOK
    /\ main \in MainLocations
    /\ at \in [Thread -> {"unborn", "loop", "pop", "popped", "work", "done"}]
    /\ have \in 0 .. totalPieces
    /\ pushing \in Seq(Item)
    /\ left \in 0 .. Word - 1
    /\ manager \in BOOLEAN
    /\ progress \in {"sleep", "display", "ended"}
    /\ process \in {"running", "exited", "crashed"}

(* The client and its threads use the queue by its operations only: what   *)
(* holds of SharedQueue's specification holds of the client's queue.       *)
UsesSharedQueue == QueueSpec

(* No thread ends before the download is complete, so that none is missing *)
(* while there is something to download: the dummy peers, which end a      *)
(* thread wherever they meet it, are in the queue only at the end.  (The   *)
(* tracker must not list 0.0.0.0: a thread takes it for a dummy.)          *)
EndsOnlyAtEnd ==
    \A t \in Thread : at[t] = "done" => have = totalPieces

(* When downloadFile returns and its piece manager is destroyed, every     *)
(* connection thread, none of which knows of it, has ended.                *)
JoinedAtReturn ==
    main = "returned" => \A t \in Thread : at[t] = "done"

(* The tracker is never told that more is left than the whole file, unless *)
(* the download was completed after the loop had last looked: then whole   *)
(* pieces are more than the file, and the difference wraps.                *)
ReportsLeft == left > fileSize => have = totalPieces

-----------------------------------------------------------------------------
(* Liveness.                                                               *)

(* The threads and the main thread run; the tracker's answers sometimes    *)
(* have peers; the queue is refilled once a minute unless it is empty, so  *)
(* that threads able to take from it will not forever find it emptied      *)
(* again; connections last long enough, some of them, for a piece to be    *)
(* finished, but none forever.                                             *)
ClientFairness ==
    /\ WF_allVars(MainStep)
    /\ SF_allVars(AnswerPeers)
    /\ SF_allVars(\E t \in Thread : PopPeer(t))
    /\ \A t \in Thread : WF_allVars(ThreadStep(t)) /\ SF_allVars(CommitPiece(t))

FairClientSpec == ClientSpec /\ ClientFairness

(* The download completes, every thread is joined and downloadFile         *)
(* returns, unless the process has died: no thread sleeps at the queue for *)
(* ever, neither while there are peers for it nor after the end.           *)
Returns == <>(main = "returned" \/ process = "crashed")
=============================================================================
