---------------------------- MODULE PieceManager ----------------------------
(***************************************************************************)
(* The piece manager of the torrent client: which piece and block to ask   *)
(* a peer for, what to do with a received block, and when a piece is       *)
(* verified and written to the output file.                                *)
(*                                                                         *)
(* One step is one critical section of PieceManager::lock, or one of the   *)
(* statements PieceManager::blockReceived executes after it has released   *)
(* the lock (Piece::block_received, is_complete, is_hash_matching, write   *)
(* and reset touch the shared Piece, its Blocks and the output stream with *)
(* no lock held).                                                          *)
(*                                                                         *)
(* The callers are any number of threads which may call any operation with *)
(* any argument at any time; module PeerConnection restricts them to the   *)
(* calls a connection really makes.                                        *)
(*                                                                         *)
(* Abstractions.  A block is <<piece, number of the block in the piece>>.  *)
(* The data of a block is "good" when it is the data the torrent's author  *)
(* hashed: a piece matches its SHA-1 hash iff all its blocks are good.     *)
(* The output file is one region per piece, and one past the last piece.   *)
(* A peer's bit field is the set of pieces it announces.                   *)
(*                                                                         *)
(* An operator whose comment begins with "Mutant" is no part of the model: *)
(* it is the definition after it with a plausible mistake, which a run is  *)
(* expected to detect.                                                     *)
(***************************************************************************)
EXTENDS Naturals, Sequences, SequencesExt, FiniteSets

CONSTANTS
    Thread,          \* threads calling the manager, one per connection
    PeerId,          \* identifiers remote peers present in the handshake
    totalPieces,     \* number of piece hashes in the torrent
    blockCount,      \* blockCount[p]: number of blocks of piece p
    maxPendingTime,  \* ticks after which a pending request has expired
    StaleRarest,     \* pieces the uninitialised pointer `rarest` may designate
    MaxPending,      \* bound of the model on the length of pendingRequests
    Asserts,         \* whether assert() is compiled in (a Release build has FALSE)
    NoBlock          \* nullptr

Piece == 0 .. totalPieces - 1
Block == UNION {{p} \X (0 .. blockCount[p] - 1) : p \in Piece}
BlocksOf(p) == {b \in Block : b[1] = p}

(* What a Piece message can name: a block, or a piece or an offset that    *)
(* does not exist (piece totalPieces, block number blockCount[p]).         *)
Address == (UNION {{p} \X (0 .. blockCount[p]) : p \in Piece})
             \cup {<<totalPieces, 0>>}

Region == 0 .. totalPieces

ASSUME ThreadAssumption == IsFiniteSet(Thread)
ASSUME TotalPiecesAssumption == totalPieces \in Nat
ASSUME BlockCountAssumption == blockCount \in [Piece -> Nat]
ASSUME PendingTimeAssumption == maxPendingTime \in Nat \ {0}
ASSUME StaleAssumption == StaleRarest \subseteq Piece
ASSUME MaxPendingAssumption == MaxPending \in Nat
ASSUME AssertsAssumption == Asserts \in SUBSET BOOLEAN
ASSUME NoBlockAssumption == NoBlock \notin Address

VARIABLES
    missingPieces,    \* set of pieces not started (the vector's order is unused)
    ongoingPieces,    \* sequence of started pieces
    havePieces,       \* sequence of finished pieces
    pendingRequests,  \* sequence of [block, age]
    peers,            \* function from the added peers to the pieces they have
    status,           \* Block::status
    data,             \* Block::data
    disk,             \* contents of the regions of the output file
    filePos,          \* region at the put position of the output stream
    proc,             \* "running", "undefined" (went on past undefined
                      \* behaviour) or "crashed"
    pc,               \* where each thread is inside a call
    blk,              \* the block a thread's blockReceived call is about
    dat,              \* the data that call received
    leaving           \* the peer a thread's removePeer call is about

pieceVars == <<missingPieces, ongoingPieces, havePieces>>
blockVars == <<status, data>>
fileVars  == <<disk, filePos>>
callVars  == <<pc, blk, dat, leaving>>
vars == <<pieceVars, pendingRequests, peers, blockVars, fileVars, proc, callVars>>

-----------------------------------------------------------------------------

(* Labels of the statements of blockReceived that run without the lock.    *)
Delivering == {"store_status", "store_data", "check_complete", "check_hash",
               "seek", "put", "commit", "reset"}
Label == {"ready", "remove", "thrown"} \cup Delivering

Started == ToSet(ongoingPieces)
Have == ToSet(havePieces)
PieceOf(t) == blk[t][1]
MissingBlocks(p) == {b \in BlocksOf(p) : status[b] = "missing"}

(* Piece::is_complete.                                                     *)
IsPieceComplete(p) == \A b \in BlocksOf(p) : status[b] = "retrieved"

(* Mutant: empty data passes for the right data.                           *)
HashMatches_EmptyPasses(p) == \A b \in BlocksOf(p) : data[b] # "bad"

(* Piece::is_hash_matching.                                                *)
HashMatches(p) == \A b \in BlocksOf(p) : data[b] = "good"

(* Mutant: complete as soon as every piece has been started.               *)
IsComplete_AllStarted == missingPieces = {}

(* PieceManager::isComplete.                                               *)
IsComplete == Len(havePieces) = totalPieces

Init ==
    /\ missingPieces = Piece
    /\ ongoingPieces = <<>>
    /\ havePieces = <<>>
    /\ pendingRequests = <<>>
    /\ peers = [p \in {} |-> {}]
    /\ status = [b \in Block |-> "missing"]
    /\ data = [b \in Block |-> "none"]
    /\ disk = [r \in Region |-> "none"]
    /\ filePos = totalPieces       \* the constructor seeks to the last byte
    /\ proc = "running"
    /\ pc = [t \in Thread |-> "ready"]
    /\ blk = [t \in Thread |-> NoBlock]
    /\ dat = [t \in Thread |-> "none"]
    /\ leaving = [t \in Thread |-> NoBlock]

Alive == proc # "crashed"

-----------------------------------------------------------------------------
(* Bookkeeping of peers.                                                   *)

AddPeer(t, peer, bitField) ==
    /\ Alive /\ pc[t] = "ready"
    /\ peers' = [q \in DOMAIN peers \cup {peer} |->
                    IF q = peer THEN bitField ELSE peers[q]]
    /\ UNCHANGED <<pieceVars, pendingRequests, blockVars, fileVars, proc, callVars>>

UpdatePeer(t, peer, index) ==
    /\ Alive /\ pc[t] = "ready"
    /\ \/ /\ peer \in DOMAIN peers
          /\ peers' = [peers EXCEPT ![peer] = @ \cup {index}]
          /\ UNCHANGED pc
       \/ /\ peer \notin DOMAIN peers
          /\ pc' = [pc EXCEPT ![t] = "thrown"]
          /\ UNCHANGED peers
    /\ UNCHANGED <<pieceVars, pendingRequests, blockVars, fileVars, proc,
                   blk, dat, leaving>>

(* removePeer first calls isComplete, which is a critical section of its   *)
(* own, and locks again to erase the peer.                                 *)
RemovePeer(t, peer) ==
    /\ Alive /\ pc[t] = "ready"
    /\ IF IsComplete
         THEN UNCHANGED <<pc, leaving>>
         ELSE /\ pc' = [pc EXCEPT ![t] = "remove"]
              /\ leaving' = [leaving EXCEPT ![t] = peer]
    /\ UNCHANGED <<pieceVars, pendingRequests, peers, blockVars, fileVars, proc,
                   blk, dat>>

ErasePeer(t) ==
    /\ Alive /\ pc[t] = "remove"
    /\ \/ /\ leaving[t] \in DOMAIN peers
          /\ peers' = [q \in DOMAIN peers \ {leaving[t]} |-> peers[q]]
          /\ pc' = [pc EXCEPT ![t] = "ready"]
       \/ /\ leaving[t] \notin DOMAIN peers
          /\ pc' = [pc EXCEPT ![t] = "thrown"]
          /\ UNCHANGED peers
    /\ leaving' = [leaving EXCEPT ![t] = NoBlock]
    /\ UNCHANGED <<pieceVars, pendingRequests, blockVars, fileVars, proc, blk, dat>>

(* The caller catches the exception a call ended with.                     *)
Catch(t) ==
    /\ Alive /\ pc[t] = "thrown"
    /\ pc' = [pc EXCEPT ![t] = "ready"]
    /\ UNCHANGED <<pieceVars, pendingRequests, peers, blockVars, fileVars, proc,
                   blk, dat, leaving>>

-----------------------------------------------------------------------------
(* nextRequest and its three helpers: the result b is the block to ask     *)
(* the peer for, or NoBlock.  All of it is one critical section.           *)

(* Piece::next_request: the first missing block becomes pending.           *)
PieceNextRequest(p, b) ==
    \/ /\ b \in MissingBlocks(p)
       /\ \A c \in MissingBlocks(p) : b[2] <= c[2]
       /\ status' = [status EXCEPT ![b] = "pending"]
    \/ /\ MissingBlocks(p) = {}
       /\ b = NoBlock
       /\ UNCHANGED status

(* Pending requests for a piece the peer has which are too old.            *)
Expired(peer) ==
    {i \in DOMAIN pendingRequests :
        /\ pendingRequests[i].block[1] \in peers[peer]
        /\ pendingRequests[i].age >= maxPendingTime}

ExpiredRequest(peer, b) ==
    \E i \in Expired(peer) :
        /\ \A j \in Expired(peer) : i <= j
        /\ b = pendingRequests[i].block
        /\ pendingRequests' = [pendingRequests EXCEPT ![i].age = 0]
        /\ UNCHANGED <<pieceVars, status, proc>>

(* Started pieces the peer has which still have a missing block.           *)
Requestable(peer) ==
    {i \in DOMAIN ongoingPieces :
        /\ ongoingPieces[i] \in peers[peer]
        /\ MissingBlocks(ongoingPieces[i]) # {}}

NextOngoing(peer, b) ==
    \E i \in Requestable(peer) :
        /\ \A j \in Requestable(peer) : i <= j
        /\ Len(pendingRequests) < MaxPending
        /\ PieceNextRequest(ongoingPieces[i], b)
        /\ pendingRequests' = Append(pendingRequests, [block |-> b, age |-> 0])
        /\ UNCHANGED <<pieceVars, proc>>

(* A piece's move from missingPieces to ongoingPieces.  A second copy of a *)
(* pointer that is in ongoingPieces changes nothing that a loop over the   *)
(* list sees, so the model keeps the first copy only.                      *)
StartPiece(p, b) ==
    /\ missingPieces' = missingPieces \ {p}
    /\ ongoingPieces' = IF p \in Started THEN ongoingPieces
                                         ELSE Append(ongoingPieces, p)
    /\ PieceNextRequest(p, b)
    /\ UNCHANGED <<havePieces, pendingRequests>>

(* getRarestPiece(peerId)->next_request().  Only the asking peer is        *)
(* counted, so every count is 1 and the lowest index is taken.  When the   *)
(* peer has no missing piece, `rarest` is returned uninitialised: using it *)
(* kills the process, or it still designates some piece.  The model        *)
(* follows one such use (the bound is the guard on proc).                  *)
GetRarestPiece(peer, b) ==
    LET candidates == missingPieces \cap peers[peer]
    IN  \/ /\ \E p \in candidates :
                 /\ \A q \in candidates : p <= q
                 /\ StartPiece(p, b)
           /\ UNCHANGED proc
        \/ /\ candidates = {}
           /\ proc' = "crashed"
           /\ b = NoBlock
           /\ UNCHANGED <<pieceVars, pendingRequests, status>>
        \/ /\ candidates = {}
           /\ proc = "running"
           /\ proc' = "undefined"
           /\ \E p \in StaleRarest : StartPiece(p, b)

NextRequest(t, peer, b) ==
    /\ Alive /\ pc[t] = "ready"
    /\ \/ /\ missingPieces = {} \/ peer \notin DOMAIN peers
          /\ b = NoBlock
          /\ UNCHANGED <<pieceVars, pendingRequests, status, proc>>
       \/ /\ missingPieces # {}
          /\ peer \in DOMAIN peers
          /\ \/ ExpiredRequest(peer, b)
             \/ /\ Expired(peer) = {}
                /\ NextOngoing(peer, b)
             \/ /\ Expired(peer) = {}
                /\ Requestable(peer) = {}
                /\ GetRarestPiece(peer, b)
    /\ UNCHANGED <<peers, data, fileVars, callVars>>

-----------------------------------------------------------------------------
(* blockReceived: a critical section, then statements without the lock.    *)

(* Mutant: the request stays.                                              *)
DropPending_Kept(b) == b \in Address /\ UNCHANGED pendingRequests

(* Mutant: the oldest request goes, whatever has been received.            *)
DropPending_Oldest(b) ==
    /\ b \in Address
    /\ pendingRequests' = IF pendingRequests = <<>> THEN <<>> ELSE Tail(pendingRequests)

(* The first pending request for the block is dropped, if there is one.    *)
DropPending(b) ==
    \/ \E i \in DOMAIN pendingRequests :
          /\ pendingRequests[i].block = b
          /\ \A j \in DOMAIN pendingRequests :
                pendingRequests[j].block = b => i <= j
          /\ pendingRequests' = RemoveAt(pendingRequests, i)
    \/ /\ \A i \in DOMAIN pendingRequests : pendingRequests[i].block # b
       /\ UNCHANGED pendingRequests

BlockReceived(t, b, d) ==
    /\ Alive /\ pc[t] = "ready"
    /\ DropPending(b)
    /\ \/ /\ b[1] \in Started
          /\ pc' = [pc EXCEPT ![t] = "store_status"]
          /\ blk' = [blk EXCEPT ![t] = b]
          /\ dat' = [dat EXCEPT ![t] = d]
       \/ /\ b[1] \notin Started
          /\ pc' = [pc EXCEPT ![t] = "thrown"]
          /\ UNCHANGED <<blk, dat>>
    /\ UNCHANGED <<pieceVars, peers, blockVars, fileVars, proc, leaving>>

(* The call of thread t goes on at label l, or ends there.                 *)
Goto(t, l) ==
    /\ pc' = [pc EXCEPT ![t] = l]
    /\ blk' = IF l \in Delivering THEN blk ELSE [blk EXCEPT ![t] = NoBlock]
    /\ dat' = IF l \in Delivering THEN dat ELSE [dat EXCEPT ![t] = "none"]

(* Mutant: no exception for an unknown offset.                             *)
StoreStatus_AnyOffset(t) ==
    /\ Alive /\ pc[t] = "store_status"
    /\ status' = [status EXCEPT ![blk[t]] = "retrieved"]
    /\ Goto(t, "store_data")
    /\ UNCHANGED <<pieceVars, pendingRequests, peers, data, fileVars, proc, leaving>>

(* block->status = retrieved, or the exception for an unknown offset.      *)
StoreStatus(t) ==
    /\ Alive /\ pc[t] = "store_status"
    /\ \/ /\ blk[t] \in Block
          /\ status' = [status EXCEPT ![blk[t]] = "retrieved"]
          /\ Goto(t, "store_data")
       \/ /\ blk[t] \notin Block
          /\ UNCHANGED status
          /\ Goto(t, "thrown")
    /\ UNCHANGED <<pieceVars, pendingRequests, peers, data, fileVars, proc, leaving>>

(* Threads that read or assign the std::string of block b at this moment.  *)
Touching(b) ==
    {t \in Thread : \/ pc[t] = "store_data" /\ blk[t] = b
                    \/ pc[t] \in {"check_hash", "put"} /\ PieceOf(t) = b[1]}

(* block->data = data; torn when another thread uses the same string.      *)
StoreData(t) ==
    /\ Alive /\ pc[t] = "store_data"
    /\ \/ data' = [data EXCEPT ![blk[t]] = dat[t]]
       \/ /\ Touching(blk[t]) # {t}
          /\ data' = [data EXCEPT ![blk[t]] = "bad"]
    /\ Goto(t, "check_complete")
    /\ UNCHANGED <<pieceVars, pendingRequests, peers, status, fileVars, proc, leaving>>

(* Threads that use the output stream at this moment.                      *)
Streaming == {t \in Thread : pc[t] \in {"seek", "put"}}

(* The data races whose outcome is the end of the process: two threads on  *)
(* one std::string, one of them assigning it, or two on the file stream.   *)
DataRace(t) ==
    /\ Alive
    /\ \/ pc[t] = "store_data" /\ Touching(blk[t]) # {t}
       \/ t \in Streaming /\ Streaming # {t}
    /\ proc' = "crashed"
    /\ UNCHANGED <<pieceVars, pendingRequests, peers, blockVars, fileVars, callVars>>

(* Mutant: complete when no block is left to be requested.                 *)
CheckComplete_NoneMissing(t) ==
    /\ Alive /\ pc[t] = "check_complete"
    /\ Goto(t, IF MissingBlocks(PieceOf(t)) = {} THEN "check_hash" ELSE "ready")
    /\ UNCHANGED <<pieceVars, pendingRequests, peers, blockVars, fileVars, proc, leaving>>

CheckComplete(t) ==
    /\ Alive /\ pc[t] = "check_complete"
    /\ Goto(t, IF IsPieceComplete(PieceOf(t)) THEN "check_hash" ELSE "ready")
    /\ UNCHANGED <<pieceVars, pendingRequests, peers, blockVars, fileVars, proc, leaving>>

(* Piece::data asserts that the piece is complete, if assertions are on.   *)
AssertFails(t) ==
    /\ TRUE \in Asserts
    /\ Alive /\ pc[t] \in {"check_hash", "put"}
    /\ ~IsPieceComplete(PieceOf(t))
    /\ proc' = "crashed"
    /\ UNCHANGED <<pieceVars, pendingRequests, peers, blockVars, fileVars, callVars>>

(* Mutant: the hash is not compared.                                       *)
CheckHash_Skipped(t) ==
    /\ Alive /\ pc[t] = "check_hash"
    /\ Goto(t, "seek")
    /\ UNCHANGED <<pieceVars, pendingRequests, peers, blockVars, fileVars, proc, leaving>>

CheckHash(t) ==
    /\ Alive /\ pc[t] = "check_hash"
    /\ FALSE \in Asserts \/ IsPieceComplete(PieceOf(t))
    /\ Goto(t, IF HashMatches(PieceOf(t)) THEN "seek" ELSE "reset")
    /\ UNCHANGED <<pieceVars, pendingRequests, peers, blockVars, fileVars, proc, leaving>>

(* Mutant: no seek, data is written where the last write ended.            *)
Seek_Omitted(t) ==
    /\ Alive /\ pc[t] = "seek"
    /\ Goto(t, "put")
    /\ UNCHANGED <<pieceVars, pendingRequests, peers, blockVars, fileVars, proc, leaving>>

(* write(): downloadedFile.seekp(position) ...                             *)
Seek(t) ==
    /\ Alive /\ pc[t] = "seek"
    /\ filePos' = PieceOf(t)
    /\ Goto(t, "put")
    /\ UNCHANGED <<pieceVars, pendingRequests, peers, blockVars, disk, proc, leaving>>

(* ... and downloadedFile << piece->data(), at wherever the position is.   *)
Put(t) ==
    /\ Alive /\ pc[t] = "put"
    /\ FALSE \in Asserts \/ IsPieceComplete(PieceOf(t))
    /\ disk' = [disk EXCEPT ![filePos] =
                  IF filePos = PieceOf(t) /\ HashMatches(PieceOf(t))
                    THEN "good" ELSE "bad"]
    /\ filePos' = IF filePos = totalPieces THEN totalPieces ELSE filePos + 1
    /\ Goto(t, "commit")
    /\ UNCHANGED <<pieceVars, pendingRequests, peers, blockVars, proc, leaving>>

(* Mutant: the piece stays in ongoingPieces.                               *)
Commit_NoErase(t) ==
    /\ Alive /\ pc[t] = "commit"
    /\ havePieces' = Append(havePieces, PieceOf(t))
    /\ Goto(t, "ready")
    /\ UNCHANGED <<missingPieces, ongoingPieces, pendingRequests, peers, blockVars,
                   fileVars, proc, leaving>>

(* The second critical section: from ongoingPieces to havePieces.          *)
Commit(t) ==
    /\ Alive /\ pc[t] = "commit"
    /\ \/ \E i \in DOMAIN ongoingPieces :
             /\ ongoingPieces[i] = PieceOf(t)
             /\ ongoingPieces' = RemoveAt(ongoingPieces, i)
       \/ /\ PieceOf(t) \notin Started
          /\ UNCHANGED ongoingPieces
    /\ havePieces' = Append(havePieces, PieceOf(t))
    /\ Goto(t, "ready")
    /\ UNCHANGED <<missingPieces, pendingRequests, peers, blockVars, fileVars,
                   proc, leaving>>

(* Mutant: the piece goes back to missingPieces.                           *)
Reset_ToMissing(t) ==
    /\ Alive /\ pc[t] = "reset"
    /\ status' = [b \in Block |->
                    IF b[1] = PieceOf(t) THEN "missing" ELSE status[b]]
    /\ missingPieces' = missingPieces \cup {PieceOf(t)}
    /\ ongoingPieces' = SelectSeq(ongoingPieces, LAMBDA p : p # PieceOf(t))
    /\ Goto(t, "ready")
    /\ UNCHANGED <<havePieces, pendingRequests, peers, data, fileVars, proc, leaving>>

(* Piece::reset: every block is missing again; its old data stays.         *)
Reset(t) ==
    /\ Alive /\ pc[t] = "reset"
    /\ status' = [b \in Block |->
                    IF b[1] = PieceOf(t) THEN "missing" ELSE status[b]]
    /\ Goto(t, "ready")
    /\ UNCHANGED <<pieceVars, pendingRequests, peers, data, fileVars, proc, leaving>>

(* The statements of blockReceived after its first critical section.       *)
Deliver(t) ==
    /\ pc[t] \in Delivering
    /\ \/ StoreStatus(t) \/ StoreData(t) \/ DataRace(t) \/ CheckComplete(t)
       \/ AssertFails(t) \/ CheckHash(t) \/ Seek(t) \/ Put(t) \/ Commit(t)
       \/ Reset(t)

(* One unit of std::time passes; ages saturate at maxPendingTime.          *)
Tick ==
    /\ Alive
    /\ \E i \in DOMAIN pendingRequests : pendingRequests[i].age < maxPendingTime
    /\ pendingRequests' =
         [i \in DOMAIN pendingRequests |->
            [pendingRequests[i] EXCEPT !.age =
               IF @ < maxPendingTime THEN @ + 1 ELSE @]]
    /\ UNCHANGED <<pieceVars, peers, blockVars, fileVars, proc, callVars>>

(* The process is ended from outside the manager: by a signal, or by an    *)
(* exception no caller catches.                                            *)
Terminate ==
    /\ Alive
    /\ proc' = "crashed"
    /\ UNCHANGED <<pieceVars, pendingRequests, peers, blockVars, fileVars, callVars>>

(* The operations, with every argument a caller can give them.             *)
Call(t) ==
    \/ \E peer \in PeerId, pieces \in SUBSET Piece : AddPeer(t, peer, pieces)
    \/ \E peer \in PeerId, p \in Piece : UpdatePeer(t, peer, p)
    \/ \E peer \in PeerId : RemovePeer(t, peer)
    \/ \E peer \in PeerId, b \in Block \cup {NoBlock} : NextRequest(t, peer, b)
    \/ \E b \in Address, d \in {"good", "bad"} : BlockReceived(t, b, d)

Next ==
    \/ Tick
    \/ Terminate
    \/ \E t \in Thread : Call(t) \/ Deliver(t) \/ ErasePeer(t) \/ Catch(t)

Spec == Init /\ [][Next]_vars

-----------------------------------------------------------------------------
(* Properties that hold for any number of threads.                         *)

Status == {"missing", "pending", "retrieved"}
Datum == {"none", "good", "bad"}
Request == [block : Block, age : 0 .. maxPendingTime]

(* Every variable has the type its declaration in PieceManager.h gives it, *)
(* no piece is twice in ongoingPieces, and a call that is between two of   *)
(* its statements holds the arguments it works on.                         *)
TypeOK ==
    /\ missingPieces \in SUBSET Piece
    /\ ongoingPieces \in Seq(Piece) /\ IsInjective(ongoingPieces)
    /\ havePieces \in Seq(Piece)
    /\ pendingRequests \in Seq(Request)
    /\ DOMAIN peers \subseteq PeerId
    /\ peers \in [DOMAIN peers -> SUBSET Piece]
    /\ status \in [Block -> Status]
    /\ data \in [Block -> Datum]
    /\ disk \in [Region -> Datum]
    /\ filePos \in Region
    /\ proc \in {"running", "undefined", "crashed"}
    /\ pc \in [Thread -> Label]
    /\ blk \in [Thread -> Address \cup {NoBlock}]
    /\ dat \in [Thread -> Datum]
    /\ leaving \in [Thread -> PeerId \cup {NoBlock}]
    /\ \A t \in Thread :
          /\ pc[t] \in Delivering => blk[t] \in Address /\ PieceOf(t) \in Piece
          /\ pc[t] \in Delivering \ {"store_status"} => blk[t] \in Block

(* Pieces are neither lost nor in two lists, whatever the interleaving of  *)
(* calls and of the unlocked half of blockReceived, unless nextRequest     *)
(* used its uninitialised pointer: the destructor deletes each list's      *)
(* pieces, and a piece in no list is never finished.                       *)
PieceAccounting ==
    proc = "running" =>
        /\ Started \cup Have = Piece \ missingPieces
        /\ Started \cap Have = {}

(* A piece that was never started is untouched: none of its blocks was     *)
(* requested or stored, nothing is pending for it, and no thread, however  *)
(* late, is still delivering a block to it.                                *)
MissingUntouched ==
    proc = "running" =>
        \A p \in missingPieces :
            /\ \A b \in BlocksOf(p) : status[b] = "missing" /\ data[b] = "none"
            /\ \A i \in DOMAIN pendingRequests : pendingRequests[i].block[1] # p
            /\ \A t \in Thread : pc[t] \in Delivering => PieceOf(t) # p

(* The two need each other: what is committed is taken out of              *)
(* ongoingPieces only because a piece with data has been put in there.     *)
Accounting == PieceAccounting /\ MissingUntouched

(* Only data that was received is ever committed: Block::status says       *)
(* "retrieved" one statement before Block::data is assigned, so another    *)
(* thread can find a piece complete whose last block has no data yet.      *)
HaveWasDelivered ==
    \A p \in Have : \A b \in BlocksOf(p) : data[b] # "none"

(* A piece is committed at most once per thread: blockReceived does not    *)
(* look again, when it locks for the second time, whether another thread   *)
(* has committed the piece, but it cannot reach that point twice.          *)
CommitsBounded ==
    proc = "running" =>
        \A p \in Piece :
            Cardinality({i \in DOMAIN havePieces : havePieces[i] = p})
              <= Cardinality(Thread)

-----------------------------------------------------------------------------
(* Properties of a client with one connection thread (option -n 1).  The   *)
(* runs and findings of two threads show that each of them needs this.     *)

(* What is marked as downloaded is on disk: the file holds the verified    *)
(* data of every piece in havePieces.                                      *)
DiskMatchesHave == \A p \in Have : disk[p] = "good"

(* isComplete() is true exactly when every piece is in havePieces (it      *)
(* compares the length of the list with totalPieces).                      *)
CompleteMeansAll ==
    proc = "running" => (IsComplete <=> Have = Piece)

(* A pending request is for a block that is marked pending, in a started   *)
(* piece, and is the only one for that block: a request that expires is    *)
(* reissued for a block still needed, and once.                            *)
PendingExact ==
    proc = "running" =>
        /\ \A i, j \in DOMAIN pendingRequests :
              pendingRequests[i].block = pendingRequests[j].block => i = j
        /\ \A i \in DOMAIN pendingRequests :
              /\ status[pendingRequests[i].block] = "pending"
              /\ pendingRequests[i].block[1] \in Started

(* No call is ever given a block of a piece that is already downloaded.    *)
NeverRequestedAgain ==
    [][\A t \in Thread, peer \in PeerId, b \in Block :
          proc' = "running" /\ NextRequest(t, peer, b) => b[1] \notin Have]_vars

(* The assertion at the head of Piece::data never fails: a thread that     *)
(* found its piece complete still finds it complete when it hashes and     *)
(* when it writes it.                                                      *)
DataIsComplete ==
    \A t \in Thread :
        pc[t] \in {"check_hash", "seek", "put"} => IsPieceComplete(PieceOf(t))

(* A block that waits for an answer is in pendingRequests, where           *)
(* expiredRequest looks for requests to reissue, from the moment it is     *)
(* requested until its answer is stored - except the block that started    *)
(* its piece, whose request getRarestPiece's caller does not record: that  *)
(* one is never reissued.                                                  *)
PendingTracked ==
    proc = "running" =>
        \A b \in Block :
            status[b] = "pending" =>
                \/ b[2] = 0
                \/ \E i \in DOMAIN pendingRequests : pendingRequests[i].block = b
                \/ \E t \in Thread : pc[t] = "store_status" /\ blk[t] = b

VD == INSTANCE VerifiedDownload
        WITH have <- Have, disk <- [p \in Piece |-> disk[p]]

(* The manager is an implementation of VerifiedDownload: a piece is in     *)
(* havePieces only after its verified data is in its place in the file,    *)
(* and the place is never overwritten with anything else.                  *)
ImplementsVerifiedDownload == VD!Spec
=============================================================================
