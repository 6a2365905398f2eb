--------------------------- MODULE OneThreadProofs ---------------------------
(***************************************************************************)
(* Proofs about PieceManager when a single thread calls it, as in a client *)
(* started with one connection: nothing interleaves with the statements of *)
(* blockReceived that run without the lock.                                *)
(***************************************************************************)
EXTENDS PieceManagerProofs

OneThread == \A t, u \in Thread : t = u

(* Where the piece a thread delivers to is complete, and where its hash    *)
(* has been found to match.                                                *)
Verifying == {"check_hash", "seek", "put", "commit", "reset"}

(* The inductive invariant of the writing half: between the test that a    *)
(* piece is complete and its commit nothing changes the piece, the put     *)
(* position is the piece's own when its data is put, and it is committed   *)
(* only after that.                                                        *)
WriteInv ==
    /\ TypeOK
    /\ \A t \in Thread :
          /\ pc[t] \in Verifying => IsPieceComplete(PieceOf(t))
          /\ pc[t] \in {"seek", "put"} => HashMatches(PieceOf(t))
          /\ pc[t] = "put" => filePos = PieceOf(t)
          /\ pc[t] = "commit" => disk[PieceOf(t)] = "good"
    /\ DiskMatchesHave

LEMMA InitWriteInv == Init => WriteInv
<1> SUFFICES ASSUME Init PROVE WriteInv
  OBVIOUS
<1>1. TypeOK
  BY InitTypeOK
<1>2. Have = {}
  BY EmptySequence DEF Init, Have
<1> QED
  BY <1>1, <1>2 DEF Init, WriteInv, DiskMatchesHave, Verifying

(* A step that leaves the blocks, the file and havePieces alone, and does  *)
(* not bring a thread to one of the last statements, keeps WriteInv.       *)
LEMMA WriteInvKept ==
    ASSUME WriteInv, TypeOK',
           UNCHANGED <<havePieces, disk, filePos>>,
           \A t \in Thread : pc'[t] \in Verifying =>
               /\ pc[t] = pc'[t]
               /\ blk'[t] = blk[t]
               /\ \A b \in BlocksOf(PieceOf(t)) :
                     /\ status[b] = "retrieved" => status'[b] = "retrieved"
                     /\ data'[b] = data[b]
    PROVE  WriteInv'
<1>1. ASSUME NEW t \in Thread
      PROVE  /\ pc'[t] \in Verifying => IsPieceComplete(PieceOf(t))'
             /\ pc'[t] \in {"seek", "put"} => HashMatches(PieceOf(t))'
             /\ pc'[t] = "put" => filePos' = PieceOf(t)'
             /\ pc'[t] = "commit" => disk'[PieceOf(t)'] = "good"
  <2>1. CASE pc'[t] \in Verifying
    BY <2>1 DEF WriteInv, IsPieceComplete, HashMatches, PieceOf, BlocksOf, Verifying
  <2>2. CASE pc'[t] \notin Verifying
    BY <2>2 DEF Verifying
  <2> QED
    BY <2>1, <2>2
<1>2. DiskMatchesHave'
  BY DEF WriteInv, DiskMatchesHave, Have
<1> QED
  BY <1>1, <1>2 DEF WriteInv

(* nextRequest marks only missing blocks, so a complete piece stays so.    *)
LEMMA NextRequestKeepsRetrieved ==
    ASSUME TypeOK, NEW t \in Thread, NEW peer, NEW b, NextRequest(t, peer, b),
           NEW c \in Block, status[c] = "retrieved"
    PROVE  status'[c] = "retrieved"
<1>1. ASSUME NEW p, PieceNextRequest(p, b)
      PROVE  status'[c] = "retrieved"
  BY <1>1 DEF PieceNextRequest, MissingBlocks, BlocksOf, TypeOK
<1>2. \/ UNCHANGED status
      \/ \E p : PieceNextRequest(p, b)
  BY DEF NextRequest, ExpiredRequest, NextOngoing, GetRarestPiece, StartPiece
<1> QED
  BY <1>1, <1>2

LEMMA CallWriteInv ==
    ASSUME WriteInv, TypeOK', NEW t \in Thread, Call(t) \/ ErasePeer(t) \/ Catch(t)
    PROVE  WriteInv'
<1> USE DEF WriteInv
<1>1. /\ UNCHANGED <<havePieces, disk, filePos, data>>
      /\ \A u \in Thread : pc'[u] \in Verifying => pc[u] = pc'[u] /\ blk'[u] = blk[u]
  <2>1. CASE \E peer \in PeerId, b \in Block \cup {NoBlock} : NextRequest(t, peer, b)
    <3>1. PICK peer \in PeerId, b \in Block \cup {NoBlock} : NextRequest(t, peer, b)
      BY <2>1
    <3>2. UNCHANGED <<data, fileVars, callVars>>
      BY <3>1 DEF NextRequest
    <3>3. UNCHANGED havePieces
      BY <3>1 DEF NextRequest, ExpiredRequest, NextOngoing, GetRarestPiece, StartPiece, pieceVars
    <3> QED
      BY <3>2, <3>3 DEF fileVars, callVars
  <2>2. CASE \E b \in Address, d \in {"good", "bad"} : BlockReceived(t, b, d)
    BY <2>2 DEF BlockReceived, pieceVars, blockVars, fileVars, Verifying, TypeOK
  <2>3. CASE \E peer \in PeerId :
                \/ \E pieces \in SUBSET Piece : AddPeer(t, peer, pieces)
                \/ \E p \in Piece : UpdatePeer(t, peer, p)
                \/ RemovePeer(t, peer)
    BY <2>3 DEF AddPeer, UpdatePeer, RemovePeer, pieceVars, blockVars, fileVars, callVars,
                Verifying, TypeOK
  <2>4. CASE ErasePeer(t) \/ Catch(t)
    BY <2>4 DEF ErasePeer, Catch, pieceVars, blockVars, fileVars, Verifying, TypeOK
  <2> QED
    BY <2>1, <2>2, <2>3, <2>4 DEF Call
<1>2. \A c \in Block : status[c] = "retrieved" => status'[c] = "retrieved"
  BY NextRequestKeepsRetrieved
     DEF Call, ErasePeer, Catch, AddPeer, UpdatePeer, RemovePeer, BlockReceived, blockVars
<1>3. \A p : BlocksOf(p) \subseteq Block
  BY DEF BlocksOf
<1> QED
  BY <1>1, <1>2, <1>3, WriteInvKept

(* The label and the block after a statement of the only thread.           *)
LEMMA GotoOnly ==
    ASSUME OneThread, TypeOK, NEW t \in Thread, NEW l, Goto(t, l)
    PROVE  /\ pc'[t] = l
           /\ l \in Delivering => blk'[t] = blk[t]
           /\ \A u \in Thread : u = t
  BY DEF OneThread, Goto, TypeOK

LEMMA DeliverWriteInv ==
    ASSUME OneThread, WriteInv, TypeOK', NEW t \in Thread, Deliver(t)
    PROVE  WriteInv'
<1> USE DEF WriteInv
<1>0. /\ Verifying \subseteq Delivering
      /\ {"seek", "put", "commit"} \subseteq Verifying
      /\ \A p : BlocksOf(p) \subseteq Block
      /\ pc[t] \in Delivering => PieceOf(t) \in Piece /\ PieceOf(t) \in Region
  BY BlockProperties DEF Verifying, Delivering, BlocksOf, TypeOK
<1>1. CASE StoreStatus(t) \/ StoreData(t) \/ Reset(t)
  <2>1. \E l \in {"store_data", "thrown", "check_complete", "ready"} : Goto(t, l)
    BY <1>1 DEF StoreStatus, StoreData, Reset
  <2>2. \A u \in Thread : pc'[u] \notin Verifying
    BY <2>1, GotoOnly DEF Verifying
  <2>3. UNCHANGED <<havePieces, disk, filePos>>
    BY <1>1 DEF StoreStatus, StoreData, Reset, pieceVars, fileVars
  <2> QED
    BY <2>2, <2>3, WriteInvKept
<1>2. CASE DataRace(t) \/ AssertFails(t)
  BY <1>2, WriteInvKept DEF DataRace, AssertFails, pieceVars, blockVars, fileVars, callVars
<1>3. CASE CheckComplete(t)
  <2>1. UNCHANGED <<havePieces, disk, filePos, status, data>>
    BY <1>3 DEF CheckComplete, pieceVars, blockVars, fileVars
  <2>2. PICK l \in {"check_hash", "ready"} :
           Goto(t, l) /\ (l = "check_hash" => IsPieceComplete(PieceOf(t)))
    BY <1>3 DEF CheckComplete
  <2>3. /\ \A u \in Thread : u = t
        /\ pc'[t] \in Verifying => pc'[t] = "check_hash"
        /\ pc'[t] = "check_hash" => IsPieceComplete(PieceOf(t)) /\ blk'[t] = blk[t]
    BY <2>2, GotoOnly DEF Verifying, Delivering
  <2>4. ASSUME NEW u \in Thread
        PROVE  /\ pc'[u] \in Verifying => IsPieceComplete(PieceOf(u))'
               /\ pc'[u] \notin {"seek", "put", "commit"}
    <3>1. u = t
      BY <2>3
    <3>2. pc'[t] \in {"check_hash", "ready"}
      BY <2>2, GotoOnly
    <3> QED
      BY <2>1, <2>3, <3>1, <3>2 DEF IsPieceComplete, PieceOf
  <2>5. DiskMatchesHave'
    BY <2>1 DEF DiskMatchesHave, Have
  <2> QED
    BY <2>4, <2>5
<1>4. CASE CheckHash(t)
  <2>1. UNCHANGED <<havePieces, disk, filePos, status, data>>
    BY <1>4 DEF CheckHash, pieceVars, blockVars, fileVars
  <2>2. PICK l \in {"seek", "reset"} :
           Goto(t, l) /\ (l = "seek" => HashMatches(PieceOf(t)))
    BY <1>4 DEF CheckHash
  <2>3. /\ \A u \in Thread : u = t
        /\ pc'[t] = l /\ blk'[t] = blk[t]
    BY <1>4, <2>2, GotoOnly DEF CheckHash, Delivering
  <2>4. IsPieceComplete(PieceOf(t))
    BY <1>4 DEF CheckHash, Verifying
  <2> QED
    BY <2>1, <2>2, <2>3, <2>4 DEF IsPieceComplete, HashMatches, PieceOf, DiskMatchesHave, Have
<1>5. CASE Seek(t)
  <2>1. UNCHANGED <<havePieces, disk, status, data>> /\ filePos' = PieceOf(t)
    BY <1>5 DEF Seek, pieceVars, blockVars
  <2>2. /\ \A u \in Thread : u = t
        /\ pc'[t] = "put" /\ blk'[t] = blk[t]
    BY <1>5, GotoOnly DEF Seek, Delivering
  <2>3. IsPieceComplete(PieceOf(t)) /\ HashMatches(PieceOf(t))
    BY <1>0, <1>5 DEF Seek
  <2> QED
    BY <2>1, <2>2, <2>3 DEF IsPieceComplete, HashMatches, PieceOf, DiskMatchesHave, Have
<1>6. CASE Put(t)
  <2>1. UNCHANGED <<havePieces, status, data>>
    BY <1>6 DEF Put, pieceVars, blockVars
  <2>2. /\ \A u \in Thread : u = t
        /\ pc'[t] = "commit" /\ blk'[t] = blk[t]
    BY <1>6, GotoOnly DEF Put, Delivering
  <2>3. /\ IsPieceComplete(PieceOf(t)) /\ HashMatches(PieceOf(t))
        /\ filePos = PieceOf(t) /\ PieceOf(t) \in Region
    BY <1>0, <1>6 DEF Put, Delivering
  <2>4. disk' = [disk EXCEPT ![PieceOf(t)] = "good"]
    BY <1>6, <2>3 DEF Put
  <2>5. DiskMatchesHave'
    BY <2>1, <2>3, <2>4 DEF DiskMatchesHave, Have, TypeOK
  <2>6. IsPieceComplete(PieceOf(t))' /\ disk'[PieceOf(t)'] = "good"
    BY <2>1, <2>2, <2>3, <2>4 DEF IsPieceComplete, PieceOf, TypeOK
  <2> QED
    BY <2>2, <2>5, <2>6
<1>7. CASE Commit(t)
  <2>1. UNCHANGED <<disk, filePos, status, data>> /\ disk[PieceOf(t)] = "good"
    BY <1>7 DEF Commit, blockVars, fileVars
  <2>2. \A u \in Thread : pc'[u] = "ready"
    BY <1>7, GotoOnly DEF Commit
  <2>3. Have' = Have \cup {PieceOf(t)}
    BY <1>0, <1>7, AppendToSet DEF Commit, Have, TypeOK, Delivering
  <2>4. DiskMatchesHave'
    BY <2>1, <2>3 DEF DiskMatchesHave
  <2> QED
    BY <2>2, <2>4 DEF Verifying
<1> QED
  BY <1>1, <1>2, <1>3, <1>4, <1>5, <1>6, <1>7 DEF Deliver

LEMMA NextWriteInv ==
    ASSUME OneThread
    PROVE  WriteInv /\ [Next]_vars => WriteInv'
<1> SUFFICES ASSUME WriteInv, [Next]_vars PROVE WriteInv'
  OBVIOUS
<1>0. TypeOK'
  BY NextTypeOK DEF WriteInv
<1>1. CASE Tick \/ Terminate \/ UNCHANGED vars
  BY <1>0, <1>1, WriteInvKept
     DEF Tick, Terminate, vars, pieceVars, blockVars, fileVars, callVars
<1> QED
  BY <1>0, <1>1, CallWriteInv, DeliverWriteInv DEF Next

LEMMA WriteInvariant ==
    ASSUME OneThread
    PROVE  Spec => []WriteInv
<1>1. Init => WriteInv
  BY InitWriteInv
<1>2. WriteInv /\ [Next]_vars => WriteInv'
  BY NextWriteInv
<1> QED
  BY <1>1, <1>2, PTL DEF Spec

(* With one thread the file holds the verified data of every piece in      *)
(* havePieces.                                                             *)
THEOREM OneThreadDisk ==
    ASSUME OneThread
    PROVE  Spec => []DiskMatchesHave
<1>1. WriteInv => DiskMatchesHave
  BY DEF WriteInv
<1> QED
  BY <1>1, WriteInvariant, PTL

(* With one thread the assertion in Piece::data holds wherever it is run:  *)
(* between the test that the piece is complete and its write no block of   *)
(* it is given up.                                                         *)
THEOREM OneThreadAssertion ==
    ASSUME OneThread
    PROVE  Spec => []DataIsComplete
<1>1. WriteInv => DataIsComplete
  BY DEF WriteInv, DataIsComplete, Verifying
<1> QED
  BY <1>1, WriteInvariant, PTL

-----------------------------------------------------------------------------
(* The specification of what the manager promises.                         *)

LEMMA WriteInvRefines ==
    ASSUME OneThread
    PROVE  WriteInv /\ [Next]_vars => [VD!Next]_VD!vars
<1> SUFFICES ASSUME WriteInv, [Next]_vars PROVE [VD!Next]_VD!vars
  OBVIOUS
<1> USE DEF WriteInv
<1>0. Piece \subseteq Region
  BY BlockProperties
<1>1. ASSUME UNCHANGED <<havePieces, disk>>
      PROVE  UNCHANGED VD!vars
  BY <1>1 DEF VD!vars, Have
<1>2. ASSUME NEW t \in Thread, Put(t)
      PROVE  VD!Next
  <2>1. /\ filePos = PieceOf(t) /\ HashMatches(PieceOf(t)) /\ PieceOf(t) \in Piece
        /\ UNCHANGED havePieces
    BY <1>2 DEF Put, Delivering, TypeOK, pieceVars
  <2>2. disk' = [disk EXCEPT ![PieceOf(t)] = "good"]
    BY <1>2, <2>1 DEF Put
  <2>3. [p \in Piece |-> disk'[p]]
          = [[p \in Piece |-> disk[p]] EXCEPT ![PieceOf(t)] = "good"]
    BY <1>0, <2>1, <2>2 DEF TypeOK
  <2> QED
    BY <2>1, <2>3 DEF VD!Next, VD!Write, Have
<1>3. ASSUME NEW t \in Thread, Commit(t)
      PROVE  VD!Next
  <2>1. PieceOf(t) \in Piece /\ disk[PieceOf(t)] = "good" /\ UNCHANGED disk
    BY <1>3 DEF Commit, Delivering, TypeOK, fileVars
  <2>2. Have' = Have \cup {PieceOf(t)}
    BY <1>3, <2>1, AppendToSet DEF Commit, Have, TypeOK
  <2>3. VD!Announce(PieceOf(t))
    BY <2>1, <2>2 DEF VD!Announce
  <2> QED
    BY <2>1, <2>3 DEF VD!Next
<1>4. ASSUME NEW t \in Thread,
             \/ StoreStatus(t) \/ StoreData(t) \/ DataRace(t) \/ CheckComplete(t)
             \/ AssertFails(t) \/ CheckHash(t) \/ Seek(t) \/ Reset(t)
      PROVE  UNCHANGED <<havePieces, disk>>
  BY <1>4 DEF StoreStatus, StoreData, DataRace, CheckComplete, AssertFails, CheckHash,
              Seek, Reset, pieceVars, fileVars
<1>5. ASSUME NEW t \in Thread, Call(t) \/ ErasePeer(t) \/ Catch(t)
      PROVE  UNCHANGED <<havePieces, disk>>
  BY <1>5 DEF Call, ErasePeer, Catch, AddPeer, UpdatePeer, RemovePeer, BlockReceived,
              NextRequest, ExpiredRequest, NextOngoing, GetRarestPiece, StartPiece,
              pieceVars, fileVars
<1>6. ASSUME Tick \/ Terminate \/ UNCHANGED vars
      PROVE  UNCHANGED <<havePieces, disk>>
  BY <1>6 DEF Tick, Terminate, vars, pieceVars, fileVars
<1> QED
  BY <1>1, <1>2, <1>3, <1>4, <1>5, <1>6 DEF Next, Deliver

(* With one thread, the manager implements VerifiedDownload.               *)
THEOREM OneThreadRefines ==
    ASSUME OneThread
    PROVE  Spec => ImplementsVerifiedDownload
<1>1. Init => VD!Init
  <2> SUFFICES ASSUME Init PROVE VD!Init
    OBVIOUS
  <2>1. Have = {}
    BY EmptySequence DEF Init, Have
  <2>2. [p \in Piece |-> disk[p]] = [p \in Piece |-> "none"]
    BY BlockProperties DEF Init
  <2> QED
    BY <2>1, <2>2 DEF VD!Init
<1>2. WriteInv /\ [Next]_vars => [VD!Next]_VD!vars
  BY WriteInvRefines
<1> QED
  BY <1>1, <1>2, WriteInvariant, PTL DEF Spec, ImplementsVerifiedDownload, VD!Spec

-----------------------------------------------------------------------------
(* The books: havePieces has no piece twice, deliveries and requests are   *)
(* for started pieces, and a block whose data is being stored has no       *)
(* pending request any more.                                               *)

Books ==
    /\ IsInjective(havePieces)
    /\ \A t \in Thread : pc[t] \in Delivering => PieceOf(t) \in Started
    /\ \A t \in Thread : pc[t] = "store_status" =>
          \A i \in DOMAIN pendingRequests : pendingRequests[i].block # blk[t]
    /\ \A i, j \in DOMAIN pendingRequests :
          pendingRequests[i].block = pendingRequests[j].block => i = j
    /\ \A i \in DOMAIN pendingRequests :
          /\ status[pendingRequests[i].block] = "pending"
          /\ pendingRequests[i].block[1] \in Started

BookInv == Accounted /\ WriteInv /\ (proc = "running" => Books)

LEMMA InitBookInv == Init => BookInv
<1> SUFFICES ASSUME Init PROVE BookInv
  OBVIOUS
<1>1. IsInjective(havePieces) /\ DOMAIN pendingRequests = {}
  BY EmptySequence DEF Init
<1>2. \A t \in Thread : pc[t] \notin Delivering /\ pc[t] # "store_status"
  BY DEF Init, Delivering
<1> QED
  BY <1>1, <1>2, InitAccounted, InitWriteInv DEF BookInv, Books

(* A step that takes no piece out of ongoingPieces, adds no request, and   *)
(* leaves the blocks with a pending request alone, keeps the books.        *)
LEMMA BooksKept ==
    ASSUME Books,
           UNCHANGED havePieces, Started \subseteq Started',
           DOMAIN pendingRequests' = DOMAIN pendingRequests,
           \A i \in DOMAIN pendingRequests :
               /\ pendingRequests'[i].block = pendingRequests[i].block
               /\ status'[pendingRequests[i].block] = status[pendingRequests[i].block],
           \A t \in Thread : pc'[t] \in Delivering =>
               /\ pc[t] \in Delivering /\ blk'[t] = blk[t]
               /\ pc'[t] = "store_status" => pc[t] = "store_status"
    PROVE  Books'
<1>1. "store_status" \in Delivering
  BY DEF Delivering
<1>2. \A t \in Thread : pc'[t] \in Delivering => PieceOf(t)' \in Started'
  BY DEF Books, PieceOf
<1>3. \A t \in Thread : pc'[t] = "store_status" =>
         \A i \in DOMAIN pendingRequests' : pendingRequests'[i].block # blk'[t]
  BY <1>1 DEF Books
<1>4. \A i \in DOMAIN pendingRequests' :
         /\ status'[pendingRequests'[i].block] = "pending"
         /\ pendingRequests'[i].block[1] \in Started'
  BY DEF Books
<1>5. \A i, j \in DOMAIN pendingRequests' :
         pendingRequests'[i].block = pendingRequests'[j].block => i = j
  BY DEF Books
<1> QED
  BY <1>2, <1>3, <1>4, <1>5 DEF Books

LEMMA PieceNextRequestOther ==
    ASSUME TypeOK, NEW p, NEW b, PieceNextRequest(p, b),
           NEW c \in Block, status[c] = "pending"
    PROVE  status'[c] = "pending"
  BY DEF PieceNextRequest, MissingBlocks, BlocksOf, TypeOK

LEMMA NextRequestBooks ==
    ASSUME OneThread, TypeOK, Books, proc' = "running", NEW t \in Thread,
           NEW peer \in PeerId, NEW b \in Block \cup {NoBlock}, NextRequest(t, peer, b)
    PROVE  Books'
<1>0. /\ UNCHANGED <<pc, blk>>
      /\ \A i \in DOMAIN pendingRequests : pendingRequests[i] \in Request
      /\ DOMAIN pendingRequests = 1 .. Len(pendingRequests)
      /\ Len(pendingRequests) \in Nat
  BY ElementOfSeq, LenProperties DEF NextRequest, callVars, TypeOK
<1>1. CASE UNCHANGED <<pieceVars, pendingRequests, status>>
  BY <1>0, <1>1, BooksKept DEF pieceVars, Started
<1>2. CASE ExpiredRequest(peer, b)
  <2>1. PICK i \in DOMAIN pendingRequests :
           pendingRequests' = [pendingRequests EXCEPT ![i].age = 0]
    BY <1>2 DEF ExpiredRequest, Expired
  <2>2. \A j \in DOMAIN pendingRequests :
           pendingRequests'[j].block = pendingRequests[j].block
    BY <1>0, <2>1 DEF Request
  <2> QED
    BY <1>0, <1>2, <2>1, <2>2, BooksKept DEF ExpiredRequest, pieceVars, Started
<1>3. CASE NextOngoing(peer, b)
  <2>1. PICK i \in Requestable(peer) :
           /\ PieceNextRequest(ongoingPieces[i], b)
           /\ pendingRequests' = Append(pendingRequests, [block |-> b, age |-> 0])
    BY <1>3 DEF NextOngoing
  <2>2. ongoingPieces[i] \in Started /\ MissingBlocks(ongoingPieces[i]) # {}
    BY DEF Started, ToSet, Requestable
  <2>3. /\ b \in Block /\ b[1] \in Started /\ status[b] = "missing"
        /\ status' = [status EXCEPT ![b] = "pending"]
    BY <2>1, <2>2 DEF PieceNextRequest, MissingBlocks, BlocksOf
  <2>4. [block |-> b, age |-> 0] \in Request
    BY <2>3, PendingTimeAssumption DEF Request
  <2> DEFINE n == Len(pendingRequests)
  <2>5. /\ DOMAIN pendingRequests' = 1 .. n + 1
        /\ \A k \in 1 .. n : pendingRequests'[k] = pendingRequests[k]
        /\ pendingRequests'[n + 1].block = b
    BY <2>1, <2>4, AppendProperties, LenProperties DEF TypeOK
  <2>6. UNCHANGED pieceVars
    BY <1>3 DEF NextOngoing
  <2>7. \A k \in 1 .. n : pendingRequests[k].block \in Block /\ pendingRequests[k].block # b
    BY <1>0, <2>3 DEF Books, Request
  <2>8. \A k \in DOMAIN pendingRequests' :
           k \in 1 .. n \/ (k = n + 1 /\ pendingRequests'[k].block = b)
    BY <1>0, <2>5
  <2>9. \A k \in DOMAIN pendingRequests' :
           /\ status'[pendingRequests'[k].block] = "pending"
           /\ pendingRequests'[k].block[1] \in Started
    BY <1>0, <2>3, <2>5, <2>7, <2>8 DEF Books, TypeOK
  <2>10. \A k, j \in DOMAIN pendingRequests' :
            pendingRequests'[k].block = pendingRequests'[j].block => k = j
    BY <1>0, <2>5, <2>7, <2>8 DEF Books
  <2>11. ASSUME NEW u \in Thread, pc[u] = "store_status"
         PROVE  \A k \in DOMAIN pendingRequests' : pendingRequests'[k].block # blk[u]
    BY <2>11 DEF OneThread, NextRequest
  <2> QED
    BY <1>0, <2>6, <2>9, <2>10, <2>11 DEF Books, pieceVars, Started, PieceOf
<1>4. ASSUME NEW p \in Piece, StartPiece(p, b)
      PROVE  Books'
  <2>1. Started \subseteq Started' /\ UNCHANGED <<havePieces, pendingRequests>>
    BY <1>4, AppendToSet DEF StartPiece, Started, TypeOK
  <2>2. \A i \in DOMAIN pendingRequests :
           status'[pendingRequests[i].block] = status[pendingRequests[i].block]
    BY <1>0, <1>4, PieceNextRequestOther DEF StartPiece, Books, Request
  <2> QED
    BY <1>0, <2>1, <2>2, BooksKept
<1> QED
  BY <1>1, <1>2, <1>3, <1>4, StaleAssumption DEF NextRequest, GetRarestPiece, TypeOK

LEMMA BlockReceivedBooks ==
    ASSUME OneThread, TypeOK, Books, NEW t \in Thread, NEW b \in Address,
           NEW d \in {"good", "bad"}, BlockReceived(t, b, d)
    PROVE  Books'
<1>0. /\ pendingRequests \in Seq(Request)
      /\ DOMAIN pendingRequests = 1 .. Len(pendingRequests)
      /\ Len(pendingRequests) \in Nat
      /\ UNCHANGED <<pieceVars, status>>
      /\ \A u \in Thread : u = t
  BY LenProperties DEF TypeOK, BlockReceived, blockVars, OneThread
<1>1. \A k \in DOMAIN pendingRequests' :
         \E j \in DOMAIN pendingRequests : pendingRequests'[k] = pendingRequests[j]
  BY DropPendingType DEF BlockReceived
<1>2. /\ \A k \in DOMAIN pendingRequests' : pendingRequests'[k].block # b
      /\ \A k, j \in DOMAIN pendingRequests' :
            pendingRequests'[k].block = pendingRequests'[j].block => k = j
  <2>1. CASE UNCHANGED pendingRequests
            /\ \A i \in DOMAIN pendingRequests : pendingRequests[i].block # b
    BY <2>1 DEF Books
  <2>2. CASE \E i \in DOMAIN pendingRequests :
                pendingRequests[i].block = b /\ pendingRequests' = RemoveAt(pendingRequests, i)
    <3>1. PICK i \in DOMAIN pendingRequests :
             pendingRequests[i].block = b /\ pendingRequests' = RemoveAt(pendingRequests, i)
      BY <2>2
    <3>2. /\ DOMAIN pendingRequests' = 1 .. Len(pendingRequests) - 1
          /\ \A k \in 1 .. Len(pendingRequests) - 1 :
                pendingRequests'[k] = IF k < i THEN pendingRequests[k]
                                               ELSE pendingRequests[k + 1]
      BY <1>0, <3>1, RemoveAtProperties, LenProperties
    <3>3. \A k \in DOMAIN pendingRequests' : k # i => k \in DOMAIN pendingRequests
      BY <1>0, <3>2
    <3>4. \A k \in DOMAIN pendingRequests' :
             \/ k < i /\ pendingRequests'[k] = pendingRequests[k]
             \/ k >= i /\ k + 1 \in DOMAIN pendingRequests
                       /\ pendingRequests'[k] = pendingRequests[k + 1]
      BY <1>0, <3>2
    <3>5. \A k, j \in DOMAIN pendingRequests :
             pendingRequests[k].block = pendingRequests[j].block => k = j
      BY DEF Books
    <3>6. \A k \in DOMAIN pendingRequests' : pendingRequests'[k].block # b
      BY <1>0, <3>1, <3>2, <3>3, <3>4, <3>5
    <3>7. ASSUME NEW k \in DOMAIN pendingRequests', NEW j \in DOMAIN pendingRequests',
                 pendingRequests'[k].block = pendingRequests'[j].block
          PROVE  k = j
      BY <1>0, <3>1, <3>2, <3>3, <3>4, <3>5, <3>7
    <3> QED
      BY <3>6, <3>7
  <2> QED
    BY <2>1, <2>2 DEF BlockReceived, DropPending
<1>3. \A u \in Thread : pc'[u] \in Delivering => blk'[u] = b /\ b[1] \in Started
  BY <1>0 DEF BlockReceived, TypeOK, Delivering
<1>4. \A k \in DOMAIN pendingRequests' :
         /\ status'[pendingRequests'[k].block] = "pending"
         /\ pendingRequests'[k].block[1] \in Started
  BY <1>0, <1>1 DEF Books
<1>5. Started' = Started /\ IsInjective(havePieces')
  BY <1>0 DEF Started, pieceVars, Books
<1>6. "store_status" \in Delivering
  BY DEF Delivering
<1> QED
  BY <1>2, <1>3, <1>4, <1>5, <1>6 DEF Books, PieceOf

LEMMA DeliverBooks ==
    ASSUME OneThread, BookInv, proc' = "running", NEW t \in Thread, Deliver(t)
    PROVE  Books'
<1>0. /\ proc = "running" /\ Books /\ TypeOK
      /\ \A u \in Thread : u = t
      /\ \A i \in DOMAIN pendingRequests : pendingRequests[i].block \in Block
  <2>1. proc = "running"
    BY DEF Deliver, StoreStatus, StoreData, DataRace, CheckComplete, AssertFails,
           CheckHash, Seek, Put, Commit, Reset
  <2>2. TypeOK
    BY DEF BookInv, Accounted
  <2>3. \A i \in DOMAIN pendingRequests : pendingRequests[i] \in Request
    BY <2>2, ElementOfSeq, LenProperties DEF TypeOK
  <2> QED
    BY <2>1, <2>2, <2>3 DEF BookInv, OneThread, Request
<1>1. ASSUME NEW l, Goto(t, l), l # "store_status", pc[t] \in Delivering
      PROVE  \A u \in Thread : pc'[u] \in Delivering =>
                /\ pc[u] \in Delivering /\ blk'[u] = blk[u]
                /\ pc'[u] # "store_status"
  BY <1>0, <1>1, GotoOnly
<1>2. pc[t] \in Verifying => \A i \in DOMAIN pendingRequests :
                               pendingRequests[i].block[1] # PieceOf(t)
  BY <1>0 DEF BookInv, WriteInv, IsPieceComplete, BlocksOf, Books
<1>3. CASE StoreStatus(t)
  <2>1. \A i \in DOMAIN pendingRequests :
           status'[pendingRequests[i].block] = status[pendingRequests[i].block]
    BY <1>0, <1>3 DEF StoreStatus, TypeOK, Books
  <2>2. PICK l \in {"store_data", "thrown"} : Goto(t, l)
    BY <1>3 DEF StoreStatus
  <2>3. UNCHANGED <<pieceVars, pendingRequests>> /\ pc[t] \in Delivering
    BY <1>3 DEF StoreStatus, Delivering
  <2> QED
    BY <1>0, <1>1, <2>1, <2>2, <2>3, BooksKept DEF pieceVars, Started
<1>4. CASE Reset(t)
  <2>1. \A i \in DOMAIN pendingRequests :
           status'[pendingRequests[i].block] = status[pendingRequests[i].block]
    BY <1>0, <1>2, <1>4 DEF Reset, Verifying, TypeOK
  <2>2. UNCHANGED <<pieceVars, pendingRequests>> /\ pc[t] \in Delivering /\ Goto(t, "ready")
    BY <1>4 DEF Reset, Delivering
  <2> QED
    BY <1>0, <1>1, <2>1, <2>2, BooksKept DEF pieceVars, Started
<1>5. CASE StoreData(t) \/ CheckComplete(t) \/ CheckHash(t) \/ Seek(t) \/ Put(t)
  <2>1. UNCHANGED <<pieceVars, pendingRequests, status>>
    BY <1>5 DEF StoreData, CheckComplete, CheckHash, Seek, Put, blockVars
  <2>2. pc[t] \in Delivering
    BY <1>5 DEF StoreData, CheckComplete, CheckHash, Seek, Put, Delivering
  <2>3. \E l : Goto(t, l) /\ l # "store_status"
    <3>1. CASE StoreData(t) \/ CheckComplete(t)
      BY <3>1 DEF StoreData, CheckComplete
    <3>2. CASE CheckHash(t)
      BY <3>2 DEF CheckHash
    <3>3. CASE Seek(t)
      BY <3>3 DEF Seek
    <3>4. CASE Put(t)
      <4>1. Goto(t, "commit")
        BY <3>4 DEF Put
      <4> QED
        BY <4>1
    <3> QED
      BY <1>5, <3>1, <3>2, <3>3, <3>4
  <2> QED
    BY <1>0, <1>1, <2>1, <2>2, <2>3, BooksKept DEF pieceVars, Started
<1>6. CASE Commit(t)
  <2>1. /\ PieceOf(t) \in Piece /\ PieceOf(t) \in Started
        /\ pc[t] \in Verifying
        /\ UNCHANGED <<pendingRequests, status>>
    BY <1>0, <1>6 DEF Commit, Delivering, Verifying, TypeOK, Books, blockVars
  <2>2. PieceOf(t) \notin Have
    BY <1>0, <2>1 DEF BookInv, Accounted, PieceAccounting
  <2>3. IsInjective(havePieces')
    BY <1>0, <1>6, <2>1, <2>2, AppendToSet DEF Commit, Have, Books, TypeOK
  <2>4. Started' = Started \ {PieceOf(t)}
    BY <1>0, <1>6, <2>1, RemoveAtInjective DEF Commit, Started, TypeOK
  <2>5. \A u \in Thread : pc'[u] = "ready"
    BY <1>0, <1>6, GotoOnly DEF Commit
  <2>6. "ready" \notin Delivering
    BY DEF Delivering
  <2> QED
    BY <1>0, <1>2, <2>1, <2>3, <2>4, <2>5, <2>6 DEF Books
<1> QED
  BY <1>3, <1>4, <1>5, <1>6 DEF Deliver, DataRace, AssertFails

LEMMA NextBookInv ==
    ASSUME OneThread
    PROVE  BookInv /\ [Next]_vars => BookInv'
<1> SUFFICES ASSUME BookInv, [Next]_vars PROVE BookInv'
  OBVIOUS
<1>0. Accounted' /\ WriteInv' /\ TypeOK
  BY NextAccounted, NextWriteInv DEF BookInv, Accounted
<1> SUFFICES ASSUME proc' = "running" PROVE Books'
  BY <1>0 DEF BookInv
<1>1. CASE Tick
  BY <1>0, <1>1, TickType, BooksKept
     DEF Tick, pieceVars, blockVars, callVars, Started, BookInv
<1>2. CASE UNCHANGED vars
  BY <1>2, BooksKept DEF vars, pieceVars, blockVars, callVars, Started, BookInv
<1>3. ASSUME NEW t \in Thread, NEW peer \in PeerId,
             \/ \E pieces \in SUBSET Piece : AddPeer(t, peer, pieces)
             \/ \E p \in Piece : UpdatePeer(t, peer, p)
             \/ RemovePeer(t, peer)
      PROVE  Books'
  <2>1. UNCHANGED <<pieceVars, pendingRequests, status, proc, blk>>
    BY <1>3 DEF AddPeer, UpdatePeer, RemovePeer, blockVars, callVars
  <2>2. \A u \in Thread : pc'[u] \in Delivering => pc'[u] = pc[u]
    BY <1>0, <1>3 DEF AddPeer, UpdatePeer, RemovePeer, callVars, Delivering, TypeOK
  <2> QED
    BY <2>1, <2>2, BooksKept DEF BookInv, pieceVars, Started
<1>4. ASSUME NEW t \in Thread, ErasePeer(t) \/ Catch(t)
      PROVE  Books'
  <2>1. UNCHANGED <<pieceVars, pendingRequests, status, proc, blk>>
    BY <1>4 DEF ErasePeer, Catch, blockVars
  <2>2. \A u \in Thread : pc'[u] \in Delivering => pc'[u] = pc[u]
    BY <1>0, <1>4 DEF ErasePeer, Catch, Delivering, TypeOK
  <2> QED
    BY <2>1, <2>2, BooksKept DEF BookInv, pieceVars, Started
<1>5. ASSUME NEW t \in Thread, NEW peer \in PeerId, NEW b \in Block \cup {NoBlock},
             NextRequest(t, peer, b)
      PROVE  Books'
  <2>1. proc = "running"
    BY <1>5 DEF NextRequest, ExpiredRequest, NextOngoing, GetRarestPiece
  <2> QED
    BY <1>0, <1>5, <2>1, NextRequestBooks DEF BookInv
<1>6. ASSUME NEW t \in Thread, NEW b \in Address, NEW d \in {"good", "bad"},
             BlockReceived(t, b, d)
      PROVE  Books'
  <2>1. proc = "running"
    BY <1>6 DEF BlockReceived
  <2> QED
    BY <1>0, <1>6, <2>1, BlockReceivedBooks DEF BookInv
<1> QED
  BY <1>0, <1>1, <1>2, <1>3, <1>4, <1>5, <1>6, DeliverBooks DEF Next, Call, Terminate

(* A list of pieces without repetition is no longer than there are pieces, *)
(* and as long iff all of them are in it.                                  *)
LEMMA FullList ==
    ASSUME NEW s \in Seq(Piece), IsInjective(s)
    PROVE  /\ Len(s) <= totalPieces
           /\ Len(s) = totalPieces <=> ToSet(s) = Piece
<1>1. /\ Len(s) \in Nat
      /\ DOMAIN s = 1 .. Len(s)
      /\ s \in [1 .. Len(s) -> Piece]
  BY LenProperties
<1>2. /\ IsFiniteSet(Piece) /\ Cardinality(Piece) = totalPieces
      /\ IsFiniteSet(1 .. Len(s)) /\ Cardinality(1 .. Len(s)) = Len(s)
  <2>1. /\ IsFiniteSet(0 .. totalPieces - 1)
        /\ Cardinality(0 .. totalPieces - 1)
              = IF 0 > totalPieces - 1 THEN 0 ELSE (totalPieces - 1) - 0 + 1
    BY FS_Interval, TotalPiecesAssumption
  <2>2. /\ IsFiniteSet(1 .. Len(s))
        /\ Cardinality(1 .. Len(s)) = IF 1 > Len(s) THEN 0 ELSE Len(s) - 1 + 1
    BY FS_Interval, <1>1
  <2> QED
    BY <1>1, <2>1, <2>2, TotalPiecesAssumption DEF Piece
<1>3. s \in Injection(1 .. Len(s), Piece)
  BY <1>1 DEF Injection
<1>4. /\ Len(s) <= totalPieces
      /\ Len(s) = totalPieces <=> s \in Surjection(1 .. Len(s), Piece)
  BY <1>2, <1>3, FS_Injection
<1>5. s \in Surjection(1 .. Len(s), Piece) <=> ToSet(s) = Piece
  BY <1>1 DEF Surjection, ToSet
<1> QED
  BY <1>4, <1>5

LEMMA BookInvariant ==
    ASSUME OneThread
    PROVE  Spec => []BookInv
<1>1. Init => BookInv
  BY InitBookInv
<1>2. BookInv /\ [Next]_vars => BookInv'
  BY NextBookInv
<1> QED
  BY <1>1, <1>2, PTL DEF Spec

(* With one thread a pending request is unique, for a block that is marked *)
(* pending, in a started piece.                                            *)
THEOREM OneThreadBooks ==
    ASSUME OneThread
    PROVE  Spec => []PendingExact
<1>1. BookInv => PendingExact
  BY DEF PendingExact, BookInv, Books
<1> QED
  BY <1>1, BookInvariant, PTL

(* With one thread the length of havePieces tells whether every piece has  *)
(* been downloaded: no piece is in the list twice.                         *)
THEOREM OneThreadComplete ==
    ASSUME OneThread
    PROVE  Spec => []CompleteMeansAll
<1>1. BookInv => CompleteMeansAll
  BY FullList DEF CompleteMeansAll, BookInv, Books, Accounted, TypeOK, IsComplete, Have
<1> QED
  BY <1>1, BookInvariant, PTL

(* With one thread nextRequest never hands out a block of a piece that is  *)
(* already downloaded.                                                     *)
THEOREM OneThreadNeverAgain ==
    ASSUME OneThread
    PROVE  Spec => NeverRequestedAgain
<1> DEFINE Again == \A t \in Thread, peer \in PeerId, b \in Block :
                      proc' = "running" /\ NextRequest(t, peer, b) => b[1] \notin Have
<1>1. BookInv /\ [Next]_vars => [Again]_vars
  <2> SUFFICES ASSUME BookInv, NEW t \in Thread, NEW peer \in PeerId, NEW b \in Block,
                      proc' = "running", NextRequest(t, peer, b)
               PROVE  b[1] \notin Have
    OBVIOUS
  <2>1. /\ proc = "running" /\ b # NoBlock
        /\ Started \cap Have = {}
        /\ missingPieces \cap Have = {}
        /\ \A i \in DOMAIN pendingRequests : pendingRequests[i].block[1] \in Started
    <3>1. proc = "running"
      BY DEF NextRequest, ExpiredRequest, NextOngoing, GetRarestPiece
    <3> QED
      BY <3>1, BlockProperties DEF BookInv, Books, Accounted, PieceAccounting
  <2>2. ASSUME NEW p, PieceNextRequest(p, b)
        PROVE  b[1] = p
    BY <2>1, <2>2 DEF PieceNextRequest, MissingBlocks, BlocksOf
  <2>3. CASE ExpiredRequest(peer, b)
    BY <2>1, <2>3 DEF ExpiredRequest, Expired
  <2>4. CASE NextOngoing(peer, b)
    <3>1. PICK i \in DOMAIN ongoingPieces : PieceNextRequest(ongoingPieces[i], b)
      BY <2>4 DEF NextOngoing, Requestable
    <3>2. ongoingPieces[i] \in Started
      BY DEF Started, ToSet
    <3> QED
      BY <2>1, <2>2, <3>1, <3>2
  <2>5. CASE GetRarestPiece(peer, b)
    <3>1. PICK p \in missingPieces : StartPiece(p, b)
      BY <2>1, <2>5 DEF GetRarestPiece
    <3>2. b[1] = p
      BY <2>2, <3>1 DEF StartPiece
    <3> QED
      BY <2>1, <3>2
  <2> QED
    BY <2>1, <2>3, <2>4, <2>5 DEF NextRequest
<1> QED
  BY <1>1, BookInvariant, PTL DEF Spec, NeverRequestedAgain

-----------------------------------------------------------------------------
(* What became of the requests.                                            *)

(* The blocks of a piece in havePieces stay retrieved.  With what          *)
(* Accounting says of missing pieces, this leaves the started pieces as    *)
(* the only ones a pending block may belong to, so that the answer to a    *)
(* request is never refused after the request has been dropped.            *)
HaveComplete == proc = "running" => \A p \in Have : IsPieceComplete(p)

TrackInv == BookInv /\ HaveComplete /\ PendingTracked

HasRequest(b) == \E i \in DOMAIN pendingRequests : pendingRequests[i].block = b
BeingStored(b) == \E t \in Thread : pc[t] = "store_status" /\ blk[t] = b

(* Unless it is the first of its piece, a block that becomes pending gets  *)
(* a request, and one that stays pending keeps its request or its thread.  *)
LEMMA TrackKept ==
    ASSUME BookInv', HaveComplete, PendingTracked,
           proc' = "running" => proc = "running",
           UNCHANGED havePieces,
           \A b \in Block : b[1] \in Have /\ status[b] = "retrieved" => status'[b] = "retrieved",
           \A b \in Block : status'[b] = "pending" =>
               \/ b[2] = 0 \/ HasRequest(b)' \/ BeingStored(b)'
               \/ status[b] = "pending" /\ ~HasRequest(b) /\ ~BeingStored(b)
    PROVE  TrackInv'
<1>1. HaveComplete'
  BY DEF HaveComplete, Have, IsPieceComplete, BlocksOf
<1>2. PendingTracked'
  BY DEF PendingTracked, HasRequest, BeingStored
<1> QED
  BY <1>1, <1>2 DEF TrackInv

(* RemoveAt keeps what it does not remove.                                 *)
LEMMA RemoveAtKeeps ==
    ASSUME NEW S, NEW s \in Seq(S), NEW i \in DOMAIN s, NEW j \in DOMAIN s, j # i
    PROVE  \E k \in DOMAIN RemoveAt(s, i) : RemoveAt(s, i)[k] = s[j]
<1>1. Len(s) \in Nat /\ DOMAIN s = 1 .. Len(s)
  BY LenProperties
<1>2. DOMAIN RemoveAt(s, i) = 1 .. Len(s) - 1
  BY RemoveAtProperties, LenProperties, <1>1
<1>3. \A k \in 1 .. Len(s) - 1 : RemoveAt(s, i)[k] = IF k < i THEN s[k] ELSE s[k + 1]
  BY RemoveAtProperties
<1>4. CASE j < i
  <2>1. j \in 1 .. Len(s) - 1
    BY <1>1, <1>4
  <2> QED
    BY <1>2, <1>3, <1>4, <2>1
<1>5. CASE j > i
  <2>1. j - 1 \in 1 .. Len(s) - 1 /\ ~(j - 1 < i) /\ (j - 1) + 1 = j
    BY <1>1, <1>5
  <2>2. RemoveAt(s, i)[j - 1] = s[j]
    BY <1>3, <2>1
  <2> QED
    BY <1>2, <2>1, <2>2
<1> QED
  BY <1>1, <1>4, <1>5

LEMMA NextRequestTrack ==
    ASSUME TrackInv, BookInv', proc' = "running", NEW t \in Thread,
           NEW peer \in PeerId, NEW b \in Block \cup {NoBlock}, NextRequest(t, peer, b)
    PROVE  TrackInv'
<1>0. /\ TypeOK /\ HaveComplete /\ PendingTracked
      /\ UNCHANGED <<pc, blk>>
      /\ DOMAIN pendingRequests = 1 .. Len(pendingRequests)
      /\ Len(pendingRequests) \in Nat
      /\ \A i \in DOMAIN pendingRequests : pendingRequests[i] \in Request
  BY ElementOfSeq, LenProperties
     DEF NextRequest, callVars, TrackInv, BookInv, Accounted, TypeOK
<1>1. /\ UNCHANGED havePieces
      /\ \A c \in Block : status[c] = "retrieved" => status'[c] = "retrieved"
  BY <1>0, NextRequestKeepsRetrieved
     DEF NextRequest, ExpiredRequest, NextOngoing, GetRarestPiece, StartPiece, pieceVars
<1>2. proc = "running"
  BY DEF NextRequest, ExpiredRequest, NextOngoing, GetRarestPiece
<1>3. \A c : BeingStored(c)' <=> BeingStored(c)
  BY <1>0 DEF BeingStored
<1>4. CASE UNCHANGED <<pendingRequests, status>>
  <2>1. \A c : HasRequest(c)' <=> HasRequest(c)
    BY <1>4 DEF HasRequest
  <2> QED
    BY <1>0, <1>1, <1>2, <1>3, <1>4, <2>1, TrackKept
<1>5. CASE ExpiredRequest(peer, b)
  <2>1. PICK i \in DOMAIN pendingRequests :
           pendingRequests' = [pendingRequests EXCEPT ![i].age = 0]
    BY <1>5 DEF ExpiredRequest, Expired
  <2>2. \A j \in DOMAIN pendingRequests :
           pendingRequests'[j].block = pendingRequests[j].block
    BY <1>0, <2>1 DEF Request
  <2>3. \A c : HasRequest(c) => HasRequest(c)'
    BY <2>1, <2>2 DEF HasRequest
  <2>4. UNCHANGED status
    BY <1>5 DEF ExpiredRequest
  <2> QED
    BY <1>0, <1>1, <1>2, <1>3, <2>3, <2>4, TrackKept
<1>6. CASE NextOngoing(peer, b)
  <2>1. PICK i \in Requestable(peer) :
           /\ PieceNextRequest(ongoingPieces[i], b)
           /\ pendingRequests' = Append(pendingRequests, [block |-> b, age |-> 0])
    BY <1>6 DEF NextOngoing
  <2>2. MissingBlocks(ongoingPieces[i]) # {}
    BY DEF Requestable
  <2>3. b \in Block /\ status' = [status EXCEPT ![b] = "pending"]
    BY <2>1, <2>2 DEF PieceNextRequest, MissingBlocks, BlocksOf
  <2>4. [block |-> b, age |-> 0] \in Request
    BY <2>3, PendingTimeAssumption DEF Request
  <2> DEFINE n == Len(pendingRequests)
  <2>5. /\ DOMAIN pendingRequests' = 1 .. n + 1
        /\ \A k \in 1 .. n : pendingRequests'[k] = pendingRequests[k]
        /\ pendingRequests'[n + 1].block = b
    BY <2>1, <2>4, AppendProperties, LenProperties DEF TrackInv, BookInv, Accounted, TypeOK
  <2>6. HasRequest(b)' /\ \A c : HasRequest(c) => HasRequest(c)'
    BY <1>0, <2>5 DEF HasRequest
  <2>7. \A c \in Block : status'[c] = "pending" => c = b \/ status[c] = "pending"
    BY <1>0, <2>3 DEF TypeOK
  <2> QED
    BY <1>0, <1>1, <1>2, <1>3, <2>6, <2>7, TrackKept
<1>7. CASE GetRarestPiece(peer, b)
  <2>1. PICK p \in missingPieces : StartPiece(p, b)
    BY <1>2, <1>7 DEF GetRarestPiece
  <2>2. \A c : HasRequest(c)' <=> HasRequest(c)
    BY <2>1 DEF StartPiece, HasRequest
  <2>3. p \in Piece /\ \A c \in BlocksOf(p) : status[c] = "missing"
    BY <1>2, <2>1 DEF TrackInv, BookInv, Accounted, MissingUntouched, TypeOK
  <2>4. ASSUME NEW c \in Block, status'[c] = "pending", status[c] # "pending"
        PROVE  c[2] = 0
    <3>1. c = b /\ c \in MissingBlocks(p) /\ \A e \in MissingBlocks(p) : c[2] <= e[2]
      BY <1>0, <2>1, <2>4 DEF StartPiece, PieceNextRequest, MissingBlocks, BlocksOf, TypeOK
    <3>2. c \in {p} \X (0 .. blockCount[p] - 1) /\ blockCount[p] \in Nat
      BY <2>3, <3>1, BlockCountAssumption DEF MissingBlocks, BlocksOf, Block
    <3>3. <<p, 0>> \in {p} \X (0 .. blockCount[p] - 1)
      BY <3>2
    <3>4. <<p, 0>> \in Block
      BY <2>3, <3>3 DEF Block
    <3>5. <<p, 0>> \in MissingBlocks(p)
      BY <2>3, <3>4 DEF MissingBlocks, BlocksOf
    <3> QED
      BY <3>1, <3>2, <3>5
  <2> QED
    BY <1>0, <1>1, <1>2, <1>3, <2>2, <2>4, TrackKept
<1> QED
  BY <1>4, <1>5, <1>6, <1>7 DEF NextRequest

LEMMA BlockReceivedTrack ==
    ASSUME OneThread, TrackInv, BookInv', proc = "running", NEW t \in Thread,
           NEW b \in Address, NEW d \in {"good", "bad"}, BlockReceived(t, b, d)
    PROVE  TrackInv'
<1>0. /\ TypeOK /\ HaveComplete /\ PendingTracked /\ PieceAccounting /\ MissingUntouched
      /\ UNCHANGED <<pieceVars, status, proc>>
  BY DEF BlockReceived, blockVars, TrackInv, BookInv, Accounted
<1>1. \A c : c # b /\ HasRequest(c) => HasRequest(c)'
  <2>1. CASE UNCHANGED pendingRequests
    BY <2>1 DEF HasRequest
  <2>2. CASE \E i \in DOMAIN pendingRequests :
                pendingRequests[i].block = b /\ pendingRequests' = RemoveAt(pendingRequests, i)
    <3>1. PICK i \in DOMAIN pendingRequests :
             pendingRequests[i].block = b /\ pendingRequests' = RemoveAt(pendingRequests, i)
      BY <2>2
    <3>2. ASSUME NEW j \in DOMAIN pendingRequests, pendingRequests[j].block # b
          PROVE  \E k \in DOMAIN pendingRequests' : pendingRequests'[k] = pendingRequests[j]
      BY <1>0, <3>1, <3>2, RemoveAtKeeps DEF TypeOK
    <3> QED
      BY <3>2 DEF HasRequest
  <2> QED
    BY <2>1, <2>2 DEF BlockReceived, DropPending
<1>2. ASSUME b \in Block, status[b] = "pending"
      PROVE  BeingStored(b)'
  <2>1. b[1] \in Piece /\ b \in BlocksOf(b[1])
    BY <1>2, BlockProperties DEF BlocksOf
  <2>2. b[1] \notin missingPieces /\ b[1] \notin Have
    BY <1>0, <1>2, <2>1 DEF MissingUntouched, HaveComplete, IsPieceComplete
  <2>3. b[1] \in Started
    BY <1>0, <2>1, <2>2 DEF PieceAccounting
  <2>4. pc'[t] = "store_status" /\ blk'[t] = b
    BY <1>0, <2>3 DEF BlockReceived, TypeOK
  <2> QED
    BY <2>4 DEF BeingStored
<1>3. \A c : ~BeingStored(c)
  BY DEF BeingStored, OneThread, BlockReceived
<1> QED
  BY <1>0, <1>1, <1>2, <1>3, TrackKept DEF pieceVars

LEMMA DeliverTrack ==
    ASSUME OneThread, TrackInv, BookInv', proc' = "running", NEW t \in Thread, Deliver(t)
    PROVE  TrackInv'
<1>0. /\ proc = "running" /\ Books /\ TypeOK /\ WriteInv
      /\ HaveComplete /\ PendingTracked /\ PieceAccounting
      /\ \A u \in Thread : u = t
      /\ pc[t] \in Delivering /\ PieceOf(t) \in Piece
  <2>1. proc = "running"
    BY DEF Deliver, StoreStatus, StoreData, DataRace, CheckComplete, AssertFails,
           CheckHash, Seek, Put, Commit, Reset
  <2> QED
    BY <2>1 DEF TrackInv, BookInv, Accounted, OneThread, Deliver, TypeOK
<1>1. CASE StoreStatus(t)
  <2>1. UNCHANGED <<pieceVars, pendingRequests, proc>>
    BY <1>1 DEF StoreStatus
  <2>2. \A c : HasRequest(c)' <=> HasRequest(c)
    BY <2>1 DEF HasRequest
  <2>3. \A c \in Block : /\ status[c] = "retrieved" => status'[c] = "retrieved"
                         /\ status'[c] = "pending" => status[c] = "pending" /\ c # blk[t]
    BY <1>0, <1>1 DEF StoreStatus, TypeOK
  <2>4. \A c : BeingStored(c) => c = blk[t]
    BY <1>0 DEF BeingStored
  <2> QED
    BY <1>0, <2>1, <2>2, <2>3, <2>4, TrackKept DEF pieceVars
<1>2. CASE StoreData(t) \/ CheckComplete(t) \/ CheckHash(t) \/ Seek(t) \/ Put(t)
  <2>1. UNCHANGED <<havePieces, pendingRequests, status, proc>>
    BY <1>2 DEF StoreData, CheckComplete, CheckHash, Seek, Put, pieceVars, blockVars
  <2>2. \A c : HasRequest(c)' <=> HasRequest(c)
    BY <2>1 DEF HasRequest
  <2>3. \A c : ~BeingStored(c)
    BY <1>0, <1>2 DEF BeingStored, StoreData, CheckComplete, CheckHash, Seek, Put
  <2> QED
    BY <1>0, <2>1, <2>2, <2>3, TrackKept
<1>3. CASE Reset(t)
  <2>1. UNCHANGED <<havePieces, pendingRequests, proc>>
    BY <1>3 DEF Reset, pieceVars
  <2>2. \A c : HasRequest(c)' <=> HasRequest(c)
    BY <2>1 DEF HasRequest
  <2>3. PieceOf(t) \notin Have
    BY <1>0 DEF Books, PieceAccounting
  <2>4. \A c \in Block : /\ status'[c] = "pending" => status[c] = "pending"
                         /\ c[1] \in Have => status'[c] = status[c]
    BY <1>0, <1>3, <2>3 DEF Reset, TypeOK
  <2>5. \A c : ~BeingStored(c)
    BY <1>0, <1>3 DEF BeingStored, Reset
  <2> QED
    BY <1>0, <2>1, <2>2, <2>4, <2>5, TrackKept
<1>4. CASE Commit(t)
  <2>1. UNCHANGED <<pendingRequests, status, proc>> /\ IsPieceComplete(PieceOf(t))
    BY <1>0, <1>4 DEF Commit, blockVars, WriteInv, Verifying
  <2>2. Have' = Have \cup {PieceOf(t)}
    BY <1>0, <1>4, AppendToSet DEF Commit, Have, TypeOK
  <2>3. HaveComplete'
    BY <1>0, <2>1, <2>2 DEF HaveComplete, IsPieceComplete
  <2>4. \A c : ~BeingStored(c)
    BY <1>0, <1>4 DEF BeingStored, Commit
  <2>5. PendingTracked'
    BY <1>0, <2>1, <2>4 DEF PendingTracked, BeingStored
  <2> QED
    BY <2>3, <2>5 DEF TrackInv
<1> QED
  BY <1>1, <1>2, <1>3, <1>4 DEF Deliver, DataRace, AssertFails

LEMMA NextTrackInv ==
    ASSUME OneThread
    PROVE  TrackInv /\ [Next]_vars => TrackInv'
<1> SUFFICES ASSUME TrackInv, [Next]_vars PROVE TrackInv'
  OBVIOUS
<1>0. BookInv' /\ TypeOK /\ HaveComplete /\ PendingTracked
  BY NextBookInv DEF TrackInv, BookInv, Accounted
<1>1. CASE proc' # "running"
  BY <1>0, <1>1 DEF TrackInv, HaveComplete, PendingTracked
<1>2. ASSUME UNCHANGED <<havePieces, status, proc, blk>>,
             \A c : HasRequest(c) => HasRequest(c)',
             \A u \in Thread : pc[u] = "store_status" => pc'[u] = "store_status"
      PROVE  TrackInv'
  <2>1. \A c : BeingStored(c) => BeingStored(c)'
    BY <1>2 DEF BeingStored
  <2> QED
    BY <1>0, <1>2, <2>1, TrackKept
<1>3. CASE Tick
  <2>1. \A c : HasRequest(c) => HasRequest(c)'
    BY <1>0, <1>3, TickType DEF HasRequest
  <2> QED
    BY <1>2, <1>3, <2>1 DEF Tick, pieceVars, blockVars, callVars
<1>4. CASE UNCHANGED vars
  BY <1>2, <1>4 DEF vars, pieceVars, blockVars, callVars, HasRequest
<1>5. ASSUME NEW t \in Thread,
             \/ \E peer \in PeerId :
                   \/ \E pieces \in SUBSET Piece : AddPeer(t, peer, pieces)
                   \/ \E p \in Piece : UpdatePeer(t, peer, p)
                   \/ RemovePeer(t, peer)
             \/ ErasePeer(t) \/ Catch(t)
      PROVE  TrackInv'
  <2>1. UNCHANGED <<havePieces, pendingRequests, status, proc, blk>>
    BY <1>5 DEF AddPeer, UpdatePeer, RemovePeer, ErasePeer, Catch, pieceVars, blockVars, callVars
  <2>2. \A u \in Thread : pc[u] = "store_status" => pc'[u] = "store_status"
    BY <1>0, <1>5 DEF AddPeer, UpdatePeer, RemovePeer, ErasePeer, Catch, callVars, TypeOK
  <2> QED
    BY <1>2, <2>1, <2>2 DEF HasRequest
<1>6. ASSUME NEW t \in Thread, NEW b \in Address, NEW d \in {"good", "bad"},
             BlockReceived(t, b, d), proc' = "running"
      PROVE  TrackInv'
  BY <1>0, <1>6, BlockReceivedTrack DEF BlockReceived
<1> QED
  BY <1>0, <1>1, <1>3, <1>4, <1>5, <1>6, NextRequestTrack, DeliverTrack
     DEF Next, Call, Terminate

(* With one thread every block that waits for an answer has a request that *)
(* can expire and be reissued, or its answer is being stored - except the  *)
(* first block of a piece, which getRarestPiece requested.                 *)
THEOREM OneThreadTracked ==
    ASSUME OneThread
    PROVE  Spec => []PendingTracked
<1>1. Init => TrackInv
  <2> SUFFICES ASSUME Init PROVE HaveComplete /\ PendingTracked
    BY InitBookInv DEF TrackInv
  <2>1. Have = {}
    BY EmptySequence DEF Init, Have
  <2> QED
    BY <2>1 DEF Init, HaveComplete, PendingTracked
<1>2. TrackInv /\ [Next]_vars => TrackInv'
  BY NextTrackInv
<1>3. TrackInv => PendingTracked
  BY DEF TrackInv
<1> QED
  BY <1>1, <1>2, <1>3, PTL DEF Spec
=============================================================================
