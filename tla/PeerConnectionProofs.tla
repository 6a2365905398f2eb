------------------------ MODULE PeerConnectionProofs ------------------------
(***************************************************************************)
(* The download threads implement the specification of the piece manager,  *)
(* so that what PieceManagerProofs and OneThreadProofs prove of a manager  *)
(* that is called in any way holds of the manager the connections call.    *)
(***************************************************************************)
EXTENDS PeerConnection, OneThreadProofs

(* Locations a thread reaches only after a handshake has told it the       *)
(* identifier of its peer.                                                 *)
Greeted == {"bitfield", "interested", "catch"} \cup Established

(* A thread that may pass a peer or a peer's identifier on has one.        *)
PeersNamed ==
    \A t \in Thread :
        /\ loc[t] = "connect" => peer[t] \in PeerId
        /\ loc[t] \in Greeted \/ hasBitField[t] => peerId[t] \in PeerId

ConnInv == ConnTypeOK /\ PeersNamed

LEMMA InitConnInv == ConnInit => ConnInv
<1> SUFFICES ASSUME ConnInit PROVE ConnInv
  OBVIOUS
<1>1. TypeOK
  BY InitTypeOK DEF ConnInit
<1> QED
  BY <1>1 DEF ConnInit, ConnInv, ConnTypeOK, PeersNamed, Locations, Greeted, Established

-----------------------------------------------------------------------------
(* Every step is a step of the manager.                                    *)

(* Steps that leave the manager alone.                                     *)
LEMMA SilentSteps ==
    ASSUME NEW t \in Thread,
           \/ OuterLoop(t) \/ PopPeer(t) \/ PopDummy(t)
           \/ Handshake(t) \/ HandshakeFails(t) \/ SendInterested(t)
           \/ InnerLoop(t) \/ NoRequest(t)
           \/ ReceiveChoke(t) \/ ReceiveUnchoke(t) \/ ReceiveOther(t) \/ ReceiveFails(t)
    PROVE  UNCHANGED vars
BY DEF OuterLoop, PopPeer, PopDummy, Handshake, HandshakeFails, SendInterested,
       InnerLoop, NoRequest, ReceiveChoke, ReceiveUnchoke, ReceiveOther, ReceiveFails

(* Steps that call it, with arguments it may be called with.               *)
LEMMA CallingSteps ==
    ASSUME ConnInv, NEW t \in Thread,
           \/ ReceiveBitField(t) \/ ReceiveAnswer(t) \/ ReceiveNewBitField(t)
           \/ \E index \in Piece : ReceiveHave(t, index)
           \/ RequestPiece(t) \/ CloseInCatch(t) \/ Destroy(t)
    PROVE  Call(t) \/ UNCHANGED vars
<1>1. CASE ReceiveBitField(t)
  <2>1. AddPeer(t, peerId[t], serves[peerId[t]]) \/ UNCHANGED vars
    BY <1>1 DEF ReceiveBitField
  <2>2. peerId[t] \in PeerId
    BY <1>1 DEF ReceiveBitField, At, ConnInv, PeersNamed, Greeted
  <2> QED
    BY <2>1, <2>2, ServesAssumption DEF Call
<1>2. CASE ReceiveAnswer(t)
  <2>1. PICK m \in Sendable(t) : BlockReceived(t, m[1], m[2])
    BY <1>2 DEF ReceiveAnswer, ReceivePiece
  <2>2. asked[t] \subseteq Address
    BY BlockProperties DEF ConnInv, ConnTypeOK
  <2>3. m[1] \in Address /\ m[2] \in {"good", "bad"}
    BY <2>1, <2>2 DEF Sendable
  <2> QED
    BY <2>1, <2>3 DEF Call
<1>3. CASE ReceiveNewBitField(t)
  <2>1. AddPeer(t, peerId[t], serves[peerId[t]])
    BY <1>3 DEF ReceiveNewBitField
  <2>2. peerId[t] \in PeerId
    BY <1>3 DEF ReceiveNewBitField, At, ConnInv, PeersNamed, Greeted, Established
  <2> QED
    BY <2>1, <2>2, ServesAssumption DEF Call
<1>4. ASSUME NEW index \in Piece, ReceiveHave(t, index)
      PROVE  Call(t)
  <2>1. UpdatePeer(t, peerId[t], index)
    BY <1>4 DEF ReceiveHave
  <2>2. peerId[t] \in PeerId
    BY <1>4 DEF ReceiveHave, At, ConnInv, PeersNamed, Greeted, Established
  <2> QED
    BY <2>1, <2>2 DEF Call
<1>5. CASE RequestPiece(t)
  <2>1. PICK b \in Block \cup {NoBlock} : NextRequest(t, peerId[t], b)
    BY <1>5 DEF RequestPiece
  <2>2. peerId[t] \in PeerId
    BY <1>5 DEF RequestPiece, At, ConnInv, PeersNamed, Greeted, Established
  <2> QED
    BY <2>1, <2>2 DEF Call
<1>6. CASE CloseInCatch(t) \/ Destroy(t)
  <2>1. (hasBitField[t] /\ RemovePeer(t, peerId[t])) \/ UNCHANGED vars
    BY <1>6 DEF CloseInCatch, Destroy, CloseSock
  <2>2. hasBitField[t] => peerId[t] \in PeerId
    BY DEF ConnInv, PeersNamed
  <2> QED
    BY <2>1, <2>2 DEF Call
<1> QED
  BY <1>1, <1>2, <1>3, <1>4, <1>5, <1>6

LEMMA ConnNextIsNext ==
    ASSUME ConnInv, [ConnNext]_allVars
    PROVE  [Next]_vars
<1>1. CASE UNCHANGED allVars
  BY <1>1 DEF allVars
<1>2. CASE TimePasses
  BY <1>2 DEF TimePasses, Next
<1>3. ASSUME NEW t \in Thread, ThreadStep(t) \/ PeerStep(t)
      PROVE  [Next]_vars
  <2>1. CASE CatchException(t) \/ AfterClose(t) \/ InCall(t)
    BY <2>1 DEF CatchException, AfterClose, InCall, Next
  <2>2. CASE ~(CatchException(t) \/ AfterClose(t) \/ InCall(t))
    <3>1. Call(t) \/ UNCHANGED vars
      BY <1>3, <2>2, SilentSteps, CallingSteps DEF ThreadStep, PeerStep
    <3> QED
      BY <3>1 DEF Next
  <2> QED
    BY <2>1, <2>2
<1> QED
  BY <1>1, <1>2, <1>3 DEF ConnNext

-----------------------------------------------------------------------------
(* The types of the connections' own variables.                            *)

LEMMA ThreadConnInv ==
    ASSUME ConnInv, TypeOK', NEW t \in Thread, ThreadStep(t)
    PROVE  ConnInv'
<1> USE DEF ConnInv, ConnTypeOK, PeersNamed, Locations, Greeted, Established, At, Goes,
            sockVars, connVars
<1>1. CASE OuterLoop(t)
  BY <1>1 DEF OuterLoop
<1>2. CASE PopPeer(t)
  BY <1>2 DEF PopPeer
<1>3. CASE PopDummy(t)
  BY <1>3 DEF PopDummy
<1>4. CASE Handshake(t)
  BY <1>4 DEF Handshake, OpenSock
<1>5. CASE HandshakeFails(t)
  BY <1>5 DEF HandshakeFails, OpenSock
<1>6. CASE ReceiveBitField(t)
  BY <1>6 DEF ReceiveBitField
<1>7. CASE SendInterested(t)
  BY <1>7 DEF SendInterested
<1>8. CASE InnerLoop(t)
  BY <1>8 DEF InnerLoop
<1>9. CASE RequestPiece(t)
  <2>1. PICK b \in Block \cup {NoBlock} :
              /\ UNCHANGED <<requestPending, asked>>
                   \/ /\ b \in Block /\ requestPending' = [requestPending EXCEPT ![t] = TRUE]
                      /\ UNCHANGED asked \/ asked' = [asked EXCEPT ![t] = @ \cup {b}]
              /\ Goes(t, "while") \/ Goes(t, "catch")
    BY <1>9 DEF RequestPiece
  <2>2. /\ requestPending' \in [Thread -> BOOLEAN]
        /\ asked' \in [Thread -> SUBSET Block]
    <3>1. asked \in [Thread -> SUBSET Block] /\ requestPending \in [Thread -> BOOLEAN]
      OBVIOUS
    <3>2. b \in Block => asked[t] \cup {b} \in SUBSET Block
      BY <3>1
    <3> HIDE DEF ConnInv
    <3> QED
      BY <2>1, <3>1, <3>2
  <2>3. /\ loc[t] = "request"
        /\ UNCHANGED <<peer, peerId, sock, hasBitField, choking, choked>>
    BY <1>9 DEF RequestPiece
  <2> QED
    BY <2>1, <2>2, <2>3
<1>10. CASE NoRequest(t)
  BY <1>10 DEF NoRequest
<1>11. CASE CatchException(t)
  BY <1>11 DEF CatchException
<1>12. CASE CloseInCatch(t) \/ Destroy(t)
  BY <1>12 DEF CloseInCatch, Destroy, CloseSock
<1>13. CASE AfterClose(t)
  BY <1>13 DEF AfterClose
<1>14. CASE InCall(t)
  BY <1>14 DEF InCall
<1> QED
  BY <1>1, <1>2, <1>3, <1>4, <1>5, <1>6, <1>7, <1>8, <1>9, <1>10, <1>11, <1>12, <1>13,
     <1>14 DEF ThreadStep

LEMMA PeerConnInv ==
    ASSUME ConnInv, TypeOK', NEW t \in Thread, PeerStep(t)
    PROVE  ConnInv'
<1> USE DEF ConnInv, ConnTypeOK, PeersNamed, Locations, Greeted, Established, At, Goes,
            sockVars
<1>1. CASE ReceiveChoke(t)
  BY <1>1 DEF ReceiveChoke
<1>2. CASE ReceiveUnchoke(t)
  BY <1>2 DEF ReceiveUnchoke
<1>3. CASE ReceiveAnswer(t)
  BY <1>3 DEF ReceiveAnswer, ReceivePiece
<1>4. CASE \E index \in Piece : ReceiveHave(t, index)
  BY <1>4 DEF ReceiveHave
<1>5. CASE ReceiveNewBitField(t)
  BY <1>5 DEF ReceiveNewBitField
<1>6. CASE ReceiveOther(t)
  BY <1>6 DEF ReceiveOther
<1>7. CASE ReceiveFails(t)
  BY <1>7 DEF ReceiveFails
<1> QED
  BY <1>1, <1>2, <1>3, <1>4, <1>5, <1>6, <1>7 DEF PeerStep

LEMMA NextConnInv == ConnInv /\ [ConnNext]_allVars => ConnInv'
<1> SUFFICES ASSUME ConnInv, [ConnNext]_allVars PROVE ConnInv'
  OBVIOUS
<1>1. TypeOK'
  BY ConnNextIsNext, NextTypeOK DEF ConnInv, ConnTypeOK
<1>2. CASE TimePasses \/ UNCHANGED allVars
  BY <1>1, <1>2 DEF TimePasses, allVars, connVars, sockVars, ConnInv, ConnTypeOK, PeersNamed
<1> QED
  BY <1>1, <1>2, ThreadConnInv, PeerConnInv DEF ConnNext

(* The connections' variables keep their types, and with them those of the *)
(* manager they share, whatever the peers send.                            *)
THEOREM ConnTypeCorrect == ConnSpec => []ConnTypeOK
<1>1. ConnInit => ConnInv
  BY InitConnInv
<1>2. ConnInv /\ [ConnNext]_allVars => ConnInv'
  BY NextConnInv
<1>3. ConnInv => ConnTypeOK
  BY DEF ConnInv
<1> QED
  BY <1>1, <1>2, <1>3, PTL DEF ConnSpec

(* Every behaviour of the threads is a behaviour of the piece manager's    *)
(* specification: PeerConnection calls the manager in no other way than by *)
(* its operations, with arguments those may be given.                      *)
THEOREM ConnRefines == ConnSpec => UsesPieceManager
<1>1. ConnInit => Init
  BY DEF ConnInit
<1>2. ConnInit => ConnInv
  BY InitConnInv
<1>3. ConnInv /\ [ConnNext]_allVars => ConnInv'
  BY NextConnInv
<1>4. ConnInv /\ [ConnNext]_allVars => [Next]_vars
  BY ConnNextIsNext
<1> QED
  BY <1>1, <1>2, <1>3, <1>4, PTL DEF ConnSpec, UsesPieceManager, Spec

(* So the pieces are accounted for however many threads download.          *)
THEOREM ConnAccounted == ConnSpec => []Accounting
BY ConnRefines, PiecesAccounted, PTL DEF UsesPieceManager

(* The client has only pieces whose last block a peer has sent.            *)
THEOREM ConnOnlyReceivedIsHad == ConnSpec => []HaveWasDelivered
BY ConnRefines, OnlyReceivedIsHad, PTL DEF UsesPieceManager

(* No piece is committed more often than there are threads.                *)
THEOREM ConnOneCommitPerThread == ConnSpec => []CommitsBounded
BY ConnRefines, OneCommitPerThread, PTL DEF UsesPieceManager

(* A download by one thread stores verified pieces, whatever its peers do. *)
THEOREM ConnOneThreadRefines ==
    ASSUME OneThread
    PROVE  ConnSpec => ImplementsVerifiedDownload
BY ConnRefines, OneThreadRefines, PTL DEF UsesPieceManager

(* And with that what the manager says of its pieces, its books and the    *)
(* disk is right.                                                          *)
THEOREM ConnOneThreadSafe ==
    ASSUME OneThread
    PROVE  ConnSpec => [](/\ DiskMatchesHave /\ DataIsComplete /\ CompleteMeansAll
                          /\ PendingExact /\ PendingTracked)
BY ConnRefines, OneThreadDisk, OneThreadAssertion, OneThreadComplete, OneThreadBooks,
   OneThreadTracked, PTL DEF UsesPieceManager

-----------------------------------------------------------------------------
(* Requests on a connection.                                               *)

(* Nothing is asked before the message loop is reached; in it, what is     *)
(* asked is one block, and requestPending is set.                          *)
AskedInv ==
    \A t \in Thread :
        /\ loc[t] \in {"bitfield", "interested"} => asked[t] = {}
        /\ loc[t] \in Established /\ peerId[t] \notin Rogue /\ asked[t] # {} =>
              requestPending[t] /\ \E b \in Block : asked[t] = {b}

LEMMA AskedKept ==
    ASSUME ConnTypeOK, AskedInv, NEW t \in Thread, ThreadStep(t) \/ PeerStep(t)
    PROVE  AskedInv'
<1> USE DEF AskedInv, Established, At, Goes, sockVars, connVars
<1>0. /\ loc \in [Thread -> Locations] /\ asked \in [Thread -> SUBSET Block]
      /\ peerId \in [Thread -> PeerId \cup {NoBlock}]
      /\ requestPending \in [Thread -> BOOLEAN]
  BY DEF ConnTypeOK
<1>1. CASE OuterLoop(t) \/ PopPeer(t) \/ PopDummy(t) \/ SendInterested(t)
            \/ InnerLoop(t) \/ NoRequest(t)
  BY <1>0, <1>1 DEF OuterLoop, PopPeer, PopDummy, SendInterested, InnerLoop, NoRequest
<1>2. CASE Handshake(t) \/ HandshakeFails(t)
  BY <1>0, <1>2 DEF Handshake, HandshakeFails, OpenSock
<1>3. CASE ReceiveBitField(t) \/ CatchException(t) \/ InCall(t)
  BY <1>0, <1>3 DEF ReceiveBitField, CatchException, InCall
<1>4. CASE RequestPiece(t)
  <2>1. /\ loc[t] = "request" /\ ~requestPending[t]
        /\ UNCHANGED peerId
        /\ \/ UNCHANGED <<requestPending, asked>>
           \/ /\ requestPending' = [requestPending EXCEPT ![t] = TRUE]
              /\ \/ UNCHANGED asked
                 \/ \E b \in Block : asked' = [asked EXCEPT ![t] = @ \cup {b}]
        /\ Goes(t, "while") \/ Goes(t, "catch")
    BY <1>4 DEF RequestPiece
  <2>2. peerId[t] \notin Rogue => asked[t] = {}
    BY <2>1
  <2>3. CASE UNCHANGED asked
    BY <1>0, <2>1, <2>2, <2>3
  <2>4. CASE ~UNCHANGED asked
    <3>1. PICK b \in Block : asked' = [asked EXCEPT ![t] = @ \cup {b}]
      BY <2>1, <2>4
    <3>2. peerId[t] \notin Rogue => asked'[t] = {b}
      BY <1>0, <2>2, <3>1
    <3> QED
      BY <1>0, <2>1, <2>4, <3>1, <3>2
  <2> QED
    BY <2>3, <2>4
<1>5. CASE CloseInCatch(t) \/ Destroy(t) \/ AfterClose(t)
  BY <1>0, <1>5 DEF CloseInCatch, Destroy, CloseSock, AfterClose
<1>6. CASE ReceiveAnswer(t)
  <2>1. PICK m \in Sendable(t) : ReceivePiece(t, m[1], m[2])
    BY <1>6 DEF ReceiveAnswer
  <2>2. peerId[t] \notin Rogue => asked[t] \ {m[1]} = {}
    BY <2>1 DEF Sendable, ReceivePiece
  <2> QED
    BY <1>0, <2>1, <2>2 DEF ReceivePiece
<1>7. CASE ReceiveChoke(t) \/ ReceiveUnchoke(t)
  BY <1>0, <1>7 DEF ReceiveChoke, ReceiveUnchoke
<1>8. CASE \/ \E index \in Piece : ReceiveHave(t, index)
           \/ ReceiveNewBitField(t) \/ ReceiveOther(t) \/ ReceiveFails(t)
  BY <1>0, <1>8 DEF ReceiveHave, ReceiveNewBitField, ReceiveOther, ReceiveFails
<1> QED
  BY <1>1, <1>2, <1>3, <1>4, <1>5, <1>6, <1>7, <1>8 DEF ThreadStep, PeerStep

LEMMA AskedIsOne == AskedInv => OneRequestAtATime
<1> SUFFICES ASSUME AskedInv, NEW t \in Thread,
                    loc[t] \in Established, peerId[t] \notin Rogue
             PROVE  Cardinality(asked[t]) <= 1 /\ (asked[t] # {} => requestPending[t])
  BY DEF OneRequestAtATime
<1>1. CASE asked[t] = {}
  BY <1>1, FS_EmptySet
<1>2. CASE asked[t] # {}
  <2>1. PICK b : asked[t] = {b} /\ requestPending[t]
    BY <1>2 DEF AskedInv
  <2> QED
    BY <2>1, FS_Singleton
<1> QED
  BY <1>1, <1>2

(* A peer that answers only what it is asked is owed at most one block,    *)
(* and then requestPending is set, whatever the other threads do.          *)
THEOREM OneRequest == ConnSpec => []OneRequestAtATime
<1>1. ConnInit => AskedInv
  BY DEF ConnInit, AskedInv, Established
<1>2. ConnTypeOK /\ AskedInv /\ [ConnNext]_allVars => AskedInv'
  <2> SUFFICES ASSUME ConnTypeOK, AskedInv, [ConnNext]_allVars PROVE AskedInv'
    OBVIOUS
  <2>1. CASE TimePasses \/ UNCHANGED allVars
    BY <2>1 DEF TimePasses, allVars, connVars, sockVars, AskedInv
  <2> QED
    BY <2>1, AskedKept DEF ConnNext
<1>3. ConnSpec => []ConnTypeOK
  BY ConnTypeCorrect
<1> QED
  BY <1>1, <1>2, <1>3, AskedIsOne, PTL DEF ConnSpec

-----------------------------------------------------------------------------
(* Peers that no two threads have at once.                                 *)

(* Where a thread holds a peer from the queue, where the identifier it     *)
(* keeps is that peer's, and where the manager has been told of it.        *)
Paired == {"bitfield", "interested", "catch", "closed"} \cup Established
Holding == {"connect"} \cup Paired
Known == {"interested", "catch"} \cup Established

(* No two threads have the same peer, be it that the tracker lists enough  *)
(* of them or that there is but one thread.                                *)
OwnPeers == DistinctPeers = TRUE \/ OneThread

(* The calls a thread may be in, the peer it removes, and that a thread    *)
(* leaves its outer loop only when the download was complete.              *)
CallState(t) ==
    /\ pc[t] # "ready" => loc[t] \in {"request", "closed", "destroyed"}
    /\ loc[t] = "request" => pc[t] # "remove"
    /\ loc[t] \in Paired => peerId[t] = peer[t]
    /\ loc[t] = "closed" /\ pc[t] = "remove" => leaving[t] = peerId[t]
    /\ loc[t] \in {"exit", "destroyed"} => Len(havePieces) >= totalPieces

PeersApart ==
    \A t, u \in Thread :
        t # u /\ loc[t] \in Holding /\ loc[u] \in Holding => peer[t] # peer[u]

(* The manager knows the peer of a thread in its message loop, until       *)
(* closeSock has removed it.                                               *)
KnownState(t) ==
    /\ loc[t] = "closed" => pc[t] \in {"ready", "remove"}
    /\ loc[t] = "destroyed" => pc[t] = "ready"
    /\ loc[t] \in Known \/ (loc[t] = "closed" /\ pc[t] = "remove") =>
          peerId[t] \in DOMAIN peers

KnownInv ==
    /\ \A t \in Thread : CallState(t)
    /\ PeersApart
    /\ Len(havePieces) <= totalPieces => \A t \in Thread : KnownState(t)

(* havePieces never becomes shorter.                                       *)
LEMMA HaveGrows ==
    ASSUME TypeOK, [Next]_vars
    PROVE  /\ Len(havePieces) \in Nat /\ Len(havePieces') \in Nat
           /\ Len(havePieces) <= Len(havePieces')
<1>1. Len(havePieces) \in Nat
  BY LenProperties DEF TypeOK
<1>2. CASE UNCHANGED havePieces
  BY <1>1, <1>2
<1>3. ASSUME NEW t \in Thread, Commit(t)
      PROVE  Len(havePieces') = Len(havePieces) + 1
  <2>1. PieceOf(t) \in Piece /\ havePieces \in Seq(Piece)
    BY <1>3 DEF Commit, Delivering, TypeOK
  <2> QED
    BY <1>3, <2>1, AppendProperties DEF Commit
<1>4. UNCHANGED havePieces \/ \E t \in Thread : Commit(t)
  <2>1. CASE Tick \/ Terminate \/ UNCHANGED vars
    BY <2>1 DEF Tick, Terminate, vars, pieceVars
  <2>2. ASSUME NEW t \in Thread, Call(t) \/ ErasePeer(t) \/ Catch(t)
        PROVE  UNCHANGED havePieces
    BY <2>2 DEF Call, ErasePeer, Catch, AddPeer, UpdatePeer, RemovePeer, BlockReceived,
                NextRequest, ExpiredRequest, NextOngoing, GetRarestPiece, StartPiece, pieceVars
  <2>3. ASSUME NEW t \in Thread, Deliver(t)
        PROVE  UNCHANGED havePieces \/ Commit(t)
    BY <2>3 DEF Deliver, StoreStatus, StoreData, DataRace, CheckComplete, AssertFails,
                CheckHash, Seek, Put, Reset, pieceVars
  <2> QED
    BY <2>1, <2>2, <2>3 DEF Next
<1> QED
  BY <1>1, <1>2, <1>3, <1>4

(* What the statements of a call do to the call itself.                    *)
LEMMA DeliverCall ==
    ASSUME TypeOK, NEW t \in Thread, Deliver(t)
    PROVE  /\ pc[t] \in Delivering /\ pc'[t] # "remove"
           /\ \A u \in Thread : u # t => pc'[u] = pc[u]
           /\ UNCHANGED <<leaving, peers>>
<1>1. CASE DataRace(t) \/ AssertFails(t)
  BY <1>1 DEF Deliver, DataRace, AssertFails, callVars, Delivering
<1>2. CASE ~(DataRace(t) \/ AssertFails(t))
  <2>1. PICK l \in (Delivering \cup {"ready", "thrown"}) : Goto(t, l)
    BY <1>2 DEF Deliver, StoreStatus, StoreData, CheckComplete, CheckHash, Seek, Put, Commit,
                Reset, Delivering
  <2>2. UNCHANGED <<leaving, peers>> /\ pc[t] \in Delivering
    BY <1>2 DEF Deliver, StoreStatus, StoreData, CheckComplete, CheckHash, Seek, Put, Commit,
                Reset
  <2> QED
    BY <2>1, <2>2 DEF Goto, TypeOK, Delivering
<1> QED
  BY <1>1, <1>2

(* A step of one thread leaves what the others hold alone.                 *)
LEMMA OthersKept ==
    ASSUME ConnInv, NEW t \in Thread, ThreadStep(t) \/ PeerStep(t), NEW u \in Thread, u # t
    PROVE  /\ loc'[u] = loc[u] /\ peer'[u] = peer[u] /\ peerId'[u] = peerId[u]
           /\ pc'[u] = pc[u] /\ leaving'[u] = leaving[u]
<1> USE DEF Goes
<1>0. /\ loc \in [Thread -> Locations] /\ TypeOK
      /\ peer \in [Thread -> PeerId \cup {NoBlock}]
      /\ peerId \in [Thread -> PeerId \cup {NoBlock}]
      /\ pc \in [Thread -> Label]
      /\ leaving \in [Thread -> PeerId \cup {NoBlock}]
  BY DEF ConnInv, ConnTypeOK, TypeOK
<1>1. CASE \/ OuterLoop(t) \/ PopPeer(t) \/ PopDummy(t)
           \/ Handshake(t) \/ HandshakeFails(t) \/ SendInterested(t)
           \/ InnerLoop(t) \/ NoRequest(t)
           \/ ReceiveChoke(t) \/ ReceiveUnchoke(t) \/ ReceiveOther(t) \/ ReceiveFails(t)
  <2>1. UNCHANGED vars
    BY <1>1, SilentSteps
  <2>2. UNCHANGED <<pc, leaving>>
    BY <2>1 DEF vars, callVars
  <2> QED
    BY <1>0, <1>1, <2>2
       DEF OuterLoop, PopPeer, PopDummy, Handshake, HandshakeFails, SendInterested,
           InnerLoop, NoRequest, ReceiveChoke, ReceiveUnchoke, ReceiveOther, ReceiveFails
<1>2. CASE ReceiveBitField(t) \/ ReceiveNewBitField(t) \/ RequestPiece(t)
  <2>1. UNCHANGED <<pc, leaving>>
    BY <1>2 DEF ReceiveBitField, ReceiveNewBitField, RequestPiece, AddPeer, NextRequest,
                vars, callVars
  <2>2. /\ loc'[u] = loc[u]
        /\ UNCHANGED <<peer, peerId>>
    BY <1>0, <1>2 DEF ReceiveBitField, ReceiveNewBitField, RequestPiece
  <2> QED
    BY <2>1, <2>2
<1>3. CASE ReceiveAnswer(t)
  BY <1>0, <1>3 DEF ReceiveAnswer, ReceivePiece, BlockReceived
<1>4. CASE \E index \in Piece : ReceiveHave(t, index)
  BY <1>0, <1>4 DEF ReceiveHave, UpdatePeer
<1>5. CASE CatchException(t)
  BY <1>0, <1>5 DEF CatchException, Catch
<1>6. CASE CloseInCatch(t) \/ Destroy(t)
  <2>1. /\ loc'[u] = loc[u] /\ UNCHANGED <<peer, peerId>>
        /\ RemovePeer(t, peerId[t]) \/ UNCHANGED vars
    BY <1>0, <1>6 DEF CloseInCatch, Destroy, CloseSock
  <2> QED
    BY <1>0, <2>1 DEF RemovePeer, vars, callVars
<1>7. CASE AfterClose(t)
  BY <1>0, <1>7 DEF AfterClose, Terminate, vars, callVars
<1>8. CASE InCall(t)
  <2>1. UNCHANGED <<loc, peer, peerId>>
    BY <1>8 DEF InCall, connVars
  <2>2. pc'[u] = pc[u] /\ leaving'[u] = leaving[u]
    BY <1>0, <1>8, DeliverCall DEF InCall, ErasePeer
  <2> QED
    BY <2>1, <2>2
<1> QED
  BY <1>1, <1>2, <1>3, <1>4, <1>5, <1>6, <1>7, <1>8 DEF ThreadStep, PeerStep

LEMMA OwnCallState ==
    ASSUME ConnInv, NEW t \in Thread, ThreadStep(t) \/ PeerStep(t), CallState(t),
           Len(havePieces) \in Nat, Len(havePieces') \in Nat,
           Len(havePieces) <= Len(havePieces')
    PROVE  CallState(t)'
<1> USE DEF CallState, At, Goes, Paired, Established
<1>0. /\ loc \in [Thread -> Locations] /\ TypeOK
      /\ peer \in [Thread -> PeerId \cup {NoBlock}]
      /\ peerId \in [Thread -> PeerId \cup {NoBlock}]
      /\ pc \in [Thread -> Label]
      /\ leaving \in [Thread -> PeerId \cup {NoBlock}]
      /\ totalPieces \in Nat
  BY TotalPiecesAssumption DEF ConnInv, ConnTypeOK, TypeOK
<1>1. CASE \/ OuterLoop(t) \/ PopPeer(t) \/ PopDummy(t)
           \/ Handshake(t) \/ HandshakeFails(t) \/ SendInterested(t)
           \/ InnerLoop(t) \/ NoRequest(t)
           \/ ReceiveChoke(t) \/ ReceiveUnchoke(t) \/ ReceiveOther(t) \/ ReceiveFails(t)
  <2>1. UNCHANGED vars
    BY <1>1, SilentSteps
  <2>2. UNCHANGED <<pc, leaving, havePieces>>
    BY <2>1 DEF vars, callVars, pieceVars
  <2>3. CASE OuterLoop(t) \/ PopPeer(t) \/ PopDummy(t)
    BY <1>0, <2>2, <2>3 DEF OuterLoop, PopPeer, PopDummy, IsComplete
  <2>4. CASE Handshake(t) \/ HandshakeFails(t) \/ SendInterested(t)
    BY <1>0, <2>2, <2>4 DEF Handshake, HandshakeFails, SendInterested
  <2>5. CASE InnerLoop(t) \/ NoRequest(t)
    BY <1>0, <2>2, <2>5 DEF InnerLoop, NoRequest
  <2>6. CASE ReceiveChoke(t) \/ ReceiveUnchoke(t) \/ ReceiveOther(t) \/ ReceiveFails(t)
    BY <1>0, <2>2, <2>6 DEF ReceiveChoke, ReceiveUnchoke, ReceiveOther, ReceiveFails
  <2> QED
    BY <1>1, <2>3, <2>4, <2>5, <2>6
<1>2. CASE ReceiveBitField(t) \/ ReceiveNewBitField(t) \/ RequestPiece(t)
  <2>1. UNCHANGED <<pc, leaving>>
    BY <1>2 DEF ReceiveBitField, ReceiveNewBitField, RequestPiece, AddPeer, NextRequest,
                vars, callVars
  <2>2. /\ pc[t] = "ready"
        /\ loc[t] \in {"bitfield", "receive", "request"}
        /\ loc'[t] \in {"interested", "loop", "request", "while", "catch"}
        /\ UNCHANGED <<peer, peerId>>
    BY <1>0, <1>2 DEF ReceiveBitField, ReceiveNewBitField, RequestPiece
  <2> QED
    BY <2>1, <2>2
<1>3. CASE ReceiveAnswer(t) \/ \E index \in Piece : ReceiveHave(t, index)
  <2>1. /\ loc[t] = "receive" /\ loc'[t] = "request"
        /\ UNCHANGED <<peer, peerId>>
        /\ pc'[t] # "remove"
    BY <1>0, <1>3 DEF ReceiveAnswer, ReceivePiece, BlockReceived, ReceiveHave, UpdatePeer
  <2> QED
    BY <2>1
<1>4. CASE CatchException(t)
  BY <1>0, <1>4 DEF CatchException, Catch
<1>5. CASE CloseInCatch(t) \/ Destroy(t)
  <2>1. /\ \/ loc[t] = "catch" /\ loc'[t] = "closed"
           \/ loc[t] = "exit" /\ loc'[t] = "destroyed"
        /\ UNCHANGED <<peer, peerId>>
        /\ pc[t] = "ready"
        /\ RemovePeer(t, peerId[t]) \/ UNCHANGED vars
    BY <1>0, <1>5 DEF CloseInCatch, Destroy, CloseSock
  <2>2. pc'[t] = "remove" => leaving'[t] = peerId[t]
    BY <1>0, <2>1 DEF RemovePeer, vars, callVars
  <2> QED
    BY <1>0, <2>1, <2>2
<1>6. CASE AfterClose(t)
  BY <1>0, <1>6 DEF AfterClose, Terminate, vars, callVars, pieceVars
<1>7. CASE InCall(t)
  <2>1. UNCHANGED <<loc, peer, peerId>>
    BY <1>7 DEF InCall, connVars
  <2>2. pc[t] # "ready" /\ pc'[t] # "remove"
    BY <1>0, <1>7, DeliverCall DEF InCall, ErasePeer, Delivering
  <2> QED
    BY <1>0, <2>1, <2>2
<1> QED
  BY <1>1, <1>2, <1>3, <1>4, <1>5, <1>6, <1>7 DEF ThreadStep, PeerStep

(* Only PopPeer gives a thread a peer.                                     *)
LEMMA HoldingKept ==
    ASSUME ConnInv, NEW t \in Thread, ThreadStep(t) \/ PeerStep(t), ~PopPeer(t),
           loc'[t] \in Holding
    PROVE  loc[t] \in Holding /\ peer'[t] = peer[t]
<1> USE DEF Holding, Paired, Established, At, Goes
<1>0. loc \in [Thread -> Locations]
  BY DEF ConnInv, ConnTypeOK
<1>1. CASE \/ OuterLoop(t) \/ PopDummy(t)
           \/ Handshake(t) \/ HandshakeFails(t) \/ ReceiveBitField(t) \/ SendInterested(t)
           \/ InnerLoop(t) \/ RequestPiece(t) \/ NoRequest(t)
  BY <1>0, <1>1 DEF OuterLoop, PopDummy, Handshake, HandshakeFails, ReceiveBitField,
                    SendInterested, InnerLoop, RequestPiece, NoRequest
<1>2. CASE CatchException(t) \/ CloseInCatch(t) \/ Destroy(t) \/ AfterClose(t) \/ InCall(t)
  BY <1>0, <1>2 DEF CatchException, CloseInCatch, Destroy, CloseSock, AfterClose, InCall, connVars
<1>3. CASE PeerStep(t)
  BY <1>0, <1>3 DEF PeerStep, ReceiveChoke, ReceiveUnchoke, ReceiveAnswer, ReceivePiece,
                    ReceiveHave, ReceiveNewBitField, ReceiveOther, ReceiveFails
<1> QED
  BY <1>1, <1>2, <1>3 DEF ThreadStep

LEMMA ApartKept ==
    ASSUME ConnInv, OwnPeers, PeersApart, NEW t \in Thread, ThreadStep(t) \/ PeerStep(t)
    PROVE  PeersApart'
<1>1. ASSUME NEW u \in Thread, u # t, loc'[t] \in Holding, loc'[u] \in Holding
      PROVE  peer'[t] # peer'[u]
  <2>1. loc[u] \in Holding /\ peer'[u] = peer[u]
    BY <1>1, OthersKept
  <2>2. CASE PopPeer(t)
    <3>1. PICK p \in PeerId : InUse(p) = {} /\ peer' = [peer EXCEPT ![t] = p]
      BY <1>1, <2>2 DEF PopPeer, OwnPeers, OneThread
    <3>2. loc[u] \notin {"loop", "pop", "done"}
      BY <2>1 DEF Holding, Paired, Established
    <3>3. peer[u] # p
      BY <3>1, <3>2 DEF InUse
    <3> QED
      BY <2>1, <3>1, <3>3 DEF ConnInv, ConnTypeOK
  <2>3. CASE ~PopPeer(t)
    BY <1>1, <2>1, <2>3, HoldingKept DEF PeersApart
  <2> QED
    BY <2>2, <2>3
<1>2. ASSUME NEW u \in Thread, NEW v \in Thread, u # v, u # t, v # t,
             loc'[u] \in Holding, loc'[v] \in Holding
      PROVE  peer'[u] # peer'[v]
  BY <1>2, OthersKept DEF PeersApart
<1> QED
  BY <1>1, <1>2 DEF PeersApart

(* The step of the thread itself, other than erasing its peer.             *)
LEMMA OwnKnownState ==
    ASSUME ConnInv, NEW t \in Thread, ThreadStep(t) \/ PeerStep(t), ~ErasePeer(t),
           CallState(t), KnownState(t), Len(havePieces) \in Nat, Len(havePieces) <= totalPieces,
           DOMAIN peers \subseteq DOMAIN peers'
    PROVE  KnownState(t)'
<1> USE DEF KnownState, CallState, At, Goes, Known, Established
<1>0. /\ loc \in [Thread -> Locations] /\ TypeOK
      /\ peerId \in [Thread -> PeerId \cup {NoBlock}]
      /\ pc \in [Thread -> Label]
      /\ totalPieces \in Nat
  BY TotalPiecesAssumption DEF ConnInv, ConnTypeOK, TypeOK
<1>1. CASE \/ OuterLoop(t) \/ PopPeer(t) \/ PopDummy(t)
           \/ Handshake(t) \/ HandshakeFails(t)
  BY <1>0, <1>1 DEF OuterLoop, PopPeer, PopDummy, Handshake, HandshakeFails
<1>2. CASE SendInterested(t) \/ InnerLoop(t) \/ NoRequest(t)
  BY <1>0, <1>2 DEF SendInterested, InnerLoop, NoRequest
<1>3. CASE ReceiveChoke(t) \/ ReceiveUnchoke(t) \/ ReceiveOther(t) \/ ReceiveFails(t)
  BY <1>0, <1>3 DEF ReceiveChoke, ReceiveUnchoke, ReceiveOther, ReceiveFails
<1>4. CASE ReceiveBitField(t)
  <2>1. UNCHANGED peerId /\ loc'[t] \in {"interested", "loop"}
    BY <1>0, <1>4 DEF ReceiveBitField
  <2>2. loc'[t] = "interested" => peerId[t] \in DOMAIN peers'
    BY <1>0, <1>4 DEF ReceiveBitField, AddPeer
  <2> QED
    BY <2>1, <2>2
<1>5. CASE \/ ReceiveNewBitField(t) \/ ReceiveAnswer(t)
           \/ \E index \in Piece : ReceiveHave(t, index)
  BY <1>0, <1>5 DEF ReceiveNewBitField, ReceiveAnswer, ReceivePiece, ReceiveHave
<1>6. CASE RequestPiece(t)
  <2>1. UNCHANGED peerId /\ loc[t] = "request" /\ loc'[t] \in {"while", "catch"}
    BY <1>0, <1>6 DEF RequestPiece
  <2> QED
    BY <2>1
<1>7. CASE CatchException(t)
  BY <1>0, <1>7 DEF CatchException
<1>8. CASE CloseInCatch(t) \/ Destroy(t)
  <2>1. /\ \/ loc[t] = "catch" /\ loc'[t] = "closed"
           \/ loc[t] = "exit" /\ loc'[t] = "destroyed"
        /\ UNCHANGED peerId /\ pc[t] = "ready"
        /\ RemovePeer(t, peerId[t]) \/ UNCHANGED vars
    BY <1>0, <1>8 DEF CloseInCatch, Destroy, CloseSock
  <2>2. pc'[t] \in {"ready", "remove"} /\ (pc'[t] = "remove" => ~IsComplete)
    BY <1>0, <2>1 DEF RemovePeer, vars, callVars
  <2>3. loc[t] = "exit" => IsComplete
    BY <1>0 DEF IsComplete
  <2> QED
    BY <1>0, <2>1, <2>2, <2>3
<1>9. CASE AfterClose(t)
  <2>1. loc'[t] \in {"loop", "done"}
    BY <1>0, <1>9 DEF AfterClose
  <2> QED
    BY <2>1
<1>10. CASE InCall(t)
  <2>1. UNCHANGED <<loc, peerId>> /\ Deliver(t)
    BY <1>10 DEF InCall, connVars
  <2>2. loc[t] = "request"
    BY <1>0, <2>1, DeliverCall DEF Delivering
  <2> QED
    BY <2>1, <2>2
<1> QED
  BY <1>1, <1>2, <1>3, <1>4, <1>5, <1>6, <1>7, <1>8, <1>9, <1>10 DEF ThreadStep, PeerStep

(* Only ErasePeer takes a peer away from the manager.                      *)
LEMMA PeersGrow ==
    ASSUME ConnInv, NEW t \in Thread, ThreadStep(t) \/ PeerStep(t), ~ErasePeer(t)
    PROVE  DOMAIN peers \subseteq DOMAIN peers'
<1>1. CASE InCall(t)
  BY <1>1, DeliverCall DEF InCall, ConnInv, ConnTypeOK
<1>2. CASE CatchException(t) \/ AfterClose(t)
  BY <1>2 DEF CatchException, Catch, AfterClose, Terminate, vars
<1>3. CASE ~(CatchException(t) \/ AfterClose(t) \/ InCall(t))
  <2>1. Call(t) \/ UNCHANGED vars
    BY <1>3, SilentSteps, CallingSteps DEF ThreadStep, PeerStep
  <2>2. CASE UNCHANGED vars
    BY <2>2 DEF vars
  <2>3. CASE Call(t)
    BY <2>3 DEF Call, AddPeer, UpdatePeer, RemovePeer, NextRequest, BlockReceived
  <2> QED
    BY <2>1, <2>2, <2>3
<1> QED
  BY <1>1, <1>2, <1>3

LEMMA ErasesItsOwn ==
    ASSUME ConnInv, KnownInv, Len(havePieces) <= totalPieces, NEW t \in Thread,
           InCall(t), ErasePeer(t)
    PROVE  \A u \in Thread : KnownState(u)'
<1>0. /\ loc \in [Thread -> Locations] /\ TypeOK
      /\ pc \in [Thread -> Label]
  BY DEF ConnInv, ConnTypeOK, TypeOK
<1>1. UNCHANGED <<loc, peer, peerId>>
  BY DEF InCall, connVars
<1>2. loc[t] = "closed" /\ pc[t] = "remove"
  <2>1. pc[t] = "remove"
    BY DEF ErasePeer
  <2>2. CallState(t) /\ KnownState(t)
    BY DEF KnownInv
  <2> QED
    BY <2>1, <2>2 DEF CallState, KnownState
<1>3. leaving[t] = peer[t] /\ leaving[t] \in DOMAIN peers
  BY <1>2 DEF KnownInv, CallState, KnownState, Paired
<1>4. /\ pc' = [pc EXCEPT ![t] = "ready"]
      /\ DOMAIN peers' = DOMAIN peers \ {peer[t]}
  BY <1>3 DEF ErasePeer
<1>5. KnownState(t)'
  BY <1>0, <1>1, <1>2, <1>4 DEF KnownState, Known, Established
<1>6. ASSUME NEW u \in Thread, u # t
      PROVE  KnownState(u)'
  <2>1. pc'[u] = pc[u]
    BY <1>0, <1>4, <1>6
  <2>2. KnownState(u) /\ CallState(u)
    BY DEF KnownInv
  <2>3. ASSUME loc[u] \in Known \/ loc[u] = "closed"
        PROVE  peerId[u] # peer[t]
    <3>1. loc[u] \in Paired /\ loc[u] \in Holding /\ loc[t] \in Holding
      BY <1>2, <2>3 DEF Known, Paired, Holding
    <3>2. peerId[u] = peer[u]
      BY <2>2, <3>1 DEF CallState
    <3> QED
      BY <1>6, <3>1, <3>2 DEF KnownInv, PeersApart
  <2> QED
    BY <1>1, <1>4, <2>1, <2>2, <2>3 DEF KnownState
<1> QED
  BY <1>5, <1>6

LEMMA NextKnownInv ==
    ASSUME OwnPeers
    PROVE  ConnInv /\ KnownInv /\ [ConnNext]_allVars => KnownInv'
<1> SUFFICES ASSUME ConnInv, KnownInv, [ConnNext]_allVars PROVE KnownInv'
  OBVIOUS
<1>0. /\ Len(havePieces) \in Nat /\ Len(havePieces') \in Nat
      /\ Len(havePieces) <= Len(havePieces')
      /\ totalPieces \in Nat
  BY ConnNextIsNext, HaveGrows, TotalPiecesAssumption DEF ConnInv, ConnTypeOK
<1>1. CASE TimePasses \/ UNCHANGED allVars
  <2>1. UNCHANGED <<loc, peer, peerId, pc, leaving, peers, havePieces>>
    BY <1>1 DEF TimePasses, Tick, allVars, connVars, vars, callVars, pieceVars
  <2> QED
    BY <2>1 DEF KnownInv, CallState, KnownState, PeersApart
<1>2. ASSUME NEW t \in Thread, ThreadStep(t) \/ PeerStep(t)
      PROVE  KnownInv'
  <2>1. PeersApart'
    BY <1>2, ApartKept DEF KnownInv
  <2>2. ASSUME NEW u \in Thread
        PROVE  CallState(u)'
    <3>1. CASE u = t
      BY <1>0, <1>2, <3>1, OwnCallState DEF KnownInv
    <3>2. CASE u # t
      BY <1>0, <1>2, <3>2, OthersKept DEF KnownInv, CallState
    <3> QED
      BY <3>1, <3>2
  <2>3. ASSUME Len(havePieces') <= totalPieces, NEW u \in Thread
        PROVE  KnownState(u)'
    <3>1. Len(havePieces) <= totalPieces
      BY <1>0, <2>3
    <3>2. CASE ErasePeer(t)
      <4>1. InCall(t)
        <5>1. pc[t] = "remove" /\ pc'[t] # "remove"
          BY <3>2 DEF ErasePeer, ConnInv, ConnTypeOK, TypeOK
        <5>2. ~UNCHANGED vars
          BY <5>1 DEF vars, callVars
        <5>3. ~(CatchException(t) \/ AfterClose(t) \/ Call(t))
          BY <5>1, <5>2 DEF CatchException, Catch, AfterClose, Terminate, callVars, At, Call,
                      AddPeer, UpdatePeer, RemovePeer, NextRequest, BlockReceived
        <5> QED
          BY <1>2, <5>2, <5>3, SilentSteps, CallingSteps DEF ThreadStep, PeerStep
      <4> QED
        BY <3>1, <3>2, <4>1, ErasesItsOwn
    <3>3. CASE ~ErasePeer(t)
      <4>1. DOMAIN peers \subseteq DOMAIN peers'
        BY <1>2, <3>3, PeersGrow
      <4>2. CASE u = t
        BY <1>0, <1>2, <3>1, <3>3, <4>1, <4>2, OwnKnownState DEF KnownInv
      <4>3. CASE u # t
        BY <1>2, <3>1, <4>1, <4>3, OthersKept DEF KnownInv, KnownState
      <4> QED
        BY <4>2, <4>3
    <3> QED
      BY <3>2, <3>3
  <2> QED
    BY <2>1, <2>2, <2>3 DEF KnownInv
<1> QED
  BY <1>1, <1>2 DEF ConnNext

LEMMA KnownInvariant ==
    ASSUME OwnPeers
    PROVE  ConnSpec => []KnownInv
<1>1. ConnInit => ConnInv /\ KnownInv
  <2> SUFFICES ASSUME ConnInit PROVE KnownInv
    BY InitConnInv
  <2>1. \A t \in Thread : loc[t] = "loop" /\ pc[t] = "ready"
    BY DEF ConnInit, Init
  <2> QED
    BY <2>1 DEF KnownInv, CallState, KnownState, PeersApart, Paired, Holding, Known, Established
<1>2. ConnInv /\ [ConnNext]_allVars => ConnInv'
  BY NextConnInv
<1>3. ConnInv /\ KnownInv /\ [ConnNext]_allVars => KnownInv'
  BY NextKnownInv
<1> QED
  BY <1>1, <1>2, <1>3, PTL DEF ConnSpec

(* As long as no two threads have the same peer, the manager knows the     *)
(* peer of every thread in its message loop: the threads remove only their *)
(* own peers, and those only after the loop.                               *)
THEOREM ConnectedPeersKnown ==
    ASSUME OwnPeers
    PROVE  ConnSpec => []ConnectedIsKnown
<1>1. KnownInv => ConnectedIsKnown
  BY DEF KnownInv, KnownState, ConnectedIsKnown, Known
<1> QED
  BY <1>1, KnownInvariant, PTL

(* ... so that removePeer, which closeSock calls outside every try block,  *)
(* does not throw.                                                         *)
THEOREM RemovedPeersFound ==
    ASSUME OwnPeers
    PROVE  ConnSpec => []RemoveFindsPeer
<1>1. KnownInv => RemoveFindsPeer
  BY DEF KnownInv, KnownState, RemoveFindsPeer
<1> QED
  BY <1>1, KnownInvariant, PTL

(* With one thread both hold whatever the queue gives out and as long as   *)
(* the process runs: no piece is committed twice, so havePieces is never   *)
(* longer than the list of pieces.                                         *)
THEOREM OneThreadPeersKnown ==
    ASSUME OneThread
    PROVE  ConnSpec => [](proc = "running" =>
               \A t \in Thread :
                   /\ loc[t] \in Established => peerId[t] \in DOMAIN peers
                   /\ loc[t] \in {"closed", "destroyed"} => pc[t] # "thrown")
<1>1. ConnSpec => []KnownInv
  BY KnownInvariant DEF OwnPeers
<1>2. ConnSpec => []BookInv
  BY ConnRefines, BookInvariant, PTL DEF UsesPieceManager
<1>3. KnownInv /\ BookInv /\ proc = "running" =>
          \A t \in Thread :
              /\ loc[t] \in Established => peerId[t] \in DOMAIN peers
              /\ loc[t] \in {"closed", "destroyed"} => pc[t] # "thrown"
  <2>1. BookInv /\ proc = "running" => Len(havePieces) <= totalPieces
    BY FullList DEF BookInv, Books, Accounted, TypeOK
  <2> QED
    BY <2>1 DEF KnownInv, KnownState, Known
<1> QED
  BY <1>1, <1>2, <1>3, PTL

-----------------------------------------------------------------------------
(* What is asked is needed, in a client with one thread.                   *)

(* While an answer is delivered nothing else is outstanding: the request   *)
(* it answers is not pending any more, and the next one is not sent yet.   *)
DeliversAnswer ==
    \A t \in Thread :
        pc[t] \in Delivering => loc[t] = "request" /\ requestPending[t] = FALSE

NeededInv == ConnInv /\ BookInv /\ AskedInv /\ DeliversAnswer /\ AnswerIsNeeded

(* The block nextRequest returns is pending, in a started piece.           *)
LEMMA RequestedIsPending ==
    ASSUME TypeOK, PendingExact, NEW t \in Thread, NEW p, NEW b \in Block,
           NextRequest(t, p, b), proc' = "running"
    PROVE  status'[b] = "pending" /\ b[1] \in Started'
<1>0. proc = "running" /\ b # NoBlock
  BY BlockProperties, NoBlockAssumption DEF NextRequest, ExpiredRequest, NextOngoing, GetRarestPiece
<1>1. ASSUME NEW q, PieceNextRequest(q, b)
      PROVE  b[1] = q /\ status'[b] = "pending"
  BY <1>0, <1>1 DEF PieceNextRequest, MissingBlocks, BlocksOf, TypeOK
<1>2. CASE ExpiredRequest(p, b)
  BY <1>0, <1>2 DEF ExpiredRequest, Expired, PendingExact, pieceVars, Started
<1>3. CASE NextOngoing(p, b)
  <2>1. PICK i \in DOMAIN ongoingPieces : PieceNextRequest(ongoingPieces[i], b)
    BY <1>3 DEF NextOngoing, Requestable
  <2>2. ongoingPieces[i] \in Started /\ Started' = Started
    BY <1>3 DEF NextOngoing, pieceVars, Started, ToSet
  <2> QED
    BY <1>1, <2>1, <2>2
<1>4. CASE GetRarestPiece(p, b)
  <2>1. PICK q \in missingPieces : StartPiece(q, b)
    BY <1>0, <1>4 DEF GetRarestPiece
  <2>2. q \in Started'
    BY <2>1, AppendToSet DEF StartPiece, Started, TypeOK
  <2> QED
    BY <1>1, <2>1, <2>2 DEF StartPiece
<1> QED
  BY <1>0, <1>2, <1>3, <1>4 DEF NextRequest

(* The steps that ask nothing and leave the blocks and the started pieces  *)
(* alone.                                                                  *)
LEMMA NeededKept ==
    ASSUME OneThread, AnswerIsNeeded, NEW t \in Thread,
           UNCHANGED <<ongoingPieces, status>>, proc' = proc \/ proc' = "crashed",
           asked'[t] = {} \/ (asked'[t] \subseteq asked[t] /\ peerId'[t] = peerId[t])
    PROVE  AnswerIsNeeded'
<1> SUFFICES ASSUME NEW b \in asked'[t], peerId'[t] \notin Rogue, proc' = "running"
             PROVE  status'[b] = "pending" /\ b[1] \in Started'
  BY DEF AnswerIsNeeded, OneThread
<1>1. b \in asked[t] /\ peerId[t] \notin Rogue /\ proc = "running"
  OBVIOUS
<1> QED
  BY <1>1 DEF AnswerIsNeeded, Started

LEMMA CallNeeded ==
    ASSUME OneThread, NeededInv, NEW t \in Thread, ThreadStep(t) \/ PeerStep(t),
           ~RequestPiece(t), ~Deliver(t)
    PROVE  AnswerIsNeeded'
<1>0. /\ asked \in [Thread -> SUBSET Block] /\ AnswerIsNeeded
      /\ peerId \in [Thread -> PeerId \cup {NoBlock}]
  BY DEF NeededInv, ConnInv, ConnTypeOK
<1>1. CASE \/ OuterLoop(t) \/ PopPeer(t) \/ PopDummy(t)
           \/ Handshake(t) \/ HandshakeFails(t) \/ SendInterested(t)
           \/ InnerLoop(t) \/ NoRequest(t)
           \/ ReceiveChoke(t) \/ ReceiveUnchoke(t) \/ ReceiveOther(t) \/ ReceiveFails(t)
  <2>1. UNCHANGED <<ongoingPieces, status, proc>>
    BY <1>1, SilentSteps DEF vars, pieceVars, blockVars
  <2>2. CASE Handshake(t) \/ HandshakeFails(t)
    <3>1. asked'[t] = {} \/ (asked' = asked /\ peerId' = peerId)
      BY <1>0, <2>2 DEF Handshake, HandshakeFails, OpenSock
    <3> QED
      BY <1>0, <2>1, <3>1, NeededKept
  <2>3. CASE ReceiveChoke(t)
    <3>1. peerId' = peerId /\ (asked' = asked \/ asked'[t] = {})
      BY <1>0, <2>3 DEF ReceiveChoke
    <3> QED
      BY <1>0, <2>1, <3>1, NeededKept
  <2>4. CASE ~(Handshake(t) \/ HandshakeFails(t) \/ ReceiveChoke(t))
    <3>1. UNCHANGED <<asked, peerId>>
      BY <1>1, <2>4 DEF OuterLoop, PopPeer, PopDummy, SendInterested, InnerLoop, NoRequest,
                        ReceiveUnchoke, ReceiveOther, ReceiveFails, sockVars
    <3> QED
      BY <1>0, <2>1, <3>1, NeededKept
  <2> QED
    BY <2>2, <2>3, <2>4
<1>2. CASE \/ ReceiveBitField(t) \/ ReceiveNewBitField(t)
           \/ \E index \in Piece : ReceiveHave(t, index)
  <2>1. UNCHANGED <<ongoingPieces, status, proc>>
    BY <1>2 DEF ReceiveBitField, ReceiveNewBitField, ReceiveHave, AddPeer, UpdatePeer,
                vars, pieceVars, blockVars
  <2>2. UNCHANGED <<asked, peerId>>
    BY <1>2 DEF ReceiveBitField, ReceiveNewBitField, ReceiveHave, sockVars
  <2> QED
    BY <1>0, <2>1, <2>2, NeededKept
<1>3. CASE ReceiveAnswer(t)
  <2>1. PICK b, d : ReceivePiece(t, b, d)
    BY <1>3 DEF ReceiveAnswer
  <2>2. UNCHANGED <<ongoingPieces, status, proc>>
    BY <2>1 DEF ReceivePiece, BlockReceived, pieceVars, blockVars
  <2>3. asked'[t] \subseteq asked[t] /\ peerId' = peerId
    BY <1>0, <2>1 DEF ReceivePiece
  <2> QED
    BY <1>0, <2>2, <2>3, NeededKept
<1>4. CASE CatchException(t) \/ AfterClose(t)
  <2>1. /\ UNCHANGED <<ongoingPieces, status>>
        /\ proc' = proc \/ proc' = "crashed"
    BY <1>4 DEF CatchException, Catch, AfterClose, Terminate, vars, pieceVars, blockVars
  <2>2. UNCHANGED <<asked, peerId>>
    BY <1>4 DEF CatchException, AfterClose, sockVars
  <2> QED
    BY <1>0, <2>1, <2>2, NeededKept
<1>5. CASE CloseInCatch(t) \/ Destroy(t)
  <2>1. UNCHANGED <<ongoingPieces, status, proc>>
    BY <1>5 DEF CloseInCatch, Destroy, CloseSock, RemovePeer, vars, pieceVars, blockVars
  <2>2. peerId' = peerId /\ (asked' = asked \/ asked'[t] = {})
    BY <1>0, <1>5 DEF CloseInCatch, Destroy, CloseSock
  <2> QED
    BY <1>0, <2>1, <2>2, NeededKept
<1>6. CASE InCall(t)
  <2>1. UNCHANGED <<ongoingPieces, status, proc, asked, peerId>>
    BY <1>6 DEF InCall, ErasePeer, pieceVars, blockVars, connVars, sockVars
  <2> QED
    BY <1>0, <2>1, NeededKept
<1> QED
  BY <1>1, <1>2, <1>3, <1>4, <1>5, <1>6 DEF ThreadStep, PeerStep

(* Before a request is sent, and while an answer is delivered, a peer that *)
(* keeps to what it is asked owes nothing.                                 *)
LEMMA NothingOwed ==
    ASSUME NeededInv, NEW t \in Thread, peerId[t] \notin Rogue,
           \/ loc[t] = "request" /\ ~requestPending[t]
           \/ pc[t] \in Delivering
    PROVE  asked[t] = {}
<1>1. loc[t] = "request" /\ ~requestPending[t]
  BY DEF NeededInv, DeliversAnswer
<1> QED
  BY <1>1 DEF NeededInv, AskedInv, Established

LEMMA RequestNeeded ==
    ASSUME OneThread, NeededInv, NEW t \in Thread, RequestPiece(t)
    PROVE  AnswerIsNeeded'
<1> SUFFICES ASSUME NEW c \in asked'[t], peerId'[t] \notin Rogue, proc' = "running"
             PROVE  status'[c] = "pending" /\ c[1] \in Started'
  BY DEF AnswerIsNeeded, OneThread
<1>1. PICK b \in Block \cup {NoBlock} :
         /\ NextRequest(t, peerId[t], b)
         /\ UNCHANGED asked \/ (b # NoBlock /\ asked' = [asked EXCEPT ![t] = @ \cup {b}])
  BY DEF RequestPiece
<1>2. asked[t] = {}
  BY NothingOwed DEF RequestPiece, At
<1>3. b \in Block /\ c = b
  BY <1>1, <1>2 DEF NeededInv, ConnInv, ConnTypeOK
<1>4. proc = "running"
  BY <1>1 DEF NextRequest, ExpiredRequest, NextOngoing, GetRarestPiece
<1>5. TypeOK /\ PendingExact
  BY <1>4 DEF NeededInv, BookInv, Books, Accounted, PendingExact
<1> QED
  BY <1>1, <1>3, <1>5, RequestedIsPending

LEMMA DeliverNeeded ==
    ASSUME OneThread, NeededInv, NEW t \in Thread, ThreadStep(t) \/ PeerStep(t), Deliver(t)
    PROVE  AnswerIsNeeded'
<1>1. pc[t] \in Delivering
  BY DEF Deliver
<1>2. InCall(t)
  <2>1. pc[t] # "ready" /\ pc[t] # "thrown"
    BY <1>1 DEF Delivering
  <2>2. CASE AfterClose(t)
    <3>1. loc[t] = "request"
      BY <1>1 DEF NeededInv, DeliversAnswer
    <3> QED
      BY <2>2, <3>1 DEF AfterClose, At
  <2> QED
    BY <2>1, <2>2 DEF ThreadStep, PeerStep, At, OuterLoop, PopPeer, PopDummy, Handshake,
         HandshakeFails, ReceiveBitField, SendInterested, InnerLoop, RequestPiece, NoRequest,
         CatchException, Catch, CloseInCatch, Destroy, ReceiveChoke, ReceiveUnchoke,
         ReceiveAnswer, ReceivePiece, ReceiveHave, ReceiveNewBitField, ReceiveOther, ReceiveFails
<1>3. UNCHANGED <<asked, peerId>>
  BY <1>2 DEF InCall, connVars, sockVars
<1>4. peerId[t] \notin Rogue => asked[t] = {}
  BY <1>1, NothingOwed
<1> QED
  BY <1>3, <1>4 DEF AnswerIsNeeded, OneThread

LEMMA DeliversKept ==
    ASSUME OneThread, NeededInv, NEW t \in Thread, ThreadStep(t) \/ PeerStep(t)
    PROVE  DeliversAnswer'
<1> SUFFICES ASSUME pc'[t] \in Delivering
             PROVE  loc'[t] = "request" /\ requestPending'[t] = FALSE
  BY DEF DeliversAnswer, OneThread
<1>0. /\ pc \in [Thread -> Label] /\ TypeOK /\ ConnInv
      /\ loc \in [Thread -> Locations]
      /\ requestPending \in [Thread -> BOOLEAN]
      /\ "ready" \notin Delivering /\ "thrown" \notin Delivering /\ "remove" \notin Delivering
  BY DEF NeededInv, ConnInv, ConnTypeOK, TypeOK, Delivering
<1>1. CASE InCall(t)
  <2>1. UNCHANGED <<loc, requestPending>>
    BY <1>1 DEF InCall, connVars
  <2>2. pc[t] \in Delivering
    BY <1>0, <1>1 DEF InCall, Deliver, ErasePeer
  <2> QED
    BY <2>1, <2>2 DEF NeededInv, DeliversAnswer
<1>2. CASE ReceiveAnswer(t)
  BY <1>0, <1>2 DEF ReceiveAnswer, ReceivePiece, Goes
<1>3. CASE CatchException(t) \/ AfterClose(t)
  <2>1. pc'[t] \in {"ready", "thrown"}
    BY <1>0, <1>3 DEF CatchException, Catch, AfterClose, At, Terminate, vars, callVars
  <2> QED
    BY <1>0, <2>1
<1>4. CASE ~(InCall(t) \/ ReceiveAnswer(t) \/ CatchException(t) \/ AfterClose(t))
  <2>1. pc[t] = "ready"
    BY <1>4 DEF ThreadStep, PeerStep, At, OuterLoop, PopPeer, PopDummy, Handshake,
         HandshakeFails, ReceiveBitField, SendInterested, InnerLoop, RequestPiece, NoRequest,
         CloseInCatch, Destroy, ReceiveChoke, ReceiveUnchoke,
         ReceiveHave, ReceiveNewBitField, ReceiveOther, ReceiveFails
  <2>2. CASE \/ OuterLoop(t) \/ PopPeer(t) \/ PopDummy(t)
             \/ Handshake(t) \/ HandshakeFails(t) \/ SendInterested(t)
             \/ InnerLoop(t) \/ NoRequest(t)
             \/ ReceiveChoke(t) \/ ReceiveUnchoke(t) \/ ReceiveOther(t) \/ ReceiveFails(t)
    BY <1>0, <2>1, <2>2, SilentSteps DEF vars, callVars
  <2>3. CASE \/ ReceiveBitField(t) \/ ReceiveNewBitField(t) \/ RequestPiece(t)
    <3>1. UNCHANGED pc
      BY <2>3 DEF ReceiveBitField, ReceiveNewBitField, RequestPiece, AddPeer, NextRequest,
                  vars, callVars
    <3> QED
      BY <1>0, <2>1, <3>1
  <2>4. CASE \E index \in Piece : ReceiveHave(t, index)
    <3>1. pc' = pc \/ pc'[t] = "thrown"
      BY <1>0, <2>4 DEF ReceiveHave, UpdatePeer
    <3> QED
      BY <1>0, <2>1, <3>1
  <2>5. CASE CloseInCatch(t) \/ Destroy(t)
    <3>1. pc' = pc \/ pc'[t] = "remove"
      BY <1>0, <2>5 DEF CloseInCatch, Destroy, CloseSock, RemovePeer, vars, callVars
    <3> QED
      BY <1>0, <2>1, <3>1
  <2> QED
    BY <1>4, <2>2, <2>3, <2>4, <2>5 DEF ThreadStep, PeerStep
<1> QED
  BY <1>1, <1>2, <1>3, <1>4

LEMMA NextNeededInv ==
    ASSUME OneThread
    PROVE  NeededInv /\ [ConnNext]_allVars => NeededInv'
<1> SUFFICES ASSUME NeededInv, [ConnNext]_allVars PROVE NeededInv'
  OBVIOUS
<1>1. ConnInv' /\ BookInv'
  BY NextConnInv, ConnNextIsNext, NextBookInv DEF NeededInv
<1>2. CASE TimePasses \/ UNCHANGED allVars
  <2>1. UNCHANGED <<loc, peerId, requestPending, asked, pc, status, proc, ongoingPieces>>
    BY <1>2 DEF TimePasses, Tick, allVars, connVars, sockVars, vars, callVars, blockVars,
                pieceVars
  <2>2. AskedInv' /\ DeliversAnswer'
    BY <2>1 DEF NeededInv, AskedInv, DeliversAnswer
  <2>3. AnswerIsNeeded'
    BY <2>1 DEF NeededInv, AnswerIsNeeded, Started
  <2> QED
    BY <1>1, <2>2, <2>3 DEF NeededInv
<1>3. ASSUME NEW t \in Thread, ThreadStep(t) \/ PeerStep(t)
      PROVE  NeededInv'
  <2>1. AskedInv'
    BY <1>3, AskedKept DEF NeededInv, ConnInv
  <2>2. DeliversAnswer'
    BY <1>3, DeliversKept
  <2>3. AnswerIsNeeded'
    BY <1>3, CallNeeded, RequestNeeded, DeliverNeeded
  <2> QED
    BY <1>1, <2>1, <2>2, <2>3 DEF NeededInv
<1> QED
  BY <1>2, <1>3 DEF ConnNext

(* With one thread no answer is wasted: from the moment a block is asked   *)
(* for until its answer is delivered, it stays marked pending and its      *)
(* piece started, whatever expires, is reissued, choked or reconnected.    *)
THEOREM AnswersNeeded ==
    ASSUME OneThread
    PROVE  ConnSpec => []AnswerIsNeeded
<1>1. ConnInit => NeededInv
  <2> SUFFICES ASSUME ConnInit PROVE AskedInv /\ DeliversAnswer /\ AnswerIsNeeded
    BY InitConnInv, InitBookInv DEF ConnInit, NeededInv
  <2>1. \A t \in Thread : pc[t] \notin Delivering
    BY DEF ConnInit, Init, Delivering
  <2> QED
    BY <2>1 DEF ConnInit, AskedInv, Established, DeliversAnswer, AnswerIsNeeded
<1>2. NeededInv /\ [ConnNext]_allVars => NeededInv'
  BY NextNeededInv
<1>3. NeededInv => AnswerIsNeeded
  BY DEF NeededInv
<1> QED
  BY <1>1, <1>2, <1>3, PTL DEF ConnSpec
=============================================================================
