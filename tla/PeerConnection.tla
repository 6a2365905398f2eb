--------------------------- MODULE PeerConnection ---------------------------
(***************************************************************************)
(* The download threads.  Each runs PeerConnection::start: it takes a peer *)
(* from the shared queue, connects, exchanges handshake and bit field,     *)
(* then reads one message at a time and asks for one block at a time,      *)
(* until the download is complete or the connection fails, and starts over *)
(* with another peer.  All threads call one PieceManager, whose operations *)
(* are the actions of the module this one extends.                         *)
(*                                                                         *)
(* The remote peers and the network are the environment: a peer of Rogue   *)
(* sends any block with any data at any time; the others send only blocks  *)
(* they were asked for, with the right data.  Faults names what else may   *)
(* happen: "refuse" (a connection cannot be established), "close" (an      *)
(* established one fails, or a message with an invalid identifier - which  *)
(* is what a keep-alive is turned into - arrives), "choke".                *)
(***************************************************************************)
EXTENDS PieceManager

CONSTANTS
    serves,         \* serves[p]: the pieces peer p announces in its bit field
    Rogue,          \* peers that do not keep to what they are asked
    Faults,         \* faults of network and peers
    DistinctPeers   \* TRUE: no two threads get the same peer from the queue

ASSUME ServesAssumption == serves \in [PeerId -> SUBSET Piece]
ASSUME RogueAssumption == Rogue \subseteq PeerId
ASSUME FaultsAssumption == Faults \subseteq {"refuse", "close", "choke"}
ASSUME DistinctAssumption == DistinctPeers \in BOOLEAN

VARIABLES
    loc,             \* where each thread is in PeerConnection::start
    peer,            \* the peer it took from the queue
    peerId,          \* the identifier it keeps from the last handshake
    sock,            \* it holds an open socket
    hasBitField,     \* peerBitField is not empty
    choked,          \* the flags of the same names
    requestPending,
    asked,           \* blocks requested on the socket and not answered yet
    choking          \* the remote peer is choking the client on the socket

sockVars == <<sock, hasBitField, asked, choking>>
connVars == <<loc, peer, peerId, sockVars, choked, requestPending>>
allVars == <<vars, connVars>>

ConnInit ==
    /\ Init
    /\ loc = [t \in Thread |-> "loop"]
    /\ peer = [t \in Thread |-> NoBlock]
    /\ peerId = [t \in Thread |-> NoBlock]
    /\ sock = [t \in Thread |-> FALSE]
    /\ hasBitField = [t \in Thread |-> FALSE]
    /\ choked = [t \in Thread |-> TRUE]
    /\ requestPending = [t \in Thread |-> FALSE]
    /\ asked = [t \in Thread |-> {}]
    /\ choking = [t \in Thread |-> TRUE]

(* Thread t is at location l, not inside a call of the piece manager.      *)
At(t, l) == Alive /\ loc[t] = l /\ pc[t] = "ready"
Goes(t, l) == loc' = [loc EXCEPT ![t] = l]

-----------------------------------------------------------------------------
(* The outer loop and the queue.                                           *)

(* while (!(terminated || isComplete())): terminated is only ever set on   *)
(* copies of the object the thread runs on.                                *)
OuterLoop(t) ==
    /\ At(t, "loop")
    /\ Goes(t, IF IsComplete THEN "exit" ELSE "pop")
    /\ UNCHANGED <<vars, peer, peerId, sockVars, choked, requestPending>>

InUse(p) == {u \in Thread : peer[u] = p /\ loc[u] \notin {"loop", "pop", "done"}}

(* A peer the tracker listed.                                              *)
PopPeer(t) ==
    /\ At(t, "pop")
    /\ \E p \in PeerId :
          /\ DistinctPeers => InUse(p) = {}
          /\ peer' = [peer EXCEPT ![t] = p]
    /\ Goes(t, "connect")
    /\ UNCHANGED <<vars, peerId, sockVars, choked, requestPending>>

(* The dummy peer 0.0.0.0 that TorrentClient::terminate queues once it has *)
(* seen the download complete.                                             *)
PopDummy(t) ==
    /\ At(t, "pop")
    /\ Len(havePieces) >= totalPieces
    /\ Goes(t, "exit")
    /\ UNCHANGED <<vars, peer, peerId, sockVars, choked, requestPending>>

-----------------------------------------------------------------------------
(* establishNewConnection.  When it fails it returns false: the socket it  *)
(* may have opened stays open, and is overwritten by the next one.         *)

(* A new connection, on which nothing is asked yet and the client choked.  *)
OpenSock(t) ==
    /\ sock' = [sock EXCEPT ![t] = TRUE]
    /\ asked' = [asked EXCEPT ![t] = {}]
    /\ choking' = [choking EXCEPT ![t] = TRUE]

(* performHandshake.                                                       *)
Handshake(t) ==
    /\ At(t, "connect")
    /\ OpenSock(t)
    /\ peerId' = [peerId EXCEPT ![t] = peer[t]]
    /\ \/ Goes(t, "bitfield")
       \/ "refuse" \in Faults /\ Goes(t, "loop")   \* another info hash
    /\ UNCHANGED <<vars, peer, hasBitField, choked, requestPending>>

(* Mutant: a failed attempt removes the peer of the last handshake.        *)
HandshakeFails_Removes(t) ==
    /\ At(t, "connect")
    /\ "refuse" \in Faults
    /\ RemovePeer(t, peerId[t])
    /\ Goes(t, "loop")
    /\ UNCHANGED <<peer, peerId, sockVars, choked, requestPending>>

(* The connection, or the handshake's answer, fails.                       *)
HandshakeFails(t) ==
    /\ At(t, "connect")
    /\ "refuse" \in Faults
    /\ UNCHANGED <<sock, asked, choking>> \/ OpenSock(t)
    /\ Goes(t, "loop")
    /\ UNCHANGED <<vars, peer, peerId, hasBitField, choked, requestPending>>

(* Mutant: the peer is not added to the manager.                           *)
ReceiveBitField_NoAdd(t) ==
    /\ At(t, "bitfield")
    /\ hasBitField' = [hasBitField EXCEPT ![t] = TRUE]
    /\ Goes(t, "interested")
    /\ UNCHANGED <<vars, peer, peerId, sock, asked, choking, choked, requestPending>>

ReceiveBitField(t) ==
    /\ At(t, "bitfield")
    /\ \/ /\ hasBitField' = [hasBitField EXCEPT ![t] = TRUE]
          /\ AddPeer(t, peerId[t], serves[peerId[t]])
          /\ Goes(t, "interested")
       \/ /\ "refuse" \in Faults
          /\ Goes(t, "loop")
          /\ UNCHANGED <<vars, hasBitField>>
    /\ UNCHANGED <<peer, peerId, sock, asked, choking, choked, requestPending>>

SendInterested(t) ==
    /\ At(t, "interested")
    /\ \/ Goes(t, "while")
       \/ "refuse" \in Faults /\ Goes(t, "loop")
    /\ UNCHANGED <<vars, peer, peerId, sockVars, choked, requestPending>>

-----------------------------------------------------------------------------
(* The inner loop: one message, then perhaps one request.                  *)

(* Mutant: the loop waits for another message whatever has been received.  *)
InnerLoop_Forever(t) ==
    /\ At(t, "while")
    /\ Goes(t, "receive")
    /\ UNCHANGED <<vars, peer, peerId, sockVars, choked, requestPending>>

InnerLoop(t) ==
    /\ At(t, "while")
    /\ Goes(t, IF IsComplete THEN "loop" ELSE "receive")
    /\ UNCHANGED <<vars, peer, peerId, sockVars, choked, requestPending>>

(* Mutant: the outstanding request is given up.                            *)
ReceiveChoke_GivesUp(t) ==
    /\ At(t, "receive")
    /\ "choke" \in Faults
    /\ choked' = [choked EXCEPT ![t] = TRUE]
    /\ choking' = [choking EXCEPT ![t] = TRUE]
    /\ requestPending' = [requestPending EXCEPT ![t] = FALSE]
    /\ Goes(t, "request")
    /\ UNCHANGED <<vars, peer, peerId, sock, hasBitField, asked>>

(* A choking peer may forget the requests it has not answered.             *)
ReceiveChoke(t) ==
    /\ At(t, "receive")
    /\ "choke" \in Faults
    /\ choked' = [choked EXCEPT ![t] = TRUE]
    /\ choking' = [choking EXCEPT ![t] = TRUE]
    /\ asked' \in {asked, [asked EXCEPT ![t] = {}]}
    /\ Goes(t, "request")
    /\ UNCHANGED <<vars, peer, peerId, sock, hasBitField, requestPending>>

ReceiveUnchoke(t) ==
    /\ At(t, "receive")
    /\ choked' = [choked EXCEPT ![t] = FALSE]
    /\ choking' = [choking EXCEPT ![t] = FALSE]
    /\ Goes(t, "request")
    /\ UNCHANGED <<vars, peer, peerId, sock, hasBitField, asked, requestPending>>

(* Mutant: the request stays pending.                                      *)
ReceivePiece_StillPending(t, b, d) ==
    /\ At(t, "receive")
    /\ asked' = [asked EXCEPT ![t] = @ \ {b}]
    /\ BlockReceived(t, b, d)
    /\ Goes(t, "request")
    /\ UNCHANGED <<peer, peerId, sock, hasBitField, choking, choked, requestPending>>

ReceivePiece(t, b, d) ==
    /\ At(t, "receive")
    /\ requestPending' = [requestPending EXCEPT ![t] = FALSE]
    /\ asked' = [asked EXCEPT ![t] = @ \ {b}]
    /\ BlockReceived(t, b, d)
    /\ Goes(t, "request")
    /\ UNCHANGED <<peer, peerId, sock, hasBitField, choking, choked>>

(* What the peer of thread t can send in a Piece message.                  *)
Sendable(t) ==
    IF peerId[t] \in Rogue THEN Address \X {"good", "bad"} ELSE asked[t] \X {"good"}

ReceiveHave(t, index) ==
    /\ At(t, "receive")
    /\ UpdatePeer(t, peerId[t], index)
    /\ Goes(t, "request")
    /\ UNCHANGED <<peer, peerId, sockVars, choked, requestPending>>

(* A Bitfield message in the inner loop replaces the recorded pieces.      *)
ReceiveNewBitField(t) ==
    /\ At(t, "receive")
    /\ AddPeer(t, peerId[t], serves[peerId[t]])
    /\ Goes(t, "request")
    /\ UNCHANGED <<peer, peerId, sockVars, choked, requestPending>>

(* Any other identifier up to 10 is only logged.                           *)
ReceiveOther(t) ==
    /\ At(t, "receive")
    /\ Goes(t, "request")
    /\ UNCHANGED <<vars, peer, peerId, sockVars, choked, requestPending>>

(* receiveData throws, or the message identifier is above 10.              *)
ReceiveFails(t) ==
    /\ At(t, "receive")
    /\ "close" \in Faults
    /\ Goes(t, "catch")
    /\ UNCHANGED <<vars, peer, peerId, sockVars, choked, requestPending>>

(* Mutant: the result of nextRequest is not compared with nullptr.         *)
RequestPiece_NoNullCheck(t) ==
    /\ At(t, "request")
    /\ ~choked[t] /\ ~requestPending[t]
    /\ \E b \in Block \cup {NoBlock} :
          /\ NextRequest(t, peerId[t], b)
          /\ asked' = [asked EXCEPT ![t] = @ \cup {b}]
    /\ requestPending' = [requestPending EXCEPT ![t] = TRUE]
    /\ Goes(t, "while")
    /\ UNCHANGED <<peer, peerId, sock, hasBitField, choking, choked>>

(* if (!choked) { if (!requestPending) requestPiece(); }                   *)
(* A peer that is choking the client may ignore the request.               *)
RequestPiece(t) ==
    /\ At(t, "request")
    /\ ~choked[t] /\ ~requestPending[t]
    /\ \E b \in Block \cup {NoBlock} :
          /\ NextRequest(t, peerId[t], b)
          /\ \/ /\ b = NoBlock
                /\ Goes(t, "while")
                /\ UNCHANGED <<requestPending, asked>>
             \/ /\ b # NoBlock
                /\ \/ asked' = [asked EXCEPT ![t] = @ \cup {b}]
                   \/ choking[t] /\ UNCHANGED asked
                /\ requestPending' = [requestPending EXCEPT ![t] = TRUE]
                /\ Goes(t, "while")
             \/ /\ b # NoBlock /\ "close" \in Faults
                /\ Goes(t, "catch")
                /\ UNCHANGED <<requestPending, asked>>
    /\ UNCHANGED <<peer, peerId, sock, hasBitField, choking, choked>>

NoRequest(t) ==
    /\ At(t, "request")
    /\ choked[t] \/ requestPending[t]
    /\ Goes(t, "while")
    /\ UNCHANGED <<vars, peer, peerId, sockVars, choked, requestPending>>

-----------------------------------------------------------------------------
(* The catch block and closeSock.                                          *)

(* blockReceived or updatePeer ended with an exception.                    *)
CatchException(t) ==
    /\ loc[t] = "request"
    /\ Catch(t)
    /\ Goes(t, "catch")
    /\ UNCHANGED <<peer, peerId, sockVars, choked, requestPending>>

(* Mutant: closing also gives back the blocks the connection waits for.    *)
CloseSock_GivesBack(t, next) ==
    /\ sock' = [sock EXCEPT ![t] = FALSE]
    /\ status' = [b \in Block |-> IF b \in asked[t] THEN "missing" ELSE status[b]]
    /\ asked' = [asked EXCEPT ![t] = {}]
    /\ requestPending' = [requestPending EXCEPT ![t] = FALSE]
    /\ hasBitField' = [hasBitField EXCEPT ![t] = FALSE]
    /\ Goes(t, next)
    /\ UNCHANGED <<pieceVars, pendingRequests, peers, data, fileVars, proc, callVars>>
    /\ UNCHANGED <<peer, peerId, choking, choked>>

(* closeSock, after which the thread goes on at next.  It leaves choked as *)
(* it is.                                                                  *)
CloseSock(t, next) ==
    /\ \/ /\ sock[t]
          /\ sock' = [sock EXCEPT ![t] = FALSE]
          /\ asked' = [asked EXCEPT ![t] = {}]
          /\ requestPending' = [requestPending EXCEPT ![t] = FALSE]
          /\ hasBitField' = [hasBitField EXCEPT ![t] = FALSE]
          /\ \/ hasBitField[t] /\ RemovePeer(t, peerId[t])
             \/ ~hasBitField[t] /\ UNCHANGED vars
       \/ /\ ~sock[t]
          /\ UNCHANGED <<vars, sock, asked, requestPending, hasBitField>>
    /\ Goes(t, next)
    /\ UNCHANGED <<peer, peerId, choking, choked>>

CloseInCatch(t) == At(t, "catch") /\ CloseSock(t, "closed")

(* start has returned and the thread destroys its PeerConnection.          *)
Destroy(t) == At(t, "exit") /\ CloseSock(t, "destroyed")

(* closeSock has returned; or removePeer has thrown, the exception leaves  *)
(* the catch block and with it the thread's function, or the destructor,   *)
(* and std::terminate is called.                                           *)
AfterClose(t) ==
    /\ \/ /\ At(t, "closed")
          /\ Goes(t, "loop")
          /\ UNCHANGED vars
       \/ /\ At(t, "destroyed")
          /\ Goes(t, "done")
          /\ UNCHANGED vars
       \/ /\ loc[t] \in {"closed", "destroyed"}
          /\ pc[t] = "thrown"
          /\ Terminate
          /\ UNCHANGED loc
    /\ UNCHANGED <<peer, peerId, sockVars, choked, requestPending>>

-----------------------------------------------------------------------------

(* Steps inside a call of the piece manager.                               *)
InCall(t) ==
    /\ Deliver(t) \/ ErasePeer(t)
    /\ UNCHANGED connVars

(* Steps the thread takes by itself.                                       *)
ThreadStep(t) ==
    \/ OuterLoop(t) \/ PopPeer(t) \/ PopDummy(t)
    \/ Handshake(t) \/ HandshakeFails(t) \/ ReceiveBitField(t) \/ SendInterested(t)
    \/ InnerLoop(t) \/ RequestPiece(t) \/ NoRequest(t)
    \/ CatchException(t) \/ CloseInCatch(t) \/ Destroy(t) \/ AfterClose(t)
    \/ InCall(t)

ReceiveAnswer(t) == \E m \in Sendable(t) : ReceivePiece(t, m[1], m[2])

(* Messages the peer sends.                                                *)
PeerStep(t) ==
    \/ ReceiveChoke(t) \/ ReceiveUnchoke(t) \/ ReceiveAnswer(t)
    \/ \E index \in Piece : ReceiveHave(t, index)
    \/ ReceiveNewBitField(t) \/ ReceiveOther(t) \/ ReceiveFails(t)

TimePasses == Tick /\ UNCHANGED connVars

ConnNext == TimePasses \/ \E t \in Thread : ThreadStep(t) \/ PeerStep(t)

ConnSpec == ConnInit /\ [][ConnNext]_allVars

-----------------------------------------------------------------------------
(* Properties.                                                             *)

Locations == {"loop", "pop", "connect", "bitfield", "interested", "while", "receive",
              "request", "catch", "closed", "exit", "destroyed", "done"}

(* Locations in which the connection is established.                       *)
Established == {"while", "receive", "request"}

ConnTypeOK ==
    /\ TypeOK
    /\ loc \in [Thread -> Locations]
    /\ peer \in [Thread -> PeerId \cup {NoBlock}]
    /\ peerId \in [Thread -> PeerId \cup {NoBlock}]
    /\ sock \in [Thread -> BOOLEAN]
    /\ hasBitField \in [Thread -> BOOLEAN]
    /\ choked \in [Thread -> BOOLEAN]
    /\ requestPending \in [Thread -> BOOLEAN]
    /\ asked \in [Thread -> SUBSET Block]
    /\ choking \in [Thread -> BOOLEAN]

(* Whatever messages and failures the threads meet, they only ever change  *)
(* the manager's state by its operations: what holds of PieceManager's     *)
(* specification holds of the connections.                                 *)
UsesPieceManager == Spec

(* As long as no two threads have the same peer, a thread in its message   *)
(* loop finds its peer among the manager's peers: nextRequest is not       *)
(* silently given an unknown peer, and updatePeer does not throw.  (Unless *)
(* pieces committed twice have made havePieces longer than the list of     *)
(* pieces, so that a download that was complete no longer is.)             *)
ConnectedIsKnown ==
    Len(havePieces) <= totalPieces =>
        \A t \in Thread : loc[t] \in Established => peerId[t] \in DOMAIN peers

(* ... and removePeer, called by closeSock, finds it there, so that no     *)
(* exception leaves the thread or the destructor.                          *)
RemoveFindsPeer ==
    Len(havePieces) <= totalPieces =>
        \A t \in Thread : loc[t] \in {"closed", "destroyed"} => pc[t] # "thrown"

(* At most one request is outstanding on a connection whose peer keeps to  *)
(* what it is asked, and requestPending says whether one is: a thread that *)
(* thinks it has no request outstanding is not owed a block.               *)
OneRequestAtATime ==
    \A t \in Thread :
        loc[t] \in Established /\ peerId[t] \notin Rogue /\ pc[t] = "ready" =>
            /\ Cardinality(asked[t]) <= 1
            /\ asked[t] # {} => requestPending[t]

(* With one thread no answer is wasted: the block a connection waits for   *)
(* is marked pending, and its piece is started and not yet downloaded,     *)
(* through expiries, reissues, chokes and reconnections.                   *)
AnswerIsNeeded ==
    \A t \in Thread : \A b \in asked[t] :
        peerId[t] \notin Rogue /\ proc = "running" =>
            status[b] = "pending" /\ b[1] \in Started

-----------------------------------------------------------------------------
(* Liveness, for peers that answer.                                        *)

(* A connection attempt that gets past the peer and the network.           *)
Connects(t) ==
    \/ Handshake(t) /\ Goes(t, "bitfield")
    \/ ReceiveBitField(t) /\ Goes(t, "interested")
    \/ SendInterested(t) /\ Goes(t, "while")

(* The operating system runs the threads and time passes; not every        *)
(* attempt to connect fails; a peer unchokes a client it chokes, and       *)
(* answers what it is asked, though other messages may come first.         *)
ConnFairness ==
    /\ WF_allVars(TimePasses)
    /\ \A t \in Thread :
          /\ WF_allVars(ThreadStep(t))
          /\ SF_allVars(Connects(t) /\ loc[t] = "connect")
          /\ SF_allVars(Connects(t) /\ loc[t] = "bitfield")
          /\ SF_allVars(Connects(t) /\ loc[t] = "interested")
          /\ SF_allVars(ReceiveUnchoke(t) /\ choking[t])
          /\ SF_allVars(ReceiveAnswer(t))

FairConnSpec == ConnSpec /\ ConnFairness

(* The download completes.                                                 *)
Completes == <>(Have = Piece)

(* Every thread comes to its end, as TorrentClient::terminate expects when *)
(* it joins them.                                                          *)
ThreadsEnd == <>(\A t \in Thread : loc[t] = "done")
=============================================================================
