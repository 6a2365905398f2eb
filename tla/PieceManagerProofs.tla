------------------------- MODULE PieceManagerProofs -------------------------
(***************************************************************************)
(* Proofs about PieceManager, for any number of threads, peers, pieces and *)
(* blocks and any calls.                                                   *)
(***************************************************************************)
EXTENDS PieceManager, SequenceTheorems, FiniteSetTheorems, TLAPS

-----------------------------------------------------------------------------
(* Facts about sequences.                                                  *)

(* RemoveAt drops one element and keeps the order of the others.           *)
LEMMA RemoveAtProperties ==
    ASSUME NEW S, NEW s \in Seq(S), NEW i \in DOMAIN s
    PROVE  /\ RemoveAt(s, i) \in Seq(S)
           /\ Len(RemoveAt(s, i)) = Len(s) - 1
           /\ \A k \in 1 .. Len(s) - 1 :
                 RemoveAt(s, i)[k] = IF k < i THEN s[k] ELSE s[k + 1]
<1> DEFINE u == SubSeq(s, 1, i - 1)
           v == SubSeq(s, i + 1, Len(s))
<1>1. i \in 1 .. Len(s) /\ Len(s) \in Nat
  BY LenProperties
<1>2. /\ u \in Seq(S)
      /\ Len(u) = i - 1
      /\ \A k \in 1 .. i - 1 : u[k] = s[k]
  <2>1. \A k \in 1 .. i - 1 : s[k] \in S
    BY <1>1, ElementOfSeq
  <2> HIDE DEF u
  <2>2. /\ SubSeq(s, 1, i - 1) \in Seq(S)
        /\ Len(SubSeq(s, 1, i - 1)) = IF 1 <= i - 1 THEN (i - 1) - 1 + 1 ELSE 0
        /\ \A k \in 1 .. (i - 1) - 1 + 1 : SubSeq(s, 1, i - 1)[k] = s[1 + k - 1]
    BY <1>1, <2>1, SubSeqProperties
  <2> QED
    BY <1>1, <2>2 DEF u
<1>3. /\ v \in Seq(S)
      /\ Len(v) = Len(s) - i
      /\ \A k \in 1 .. Len(s) - i : v[k] = s[i + k]
  <2>1. \A k \in i + 1 .. Len(s) : s[k] \in S
    BY <1>1, ElementOfSeq
  <2> HIDE DEF v
  <2>2. /\ SubSeq(s, i + 1, Len(s)) \in Seq(S)
        /\ Len(SubSeq(s, i + 1, Len(s)))
             = IF i + 1 <= Len(s) THEN Len(s) - (i + 1) + 1 ELSE 0
        /\ \A k \in 1 .. Len(s) - (i + 1) + 1 :
              SubSeq(s, i + 1, Len(s))[k] = s[(i + 1) + k - 1]
    BY <1>1, <2>1, SubSeqProperties
  <2> QED
    BY <1>1, <2>2 DEF v
<1> HIDE DEF u, v
<1> DEFINE r == u \o v
<1>4. /\ r \in Seq(S)
      /\ Len(r) = Len(u) + Len(v)
      /\ \A k \in 1 .. Len(u) + Len(v) :
            r[k] = IF k <= Len(u) THEN u[k] ELSE v[k - Len(u)]
  BY <1>2, <1>3, ConcatProperties
<1>5. RemoveAt(s, i) = r
  BY DEF RemoveAt, u, v
<1> HIDE DEF r
<1>6. ASSUME NEW k \in 1 .. Len(s) - 1
      PROVE  r[k] = IF k < i THEN s[k] ELSE s[k + 1]
  <2>0. r[k] = IF k <= Len(u) THEN u[k] ELSE v[k - Len(u)]
    BY <1>1, <1>2, <1>3, <1>4
  <2>1. CASE k < i
    BY <1>1, <1>2, <2>0, <2>1
  <2>2. CASE ~(k < i)
    <3>1. k - Len(u) \in 1 .. Len(s) - i
      BY <1>1, <1>2, <2>2
    <3>2. v[k - Len(u)] = s[i + (k - Len(u))]
      BY <1>3, <3>1
    <3>3. i + (k - Len(u)) = k + 1
      BY <1>1, <1>2
    <3> QED
      BY <1>1, <1>2, <2>0, <2>2, <3>2, <3>3
  <2> QED
    BY <2>1, <2>2
<1>7. Len(r) = Len(s) - 1
  BY <1>1, <1>2, <1>3, <1>4
<1> QED
  BY <1>4, <1>5, <1>6, <1>7

(* From a sequence without repetition it drops exactly that element.       *)
LEMMA RemoveAtInjective ==
    ASSUME NEW S, NEW s \in Seq(S), IsInjective(s), NEW i \in DOMAIN s
    PROVE  /\ IsInjective(RemoveAt(s, i))
           /\ ToSet(RemoveAt(s, i)) = ToSet(s) \ {s[i]}
<1> DEFINE r == RemoveAt(s, i)
<1>1. /\ i \in 1 .. Len(s) /\ Len(s) \in Nat
      /\ DOMAIN s = 1 .. Len(s)
  BY LenProperties
<1>2. /\ r \in Seq(S)
      /\ Len(r) = Len(s) - 1
      /\ \A k \in 1 .. Len(s) - 1 : r[k] = IF k < i THEN s[k] ELSE s[k + 1]
  BY RemoveAtProperties
<1>3. DOMAIN r = 1 .. Len(s) - 1
  BY <1>2, LenProperties
<1> HIDE DEF r
<1> DEFINE at(k) == IF k < i THEN k ELSE k + 1
<1>a. \A k \in DOMAIN r : at(k) \in DOMAIN s /\ at(k) # i /\ r[k] = s[at(k)]
  BY <1>1, <1>2, <1>3
<1>b. \A k, l \in DOMAIN r : at(k) = at(l) => k = l
  BY <1>1, <1>3
<1> HIDE DEF at
<1>4. IsInjective(r)
  BY <1>a, <1>b DEF IsInjective
<1>5. ToSet(r) \subseteq ToSet(s) \ {s[i]}
  BY <1>a DEF ToSet, IsInjective
<1>6. ASSUME NEW j \in DOMAIN s, s[j] # s[i]
      PROVE  s[j] \in ToSet(r)
  <2>1. CASE j < i
    BY <1>1, <1>2, <1>3, <2>1 DEF ToSet
  <2>2. CASE j > i
    <3>1. j - 1 \in DOMAIN r /\ r[j - 1] = s[j]
      BY <1>1, <1>2, <1>3, <2>2
    <3> QED
      BY <3>1 DEF ToSet
  <2> QED
    BY <1>1, <1>6, <2>1, <2>2
<1> QED
  BY <1>4, <1>5, <1>6 DEF r, ToSet

(* What it keeps was there before.                                         *)
LEMMA RemoveAtSubset ==
    ASSUME NEW S, NEW s \in Seq(S), NEW i \in DOMAIN s,
           NEW k \in DOMAIN RemoveAt(s, i)
    PROVE  \E j \in DOMAIN s : RemoveAt(s, i)[k] = s[j]
<1>1. Len(s) \in Nat /\ DOMAIN s = 1 .. Len(s)
  BY LenProperties
<1>2. DOMAIN RemoveAt(s, i) = 1 .. Len(s) - 1
  BY RemoveAtProperties, LenProperties, <1>1
<1>3. RemoveAt(s, i)[k] = IF k < i THEN s[k] ELSE s[k + 1]
  BY <1>2, RemoveAtProperties
<1>4. k \in DOMAIN s /\ k + 1 \in DOMAIN s
  BY <1>1, <1>2
<1> QED
  BY <1>3, <1>4

LEMMA AppendToSet ==
    ASSUME NEW S, NEW s \in Seq(S), NEW e \in S
    PROVE  /\ ToSet(Append(s, e)) = ToSet(s) \cup {e}
           /\ IsInjective(s) /\ e \notin ToSet(s) => IsInjective(Append(s, e))
<1>1. /\ Append(s, e) \in Seq(S)
      /\ Len(Append(s, e)) = Len(s) + 1
      /\ \A i \in 1 .. Len(s) : Append(s, e)[i] = s[i]
      /\ Append(s, e)[Len(s) + 1] = e
  BY AppendProperties
<1>2. /\ Len(s) \in Nat
      /\ DOMAIN s = 1 .. Len(s)
      /\ DOMAIN Append(s, e) = 1 .. Len(s) + 1
  BY <1>1, LenProperties
<1> QED
  BY <1>1, <1>2 DEF ToSet, IsInjective

-----------------------------------------------------------------------------
(* Facts about blocks and about the initial state's sequences.             *)

LEMMA BlockProperties ==
    /\ Piece \subseteq Region
    /\ \A a \in Address : a[1] \in Region /\ a # NoBlock
    /\ \A b \in Block : b[1] \in Piece /\ b \in Address /\ b # NoBlock
    /\ \A b \in Block : b[2] \in Nat
<1>1. Piece \subseteq Region
  BY TotalPiecesAssumption DEF Piece, Region
<1>2. \A a \in Address : a[1] \in Region
  <2> TAKE a \in Address
  <2>1. CASE a = <<totalPieces, 0>>
    BY <2>1, TotalPiecesAssumption DEF Region
  <2>2. CASE \E p \in Piece : a \in {p} \X (0 .. blockCount[p])
    BY <1>1, <2>2
  <2> QED
    BY <2>1, <2>2 DEF Address
<1>3. \A b \in Block : b[1] \in Piece /\ b[2] \in Nat
  BY BlockCountAssumption DEF Block
<1>4. ASSUME NEW b \in Block PROVE b \in Address
  <2>1. PICK p \in Piece : b \in {p} \X (0 .. blockCount[p] - 1)
    BY DEF Block
  <2>2. b \in {p} \X (0 .. blockCount[p])
    BY <2>1, BlockCountAssumption
  <2> QED
    BY <2>2 DEF Address
<1> QED
  BY <1>1, <1>2, <1>3, <1>4, NoBlockAssumption

LEMMA EmptySequence ==
    /\ \A S : <<>> \in Seq(S)
    /\ IsInjective(<<>>)
    /\ ToSet(<<>>) = {}
    /\ Len(<<>>) = 0
    /\ DOMAIN <<>> = {}
  BY EmptySeq DEF IsInjective, ToSet

-----------------------------------------------------------------------------
(* Type correctness.                                                       *)

LEMMA InitTypeOK == Init => TypeOK
<1> SUFFICES ASSUME Init PROVE TypeOK
  OBVIOUS
<1> USE DEF Init
<1>1. /\ ongoingPieces \in Seq(Piece) /\ IsInjective(ongoingPieces)
      /\ havePieces \in Seq(Piece)
      /\ pendingRequests \in Seq(Request)
  BY EmptySequence
<1>2. DOMAIN peers \subseteq PeerId /\ peers \in [DOMAIN peers -> SUBSET Piece]
  OBVIOUS
<1>3. filePos \in Region
  BY TotalPiecesAssumption DEF Region
<1>4. pc \in [Thread -> Label] /\ \A t \in Thread : pc[t] \notin Delivering
  BY DEF Label, Delivering
<1> QED
  BY <1>1, <1>2, <1>3, <1>4 DEF TypeOK, Status, Datum

(* The blocks and pieces a step names are in their sets.                   *)
LEMMA NextRequestType ==
    ASSUME TypeOK, NEW t \in Thread, NEW peer \in PeerId,
           NEW b \in Block \cup {NoBlock}, NextRequest(t, peer, b)
    PROVE  TypeOK'
<1>1. UNCHANGED <<peers, data, disk, filePos, pc, blk, dat, leaving>>
  BY DEF NextRequest, fileVars, callVars
<1>2. ASSUME NEW p \in Piece, PieceNextRequest(p, b)
      PROVE  status' \in [Block -> Status]
  BY <1>2 DEF PieceNextRequest, MissingBlocks, BlocksOf, TypeOK, Status
<1>3. ASSUME NEW p \in Piece, StartPiece(p, b)
      PROVE  /\ missingPieces' \in SUBSET Piece
             /\ ongoingPieces' \in Seq(Piece) /\ IsInjective(ongoingPieces')
             /\ havePieces' \in Seq(Piece)
             /\ pendingRequests' \in Seq(Request)
             /\ status' \in [Block -> Status]
  <2>1. ongoingPieces' \in Seq(Piece) /\ IsInjective(ongoingPieces')
    BY <1>3, AppendProperties, AppendToSet DEF StartPiece, Started, TypeOK
  <2> QED
    BY <1>2, <1>3, <2>1 DEF StartPiece, TypeOK
<1>4. ASSUME ExpiredRequest(peer, b) PROVE pendingRequests' \in Seq(Request)
  <2>1. PICK i \in DOMAIN pendingRequests :
           pendingRequests' = [pendingRequests EXCEPT ![i].age = 0]
    BY <1>4 DEF ExpiredRequest, Expired
  <2>2. pendingRequests[i] \in Request
    BY ElementOfSeq, LenProperties DEF TypeOK
  <2>3. [pendingRequests[i] EXCEPT !.age = 0] \in Request
    BY <2>2, PendingTimeAssumption DEF Request
  <2> QED
    BY <2>1, <2>3, ExceptSeq DEF TypeOK
<1>5. ASSUME NextOngoing(peer, b)
      PROVE  pendingRequests' \in Seq(Request) /\ status' \in [Block -> Status]
  <2>1. PICK i \in Requestable(peer) :
           /\ PieceNextRequest(ongoingPieces[i], b)
           /\ pendingRequests' = Append(pendingRequests, [block |-> b, age |-> 0])
    BY <1>5 DEF NextOngoing
  <2>2. ongoingPieces[i] \in Piece /\ MissingBlocks(ongoingPieces[i]) # {}
    BY ElementOfSeq, LenProperties DEF TypeOK, Requestable
  <2>3. b \in Block
    BY <2>1, <2>2 DEF PieceNextRequest, MissingBlocks, BlocksOf
  <2>4. [block |-> b, age |-> 0] \in Request
    BY <2>3, PendingTimeAssumption DEF Request
  <2> QED
    BY <1>2, <2>1, <2>2, <2>4, AppendProperties DEF TypeOK
<1>6. /\ missingPieces' \in SUBSET Piece
      /\ ongoingPieces' \in Seq(Piece) /\ IsInjective(ongoingPieces')
      /\ havePieces' \in Seq(Piece)
      /\ pendingRequests' \in Seq(Request)
      /\ status' \in [Block -> Status]
      /\ proc' \in {"running", "undefined", "crashed"}
  <2>1. CASE ExpiredRequest(peer, b)
    BY <1>4, <2>1 DEF ExpiredRequest, pieceVars, TypeOK
  <2>2. CASE NextOngoing(peer, b)
    BY <1>5, <2>2 DEF NextOngoing, pieceVars, TypeOK
  <2>3. CASE GetRarestPiece(peer, b)
    <3>1. CASE \E p \in Piece : StartPiece(p, b)
      BY <1>3, <2>3, <3>1 DEF GetRarestPiece, TypeOK
    <3>2. CASE UNCHANGED <<pieceVars, pendingRequests, status>> /\ proc' = "crashed"
      BY <3>2 DEF pieceVars, TypeOK
    <3> QED
      BY <2>3, <3>1, <3>2, StaleAssumption DEF GetRarestPiece, TypeOK
  <2>4. CASE UNCHANGED <<pieceVars, pendingRequests, status, proc>>
    BY <2>4 DEF pieceVars, TypeOK
  <2> QED
    BY <2>1, <2>2, <2>3, <2>4 DEF NextRequest
<1> QED
  BY <1>1, <1>6 DEF TypeOK, PieceOf

LEMMA PeerType ==
    ASSUME TypeOK, NEW t \in Thread, NEW peer \in PeerId,
           \/ \E pieces \in SUBSET Piece : AddPeer(t, peer, pieces)
           \/ \E p \in Piece : UpdatePeer(t, peer, p)
           \/ RemovePeer(t, peer)
    PROVE  TypeOK'
<1> USE DEF pieceVars, blockVars, fileVars, callVars
<1>1. CASE \E pieces \in SUBSET Piece : AddPeer(t, peer, pieces)
  <2>1. PICK pieces \in SUBSET Piece : AddPeer(t, peer, pieces)
    BY <1>1
  <2>2. DOMAIN peers' \subseteq PeerId /\ peers' \in [DOMAIN peers' -> SUBSET Piece]
    BY <2>1 DEF AddPeer, TypeOK
  <2> QED
    BY <2>1, <2>2 DEF AddPeer, TypeOK, PieceOf
<1>2. CASE \E p \in Piece : UpdatePeer(t, peer, p)
  <2>1. PICK p \in Piece : UpdatePeer(t, peer, p)
    BY <1>2
  <2>2. DOMAIN peers' \subseteq PeerId /\ peers' \in [DOMAIN peers' -> SUBSET Piece]
    BY <2>1 DEF UpdatePeer, TypeOK
  <2>3. /\ pc' \in [Thread -> Label]
        /\ \A u \in Thread : pc'[u] \in Delivering => pc'[u] = pc[u]
    BY <2>1 DEF UpdatePeer, TypeOK, Label, Delivering
  <2> QED
    BY <2>1, <2>2, <2>3 DEF UpdatePeer, TypeOK, PieceOf
<1>3. CASE RemovePeer(t, peer)
  <2>1. /\ pc' \in [Thread -> Label]
        /\ \A u \in Thread : pc'[u] \in Delivering => pc'[u] = pc[u]
    BY <1>3 DEF RemovePeer, TypeOK, Label, Delivering
  <2> QED
    BY <1>3, <2>1 DEF RemovePeer, TypeOK, PieceOf
<1> QED
  BY <1>1, <1>2, <1>3

LEMMA ErasePeerType ==
    ASSUME TypeOK, NEW t \in Thread, ErasePeer(t) \/ Catch(t)
    PROVE  TypeOK'
<1> USE DEF pieceVars, blockVars, fileVars, callVars
<1>1. /\ pc' \in [Thread -> Label]
      /\ \A u \in Thread : pc'[u] \in Delivering => pc'[u] = pc[u]
  BY DEF ErasePeer, Catch, TypeOK, Label, Delivering
<1>2. DOMAIN peers' \subseteq PeerId /\ peers' \in [DOMAIN peers' -> SUBSET Piece]
  BY DEF ErasePeer, Catch, TypeOK
<1>3. leaving' \in [Thread -> PeerId \cup {NoBlock}]
  BY DEF ErasePeer, Catch, TypeOK
<1>4. UNCHANGED <<pieceVars, pendingRequests, blockVars, fileVars, proc, blk, dat>>
  BY DEF ErasePeer, Catch
<1> QED
  BY <1>1, <1>2, <1>3, <1>4 DEF TypeOK, PieceOf

LEMMA DropPendingType ==
    ASSUME TypeOK, NEW b, DropPending(b)
    PROVE  /\ pendingRequests' \in Seq(Request)
           /\ \A k \in DOMAIN pendingRequests' :
                 \E j \in DOMAIN pendingRequests : pendingRequests'[k] = pendingRequests[j]
<1>0. pendingRequests \in Seq(Request)
  BY DEF TypeOK
<1>1. CASE UNCHANGED pendingRequests
  BY <1>0, <1>1
<1>2. ASSUME NEW i \in DOMAIN pendingRequests,
             pendingRequests' = RemoveAt(pendingRequests, i)
      PROVE  /\ pendingRequests' \in Seq(Request)
             /\ \A k \in DOMAIN pendingRequests' :
                   \E j \in DOMAIN pendingRequests :
                      pendingRequests'[k] = pendingRequests[j]
  BY <1>0, <1>2, RemoveAtProperties, RemoveAtSubset
<1> QED
  BY <1>1, <1>2 DEF DropPending

LEMMA BlockReceivedType ==
    ASSUME TypeOK, NEW t \in Thread, NEW b \in Address, NEW d \in {"good", "bad"},
           BlockReceived(t, b, d)
    PROVE  TypeOK'
<1> USE DEF pieceVars, blockVars, fileVars, callVars
<1>1. pendingRequests' \in Seq(Request)
  BY DropPendingType DEF BlockReceived
<1>2. b[1] \in Started => b[1] \in Piece
  BY ElementOfSeq, LenProperties DEF Started, ToSet, TypeOK
<1>3. /\ pc' \in [Thread -> Label]
      /\ blk' \in [Thread -> Address \cup {NoBlock}]
      /\ dat' \in [Thread -> Datum]
  <2>1. CASE UNCHANGED <<blk, dat>>
    BY <2>1 DEF BlockReceived, TypeOK, Label, Delivering
  <2>2. CASE blk' = [blk EXCEPT ![t] = b] /\ dat' = [dat EXCEPT ![t] = d]
    BY <2>2 DEF BlockReceived, TypeOK, Label, Delivering, Datum
  <2> QED
    BY <2>1, <2>2 DEF BlockReceived
<1>4. ASSUME NEW u \in Thread
      PROVE  /\ pc'[u] \in Delivering => blk'[u] \in Address /\ blk'[u][1] \in Piece
             /\ pc'[u] \in Delivering \ {"store_status"} => blk'[u] \in Block
  <2>1. CASE u = t
    BY <1>2, <2>1 DEF BlockReceived, TypeOK, Delivering
  <2>2. CASE u # t
    BY <2>2 DEF BlockReceived, TypeOK, PieceOf
  <2> QED
    BY <2>1, <2>2
<1> QED
  BY <1>1, <1>3, <1>4 DEF BlockReceived, TypeOK, PieceOf

(* A thread that goes on inside blockReceived keeps its block.             *)
LEMMA GotoType ==
    ASSUME TypeOK, NEW t \in Thread, NEW l, Goto(t, l),
           pc[t] \in Delivering,
           l \in {"ready", "thrown"} \/ (l \in Delivering \ {"store_status"} /\ blk[t] \in Block)
    PROVE  /\ pc' \in [Thread -> Label]
           /\ blk' \in [Thread -> Address \cup {NoBlock}]
           /\ dat' \in [Thread -> Datum]
           /\ \A u \in Thread :
                 /\ pc'[u] \in Delivering => blk'[u] \in Address /\ blk'[u][1] \in Piece
                 /\ pc'[u] \in Delivering \ {"store_status"} => blk'[u] \in Block
                 /\ pc'[u] \in Delivering => pc[u] \in Delivering /\ blk'[u] = blk[u]
                 /\ u # t => pc'[u] = pc[u] /\ blk'[u] = blk[u] /\ dat'[u] = dat[u]
<1>1. /\ pc' \in [Thread -> Label]
      /\ blk' \in [Thread -> Address \cup {NoBlock}]
      /\ dat' \in [Thread -> Datum]
  BY DEF Goto, TypeOK, Label, Delivering, Datum
<1>2. ASSUME NEW u \in Thread, u # t
      PROVE  pc'[u] = pc[u] /\ blk'[u] = blk[u] /\ dat'[u] = dat[u]
  BY <1>2 DEF Goto, TypeOK
<1>3. pc'[t] = l /\ (l \in Delivering => blk'[t] = blk[t])
  BY DEF Goto, TypeOK
<1>4. "ready" \notin Delivering /\ "thrown" \notin Delivering
  BY DEF Delivering
<1> QED
  BY <1>1, <1>2, <1>3, <1>4 DEF TypeOK, PieceOf

(* The typing part of every statement of blockReceived.                    *)
LEMMA DeliverType ==
    ASSUME TypeOK, NEW t \in Thread, Deliver(t)
    PROVE  TypeOK'
<1> USE DEF pieceVars, blockVars, fileVars
<1> DEFINE Typed(l) == Goto(t, l) /\ pc[t] \in Delivering
                       /\ (l \in {"ready", "thrown"}
                           \/ (l \in Delivering \ {"store_status"} /\ blk[t] \in Block))
<1>0. /\ pc[t] \in Delivering => blk[t] \in Address /\ PieceOf(t) \in Piece
      /\ pc[t] \in Delivering \ {"store_status"} => blk[t] \in Block
      /\ Piece \subseteq Region
  BY BlockProperties DEF TypeOK
<1>1. CASE StoreStatus(t)
  <2>1. \E l : Typed(l)
    BY <1>0, <1>1 DEF StoreStatus, Delivering
  <2>2. status' \in [Block -> Status]
    BY <1>1 DEF StoreStatus, TypeOK, Status
  <2> QED
    BY <1>1, <2>1, <2>2, GotoType DEF StoreStatus, TypeOK, PieceOf
<1>2. CASE StoreData(t)
  <2>1. \E l : Typed(l)
    BY <1>0, <1>2 DEF StoreData, Delivering
  <2>2. data' \in [Block -> Datum]
    BY <1>0, <1>2 DEF StoreData, TypeOK, Datum
  <2> QED
    BY <1>2, <2>1, <2>2, GotoType DEF StoreData, TypeOK, PieceOf
<1>3. CASE DataRace(t) \/ AssertFails(t)
  BY <1>3 DEF DataRace, AssertFails, callVars, TypeOK, PieceOf
<1>4. CASE CheckComplete(t)
  <2>1. \E l : Typed(l)
    BY <1>0, <1>4 DEF CheckComplete, Delivering
  <2> QED
    BY <1>4, <2>1, GotoType DEF CheckComplete, TypeOK, PieceOf
<1>5. CASE CheckHash(t)
  <2>1. \E l : Typed(l)
    BY <1>0, <1>5 DEF CheckHash, Delivering
  <2> QED
    BY <1>5, <2>1, GotoType DEF CheckHash, TypeOK, PieceOf
<1>6. CASE Seek(t)
  <2>1. \E l : Typed(l)
    BY <1>0, <1>6 DEF Seek, Delivering
  <2>2. filePos' \in Region
    BY <1>0, <1>6 DEF Seek, Delivering
  <2> QED
    BY <1>6, <2>1, <2>2, GotoType DEF Seek, TypeOK, PieceOf
<1>7. CASE Put(t)
  <2>1. \E l : Typed(l)
    BY <1>0, <1>7 DEF Put, Delivering
  <2>2. filePos' \in Region
    BY <1>7, TotalPiecesAssumption DEF Put, TypeOK, Region
  <2>3. disk' \in [Region -> Datum]
    BY <1>7 DEF Put, TypeOK, Datum
  <2> QED
    BY <1>7, <2>1, <2>2, <2>3, GotoType DEF Put, TypeOK, PieceOf
<1>8. CASE Commit(t)
  <2>1. \E l : Typed(l)
    BY <1>0, <1>8 DEF Commit, Delivering
  <2>2. ongoingPieces' \in Seq(Piece) /\ IsInjective(ongoingPieces')
    BY <1>8, RemoveAtProperties, RemoveAtInjective DEF Commit, TypeOK
  <2>3. havePieces' \in Seq(Piece)
    BY <1>0, <1>8, AppendProperties DEF Commit, TypeOK, Delivering
  <2> QED
    BY <1>8, <2>1, <2>2, <2>3, GotoType DEF Commit, TypeOK, PieceOf
<1>9. CASE Reset(t)
  <2>1. \E l : Typed(l)
    BY <1>0, <1>9 DEF Reset, Delivering
  <2>2. status' \in [Block -> Status]
    BY <1>9 DEF Reset, TypeOK, Status
  <2> QED
    BY <1>9, <2>1, <2>2, GotoType DEF Reset, TypeOK, PieceOf
<1> QED
  BY <1>1, <1>2, <1>3, <1>4, <1>5, <1>6, <1>7, <1>8, <1>9 DEF Deliver

LEMMA TickType ==
    ASSUME TypeOK, Tick
    PROVE  /\ TypeOK'
           /\ DOMAIN pendingRequests' = DOMAIN pendingRequests
           /\ \A i \in DOMAIN pendingRequests :
                 pendingRequests'[i].block = pendingRequests[i].block
<1> DEFINE older(i) == [pendingRequests[i] EXCEPT !.age =
                          IF @ < maxPendingTime THEN @ + 1 ELSE @]
<1>1. /\ DOMAIN pendingRequests = 1 .. Len(pendingRequests)
      /\ Len(pendingRequests) \in Nat
  BY LenProperties DEF TypeOK
<1>2. ASSUME NEW i \in DOMAIN pendingRequests
      PROVE  older(i) \in Request /\ older(i).block = pendingRequests[i].block
  <2>1. pendingRequests[i] \in Request
    BY <1>1, ElementOfSeq DEF TypeOK
  <2> QED
    BY <2>1, PendingTimeAssumption DEF Request
<1>3. pendingRequests' = [i \in DOMAIN pendingRequests |-> older(i)]
  BY DEF Tick
<1> HIDE DEF older
<1>4. pendingRequests' \in Seq(Request)
  BY <1>1, <1>2, <1>3, IsASeq
<1> QED
  BY <1>2, <1>3, <1>4 DEF Tick, pieceVars, blockVars, fileVars, callVars, TypeOK, PieceOf

LEMMA NextTypeOK == TypeOK /\ [Next]_vars => TypeOK'
<1> SUFFICES ASSUME TypeOK, [Next]_vars PROVE TypeOK'
  OBVIOUS
<1>1. CASE Tick
  BY <1>1, TickType
<1>2. CASE Terminate
  BY <1>2 DEF Terminate, pieceVars, blockVars, fileVars, callVars, TypeOK, PieceOf
<1>3. ASSUME NEW t \in Thread, Call(t)
      PROVE  TypeOK'
  BY <1>3, PeerType, NextRequestType, BlockReceivedType DEF Call
<1>4. ASSUME NEW t \in Thread, Deliver(t) \/ ErasePeer(t) \/ Catch(t)
      PROVE  TypeOK'
  BY <1>4, DeliverType, ErasePeerType
<1>5. CASE UNCHANGED vars
  BY <1>5 DEF vars, pieceVars, blockVars, fileVars, callVars, TypeOK, PieceOf
<1> QED
  BY <1>1, <1>2, <1>3, <1>4, <1>5 DEF Next

(* The manager's lists, blocks, file and calls are always well-formed.     *)
THEOREM TypeCorrect == Spec => []TypeOK
<1>1. Init => TypeOK
  BY InitTypeOK
<1>2. TypeOK /\ [Next]_vars => TypeOK'
  BY NextTypeOK
<1> QED
  BY <1>1, <1>2, PTL DEF Spec

-----------------------------------------------------------------------------
(* No piece is lost or listed twice.  The two invariants need each other:  *)
(* a late delivery is to a piece in one of the lists because it is not to  *)
(* a missing piece, and the missing pieces stay untouched because requests *)
(* and deliveries are for pieces in a list.                                *)

Accounted == TypeOK /\ PieceAccounting /\ MissingUntouched

(* What PieceAccounting and MissingUntouched speak of.                     *)
accountVars == <<pieceVars, pendingRequests, status, data, pc, blk>>

LEMMA InitAccounted == Init => Accounted
<1> SUFFICES ASSUME Init PROVE Accounted
  OBVIOUS
<1>1. TypeOK
  BY InitTypeOK
<1>2. Started = {} /\ Have = {} /\ DOMAIN pendingRequests = {}
  BY EmptySequence DEF Init, Started, Have
<1>3. PieceAccounting
  BY <1>2 DEF Init, PieceAccounting
<1>4. MissingUntouched
  <2>1. \A t \in Thread : pc[t] \notin Delivering
    BY DEF Init, Delivering
  <2> QED
    BY <1>2, <2>1 DEF Init, MissingUntouched, BlocksOf
<1> QED
  BY <1>1, <1>3, <1>4 DEF Accounted

(* A step that moves no piece and touches no missing one keeps both.       *)
LEMMA AccountedKept ==
    ASSUME Accounted, TypeOK',
           proc' = "running" => proc = "running",
           UNCHANGED pieceVars,
           \A b \in Block : b[1] \in missingPieces
                             => status'[b] = status[b] /\ data'[b] = data[b],
           \A i \in DOMAIN pendingRequests' :
               \/ pendingRequests'[i].block[1] \in Started
               \/ \E j \in DOMAIN pendingRequests :
                      pendingRequests'[i].block = pendingRequests[j].block,
           \A t \in Thread : pc'[t] \in Delivering =>
               \/ blk'[t][1] \in Started
               \/ pc[t] \in Delivering /\ blk'[t] = blk[t]
    PROVE  Accounted'
<1>1. PieceAccounting'
  BY DEF Accounted, PieceAccounting, pieceVars, Started, Have
<1>2. MissingUntouched'
  <2> SUFFICES ASSUME proc = "running", NEW p \in missingPieces
               PROVE  /\ \A b \in BlocksOf(p) : status'[b] = "missing" /\ data'[b] = "none"
                      /\ \A i \in DOMAIN pendingRequests' : pendingRequests'[i].block[1] # p
                      /\ \A t \in Thread : pc'[t] \in Delivering => blk'[t][1] # p
    BY DEF MissingUntouched, pieceVars, PieceOf, BlocksOf
  <2>1. p \notin Started
    BY DEF Accounted, PieceAccounting
  <2>2. /\ \A b \in BlocksOf(p) : status[b] = "missing" /\ data[b] = "none"
        /\ \A i \in DOMAIN pendingRequests : pendingRequests[i].block[1] # p
        /\ \A t \in Thread : pc[t] \in Delivering => blk[t][1] # p
    BY DEF Accounted, MissingUntouched, PieceOf
  <2>3. \A b \in BlocksOf(p) : b \in Block /\ b[1] = p
    BY DEF BlocksOf
  <2> QED
    BY <2>1, <2>2, <2>3
<1> QED
  BY <1>1, <1>2 DEF Accounted

LEMMA NextRequestAccounted ==
    ASSUME Accounted, TypeOK', NEW t \in Thread, NEW peer \in PeerId,
           NEW b \in Block \cup {NoBlock}, NextRequest(t, peer, b)
    PROVE  Accounted'
<1> USE DEF Accounted
<1>1. UNCHANGED <<data, pc, blk>> /\ proc # "crashed"
  BY DEF NextRequest, callVars, Alive
<1>2. CASE UNCHANGED <<pieceVars, pendingRequests, status>>
           /\ (proc' = "running" => proc = "running")
  BY <1>1, <1>2, AccountedKept
<1>3. CASE ExpiredRequest(peer, b)
  <2>1. PICK i \in DOMAIN pendingRequests :
           pendingRequests' = [pendingRequests EXCEPT ![i].age = 0]
    BY <1>3 DEF ExpiredRequest, Expired
  <2>2. \A j \in DOMAIN pendingRequests : pendingRequests[j] \in Request
    BY ElementOfSeq, LenProperties DEF TypeOK
  <2>3. ASSUME NEW j \in DOMAIN pendingRequests'
        PROVE  \E k \in DOMAIN pendingRequests :
                  pendingRequests'[j].block = pendingRequests[k].block
    <3>1. j \in DOMAIN pendingRequests
      BY <2>1
    <3>2. pendingRequests'[j].block = pendingRequests[j].block
      BY <2>1, <2>2, <3>1 DEF Request
    <3> QED
      BY <3>1, <3>2
  <2> QED
    BY <1>1, <1>3, <2>3, AccountedKept DEF ExpiredRequest
<1>4. CASE NextOngoing(peer, b)
  <2>1. PICK i \in Requestable(peer) :
           /\ PieceNextRequest(ongoingPieces[i], b)
           /\ pendingRequests' = Append(pendingRequests, [block |-> b, age |-> 0])
    BY <1>4 DEF NextOngoing
  <2>2. ongoingPieces[i] \in Started /\ MissingBlocks(ongoingPieces[i]) # {}
    BY DEF Started, ToSet, Requestable
  <2>3. b \in Block /\ b[1] = ongoingPieces[i]
    BY <2>1, <2>2 DEF PieceNextRequest, MissingBlocks, BlocksOf
  <2>4. status' = [status EXCEPT ![b] = "pending"]
    BY <2>1, <2>2 DEF PieceNextRequest
  <2>5. [block |-> b, age |-> 0] \in Request
    BY <2>3, PendingTimeAssumption DEF Request
  <2>6. ASSUME NEW j \in DOMAIN pendingRequests'
        PROVE  \/ pendingRequests'[j].block = b
               \/ \E k \in DOMAIN pendingRequests :
                      pendingRequests'[j].block = pendingRequests[k].block
    <3>1. /\ Len(pendingRequests) \in Nat
          /\ DOMAIN pendingRequests = 1 .. Len(pendingRequests)
          /\ DOMAIN pendingRequests' = 1 .. Len(pendingRequests) + 1
          /\ \A k \in 1 .. Len(pendingRequests) : pendingRequests'[k] = pendingRequests[k]
          /\ pendingRequests'[Len(pendingRequests) + 1] = [block |-> b, age |-> 0]
      BY <2>1, <2>5, AppendProperties, LenProperties DEF TypeOK
    <3> QED
      BY <3>1
  <2>7. proc = "running" => \A c \in Block : c[1] \in missingPieces => c # b
    BY <2>2, <2>3 DEF PieceAccounting
  <2>8. CASE proc = "running"
    BY <1>1, <1>4, <2>2, <2>3, <2>4, <2>6, <2>7, <2>8, AccountedKept
       DEF NextOngoing, TypeOK
  <2>9. CASE proc # "running"
    BY <1>4, <2>9 DEF NextOngoing, PieceAccounting, MissingUntouched
  <2> QED
    BY <2>8, <2>9
<1>5. ASSUME NEW p \in missingPieces, StartPiece(p, b), UNCHANGED proc,
             proc = "running"
      PROVE  Accounted'
  <2>1. p \in Piece /\ p \notin Started /\ p \notin Have
    BY <1>5 DEF PieceAccounting, TypeOK
  <2>2. Started' = Started \cup {p} /\ Have' = Have
    BY <1>5, <2>1, AppendToSet DEF StartPiece, Started, Have, TypeOK
  <2>3. PieceAccounting'
    BY <1>5, <2>1, <2>2 DEF PieceAccounting, StartPiece, TypeOK
  <2>4. \A c \in Block : c[1] # p => status'[c] = status[c]
    BY <1>5 DEF StartPiece, PieceNextRequest, MissingBlocks, BlocksOf, TypeOK
  <2>5. MissingUntouched'
    BY <1>1, <1>5, <2>4 DEF MissingUntouched, StartPiece, BlocksOf, PieceOf
  <2> QED
    BY <2>3, <2>5
<1>6. CASE GetRarestPiece(peer, b)
  <2>1. CASE proc' # "running"
    BY <2>1 DEF PieceAccounting, MissingUntouched
  <2>2. CASE proc' = "running"
    BY <1>1, <1>5, <1>6, <2>2 DEF GetRarestPiece
  <2> QED
    BY <2>1, <2>2
<1> QED
  BY <1>2, <1>3, <1>4, <1>6 DEF NextRequest

LEMMA BlockReceivedAccounted ==
    ASSUME Accounted, TypeOK', NEW t \in Thread, NEW b \in Address,
           NEW d \in {"good", "bad"}, BlockReceived(t, b, d)
    PROVE  Accounted'
<1>1. \A k \in DOMAIN pendingRequests' :
         \E j \in DOMAIN pendingRequests : pendingRequests'[k] = pendingRequests[j]
  BY DropPendingType DEF BlockReceived, Accounted
<1>2. ASSUME NEW u \in Thread, pc'[u] \in Delivering
      PROVE  blk'[u][1] \in Started \/ (pc[u] \in Delivering /\ blk'[u] = blk[u])
  <2>1. CASE u = t
    BY <1>2, <2>1 DEF BlockReceived, Accounted, TypeOK, Delivering
  <2>2. CASE u # t
    BY <1>2, <2>2 DEF BlockReceived, Accounted, TypeOK
  <2> QED
    BY <2>1, <2>2
<1> QED
  BY <1>1, <1>2, AccountedKept DEF BlockReceived, blockVars, pieceVars

LEMMA DeliverAccounted ==
    ASSUME Accounted, TypeOK', NEW t \in Thread, Deliver(t)
    PROVE  Accounted'
<1> USE DEF Accounted
<1>0. CASE proc # "running"
  <2>1. proc' # "running"
    BY <1>0 DEF Deliver, StoreStatus, StoreData, DataRace, CheckComplete, AssertFails,
                CheckHash, Seek, Put, Commit, Reset
  <2> QED
    BY <2>1 DEF PieceAccounting, MissingUntouched
<1> SUFFICES ASSUME proc = "running" PROVE Accounted'
  BY <1>0
<1>1. \/ /\ pc[t] \in Delivering
         /\ PieceOf(t) \in Piece /\ PieceOf(t) \notin missingPieces
      \/ DataRace(t)
  BY DEF Deliver, StoreStatus, StoreData, CheckComplete, AssertFails, CheckHash,
         Seek, Put, Commit, Reset, Delivering, TypeOK, MissingUntouched
<1>2. ASSUME NEW l, Goto(t, l), pc[t] \in Delivering, NEW u \in Thread, pc'[u] \in Delivering
      PROVE  pc[u] \in Delivering /\ blk'[u] = blk[u]
  <2>1. CASE u = t
    BY <1>2, <2>1 DEF Goto, TypeOK
  <2>2. CASE u # t
    BY <1>2, <2>2 DEF Goto, TypeOK
  <2> QED
    BY <2>1, <2>2
<1>3. CASE DataRace(t) \/ AssertFails(t)
  BY <1>3 DEF DataRace, AssertFails, PieceAccounting, MissingUntouched
<1>4. CASE StoreStatus(t) \/ StoreData(t) \/ Reset(t)
  <2>1. PieceOf(t) \notin missingPieces /\ pc[t] \in Delivering
    BY <1>1, <1>4 DEF StoreStatus, StoreData, Reset, Delivering, TypeOK, MissingUntouched
  <2>2. \E l : Goto(t, l)
    BY <1>4 DEF StoreStatus, StoreData, Reset
  <2>3. \A b \in Block : b[1] \in missingPieces
                          => status'[b] = status[b] /\ data'[b] = data[b]
    BY <1>4, <2>1 DEF StoreStatus, StoreData, Reset, TypeOK, PieceOf
  <2>4. UNCHANGED <<pieceVars, pendingRequests>>
    BY <1>4 DEF StoreStatus, StoreData, Reset
  <2> QED
    BY <1>2, <2>1, <2>2, <2>3, <2>4, AccountedKept
<1>5. CASE CheckComplete(t) \/ CheckHash(t) \/ Seek(t) \/ Put(t)
  <2>1. pc[t] \in Delivering /\ \E l : Goto(t, l)
    BY <1>5 DEF CheckComplete, CheckHash, Seek, Put, Delivering
  <2>2. UNCHANGED <<pieceVars, pendingRequests, status, data>>
    BY <1>5 DEF CheckComplete, CheckHash, Seek, Put, blockVars
  <2> QED
    BY <1>2, <2>1, <2>2, AccountedKept
<1>6. CASE Commit(t)
  <2>1. /\ pc[t] \in Delivering
        /\ PieceOf(t) \in Piece
        /\ PieceOf(t) \notin missingPieces
        /\ Goto(t, "ready")
    BY <1>1, <1>6 DEF Commit, Delivering, TypeOK, MissingUntouched
  <2>2. Have' = Have \cup {PieceOf(t)}
    BY <1>6, <2>1, AppendToSet DEF Commit, Have, TypeOK
  <2>3. Started' = Started \ {PieceOf(t)}
    <3>1. CASE PieceOf(t) \notin Started
      BY <1>6, <3>1 DEF Commit, Started, ToSet
    <3>2. CASE PieceOf(t) \in Started
      BY <1>6, <3>2, RemoveAtInjective DEF Commit, Started, TypeOK
    <3> QED
      BY <3>1, <3>2
  <2>4. PieceAccounting'
    BY <1>6, <2>1, <2>2, <2>3 DEF PieceAccounting, Commit
  <2>5. MissingUntouched'
    <3>1. \A u \in Thread : pc'[u] \in Delivering => pc[u] \in Delivering /\ blk'[u] = blk[u]
      BY <1>2, <2>1
    <3> QED
      BY <1>6, <3>1 DEF MissingUntouched, Commit, blockVars, PieceOf, BlocksOf
  <2> QED
    BY <2>4, <2>5
<1> QED
  BY <1>3, <1>4, <1>5, <1>6 DEF Deliver

LEMMA NextAccounted == Accounted /\ [Next]_vars => Accounted'
<1> SUFFICES ASSUME Accounted, [Next]_vars PROVE Accounted'
  OBVIOUS
<1>0. TypeOK'
  BY NextTypeOK DEF Accounted
<1>1. CASE Tick
  BY <1>0, <1>1, TickType, AccountedKept
     DEF Tick, blockVars, callVars, Accounted, pieceVars
<1>2. CASE Terminate
  BY <1>0, <1>2 DEF Terminate, Accounted, PieceAccounting, MissingUntouched
<1>3. CASE UNCHANGED vars
  BY <1>0, <1>3, AccountedKept DEF vars, blockVars, callVars
<1>4. ASSUME NEW t \in Thread, NEW peer \in PeerId,
             \/ \E pieces \in SUBSET Piece : AddPeer(t, peer, pieces)
             \/ \E p \in Piece : UpdatePeer(t, peer, p)
             \/ RemovePeer(t, peer)
      PROVE  Accounted'
  <2>1. UNCHANGED <<pieceVars, pendingRequests, status, data, proc, blk>>
    BY <1>4 DEF AddPeer, UpdatePeer, RemovePeer, blockVars, callVars
  <2>2. \A u \in Thread : pc'[u] \in Delivering => pc[u] \in Delivering
    BY <1>4 DEF AddPeer, UpdatePeer, RemovePeer, callVars, Delivering, Accounted, TypeOK
  <2> QED
    BY <1>0, <2>1, <2>2, AccountedKept
<1>5. ASSUME NEW t \in Thread, ErasePeer(t) \/ Catch(t)
      PROVE  Accounted'
  <2>1. UNCHANGED <<pieceVars, pendingRequests, status, data, proc, blk>>
    BY <1>5 DEF ErasePeer, Catch, blockVars
  <2>2. \A u \in Thread : pc'[u] \in Delivering => pc[u] \in Delivering
    BY <1>5 DEF ErasePeer, Catch, Delivering, Accounted, TypeOK
  <2> QED
    BY <1>0, <2>1, <2>2, AccountedKept
<1>6. ASSUME NEW t \in Thread, Call(t)
      PROVE  Accounted'
  BY <1>0, <1>4, <1>6, NextRequestAccounted, BlockReceivedAccounted DEF Call
<1> QED
  BY <1>0, <1>1, <1>2, <1>3, <1>5, <1>6, DeliverAccounted DEF Next

(* However calls interleave, every piece is in exactly one of the lists,   *)
(* and a piece in missingPieces is one that nothing has touched, unless    *)
(* the process has used the uninitialised pointer of getRarestPiece.       *)
THEOREM PiecesAccounted == Spec => []Accounting
<1>1. Init => Accounted
  BY InitAccounted
<1>2. Accounted /\ [Next]_vars => Accounted'
  BY NextAccounted
<1>3. Accounted => Accounting
  BY DEF Accounted, Accounting
<1> QED
  BY <1>1, <1>2, <1>3, PTL DEF Spec

-----------------------------------------------------------------------------
(* Only what was received is committed.                                    *)

(* From the moment the hash of a piece has matched, every block of it has  *)
(* data and keeps some: a later delivery replaces it by other data.        *)
Delivered(p) == \A b \in BlocksOf(p) : data[b] # "none"

DeliveredInv ==
    /\ \A t \in Thread :
          /\ pc[t] \in Delivering => dat[t] \in {"good", "bad"}
          /\ pc[t] \in {"seek", "put", "commit"} => Delivered(PieceOf(t))
    /\ HaveWasDelivered

(* A step that empties no block, adds nothing to havePieces and brings no  *)
(* thread past the test of the hash keeps it.                              *)
LEMMA DeliveredKept ==
    ASSUME DeliveredInv,
           UNCHANGED havePieces,
           \A b \in Block : data[b] # "none" => data'[b] # "none",
           \A t \in Thread :
               /\ pc'[t] \in Delivering => dat'[t] \in {"good", "bad"}
               /\ pc'[t] \in {"seek", "put", "commit"} =>
                     pc[t] \in {"seek", "put", "commit"} /\ blk'[t] = blk[t]
    PROVE  DeliveredInv'
<1>1. \A p : \A b \in BlocksOf(p) : b \in Block
  BY DEF BlocksOf
<1>2. \A p : Delivered(p) => \A b \in BlocksOf(p) : data'[b] # "none"
  BY <1>1 DEF Delivered
<1>3. \A t \in Thread : pc'[t] \in {"seek", "put", "commit"} => Delivered(PieceOf(t))'
  BY <1>2 DEF DeliveredInv, Delivered, PieceOf, BlocksOf
<1>4. HaveWasDelivered'
  BY <1>1 DEF DeliveredInv, HaveWasDelivered, Have, BlocksOf
<1> QED
  BY <1>3, <1>4 DEF DeliveredInv

(* Statements that go on with the same block at a label the hash need not  *)
(* have matched for.                                                       *)
LEMMA GotoDelivered ==
    ASSUME TypeOK, DeliveredInv, NEW t \in Thread, pc[t] \in Delivering,
           NEW l, Goto(t, l)
    PROVE  \A u \in Thread :
              /\ pc'[u] \in Delivering => dat'[u] \in {"good", "bad"}
              /\ pc'[u] = IF u = t THEN l ELSE pc[u]
              /\ pc'[u] \in Delivering => blk'[u] = blk[u]
<1>1. ASSUME NEW u \in Thread, u # t
      PROVE  pc'[u] = pc[u] /\ blk'[u] = blk[u] /\ dat'[u] = dat[u]
  BY <1>1 DEF Goto, TypeOK
<1>2. pc'[t] = l /\ (l \in Delivering => blk'[t] = blk[t] /\ dat'[t] = dat[t])
  BY DEF Goto, TypeOK
<1> QED
  BY <1>1, <1>2 DEF DeliveredInv

LEMMA CallDelivered ==
    ASSUME TypeOK, DeliveredInv, NEW t \in Thread, Call(t) \/ ErasePeer(t) \/ Catch(t)
    PROVE  DeliveredInv'
<1>1. CASE \E peer \in PeerId, b \in Block \cup {NoBlock} : NextRequest(t, peer, b)
  <2>1. PICK peer \in PeerId, b \in Block \cup {NoBlock} : NextRequest(t, peer, b)
    BY <1>1
  <2>2. UNCHANGED <<data, callVars>>
    BY <2>1 DEF NextRequest
  <2>3. UNCHANGED havePieces
    BY <2>1 DEF NextRequest, ExpiredRequest, NextOngoing, GetRarestPiece, StartPiece, pieceVars
  <2> QED
    BY <2>2, <2>3, DeliveredKept DEF callVars, DeliveredInv
<1>2. CASE \E b \in Address, d \in {"good", "bad"} : BlockReceived(t, b, d)
  <2>1. PICK b \in Address, d \in {"good", "bad"} : BlockReceived(t, b, d)
    BY <1>2
  <2>2. UNCHANGED <<havePieces, data>>
    BY <2>1 DEF BlockReceived, pieceVars, blockVars
  <2>3. \A u \in Thread : u # t => pc'[u] = pc[u] /\ blk'[u] = blk[u] /\ dat'[u] = dat[u]
    BY <2>1 DEF BlockReceived, TypeOK
  <2>4. /\ pc'[t] \in {"store_status", "thrown"}
        /\ pc'[t] = "store_status" => dat'[t] = d
    BY <2>1 DEF BlockReceived, TypeOK
  <2>5. "thrown" \notin Delivering
    BY DEF Delivering
  <2> QED
    BY <2>2, <2>3, <2>4, <2>5, DeliveredKept DEF DeliveredInv
<1>3. CASE \/ \E peer \in PeerId :
                \/ \E pieces \in SUBSET Piece : AddPeer(t, peer, pieces)
                \/ \E p \in Piece : UpdatePeer(t, peer, p)
                \/ RemovePeer(t, peer)
           \/ ErasePeer(t) \/ Catch(t)
  <2>1. UNCHANGED <<havePieces, data, blk, dat>>
    BY <1>3 DEF AddPeer, UpdatePeer, RemovePeer, ErasePeer, Catch, pieceVars, blockVars, callVars
  <2>2. \A u \in Thread : pc'[u] \in Delivering => pc'[u] = pc[u]
    BY <1>3 DEF AddPeer, UpdatePeer, RemovePeer, ErasePeer, Catch, callVars, Delivering, TypeOK
  <2>3. {"seek", "put", "commit"} \subseteq Delivering
    BY DEF Delivering
  <2> QED
    BY <2>1, <2>2, <2>3, DeliveredKept DEF DeliveredInv
<1> QED
  BY <1>1, <1>2, <1>3 DEF Call

LEMMA DeliverDelivered ==
    ASSUME TypeOK, DeliveredInv, NEW t \in Thread, Deliver(t)
    PROVE  DeliveredInv'
<1>0. pc[t] \in Delivering
  BY DEF Deliver
<1>1. CASE StoreStatus(t) \/ CheckComplete(t) \/ Reset(t)
  <2>1. PICK l \in {"store_data", "thrown", "check_hash", "ready"} : Goto(t, l)
    BY <1>1 DEF StoreStatus, CheckComplete, Reset
  <2>2. UNCHANGED <<havePieces, data>>
    BY <1>1 DEF StoreStatus, CheckComplete, Reset, pieceVars, blockVars
  <2>3. {"seek", "put", "commit"} \subseteq Delivering
    BY DEF Delivering
  <2> QED
    BY <1>0, <2>1, <2>2, <2>3, GotoDelivered, DeliveredKept
<1>2. CASE StoreData(t)
  <2>1. dat[t] \in {"good", "bad"}
    BY <1>0 DEF DeliveredInv
  <2>2. \A b \in Block : data[b] # "none" => data'[b] # "none"
    BY <1>2, <2>1 DEF StoreData, TypeOK
  <2>3. Goto(t, "check_complete") /\ UNCHANGED havePieces
    BY <1>2 DEF StoreData, pieceVars
  <2>4. {"seek", "put", "commit"} \subseteq Delivering
    BY DEF Delivering
  <2> QED
    BY <1>0, <2>2, <2>3, <2>4, GotoDelivered, DeliveredKept
<1>3. CASE DataRace(t) \/ AssertFails(t)
  BY <1>3, DeliveredKept DEF DataRace, AssertFails, pieceVars, blockVars, callVars, DeliveredInv
<1>4. CASE CheckHash(t)
  <2>1. PICK l \in {"seek", "reset"} :
           Goto(t, l) /\ (l = "seek" => HashMatches(PieceOf(t)))
    BY <1>4 DEF CheckHash
  <2>2. UNCHANGED <<havePieces, data>>
    BY <1>4 DEF CheckHash, pieceVars, blockVars
  <2>3. l = "seek" => Delivered(PieceOf(t))
    BY <2>1 DEF HashMatches, Delivered
  <2>4. ASSUME NEW u \in Thread, pc'[u] \in {"seek", "put", "commit"}
        PROVE  Delivered(PieceOf(u))'
    <3>1. Delivered(PieceOf(u)) /\ blk'[u] = blk[u]
      BY <1>0, <2>1, <2>3, <2>4, GotoDelivered DEF DeliveredInv, Delivering
    <3> QED
      BY <2>2, <3>1 DEF Delivered, PieceOf
  <2>5. HaveWasDelivered'
    BY <2>2 DEF DeliveredInv, HaveWasDelivered, Have
  <2> QED
    BY <1>0, <2>1, <2>4, <2>5, GotoDelivered DEF DeliveredInv
<1>5. CASE Seek(t) \/ Put(t)
  <2>1. PICK l \in {"put", "commit"} : Goto(t, l)
    BY <1>5 DEF Seek, Put
  <2>2. UNCHANGED <<havePieces, data>> /\ pc[t] \in {"seek", "put"}
    BY <1>5 DEF Seek, Put, pieceVars, blockVars
  <2>3. {"seek", "put", "commit"} \subseteq Delivering
    BY DEF Delivering
  <2> QED
    BY <1>0, <2>1, <2>2, <2>3, GotoDelivered, DeliveredKept
<1>6. CASE Commit(t)
  <2>1. UNCHANGED data /\ Goto(t, "ready") /\ Delivered(PieceOf(t)) /\ PieceOf(t) \in Piece
    BY <1>0, <1>6 DEF Commit, blockVars, DeliveredInv, TypeOK
  <2>2. Have' = Have \cup {PieceOf(t)}
    BY <1>6, <2>1, AppendToSet DEF Commit, Have, TypeOK
  <2>3. HaveWasDelivered'
    BY <2>1, <2>2 DEF DeliveredInv, HaveWasDelivered, Delivered
  <2>4. ASSUME NEW u \in Thread, pc'[u] \in {"seek", "put", "commit"}
        PROVE  Delivered(PieceOf(u))'
    <3>1. pc[u] = pc'[u] /\ blk'[u] = blk[u]
      BY <1>0, <2>1, <2>4, GotoDelivered DEF Delivering
    <3> QED
      BY <2>1, <2>4, <3>1 DEF DeliveredInv, Delivered, PieceOf
  <2> QED
    BY <1>0, <2>1, <2>3, <2>4, GotoDelivered DEF DeliveredInv
<1> QED
  BY <1>1, <1>2, <1>3, <1>4, <1>5, <1>6 DEF Deliver

(* However many threads deliver, every block of a piece in havePieces was  *)
(* received, even though status says so one statement before the data is   *)
(* there and the piece can be found complete in between: an empty block    *)
(* does not match the hash.                                                *)
THEOREM OnlyReceivedIsHad == Spec => []HaveWasDelivered
<1>1. Init => DeliveredInv
  <2> SUFFICES ASSUME Init PROVE DeliveredInv
    OBVIOUS
  <2>1. Have = {}
    BY EmptySequence DEF Init, Have
  <2>2. \A t \in Thread : pc[t] \notin Delivering /\ pc[t] \notin {"seek", "put", "commit"}
    BY DEF Init, Delivering
  <2> QED
    BY <2>1, <2>2 DEF DeliveredInv, HaveWasDelivered
<1>2. TypeOK /\ DeliveredInv /\ [Next]_vars => DeliveredInv'
  <2> SUFFICES ASSUME TypeOK, DeliveredInv, [Next]_vars PROVE DeliveredInv'
    OBVIOUS
  <2>1. CASE Tick \/ Terminate \/ UNCHANGED vars
    BY <2>1, DeliveredKept
       DEF Tick, Terminate, vars, pieceVars, blockVars, callVars, DeliveredInv
  <2> QED
    BY <2>1, CallDelivered, DeliverDelivered DEF Next
<1>3. DeliveredInv => HaveWasDelivered
  BY DEF DeliveredInv
<1> QED
  BY <1>1, <1>2, <1>3, TypeCorrect, PTL DEF Spec

-----------------------------------------------------------------------------
(* How often a piece is committed.                                         *)

(* The places of a piece in havePieces, and the threads that are inside    *)
(* blockReceived for it.                                                   *)
Commits(p) == {i \in DOMAIN havePieces : havePieces[i] = p}
Late(p) == {t \in Thread : pc[t] \in Delivering /\ PieceOf(t) = p}

(* A piece leaves ongoingPieces with its first commit, and no thread       *)
(* enters blockReceived for it any more: those that are inside then can    *)
(* commit it once more each.                                               *)
BoundInv ==
    proc = "running" =>
        \A p \in Piece :
            Cardinality(Commits(p)) + Cardinality(Late(p)) <= Cardinality(Thread)

LEMMA AppendPlaces ==
    ASSUME NEW S, NEW s \in Seq(S), NEW e \in S, NEW p
    PROVE  {i \in DOMAIN Append(s, e) : Append(s, e)[i] = p}
             = {i \in DOMAIN s : s[i] = p} \cup (IF e = p THEN {Len(s) + 1} ELSE {})
<1>1. /\ Len(s) \in Nat
      /\ DOMAIN s = 1 .. Len(s)
      /\ DOMAIN Append(s, e) = 1 .. Len(s) + 1
      /\ \A i \in 1 .. Len(s) : Append(s, e)[i] = s[i]
      /\ Append(s, e)[Len(s) + 1] = e
  BY AppendProperties, LenProperties
<1>2. 1 .. Len(s) + 1 = (1 .. Len(s)) \cup {Len(s) + 1}
  BY <1>1
<1> QED
  BY <1>1, <1>2

LEMMA CountsAreNumbers ==
    ASSUME TypeOK
    PROVE  /\ IsFiniteSet(Thread) /\ Cardinality(Thread) \in Nat
           /\ \A p : /\ IsFiniteSet(Commits(p)) /\ Cardinality(Commits(p)) \in Nat
                     /\ IsFiniteSet(Late(p)) /\ Cardinality(Late(p)) \in Nat
                     /\ Cardinality(Late(p)) <= Cardinality(Thread)
                     /\ p \notin Have => Cardinality(Commits(p)) = 0
<1>1. IsFiniteSet(DOMAIN havePieces)
  <2>1. Len(havePieces) \in Int /\ DOMAIN havePieces = 1 .. Len(havePieces) /\ 1 \in Int
    BY LenProperties DEF TypeOK
  <2> QED
    BY <2>1, FS_Interval
<1>2. ASSUME NEW p
      PROVE  Commits(p) \in SUBSET DOMAIN havePieces /\ Late(p) \in SUBSET Thread
  BY DEF Commits, Late
<1>3. ASSUME NEW p, p \notin Have
      PROVE  Commits(p) = {}
  BY <1>3 DEF Commits, Have, ToSet
<1> QED
  BY <1>1, <1>2, <1>3, ThreadAssumption, FS_Subset, FS_CardinalityType, FS_EmptySet

(* Nothing is committed, and nobody enters for a piece that was.           *)
LEMMA BoundKept ==
    ASSUME TypeOK, TypeOK', BoundInv,
           proc' = "running" => proc = "running",
           UNCHANGED havePieces,
           proc = "running" =>
               \A t \in Thread : pc'[t] \in Delivering =>
                   \/ blk'[t][1] \notin Have
                   \/ pc[t] \in Delivering /\ blk'[t] = blk[t]
    PROVE  BoundInv'
<1> SUFFICES ASSUME proc = "running", NEW p \in Piece
             PROVE  Cardinality(Commits(p)') + Cardinality(Late(p)') <= Cardinality(Thread)
  BY DEF BoundInv
<1>1. Commits(p)' = Commits(p)
  BY DEF Commits
<1>2. CASE p \notin Have
  <2>1. Cardinality(Commits(p)') = 0
    BY <1>1, <1>2, CountsAreNumbers
  <2>2. Cardinality(Late(p)') \in Nat /\ Cardinality(Late(p)') <= Cardinality(Thread)
    <3>1. Late(p)' \in SUBSET Thread
      BY DEF Late
    <3> QED
      BY <3>1, ThreadAssumption, FS_Subset, FS_CardinalityType
  <2> QED
    BY <2>1, <2>2, CountsAreNumbers
<1>3. CASE p \in Have
  <2>1. Late(p)' \in SUBSET Late(p)
    BY <1>3 DEF Late, PieceOf
  <2>2. Cardinality(Late(p)') <= Cardinality(Late(p)) /\ Cardinality(Late(p)') \in Nat
    BY <2>1, CountsAreNumbers, FS_Subset, FS_CardinalityType
  <2> QED
    BY <1>1, <2>2, CountsAreNumbers DEF BoundInv
<1> QED
  BY <1>2, <1>3

LEMMA CommitBound ==
    ASSUME TypeOK, TypeOK', BoundInv, proc = "running", NEW t \in Thread, Commit(t)
    PROVE  BoundInv'
<1> SUFFICES ASSUME NEW p \in Piece
             PROVE  Cardinality(Commits(p)') + Cardinality(Late(p)') <= Cardinality(Thread)
  BY DEF BoundInv
<1>1. /\ pc[t] \in Delivering
      /\ PieceOf(t) \in Piece
      /\ pc' = [pc EXCEPT ![t] = "ready"]
      /\ \A u \in Thread \ {t} : blk'[u] = blk[u]
      /\ havePieces' = Append(havePieces, PieceOf(t))
  BY DEF Commit, Goto, Delivering, TypeOK
<1>2. Late(p)' \in SUBSET (Late(p) \ {t})
  <2>1. ASSUME NEW u \in Late(p)'
        PROVE  u \in Late(p) \ {t}
    <3>1. u # t
      BY <1>1 DEF Late, Delivering, TypeOK
    <3> QED
      BY <1>1, <3>1 DEF Late, PieceOf, TypeOK
  <2> QED
    BY <2>1
<1>3. Commits(p)' = Commits(p) \cup (IF PieceOf(t) = p THEN {Len(havePieces) + 1} ELSE {})
  BY <1>1, AppendPlaces DEF Commits, TypeOK
<1>4. /\ Cardinality(Late(p)') \in Nat
      /\ Cardinality(Late(p)') <= Cardinality(Late(p) \ {t})
      /\ Cardinality(Late(p) \ {t})
           = IF t \in Late(p) THEN Cardinality(Late(p)) - 1 ELSE Cardinality(Late(p))
  BY <1>2, CountsAreNumbers, FS_Subset, FS_RemoveElement, FS_CardinalityType
<1>5. CASE PieceOf(t) = p
  <2>1. t \in Late(p)
    BY <1>1, <1>5 DEF Late
  <2>2. Cardinality(Commits(p)') \in Nat
        /\ Cardinality(Commits(p)') <= Cardinality(Commits(p)) + 1
    <3> DEFINE C == Commits(p)
               n == Len(havePieces) + 1
    <3>1. IsFiniteSet(C) /\ Cardinality(C) \in Nat
      BY CountsAreNumbers
    <3>2. Commits(p)' = C \cup {n}
      BY <1>3, <1>5
    <3> HIDE DEF C, n
    <3>3. Cardinality(C \cup {n}) = IF n \in C THEN Cardinality(C) ELSE Cardinality(C) + 1
      BY <3>1, FS_AddElement
    <3>4. Cardinality(Commits(p)') = Cardinality(C \cup {n})
      BY <3>2
    <3> QED
      BY <3>1, <3>3, <3>4 DEF C
  <2> QED
    BY <1>4, <2>1, <2>2, CountsAreNumbers DEF BoundInv
<1>6. CASE PieceOf(t) # p
  <2>1. Commits(p)' = Commits(p)
    BY <1>3, <1>6
  <2> QED
    BY <1>4, <2>1, CountsAreNumbers DEF BoundInv
<1> QED
  BY <1>5, <1>6

LEMMA NextBoundInv == Accounted /\ BoundInv /\ [Next]_vars => BoundInv'
<1> SUFFICES ASSUME Accounted, BoundInv, [Next]_vars PROVE BoundInv'
  OBVIOUS
<1>0. TypeOK /\ TypeOK'
  BY NextTypeOK DEF Accounted
<1>1. CASE Tick \/ Terminate \/ UNCHANGED vars
  BY <1>0, <1>1, BoundKept DEF Tick, Terminate, vars, pieceVars, callVars
<1>2. ASSUME NEW t \in Thread, NEW peer \in PeerId, NEW b \in Block \cup {NoBlock},
             NextRequest(t, peer, b)
      PROVE  BoundInv'
  <2>1. UNCHANGED havePieces
    BY <1>2 DEF NextRequest, ExpiredRequest, NextOngoing, GetRarestPiece, StartPiece, pieceVars
  <2>2. UNCHANGED <<pc, blk>>
    BY <1>2 DEF NextRequest, callVars
  <2>3. proc' = "running" => proc = "running"
    BY <1>2 DEF NextRequest, ExpiredRequest, NextOngoing, GetRarestPiece
  <2> QED
    BY <1>0, <2>1, <2>2, <2>3, BoundKept
<1>3. ASSUME NEW t \in Thread, NEW b \in Address, NEW d \in {"good", "bad"},
             BlockReceived(t, b, d)
      PROVE  BoundInv'
  <2>1. UNCHANGED <<havePieces, proc>>
    BY <1>3 DEF BlockReceived, pieceVars
  <2>2. proc = "running" => Started \cap Have = {}
    BY DEF Accounted, PieceAccounting
  <2>3. ASSUME NEW u \in Thread, pc'[u] \in Delivering
        PROVE  blk'[u][1] \in Started \/ (pc[u] \in Delivering /\ blk'[u] = blk[u])
    BY <1>0, <1>3, <2>3 DEF BlockReceived, TypeOK, Delivering
  <2> QED
    BY <1>0, <2>1, <2>2, <2>3, BoundKept
<1>4. ASSUME NEW t \in Thread,
             \/ \E peer \in PeerId :
                   \/ \E pieces \in SUBSET Piece : AddPeer(t, peer, pieces)
                   \/ \E p \in Piece : UpdatePeer(t, peer, p)
                   \/ RemovePeer(t, peer)
             \/ ErasePeer(t) \/ Catch(t)
      PROVE  BoundInv'
  <2>1. UNCHANGED <<havePieces, proc, blk>>
    BY <1>4 DEF AddPeer, UpdatePeer, RemovePeer, ErasePeer, Catch, pieceVars, callVars
  <2>2. \A u \in Thread : pc'[u] \in Delivering => pc[u] \in Delivering
    BY <1>0, <1>4 DEF AddPeer, UpdatePeer, RemovePeer, ErasePeer, Catch, callVars,
                      Delivering, TypeOK
  <2> QED
    BY <1>0, <2>1, <2>2, BoundKept
<1>5. ASSUME NEW t \in Thread, Deliver(t)
      PROVE  BoundInv'
  <2>1. CASE Commit(t)
    <3>1. CASE proc = "running"
      BY <1>0, <2>1, <3>1, CommitBound
    <3>2. CASE proc # "running"
      BY <2>1, <3>2 DEF Commit, BoundInv
    <3> QED
      BY <3>1, <3>2
  <2>2. CASE DataRace(t) \/ AssertFails(t)
    BY <2>2 DEF DataRace, AssertFails, BoundInv
  <2>3. CASE \/ StoreStatus(t) \/ StoreData(t) \/ CheckComplete(t) \/ CheckHash(t)
             \/ Seek(t) \/ Put(t) \/ Reset(t)
    <3>1. UNCHANGED <<havePieces, proc>>
      BY <2>3 DEF StoreStatus, StoreData, CheckComplete, CheckHash, Seek, Put, Reset, pieceVars
    <3>2. \E l : Goto(t, l)
      BY <2>3 DEF StoreStatus, StoreData, CheckComplete, CheckHash, Seek, Put, Reset
    <3>3. ASSUME NEW u \in Thread, pc'[u] \in Delivering
          PROVE  pc[u] \in Delivering /\ blk'[u] = blk[u]
      <4>1. pc[t] \in Delivering
        BY <1>5 DEF Deliver
      <4> QED
        BY <1>0, <3>2, <3>3, <4>1 DEF Goto, TypeOK
    <3> QED
      BY <1>0, <3>1, <3>3, BoundKept
  <2> QED
    BY <1>5, <2>1, <2>2, <2>3 DEF Deliver
<1> QED
  BY <1>1, <1>2, <1>3, <1>4, <1>5 DEF Next, Call

(* However many threads deliver blocks of one piece, each commits it at    *)
(* most once.                                                              *)
THEOREM OneCommitPerThread == Spec => []CommitsBounded
<1>1. Init => Accounted /\ BoundInv
  <2> SUFFICES ASSUME Init PROVE BoundInv
    BY InitAccounted
  <2>1. TypeOK
    BY InitTypeOK
  <2>2. Have = {}
    BY EmptySequence DEF Init, Have
  <2> QED
    BY <2>1, <2>2, CountsAreNumbers DEF BoundInv
<1>2. Accounted /\ [Next]_vars => Accounted'
  BY NextAccounted
<1>3. Accounted /\ BoundInv /\ [Next]_vars => BoundInv'
  BY NextBoundInv
<1>4. Accounted /\ BoundInv => CommitsBounded
  <2> SUFFICES ASSUME Accounted, BoundInv, proc = "running", NEW p \in Piece
               PROVE  Cardinality(Commits(p)) <= Cardinality(Thread)
    BY DEF CommitsBounded, Commits
  <2> QED
    BY CountsAreNumbers DEF Accounted, BoundInv
<1> QED
  BY <1>1, <1>2, <1>3, <1>4, PTL DEF Spec
=============================================================================
