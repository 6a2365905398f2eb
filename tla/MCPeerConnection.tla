-------------------------- MODULE MCPeerConnection --------------------------
(***************************************************************************)
(* Instances of PeerConnection for TLC.                                    *)
(***************************************************************************)
EXTENDS PeerConnection

TwoOne == 0 :> 2 @@ 1 :> 1
OneOne == 0 :> 1 @@ 1 :> 1

OneTwo == 0 :> 1 @@ 1 :> 2
JustTwo == 0 :> 2
TwoOneOne == 0 :> 2 @@ 1 :> 1 @@ 2 :> 1

AnyPiece == Piece
NoPiece == {}

(* Every peer has the whole file.                                          *)
Seeds == [p \in PeerId |-> Piece]

NoPeer == {}

AllFaults == {"refuse", "close", "choke"}
Refuse == {"refuse"}
NoFaults == {}

(* The threads run the same code.                                          *)
ThreadSymmetry == Permutations(Thread)
=============================================================================
