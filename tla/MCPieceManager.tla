--------------------------- MODULE MCPieceManager ---------------------------
(***************************************************************************)
(* Instances of PieceManager for TLC.                                      *)
(***************************************************************************)
EXTENDS PieceManager

(* Two pieces: the first of two blocks, the last of one.                   *)
TwoOne == 0 :> 2 @@ 1 :> 1

(* One piece of two blocks.                                                *)
JustTwo == 0 :> 2

(* The uninitialised pointer may designate any piece.                      *)
AnyPiece == Piece

NoPiece == {}

(* The threads run the same code.                                          *)
ThreadSymmetry == Permutations(Thread)
=============================================================================
