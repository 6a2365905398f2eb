--------------------------- MODULE MCTorrentPieces ---------------------------
(***************************************************************************)
(* Instances of TorrentPieces for TLC: blocks of 2 bytes, and pieces of 2, *)
(* 4 or 6 by size as choosePieceLength has 16 KiB, 1 MiB, 4 MiB, ...       *)
(***************************************************************************)
EXTENDS TorrentPieces

CONSTANTS MaxTotal, MaxForeignPiece

ThreeLimits == <<6, 9>>
ThreeLengths == <<2, 4, 6>>

(* Up to three files, of any sizes, empty ones among them.                 *)
UpToThreeFiles ==
    {s \in UNION {[1 .. n -> 0 .. MaxTotal] : n \in 1 .. 3} :
        \A i \in 2 .. Len(s) : s[i - 1] <= s[i]}

AnyPieceLength == [total : 1 .. MaxTotal, pieceLength : 1 .. MaxForeignPiece]
=============================================================================
