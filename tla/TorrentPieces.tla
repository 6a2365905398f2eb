---------------------------- MODULE TorrentPieces ----------------------------
(***************************************************************************)
(* How files become pieces, and pieces blocks.  createTorrentFile chooses  *)
(* a piece length and createHash reads the files, one after the other, and *)
(* hashes what it has read; later the piece manager's constructor divides  *)
(* every piece into the blocks the client will request.                    *)
(*                                                                         *)
(* The bytes of the torrent are numbered through from 0; `ends' holds the  *)
(* number of the byte after each file's last.  A hash stands for the bytes *)
(* it was computed from, which are always consecutive: buffer holds the    *)
(* bufferRead bytes before pos.                                            *)
(***************************************************************************)
EXTENDS Naturals, Sequences

CONSTANTS
    block_size,   \* 16384 in the code
    Limits,       \* the total sizes at which choosePieceLength changes its mind
    Lengths,      \* the piece lengths it chooses from: one more than limits
    Created,      \* the files torrents are created of, as sequences of ends
    Foreign       \* [total, pieceLength] of torrents created by other programs

ASSUME BlockSizeAssumption == block_size \in Nat \ {0}
ASSUME LengthsAssumption ==
    /\ Limits \in Seq(Nat)
    /\ Lengths \in Seq(Nat)
    /\ Len(Lengths) = Len(Limits) + 1
    /\ \A i \in 1 .. Len(Lengths) :
          Lengths[i] # 0 /\ \E n \in 1 .. Lengths[i] : Lengths[i] = n * block_size
ASSUME CreatedAssumption ==
    \A ends \in Created :
        /\ ends \in Seq(Nat) \ {<<>>}
        /\ \A i \in 1 .. Len(ends) : \A j \in 1 .. i : ends[j] <= ends[i]
ASSUME ForeignAssumption == Foreign \subseteq [total : Nat \ {0}, pieceLength : Nat \ {0}]

VARIABLES
    own,            \* the torrent is created by this program
    ends,           \* the files
    pieceLength,    \* info.pieceLength
    phase,          \* where the torrent is on its way
    file,           \* index of the file createHash is at
    pos,            \* bytes read so far
    bufferRead,     \* bytes in the buffer
    pieces,         \* info.pieces: what each hash was computed from
    torrentPieces   \* the blocks of each piece

piecesVars == <<own, ends, pieceLength, phase, file, pos, bufferRead, pieces, torrentPieces>>

Lesser(m, n) == IF m <= n THEN m ELSE n
Greater(m, n) == IF m <= n THEN n ELSE m

Total == ends[Len(ends)]

(* The length of the first row whose limit is not reached, or the last.    *)
ChoosePieceLength(fileSize) ==
    LET row == CHOOSE r \in 1 .. Len(Lengths) :
                   /\ r <= Len(Limits) => fileSize < Limits[r]
                   /\ \A s \in 1 .. r - 1 : fileSize >= Limits[s]
    IN  Lengths[row]

(* The bytes of the piece with a (zero-based) index, as they should be.    *)
Bytes(from, size) == [from |-> from, size |-> size]
ProperPiece(i) == Bytes(i * pieceLength, Lesser(pieceLength, Total - i * pieceLength))

PiecesInit ==
    /\ file = 1 /\ pos = 0 /\ bufferRead = 0
    /\ torrentPieces = <<>>
    /\ \/ /\ own = TRUE
          /\ ends \in Created
          /\ pieceLength = ChoosePieceLength(Total)
          /\ pieces = <<>>
          /\ phase = "open"
       \/ /\ own = FALSE
          /\ \E t \in Foreign : ends = <<t.total>> /\ pieceLength = t.pieceLength
          /\ pieces = [i \in 1 .. (Total + pieceLength - 1) \div pieceLength
                          |-> ProperPiece(i - 1)]
          /\ phase = "torrent"

-----------------------------------------------------------------------------
(* createHash.                                                             *)

(* The next file is opened, or cannot be, or there is none.                *)
OpenFile ==
    /\ phase = "open"
    /\ \/ file <= Len(ends) /\ phase' \in {"read", "threw"}
       \/ file > Len(ends) /\ phase' = "torrent"
    /\ UNCHANGED <<own, ends, pieceLength, file, pos, bufferRead, pieces, torrentPieces>>

BytesRead == Lesser(ends[file] - pos, pieceLength - bufferRead)
Eof == BytesRead < pieceLength - bufferRead
PieceRead == bufferRead + BytesRead = pieceLength \/ (Eof /\ file = Len(ends))

(* A read, and if `hash' a hash of the buffer's first BytesRead bytes, even *)
(* when it holds bytes of an earlier file; `after' bytes are in the buffer *)
(* then.  A read that gets less than it asked for ends the loop.           *)
ReadThen(hash, after) ==
    /\ phase = "read"
    /\ pos' = pos + BytesRead
    /\ pieces' = IF hash THEN Append(pieces, Bytes(pos - bufferRead, BytesRead)) ELSE pieces
    /\ bufferRead' = after
    /\ \/ Eof /\ file' = file + 1 /\ phase' = "open"
       \/ ~Eof /\ UNCHANGED <<file, phase>>
    /\ UNCHANGED <<own, ends, pieceLength, torrentPieces>>

(* Mutant: the last, incomplete piece of each file is hashed.              *)
ReadFile_EveryEnd ==
    LET hash == bufferRead + BytesRead = pieceLength \/ Eof
    IN  ReadThen(hash, IF hash THEN 0 ELSE bufferRead + BytesRead)

(* One iteration of while (file).                                          *)
ReadFile ==
    ReadThen(PieceRead, IF PieceRead THEN 0 ELSE bufferRead + BytesRead)

-----------------------------------------------------------------------------
(* initiatePieces.                                                         *)

IsLast(i) == i = Len(pieces) - 1
RemLength == Total % pieceLength

(* Mutant: the last piece may have no block.                               *)
BlockCount_NoMax(i) == IF IsLast(i) THEN RemLength \div block_size
                                    ELSE pieceLength \div block_size

(* ceil of an integer quotient is the quotient.                            *)
BlockCount(i) == IF IsLast(i) THEN Greater(RemLength \div block_size, 1)
                              ELSE pieceLength \div block_size

(* Mutant: the last block of every piece is the short one.                 *)
BlockAt_EveryShort(i, k) ==
    [offset |-> k * block_size,
     length |-> IF k = BlockCount(i) - 1 THEN RemLength % block_size ELSE block_size]

BlockAt(i, k) ==
    [offset |-> k * block_size,
     length |-> IF IsLast(i) /\ k = BlockCount(i) - 1 THEN RemLength % block_size
                                                      ELSE block_size]

Blocks(i) == [k \in 1 .. BlockCount(i) |-> BlockAt(i, k - 1)]

InitiatePieces ==
    /\ phase = "torrent"
    /\ torrentPieces' = [i \in 1 .. Len(pieces) |-> Blocks(i - 1)]
    /\ phase' = "initiated"
    /\ UNCHANGED <<own, ends, pieceLength, file, pos, bufferRead, pieces>>

PiecesNext == OpenFile \/ ReadFile \/ InitiatePieces

PiecesSpec == PiecesInit /\ [][PiecesNext]_piecesVars

-----------------------------------------------------------------------------
(* Properties.                                                             *)

BlockType == [offset : Nat, length : 0 .. block_size]

PiecesTypeOK ==
    /\ own \in BOOLEAN
    /\ ends \in Seq(Nat) \ {<<>>}
    /\ pieceLength \in Nat \ {0}
    /\ phase \in {"open", "read", "threw", "torrent", "initiated"}
    /\ file \in 1 .. Len(ends) + 1
    /\ phase = "read" => file <= Len(ends)
    /\ pos \in 0 .. Total
    /\ bufferRead \in 0 .. pieceLength - 1
    /\ pieces \in Seq([from : Nat, size : 0 .. pieceLength])
    /\ torrentPieces \in Seq(Seq(BlockType))

Hashed == phase \in {"torrent", "initiated"}

(* createHash returns one hash for each full piece and one for what is     *)
(* left, across any number of files: the piece that is being read is       *)
(* carried over from file to file.  (When nothing is left there is a hash  *)
(* of nothing, one more than other programs compute.)                      *)
HashCount ==
    own /\ Hashed => Len(pieces) = Total \div pieceLength + 1

(* The bytes of a piece are all in one file.  The last piece must be in    *)
(* the last file, whose end is what completes it.                          *)
InOneFile(piece, i) ==
    \E f \in 1 .. Len(ends) :
        /\ piece.from >= (IF f = 1 THEN 0 ELSE ends[f - 1])
        /\ piece.from + piece.size <= ends[f]
        /\ IsLast(i) => f = Len(ends)

(* A hash is of the bytes of its piece exactly if these do not cross the   *)
(* border of two files: for a piece that does, createHash hashes as many   *)
(* bytes as the last file gave, from the beginning of the buffer.          *)
HashedIffInOneFile ==
    own /\ Hashed => \A i \in 0 .. Len(pieces) - 1 :
        pieces[i + 1] = ProperPiece(i) <=> InOneFile(ProperPiece(i), i)

(* The blocks of a piece are disjoint and have exactly `size' bytes.       *)
Covers(blocks, size) ==
    \A b \in 0 .. Greater(size, pieceLength) :
        LET holding == {k \in DOMAIN blocks :
                            blocks[k].offset <= b /\ b < blocks[k].offset + blocks[k].length}
        IN  IF b < size THEN \E k \in holding : holding = {k} ELSE holding = {}

CoveredPiece(i) == Covers(torrentPieces[i + 1], ProperPiece(i).size)

(* The blocks the client requests are exactly the pieces' bytes if and     *)
(* only if a piece is a whole number of blocks and what the last piece has *)
(* is less than a block, and less than a piece: the number of blocks is    *)
(* rounded down, and a remainder of nothing is taken for a length.         *)
CoveredIffShortTail ==
    phase = "initiated" =>
        LET tail == Total - (Len(pieces) - 1) * pieceLength
            wholeBlocks == Len(pieces) > 1 => pieceLength % block_size = 0
        IN  (\A i \in 0 .. Len(pieces) - 1 : CoveredPiece(i))
               <=> wholeBlocks /\ tail < Lesser(block_size, pieceLength)

(* What this program creates of one file it can also download, as long as  *)
(* the file is so small that a piece is a block: then the hash of each     *)
(* piece is of the very bytes its blocks have.  The additional hash of     *)
(* nothing and the length of nothing for a full last piece make up for     *)
(* each other.                                                             *)
SmallFileRoundTrip ==
    own /\ Len(ends) = 1 /\ pieceLength = block_size /\ phase = "initiated" =>
        \A i \in 0 .. Len(pieces) - 1 : CoveredPiece(i) /\ pieces[i + 1] = ProperPiece(i)
=============================================================================
