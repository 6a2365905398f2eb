------------------------- MODULE TorrentPiecesProofs -------------------------
(***************************************************************************)
(* createHash computes the right number of hashes whatever the files are,  *)
(* and the right hashes of pieces that lie in one file; initiatePieces     *)
(* covers the torrents with a short tail; and what is created of one small *)
(* file can be downloaded again: for any sizes and any block size.         *)
(***************************************************************************)
EXTENDS TorrentPieces, WellFoundedInduction, TLAPS

USE BlockSizeAssumption

-----------------------------------------------------------------------------
(* Arithmetic.                                                             *)

(* Division determines the quotient and the remainder.                     *)
LEMMA Quotient ==
    ASSUME NEW a \in Nat, NEW b \in Nat \ {0}, NEW q \in Nat, NEW r \in 0 .. b - 1,
           a = q * b + r
    PROVE  a \div b = q /\ a % b = r
  OBVIOUS

(* What is left over after whole quotients is less than the divisor.       *)
LEMMA Division ==
    ASSUME NEW a \in Nat, NEW b \in Nat \ {0}
    PROVE  /\ a \div b \in Nat /\ a % b \in 0 .. b - 1
           /\ a = (a \div b) * b + (a % b)
  OBVIOUS

(* A product grows with its factors.                                       *)
LEMMA Product ==
    ASSUME NEW a \in Nat, NEW b \in Nat, NEW c \in Nat, a <= b
    PROVE  a * c \in Nat /\ b * c \in Nat /\ a * c <= b * c
  OBVIOUS

(* Pieces of length p, their number rounded up, begin within the t bytes.  *)
LEMMA PieceBegins ==
    ASSUME NEW t \in Nat, NEW p \in Nat \ {0}, NEW i \in 1 .. (t + p - 1) \div p
    PROVE  (i - 1) * p \in Nat /\ (i - 1) * p <= t
  <1> DEFINE n == (t + p - 1) \div p
  <1>1. n \in Nat /\ n * p <= t + p - 1
    <2>1. t + p - 1 \in Nat
      OBVIOUS
    <2>2. n * p + ((t + p - 1) % p) = t + p - 1 /\ n \in Nat /\ (t + p - 1) % p \in Nat
      BY <2>1, Division
    <2>3. n * p \in Nat
      BY <2>2
    <2> QED  BY <2>1, <2>2, <2>3
  <1>2. i \in Nat /\ i <= n /\ i >= 1
    BY <1>1
  <1> HIDE DEF n
  <1>3. i * p \in Nat /\ i * p <= n * p /\ n * p \in Nat
    BY <1>1, <1>2, Product
  <1>4. (i - 1) * p = i * p - p /\ (i - 1) * p \in Nat
    BY <1>2
  <1> QED  BY <1>1, <1>3, <1>4

(* A set of natural numbers has a least element.                           *)
LEMMA LeastNat ==
    ASSUME NEW S \in SUBSET Nat, S # {}
    PROVE  \E n \in S : \A m \in S : n <= m
  <1>1. \E n \in S : \A m \in S : ~ (<<m, n>> \in OpToRel(<, Nat))
    BY NatLessThanWellFounded, WFMin
  <1>2. \A m, n \in S : m < n => <<m, n>> \in OpToRel(<, Nat)
    <2> SUFFICES ASSUME NEW m \in S, NEW n \in S, m < n
                 PROVE  <<m, n>> \in OpToRel(<, Nat)
      OBVIOUS
    <2>1. <<m, n>> \in Nat \X Nat /\ <<m, n>>[1] < <<m, n>>[2]
      OBVIOUS
    <2> QED  BY <2>1, Zenon DEF OpToRel
  <1>3. \A m, n \in S : ~ (m < n) => n <= m
    OBVIOUS
  <1> QED  BY <1>1, <1>2, <1>3, Zenon

(* choosePieceLength returns one of the lengths for every size.            *)
LEMMA PieceLengthChosen ==
    ASSUME NEW fileSize \in Nat
    PROVE  ChoosePieceLength(fileSize) \in Nat \ {0}
  <1> DEFINE S == {r \in 1 .. Len(Lengths) : r <= Len(Limits) => fileSize < Limits[r]}
             Row(r) == /\ r <= Len(Limits) => fileSize < Limits[r]
                       /\ \A s \in 1 .. r - 1 : fileSize >= Limits[s]
             row == CHOOSE r \in 1 .. Len(Lengths) : Row(r)
  <1>1. Len(Lengths) \in S /\ S \subseteq Nat
    BY LengthsAssumption
  <1>2. PICK r \in S : \A m \in S : r <= m
    BY <1>1, LeastNat
  <1>3. Row(r)
    <2> SUFFICES ASSUME NEW s \in 1 .. r - 1
                 PROVE  fileSize >= Limits[s]
      BY <1>2
    <2>1. s \notin S /\ s \in 1 .. Len(Lengths)
      BY <1>2
    <2>2. s \in 1 .. Len(Limits) /\ ~ (fileSize < Limits[s])
      BY <2>1, LengthsAssumption
    <2> QED  BY <2>2, LengthsAssumption
  <1>4. row \in 1 .. Len(Lengths)
    <2> HIDE DEF Row
    <2> QED  BY <1>2, <1>3
  <1>5. ChoosePieceLength(fileSize) = Lengths[row]
    BY DEF ChoosePieceLength
  <1> HIDE DEF row
  <1> QED  BY <1>4, <1>5, LengthsAssumption

-----------------------------------------------------------------------------
(* Types.                                                                  *)

(* The files follow each other, and what has been read ends in the one     *)
(* that is being read.                                                     *)
ReadPlace ==
    /\ \A i \in 1 .. Len(ends) : \A j \in 1 .. i : ends[j] <= ends[i]
    /\ file <= Len(ends) => pos <= ends[file]
    /\ file > Len(ends) => pos = Total

(* All full pieces of what has been read are hashed, the rest is in the    *)
(* buffer, and is hashed in the end.                                       *)
HashedSoFar ==
    IF file <= Len(ends) THEN pos = Len(pieces) * pieceLength + bufferRead
                         ELSE bufferRead = 0 /\ Len(pieces) = Total \div pieceLength + 1

PieceType == [from : Nat, size : 0 .. pieceLength]

PiecesInv ==
    /\ PiecesTypeOK
    /\ own => ReadPlace /\ HashedSoFar
    /\ ~own => phase \in {"torrent", "initiated"}
    /\ own /\ Hashed => file > Len(ends)

(* The invariant holds initially, for created torrents and for others.     *)
LEMMA PiecesTypeInit == PiecesInit => PiecesInv
  <1> SUFFICES ASSUME PiecesInit PROVE PiecesInv
    OBVIOUS
  <1> USE DEF PiecesInit
  <1>1. CASE own = TRUE
    <2>1. /\ ends \in Created /\ pieceLength = ChoosePieceLength(Total)
          /\ pieces = <<>> /\ phase = "open"
      BY <1>1
    <2>2. ends \in Seq(Nat) \ {<<>>} /\ Total \in Nat
      BY <2>1, CreatedAssumption DEF Total
    <2>3. pieceLength \in Nat \ {0}
      BY <2>1, <2>2, PieceLengthChosen
    <2>4. PiecesTypeOK
      BY <1>1, <2>1, <2>2, <2>3 DEF PiecesTypeOK
    <2>5. ReadPlace
      BY <2>1, <2>2, CreatedAssumption DEF ReadPlace
    <2>6. HashedSoFar /\ ~Hashed
      BY <2>1, <2>2, <2>3 DEF HashedSoFar, Hashed
    <2> QED  BY <1>1, <2>4, <2>5, <2>6 DEF PiecesInv
  <1>2. CASE own = FALSE
    <2>1. PICK t \in Foreign : ends = <<t.total>> /\ pieceLength = t.pieceLength
      BY <1>2
    <2>2. /\ t.total \in Nat \ {0} /\ pieceLength \in Nat \ {0}
          /\ Total = t.total /\ ends \in Seq(Nat) \ {<<>>} /\ Len(ends) = 1
      BY <2>1, ForeignAssumption DEF Total
    <2> DEFINE n == (Total + pieceLength - 1) \div pieceLength
    <2>3. n \in Nat
      <3>1. Total + pieceLength - 1 \in Nat
        BY <2>2
      <3> QED  BY <2>2, <3>1, Division, Zenon
    <2>4. \A i \in 1 .. n : ProperPiece(i - 1) \in PieceType
      <3> SUFFICES ASSUME NEW i \in 1 .. n
                   PROVE  ProperPiece(i - 1) \in PieceType
        OBVIOUS
      <3>1. (i - 1) * pieceLength <= Total /\ (i - 1) * pieceLength \in Nat
        BY <2>2, PieceBegins
      <3> QED  BY <3>1, <2>2 DEF ProperPiece, Bytes, Lesser, PieceType
    <2>5. pieces \in Seq(PieceType) /\ phase = "torrent"
      <3>1. pieces = [i \in 1 .. n |-> ProperPiece(i - 1)] /\ phase = "torrent"
        BY <1>2
      <3> HIDE DEF n
      <3> QED  BY <3>1, <2>3, <2>4
    <2>6. PiecesTypeOK
      <3>1. file = 1 /\ pos = 0 /\ bufferRead = 0 /\ torrentPieces = <<>> /\ own = FALSE
        BY <1>2
      <3>2. 0 \in 0 .. pieceLength - 1 /\ 0 \in 0 .. Total /\ 1 \in 1 .. Len(ends) + 1
        BY <2>2
      <3>3. torrentPieces \in Seq(Seq(BlockType))
        BY <3>1
      <3> HIDE DEF PiecesInit, n, Total
      <3> QED  BY <3>1, <3>2, <3>3, <2>2, <2>5 DEF PiecesTypeOK, PieceType
    <2> QED  BY <2>6, <1>2 DEF PiecesInv
  <1> QED  BY <1>1, <1>2

(* What a read returns: all that fits, or all there is left of the file.   *)
LEMMA ReadFacts ==
    ASSUME PiecesInv, phase = "read"
    PROVE  /\ BytesRead \in Nat
           /\ BytesRead <= ends[file] - pos
           /\ bufferRead + BytesRead <= pieceLength
           /\ Eof => BytesRead = ends[file] - pos
           /\ ~Eof => bufferRead + BytesRead = pieceLength
           /\ ends[file] \in Nat /\ ends[file] <= Total
  <1>1. /\ file \in 1 .. Len(ends) /\ Len(ends) \in 1 .. Len(ends)
        /\ ends \in Seq(Nat) /\ pos \in Nat /\ ReadPlace
        /\ pieceLength \in Nat \ {0} /\ bufferRead \in 0 .. pieceLength - 1
    BY DEF PiecesInv, PiecesTypeOK
  <1>2. ends[file] \in Nat /\ ends[Len(ends)] \in Nat
    BY <1>1
  <1>3. ends[file] <= Total /\ pos <= ends[file]
    BY <1>1 DEF ReadPlace, Total
  <1>4. BytesRead \in {ends[file] - pos, pieceLength - bufferRead}
    BY DEF BytesRead, Lesser
  <1>5. BytesRead <= ends[file] - pos /\ BytesRead <= pieceLength - bufferRead
    BY <1>1, <1>2 DEF BytesRead, Lesser
  <1> QED  BY <1>1, <1>2, <1>3, <1>4, <1>5 DEF Eof, Total

(* Blocks have offsets, and lengths up to block_size.                     *)
LEMMA BlocksType ==
    ASSUME PiecesTypeOK, NEW i \in Nat
    PROVE  /\ BlockCount(i) \in Nat
           /\ Blocks(i) \in Seq(BlockType)
  <1>1. RemLength \in Nat
    <2>1. Total \in Nat /\ pieceLength \in Nat \ {0}
      BY DEF PiecesTypeOK, Total
    <2> QED  BY <2>1, Division DEF RemLength
  <1>2. /\ RemLength \div block_size \in Nat /\ pieceLength \div block_size \in Nat
        /\ RemLength % block_size \in 0 .. block_size - 1
    BY <1>1, Division DEF PiecesTypeOK
  <1>3. BlockCount(i) \in Nat
    BY <1>2 DEF BlockCount, Greater
  <1>4. \A k \in Nat : BlockAt(i, k) \in BlockType
    <2> SUFFICES ASSUME NEW k \in Nat PROVE BlockAt(i, k) \in BlockType
      OBVIOUS
    <2>1. k * block_size \in Nat
      OBVIOUS
    <2> QED  BY <1>2, <2>1 DEF BlockAt, BlockType
  <1> QED  BY <1>3, <1>4 DEF Blocks

(* Every step keeps the invariant.                                         *)
LEMMA PiecesTypeNext ==
    ASSUME PiecesInv, [PiecesNext]_piecesVars
    PROVE  PiecesInv'
  <1> USE DEF PiecesInv
  <1>1. CASE UNCHANGED piecesVars
    BY <1>1 DEF piecesVars, PiecesTypeOK, ReadPlace, HashedSoFar, Hashed, BlockType, Total
  <1>2. CASE OpenFile
    <2>1. PiecesTypeOK'
      BY <1>2 DEF OpenFile, PiecesTypeOK, BlockType, Total
    <2>2. /\ own' => ReadPlace' /\ HashedSoFar'
          /\ ~own' => phase' \in {"torrent", "initiated"}
          /\ own' /\ Hashed' => file' > Len(ends')
      BY <1>2 DEF OpenFile, ReadPlace, HashedSoFar, Hashed, Total
    <2> QED  BY <2>1, <2>2
  <1>3. CASE ReadFile
    <2>1. /\ phase = "read" /\ pos' = pos + BytesRead
          /\ pieces' = IF PieceRead THEN Append(pieces, Bytes(pos - bufferRead, BytesRead))
                                    ELSE pieces
          /\ bufferRead' = IF PieceRead THEN 0 ELSE bufferRead + BytesRead
          /\ \/ Eof /\ file' = file + 1 /\ phase' = "open"
             \/ ~Eof /\ UNCHANGED <<file, phase>>
          /\ UNCHANGED <<own, ends, pieceLength, torrentPieces>>
      BY <1>3 DEF ReadFile, ReadThen
    <2>2. /\ own = TRUE /\ file \in 1 .. Len(ends) /\ pos \in Nat
          /\ ends \in Seq(Nat) \ {<<>>} /\ Len(ends) \in Nat \ {0} /\ Total \in Nat
          /\ pieceLength \in Nat \ {0} /\ bufferRead \in 0 .. pieceLength - 1
          /\ pieces \in Seq(PieceType) /\ Len(pieces) \in Nat
      BY <2>1 DEF PiecesTypeOK, PieceType, Total
    <2>3. /\ BytesRead \in Nat
          /\ BytesRead <= ends[file] - pos
          /\ bufferRead + BytesRead <= pieceLength
          /\ Eof => BytesRead = ends[file] - pos
          /\ ~Eof => bufferRead + BytesRead = pieceLength
          /\ ends[file] \in Nat /\ ends[file] <= Total
      BY <2>1, ReadFacts
    <2>4. pos = Len(pieces) * pieceLength + bufferRead
      BY <2>2 DEF HashedSoFar
    <2>5. Bytes(pos - bufferRead, BytesRead) \in PieceType
      <3>1. Len(pieces) * pieceLength \in Nat
        BY <2>2
      <3>2. pos - bufferRead \in Nat
        BY <3>1, <2>2, <2>4
      <3> QED  BY <3>2, <2>2, <2>3 DEF Bytes, PieceType
    <2>6. pieces' \in Seq(PieceType)
          /\ Len(pieces') = IF PieceRead THEN Len(pieces) + 1 ELSE Len(pieces)
      BY <2>1, <2>2, <2>5
    <2>7. PiecesTypeOK'
      <3>1. bufferRead' \in 0 .. pieceLength - 1
        BY <2>1, <2>2, <2>3 DEF PieceRead
      <3>2. pos' \in 0 .. Total
        BY <2>1, <2>2, <2>3
      <3>3. file' \in 1 .. Len(ends) + 1 /\ (phase' = "read" => file' <= Len(ends))
            /\ phase' \in {"open", "read"}
        BY <2>1, <2>2
      <3>4. torrentPieces' \in Seq(Seq(BlockType))
        BY <2>1 DEF PiecesTypeOK, BlockType
      <3> QED  BY <2>1, <2>2, <2>6, <3>1, <3>2, <3>3, <3>4
               DEF PiecesTypeOK, PieceType, BlockType, Total
    <2>8. ReadPlace'
      <3>1. CASE Eof
        <4>1. pos' = ends[file] /\ file' = file + 1
          BY <3>1, <2>1, <2>2, <2>3
        <4>2. file' <= Len(ends) => pos' <= ends[file']
          BY <4>1, <2>2, <2>3 DEF ReadPlace
        <4>3. file' > Len(ends) => pos' = Total
          BY <4>1, <2>2 DEF Total
        <4>4. \A i \in 1 .. Len(ends) : \A j \in 1 .. i : ends[j] <= ends[i]
          BY <2>2 DEF ReadPlace
        <4>5. ends' = ends
          BY <2>1
        <4> QED  BY <4>2, <4>3, <4>4, <4>5 DEF ReadPlace, Total
      <3>2. CASE ~Eof
        BY <3>2, <2>1, <2>2, <2>3 DEF ReadPlace, Total
      <3> QED  BY <3>1, <3>2
    <2>9. HashedSoFar'
      <3>1. CASE file' <= Len(ends)
        <4>1. PieceRead => bufferRead + BytesRead = pieceLength
          <5>1. Eof => file < Len(ends)
            BY <3>1, <2>1, <2>2
          <5> QED  BY <5>1, <2>2 DEF PieceRead
        <4>2. (Len(pieces) + 1) * pieceLength = Len(pieces) * pieceLength + pieceLength
          BY <2>2
        <4>3. Len(pieces) * pieceLength \in Nat
          BY <2>2
        <4>4. pos' = Len(pieces) * pieceLength + (bufferRead + BytesRead)
          BY <4>3, <2>1, <2>2, <2>3, <2>4
        <4>5. pos' = Len(pieces') * pieceLength + bufferRead'
          <5>1. CASE PieceRead
            <6>1. Len(pieces') = Len(pieces) + 1 /\ bufferRead' = 0
              BY <5>1, <2>1, <2>6
            <6>2. pos' = Len(pieces) * pieceLength + pieceLength
              BY <5>1, <4>1, <4>4
            <6> QED  BY <6>1, <6>2, <4>2, <4>3, <2>2
          <5>2. CASE ~PieceRead
            BY <5>2, <4>4, <2>1, <2>6
          <5> QED  BY <5>1, <5>2
        <4> QED  BY <3>1, <4>5, <2>1 DEF HashedSoFar
      <3>2. CASE file' > Len(ends)
        <4>1. Eof /\ file = Len(ends) /\ PieceRead
          BY <3>2, <2>1, <2>2 DEF PieceRead
        <4>2. Total = Len(pieces) * pieceLength + (bufferRead + BytesRead)
          <5>1. Len(pieces) * pieceLength \in Nat
            BY <2>2
          <5> QED  BY <4>1, <5>1, <2>2, <2>3, <2>4 DEF Total
        <4>3. bufferRead + BytesRead \in 0 .. pieceLength - 1
          BY <4>1, <2>2, <2>3 DEF Eof
        <4>4. Total \div pieceLength = Len(pieces)
          BY <4>2, <4>3, <2>2, Quotient
        <4> QED  BY <3>2, <4>1, <4>4, <2>1, <2>2, <2>6 DEF HashedSoFar, Total
      <3> QED  BY <3>1, <3>2, <2>1, <2>2
    <2> QED  BY <2>1, <2>2, <2>7, <2>8, <2>9 DEF Hashed
  <1>4. CASE InitiatePieces
    <2>1. /\ phase = "torrent" /\ phase' = "initiated"
          /\ torrentPieces' = [i \in 1 .. Len(pieces) |-> Blocks(i - 1)]
          /\ UNCHANGED <<own, ends, pieceLength, file, pos, bufferRead, pieces>>
      BY <1>4 DEF InitiatePieces
    <2>2. \A i \in 1 .. Len(pieces) : Blocks(i - 1) \in Seq(BlockType)
      BY BlocksType
    <2>3. torrentPieces' \in Seq(Seq(BlockType))
      BY <2>1, <2>2 DEF PiecesTypeOK
    <2>4. PiecesTypeOK'
      BY <2>1, <2>3 DEF PiecesTypeOK, BlockType, Total
    <2> QED  BY <2>1, <2>4 DEF ReadPlace, HashedSoFar, Hashed, Total
  <1> QED  BY <1>1, <1>2, <1>3, <1>4 DEF PiecesNext

(* The types of TorrentPieces' variables.                                  *)
THEOREM PiecesTypeCorrect == PiecesSpec => []PiecesTypeOK
  <1>1. PiecesInv => PiecesTypeOK
    BY DEF PiecesInv
  <1> QED  BY <1>1, PiecesTypeInit, PiecesTypeNext, PTL DEF PiecesSpec

-----------------------------------------------------------------------------
(* createHash computes one hash for each full piece and one for the rest,  *)
(* whatever the number of files and wherever they end.                     *)
THEOREM HashesCounted == PiecesSpec => []HashCount
  <1>1. PiecesInv => HashCount
    BY DEF PiecesInv, PiecesTypeOK, HashedSoFar, HashCount
  <1> QED  BY <1>1, PiecesTypeInit, PiecesTypeNext, PTL DEF PiecesSpec

-----------------------------------------------------------------------------
(* One file.                                                               *)

(* Each read of the only file fills the buffer or ends the file.           *)
OneFileSoFar ==
    own /\ Len(ends) = 1 =>
        /\ file = 1 => bufferRead = 0 /\ \A j \in 1 .. Len(pieces) :
                                        pieces[j] = Bytes((j - 1) * pieceLength, pieceLength)
        /\ file > 1 => \A j \in 1 .. Len(pieces) : pieces[j] = ProperPiece(j - 1)
        /\ phase = "initiated" => torrentPieces = [i \in 1 .. Len(pieces) |-> Blocks(i - 1)]

(* A piece that is full where it should be is a proper one.                *)
LEMMA FullPiece ==
    ASSUME NEW i \in Nat, pieceLength \in Nat \ {0}, Total \in Nat,
           (i + 1) * pieceLength <= Total
    PROVE  ProperPiece(i) = Bytes(i * pieceLength, pieceLength)
  <1>1. (i + 1) * pieceLength = i * pieceLength + pieceLength /\ i * pieceLength \in Nat
    OBVIOUS
  <1>2. pieceLength <= Total - i * pieceLength
    BY <1>1
  <1> QED  BY <1>2 DEF ProperPiece, Lesser

(* The elements of a sequence of numbers are numbers.                      *)
LEMMA ElementOfNatSeq ==
    ASSUME NEW s \in Seq(Nat), NEW i \in 1 .. Len(s)
    PROVE  s[i] \in Nat
  OBVIOUS

(* Every step keeps what is known of the only file.                        *)
LEMMA OneFileNext ==
    ASSUME PiecesInv, OneFileSoFar, [PiecesNext]_piecesVars
    PROVE  OneFileSoFar'
  <1> SUFFICES ASSUME own', Len(ends') = 1
               PROVE  OneFileSoFar'
    BY DEF OneFileSoFar
  <1>1. CASE UNCHANGED piecesVars
    BY <1>1 DEF piecesVars, OneFileSoFar, ProperPiece, Total, Blocks, BlockCount, BlockAt,
                IsLast, RemLength
  <1>2. CASE OpenFile
    BY <1>2 DEF OpenFile, OneFileSoFar, ProperPiece, Total
  <1>3. CASE ReadFile
    <2>1. /\ phase = "read" /\ pos' = pos + BytesRead
          /\ pieces' = IF PieceRead THEN Append(pieces, Bytes(pos - bufferRead, BytesRead))
                                    ELSE pieces
          /\ bufferRead' = IF PieceRead THEN 0 ELSE bufferRead + BytesRead
          /\ \/ Eof /\ file' = file + 1 /\ phase' = "open"
             \/ ~Eof /\ UNCHANGED <<file, phase>>
          /\ UNCHANGED <<own, ends, pieceLength, torrentPieces>>
      BY <1>3 DEF ReadFile, ReadThen
    <2>2. /\ own /\ Len(ends) = 1 /\ file = 1 /\ pos \in Nat /\ Total \in Nat
          /\ Total = ends[file] /\ pieceLength \in Nat \ {0} /\ bufferRead = 0
          /\ pieces \in Seq(PieceType) /\ Len(pieces) \in Nat
          /\ \A j \in 1 .. Len(pieces) : pieces[j] = Bytes((j - 1) * pieceLength, pieceLength)
      <3>1. own /\ Len(ends) = 1
        BY <2>1
      <3>2. /\ file = 1 /\ pos \in Nat /\ ends \in Seq(Nat)
            /\ pieceLength \in Nat \ {0} /\ pieces \in Seq(PieceType)
        BY <2>1, <3>1 DEF PiecesInv, PiecesTypeOK, PieceType
      <3>3. Total \in Nat /\ Total = ends[file]
        <4>1. Total = ends[1] /\ file = 1
          BY <3>1, <3>2 DEF Total
        <4>2. ends[1] \in Nat
          <5>1. 1 \in 1 .. Len(ends)
            BY <3>1
          <5> QED  BY <5>1, <3>2, ElementOfNatSeq
        <4> QED  BY <4>1, <4>2
      <3>4. /\ bufferRead = 0
            /\ \A j \in 1 .. Len(pieces) :
                  pieces[j] = Bytes((j - 1) * pieceLength, pieceLength)
        BY <3>1, <3>2 DEF OneFileSoFar
      <3> QED  BY <3>1, <3>2, <3>3, <3>4
    <2>3. /\ BytesRead \in Nat
          /\ BytesRead <= Total - pos
          /\ bufferRead + BytesRead <= pieceLength
          /\ Eof => BytesRead = Total - pos
          /\ ~Eof => bufferRead + BytesRead = pieceLength
      BY <2>1, <2>2, ReadFacts
    <2>4. PieceRead
      BY <2>2, <2>3 DEF PieceRead
    <2>5. pos = Len(pieces) * pieceLength
      <3>1. Len(pieces) * pieceLength \in Nat
        BY <2>2
      <3> QED  BY <3>1, <2>2 DEF PiecesInv, HashedSoFar
    <2>6. pieces' = Append(pieces, Bytes(pos, BytesRead)) /\ bufferRead' = 0
      BY <2>1, <2>2, <2>4
    <2>7. /\ Len(pieces') = Len(pieces) + 1
          /\ pieces'[Len(pieces) + 1] = Bytes(pos, BytesRead)
          /\ \A j \in 1 .. Len(pieces) : pieces'[j] = pieces[j]
      BY <2>2, <2>6
    <2>8. CASE ~Eof
      <3>1. pieces'[Len(pieces) + 1] = Bytes((Len(pieces) + 1 - 1) * pieceLength, pieceLength)
        BY <2>2, <2>3, <2>5, <2>7, <2>8
      <3>2. \A j \in 1 .. Len(pieces') :
               pieces'[j] = Bytes((j - 1) * pieceLength, pieceLength)
        <4> SUFFICES ASSUME NEW j \in 1 .. Len(pieces')
                     PROVE  pieces'[j] = Bytes((j - 1) * pieceLength, pieceLength)
          OBVIOUS
        <4>1. CASE j = Len(pieces) + 1
          BY <3>1, <4>1
        <4>2. CASE j \in 1 .. Len(pieces)
          BY <2>2, <2>7, <4>2
        <4> QED  BY <4>1, <4>2, <2>2, <2>7
      <3> QED  BY <2>1, <2>2, <2>6, <2>8, <3>2 DEF OneFileSoFar
    <2>9. CASE Eof
      <3>1. Total = Len(pieces) * pieceLength + BytesRead /\ BytesRead < pieceLength
        BY <2>1, <2>2, <2>3, <2>5, <2>9 DEF Eof
      <3>2. ProperPiece(Len(pieces)) = Bytes(pos, BytesRead)
        <4>1. Total - Len(pieces) * pieceLength = BytesRead
          BY <3>1, <2>2, <2>3, <2>5
        <4> QED  BY <4>1, <3>1, <2>2, <2>3, <2>5 DEF ProperPiece, Lesser
      <3>3. \A j \in 1 .. Len(pieces) : pieces[j] = ProperPiece(j - 1)
        <4> SUFFICES ASSUME NEW j \in 1 .. Len(pieces)
                     PROVE  pieces[j] = ProperPiece(j - 1)
          OBVIOUS
        <4>1. j * pieceLength <= Len(pieces) * pieceLength
          <5>1. j \in Nat /\ j <= Len(pieces) /\ pieceLength \in Nat
            BY <2>2
          <5> QED  BY <5>1, <2>2, Product
        <4>2. (j - 1 + 1) * pieceLength <= Total
          BY <4>1, <2>2, <2>3, <2>5
        <4>3. j - 1 \in Nat
          BY <2>2
        <4> QED  BY <4>2, <4>3, <2>2, FullPiece
      <3>4. \A j \in 1 .. Len(pieces') : pieces'[j] = ProperPiece(j - 1)
        <4>1. Len(pieces) + 1 - 1 = Len(pieces)
          BY <2>2
        <4> SUFFICES ASSUME NEW j \in 1 .. Len(pieces')
                     PROVE  pieces'[j] = ProperPiece(j - 1)
          OBVIOUS
        <4>2. CASE j = Len(pieces) + 1
          BY <2>7, <3>2, <4>1, <4>2
        <4>3. CASE j \in 1 .. Len(pieces)
          BY <2>7, <3>3, <4>3
        <4> QED  BY <4>2, <4>3, <2>2, <2>7
      <3>5. \A j \in 1 .. Len(pieces') : pieces'[j] = ProperPiece(j - 1)'
        BY <3>4, <2>1 DEF ProperPiece, Total
      <3> QED  BY <2>1, <2>2, <2>9, <3>5 DEF OneFileSoFar
    <2> QED  BY <2>8, <2>9
  <1>4. CASE InitiatePieces
    BY <1>4 DEF InitiatePieces, PiecesInv, Hashed, OneFileSoFar, ProperPiece, Total,
                Blocks, BlockCount, BlockAt, IsLast, RemLength
  <1> QED  BY <1>1, <1>2, <1>3, <1>4 DEF PiecesNext

(* One block from the beginning of a piece covers what is as long.         *)
LEMMA OneBlockCovers ==
    ASSUME NEW blocks, NEW size \in Nat,
           blocks = [k \in 1 .. 1 |-> [offset |-> 0, length |-> size]]
    PROVE  Covers(blocks, size)
  <1> SUFFICES ASSUME NEW b \in 0 .. Greater(size, pieceLength)
               PROVE  LET holding == {k \in DOMAIN blocks :
                              blocks[k].offset <= b /\ b < blocks[k].offset + blocks[k].length}
                      IN  IF b < size THEN \E k \in holding : holding = {k} ELSE holding = {}
    BY DEF Covers
  <1>1. DOMAIN blocks = {1} /\ blocks[1].offset = 0 /\ blocks[1].length = size
    OBVIOUS
  <1>2. b \in Int /\ 0 <= b
    OBVIOUS
  <1> QED  BY <1>1, <1>2

(* For a file of any length, if pieces are blocks, the blocks the client   *)
(* requests have exactly the bytes the hashes were computed from.          *)
LEMMA SmallFile == PiecesInv /\ OneFileSoFar => SmallFileRoundTrip
  <1> SUFFICES ASSUME PiecesInv, OneFileSoFar, own, Len(ends) = 1,
                      pieceLength = block_size, phase = "initiated",
                      NEW i \in 0 .. Len(pieces) - 1
               PROVE  CoveredPiece(i) /\ pieces[i + 1] = ProperPiece(i)
    BY DEF SmallFileRoundTrip
  <1> DEFINE n == Len(pieces)
             tail == Total % block_size
  <1>1. /\ n \in Nat /\ i \in Nat /\ i + 1 \in 1 .. n /\ Total \in Nat
        /\ file > 1 /\ n = Total \div block_size + 1
    BY DEF PiecesInv, PiecesTypeOK, Hashed, HashedSoFar, Total
  <1>2. /\ torrentPieces[i + 1] = Blocks(i)
        /\ pieces[i + 1] = ProperPiece(i)
    <2>1. i + 1 - 1 = i
      BY <1>1
    <2> QED  BY <1>1, <2>1 DEF OneFileSoFar
  <1>3. tail \in 0 .. block_size - 1 /\ Total = (n - 1) * block_size + tail
    BY <1>1, Division
  <1>4. CASE i < n - 1
    <2>1. ProperPiece(i).size = block_size
      <3>1. (i + 1) * block_size <= (n - 1) * block_size /\ (n - 1) * block_size \in Nat
        BY <1>1, <1>4, Product
      <3>2. (i + 1) * pieceLength <= Total
        BY <3>1, <1>1, <1>3
      <3>3. ProperPiece(i) = Bytes(i * pieceLength, pieceLength)
        BY <3>2, <1>1, FullPiece
      <3> QED  BY <3>3 DEF Bytes
    <2>2. BlockCount(i) = 1 /\ ~IsLast(i)
      <3>1. block_size \div block_size = 1
        BY Quotient
      <3> QED  BY <3>1, <1>1, <1>4 DEF BlockCount, IsLast
    <2>3. Blocks(i) = [k \in 1 .. 1 |-> [offset |-> 0, length |-> block_size]]
      BY <2>2 DEF Blocks, BlockAt
    <2> QED  BY <2>1, <2>3, <1>2, OneBlockCovers DEF CoveredPiece
  <1>5. CASE i = n - 1
    <2>1. ProperPiece(i).size = tail
      <3>1. Total - i * pieceLength = tail
        <4>1. (n - 1) * block_size \in Nat
          BY <1>1
        <4> QED  BY <4>1, <1>1, <1>3, <1>5
      <3> QED  BY <3>1, <1>3 DEF ProperPiece, Bytes, Lesser
    <2>2. RemLength = tail /\ IsLast(i)
      BY <1>5 DEF RemLength, IsLast
    <2>3. tail \div block_size = 0 /\ tail % block_size = tail
      <3>1. tail = 0 * block_size + tail /\ tail \in Nat
        BY <1>3
      <3> HIDE DEF tail
      <3> QED  BY <3>1, <1>3, Quotient
    <2>4. BlockCount(i) = 1
      BY <2>2, <2>3 DEF BlockCount, Greater
    <2>5. Blocks(i) = [k \in 1 .. 1 |-> [offset |-> 0, length |-> tail]]
      BY <2>2, <2>3, <2>4 DEF Blocks, BlockAt
    <2> QED  BY <2>1, <2>5, <1>2, <1>3, OneBlockCovers DEF CoveredPiece
  <1> QED  BY <1>1, <1>4, <1>5

(* What the program creates of a small file, it lays out right.            *)
THEOREM SmallFileDownloads == PiecesSpec => []SmallFileRoundTrip
  <1>1. PiecesInit => OneFileSoFar
    BY DEF PiecesInit, OneFileSoFar
  <1> QED  BY <1>1, PiecesTypeInit, PiecesTypeNext, OneFileNext, SmallFile, PTL DEF PiecesSpec

-----------------------------------------------------------------------------
(* Any number of files.                                                    *)

(* The first byte of a file, and bytes that are all in one.                *)
Start(f) == IF f = 1 THEN 0 ELSE ends[f - 1]
Within(from, to) == \E f \in 1 .. Len(ends) : Start(f) <= from /\ to <= ends[f]

(* Only the first read of a file can find bytes of an earlier one in the   *)
(* buffer: a read that does not end the file empties it.  So a piece is    *)
(* hashed whole exactly if it lies in one file; the last piece, which is   *)
(* hashed where the last file ends, if it begins in that file.             *)
FileBorders ==
    own =>
        /\ file <= Len(ends) =>
              Start(file) <= pos /\ (bufferRead = 0 \/ pos = Start(file))
        /\ \A i \in 0 .. Len(pieces) - 1 :
              IF file <= Len(ends) \/ i < Len(pieces) - 1
                THEN pieces[i + 1] = Bytes(i * pieceLength, pieceLength)
                        <=> Within(i * pieceLength, (i + 1) * pieceLength)
                ELSE pieces[i + 1] = ProperPiece(i) <=> Start(Len(ends)) <= i * pieceLength

(* A read that fills the buffer gets all of the piece exactly if the piece *)
(* lies in one file.                                                       *)
LEMMA FullRead ==
    ASSUME PiecesInv, own, phase = "read", FileBorders,
           bufferRead + BytesRead = pieceLength
    PROVE  BytesRead = pieceLength <=> Within(pos - bufferRead, pos + BytesRead)
  <1>1. /\ file \in 1 .. Len(ends) /\ Len(ends) \in Nat /\ pos \in Nat
        /\ pieceLength \in Nat \ {0} /\ bufferRead \in 0 .. pieceLength - 1
        /\ \A f \in 1 .. Len(ends) : ends[f] \in Nat
    BY ElementOfNatSeq DEF PiecesInv, PiecesTypeOK
  <1>2. BytesRead \in Nat /\ BytesRead <= ends[file] - pos
    BY ReadFacts
  <1>3. /\ Start(file) <= pos /\ (bufferRead = 0 \/ pos = Start(file))
        /\ \A i \in 1 .. Len(ends) : \A j \in 1 .. i : ends[j] <= ends[i]
    BY <1>1 DEF FileBorders, PiecesInv, ReadPlace
  <1>4. CASE bufferRead = 0
    <2>1. Start(file) <= pos - bufferRead /\ pos + BytesRead <= ends[file]
      BY <1>1, <1>2, <1>3, <1>4
    <2> QED  BY <2>1, <1>1, <1>2, <1>4 DEF Within
  <1>5. CASE bufferRead # 0
    <2>1. pos = Start(file) /\ bufferRead > 0 /\ BytesRead > 0
      BY <1>1, <1>2, <1>3, <1>5
    <2> SUFFICES ASSUME NEW f \in 1 .. Len(ends),
                        Start(f) <= pos - bufferRead, pos + BytesRead <= ends[f]
                 PROVE  FALSE
      BY <2>1, <1>1, <1>2 DEF Within
    <2>2. CASE f >= file
      <3>1. Start(file) <= Start(f)
        <4>1. CASE file = 1
          <5>1. Start(f) \in Nat
            BY <1>1 DEF Start
          <5> QED  BY <5>1, <4>1 DEF Start
        <4>2. CASE file # 1
          <5>1. /\ f - 1 \in 1 .. Len(ends) /\ file - 1 \in 1 .. f - 1
                /\ f # 1
            BY <1>1, <2>2, <4>2
          <5>2. ends[file - 1] <= ends[f - 1]
            BY <1>3, <5>1
          <5> QED  BY <5>1, <5>2, <4>2 DEF Start
        <4> QED  BY <4>1, <4>2
      <3>2. Start(file) \in Int /\ Start(f) \in Int
        BY <1>1 DEF Start
      <3> QED  BY <2>1, <3>1, <3>2, <1>1
    <2>3. CASE f < file
      <3>1. file # 1 /\ file - 1 \in 1 .. Len(ends) /\ f \in 1 .. file - 1
        BY <1>1, <2>3
      <3>2. ends[f] <= ends[file - 1] /\ Start(file) = ends[file - 1]
        BY <3>1, <1>3 DEF Start
      <3> QED  BY <3>1, <3>2, <2>1, <1>1, <1>2
    <2> QED  BY <2>2, <2>3, <1>1
  <1> QED  BY <1>4, <1>5

(* What is read goes where the buffer's first byte belongs.                *)
LEMMA BufferPlace ==
    ASSUME PiecesInv, own, phase = "read"
    PROVE  /\ Len(pieces) * pieceLength \in Nat
           /\ pos - bufferRead = Len(pieces) * pieceLength
           /\ bufferRead + BytesRead = pieceLength =>
                 pos + BytesRead = (Len(pieces) + 1) * pieceLength
  <1>1. /\ Len(pieces) \in Nat /\ pieceLength \in Nat \ {0} /\ pos \in Nat
        /\ bufferRead \in Nat /\ BytesRead \in Nat
        /\ pos = Len(pieces) * pieceLength + bufferRead
    BY ReadFacts DEF PiecesInv, PiecesTypeOK, HashedSoFar
  <1>2. /\ Len(pieces) * pieceLength \in Nat
        /\ (Len(pieces) + 1) * pieceLength = Len(pieces) * pieceLength + pieceLength
    BY <1>1
  <1> QED  BY <1>1, <1>2

(* The last read of the last file completes a hash of its own bytes.       *)
LEMMA LastRead ==
    ASSUME PiecesInv, own, phase = "read", FileBorders, Eof, file = Len(ends)
    PROVE  Bytes(pos - bufferRead, BytesRead) = ProperPiece(Len(pieces))
              <=> Start(Len(ends)) <= Len(pieces) * pieceLength
  <1> DEFINE from == Len(pieces) * pieceLength
  <1>1. /\ pos \in Nat /\ BytesRead \in Nat /\ Total \in Nat /\ Total = ends[file]
        /\ pieceLength \in Nat \ {0} /\ bufferRead \in 0 .. pieceLength - 1
        /\ BytesRead = Total - pos /\ BytesRead < pieceLength - bufferRead
    BY ReadFacts DEF PiecesInv, PiecesTypeOK, Total, Eof
  <1>2. from \in Nat /\ pos - bufferRead = from
    BY BufferPlace
  <1>3. Start(file) \in Nat /\ Start(file) <= pos /\ (bufferRead = 0 \/ pos = Start(file))
    <2>1. file \in 1 .. Len(ends) /\ ends \in Seq(Nat)
      BY DEF PiecesInv, PiecesTypeOK
    <2>2. file # 1 => ends[file - 1] \in Nat
      BY <2>1, ElementOfNatSeq
    <2> QED  BY <2>1, <2>2 DEF FileBorders, Start
  <1> HIDE DEF from
  <1>4. ProperPiece(Len(pieces)) = Bytes(from, bufferRead + BytesRead)
    <2>1. Total - from = bufferRead + BytesRead
      BY <1>1, <1>2
    <2>2. bufferRead + BytesRead <= pieceLength
      BY <1>1
    <2> QED  BY <1>1, <2>1, <2>2 DEF ProperPiece, Lesser, from
  <1>5. Bytes(from, BytesRead) = Bytes(from, bufferRead + BytesRead) <=> bufferRead = 0
    BY <1>1, <1>2 DEF Bytes
  <1>6. bufferRead = 0 <=> Start(file) <= from
    BY <1>1, <1>2, <1>3
  <1> QED  BY <1>2, <1>4, <1>5, <1>6 DEF from

(* Every step keeps what is known of the files' borders.                   *)
LEMMA FileBordersNext ==
    ASSUME PiecesInv, FileBorders, [PiecesNext]_piecesVars
    PROVE  FileBorders'
  <1>1. CASE ~ReadFile
    <2>1. UNCHANGED <<own, ends, pieceLength, file, pos, bufferRead, pieces>>
      BY <1>1 DEF PiecesNext, OpenFile, InitiatePieces, piecesVars
    <2> QED  BY <2>1 DEF FileBorders, Start, Within, ProperPiece, Total
  <1>2. CASE ReadFile
    <2> SUFFICES ASSUME own'
                 PROVE  FileBorders'
      BY DEF FileBorders
    <2>1. /\ phase = "read" /\ pos' = pos + BytesRead
          /\ pieces' = IF PieceRead THEN Append(pieces, Bytes(pos - bufferRead, BytesRead))
                                    ELSE pieces
          /\ bufferRead' = IF PieceRead THEN 0 ELSE bufferRead + BytesRead
          /\ \/ Eof /\ file' = file + 1 /\ phase' = "open"
             \/ ~Eof /\ UNCHANGED <<file, phase>>
          /\ UNCHANGED <<own, ends, pieceLength, torrentPieces>>
      BY <1>2 DEF ReadFile, ReadThen
    <2> DEFINE n == Len(pieces)
    <2>2. /\ own /\ file \in 1 .. Len(ends) /\ Len(ends) \in Nat /\ pos \in Nat
          /\ pieceLength \in Nat \ {0} /\ bufferRead \in 0 .. pieceLength - 1
          /\ pieces \in Seq(PieceType) /\ n \in Nat
      BY <2>1 DEF PiecesInv, PiecesTypeOK, PieceType
    <2>3. /\ BytesRead \in Nat /\ ends[file] \in Nat
          /\ BytesRead <= ends[file] - pos
          /\ Eof => BytesRead = ends[file] - pos
          /\ ~Eof => bufferRead + BytesRead = pieceLength
          /\ bufferRead + BytesRead = pieceLength => ~Eof
      BY <2>1, <2>2, ReadFacts DEF Eof
    <2>4. file' <= Len(ends') =>
             Start(file)' <= pos' /\ (bufferRead' = 0 \/ pos' = Start(file)')
      <3>1. CASE Eof
        <4>1. pos' = ends[file] /\ file' # 1 /\ file' - 1 = file /\ ends' = ends
          BY <3>1, <2>1, <2>2, <2>3
        <4> QED  BY <4>1, <2>3 DEF Start
      <3>2. CASE ~Eof
        <4>1. PieceRead
          BY <3>2, <2>3 DEF PieceRead
        <4>2. Start(file) \in Int
          <5>1. file # 1 => ends[file - 1] \in Nat
            BY <2>2, ElementOfNatSeq DEF PiecesInv, PiecesTypeOK
          <5> QED  BY <5>1 DEF Start
        <4>3. Start(file) <= pos
          BY <2>2 DEF FileBorders
        <4> QED  BY <3>2, <4>1, <4>2, <4>3, <2>1, <2>2, <2>3 DEF Start
      <3> QED  BY <3>1, <3>2
    <2>5. /\ pieces' \in Seq(PieceType)
          /\ \A i \in 0 .. n - 1 : pieces'[i + 1] = pieces[i + 1]
          /\ IF PieceRead THEN /\ Len(pieces') = n + 1
                               /\ pieces'[n + 1] = Bytes(pos - bufferRead, BytesRead)
                          ELSE Len(pieces') = n
      <3>1. Bytes(pos - bufferRead, BytesRead) \in PieceType
        BY <2>1, <2>2, <2>3, BufferPlace, ReadFacts DEF Bytes, PieceType
      <3> QED  BY <3>1, <2>1, <2>2
    <2>6. /\ \A a, b : Within(a, b)' <=> Within(a, b)
          /\ \A i : ProperPiece(i)' = ProperPiece(i)
          /\ Start(Len(ends))' = Start(Len(ends))
      BY <2>1 DEF Within, Start, ProperPiece, Total
    <2>7. \A i \in 0 .. n - 1 :
             pieces[i + 1] = Bytes(i * pieceLength, pieceLength)
                <=> Within(i * pieceLength, (i + 1) * pieceLength)
      BY <2>2 DEF FileBorders
    <2>8. ASSUME NEW i \in 0 .. Len(pieces') - 1
          PROVE  IF file' <= Len(ends') \/ i < Len(pieces') - 1
                   THEN pieces'[i + 1] = Bytes(i * pieceLength, pieceLength)
                           <=> Within(i * pieceLength, (i + 1) * pieceLength)
                   ELSE pieces'[i + 1] = ProperPiece(i)
                           <=> Start(Len(ends)) <= i * pieceLength
      <3>1. CASE PieceRead /\ ~Eof
        <4>1. CASE i = n
          <5>1. /\ pos - bufferRead = i * pieceLength
                /\ pos + BytesRead = (i + 1) * pieceLength
            BY <2>1, <2>2, <2>3, <3>1, <4>1, BufferPlace
          <5>2. BytesRead = pieceLength <=> Within(i * pieceLength, (i + 1) * pieceLength)
            BY <5>1, <2>1, <2>2, <2>3, <3>1, FullRead
          <5>3. pieces'[i + 1] = Bytes(i * pieceLength, BytesRead)
            BY <5>1, <2>5, <3>1, <4>1
          <5>4. Bytes(i * pieceLength, BytesRead) = Bytes(i * pieceLength, pieceLength)
                   <=> BytesRead = pieceLength
            BY DEF Bytes
          <5>5. file' <= Len(ends')
            BY <2>1, <2>2, <3>1
          <5> QED  BY <5>2, <5>3, <5>4, <5>5
        <4>2. CASE i # n
          <5>1. i \in 0 .. n - 1 /\ file' <= Len(ends')
            BY <2>1, <2>2, <2>5, <3>1, <4>2
          <5> QED  BY <5>1, <2>5, <2>7
        <4> QED  BY <4>1, <4>2
      <3>2. CASE PieceRead /\ Eof
        <4>1. file = Len(ends) /\ ~(file' <= Len(ends'))
          BY <2>1, <2>2, <2>3, <3>2 DEF PieceRead
        <4>2. CASE i = n
          BY <2>1, <2>2, <2>5, <3>2, <4>1, <4>2, LastRead
        <4>3. CASE i # n
          <5>1. i \in 0 .. n - 1 /\ i < Len(pieces') - 1
            BY <2>2, <2>5, <3>2, <4>3
          <5> QED  BY <5>1, <2>5, <2>7
        <4> QED  BY <4>2, <4>3
      <3>3. CASE ~PieceRead
        <4>1. file' <= Len(ends') /\ i \in 0 .. n - 1
          BY <2>1, <2>2, <2>3, <2>5, <3>3 DEF PieceRead
        <4> QED  BY <4>1, <2>5, <2>7
      <3> QED  BY <3>1, <3>2, <3>3
    <2>9. pieceLength' = pieceLength /\ ends' = ends
      BY <2>1
    <2> HIDE DEF n
    <2>10. \A i \in 0 .. Len(pieces') - 1 :
              IF file' <= Len(ends') \/ i < Len(pieces') - 1
                THEN pieces'[i + 1] = Bytes(i * pieceLength', pieceLength')
                        <=> Within(i * pieceLength, (i + 1) * pieceLength)'
                ELSE pieces'[i + 1] = ProperPiece(i)'
                        <=> Start(Len(ends))' <= i * pieceLength'
      BY <2>6, <2>8, <2>9 DEF Within
    <2> QED  BY <2>4, <2>9, <2>10 DEF FileBorders, Within, Start, ProperPiece, Total
  <1> QED  BY <1>1, <1>2

(* The hashes of a finished torrent.                                       *)
LEMMA BordersDecide == PiecesInv /\ FileBorders => HashedIffInOneFile
  <1> SUFFICES ASSUME PiecesInv, FileBorders, own, Hashed, NEW i \in 0 .. Len(pieces) - 1
               PROVE  pieces[i + 1] = ProperPiece(i) <=> InOneFile(ProperPiece(i), i)
    BY DEF HashedIffInOneFile
  <1> DEFINE from == i * pieceLength
             last == Len(ends)
  <1>1. /\ i \in Nat /\ pieceLength \in Nat \ {0} /\ Len(pieces) \in Nat
        /\ last \in Nat /\ last \in 1 .. Len(ends) /\ Total \in Nat /\ Total = ends[last]
        /\ ~(file <= Len(ends)) /\ Len(pieces) - 1 = Total \div pieceLength
    <2>1. /\ ends \in Seq(Nat) \ {<<>>} /\ file \in 1 .. Len(ends) + 1
          /\ pieceLength \in Nat \ {0} /\ Len(pieces) \in Nat /\ file > Len(ends)
          /\ IF file <= Len(ends) THEN TRUE ELSE Len(pieces) = Total \div pieceLength + 1
      BY DEF PiecesInv, PiecesTypeOK, HashedSoFar
    <2>2. last \in Nat /\ last \in 1 .. Len(ends) /\ ~(file <= Len(ends))
      BY <2>1
    <2>3. ends[last] \in Nat
      BY <2>1, <2>2, ElementOfNatSeq
    <2>4. Total = ends[last]
      BY DEF Total
    <2>5. Total \div pieceLength \in Nat
      BY <2>1, <2>3, <2>4, Division
    <2>6. Len(pieces) - 1 = Total \div pieceLength
      BY <2>1, <2>2, <2>5
    <2> QED  BY <2>1, <2>2, <2>3, <2>4, <2>6
  <1> HIDE DEF last
  <1>2. from \in Nat
    BY <1>1
  <1>3. \A piece : InOneFile(piece, i) <=>
           \E f \in 1 .. Len(ends) : /\ piece.from >= Start(f)
                                     /\ piece.from + piece.size <= ends[f]
                                     /\ IsLast(i) => f = last
    BY DEF InOneFile, Start, last
  <1>4. CASE i < Len(pieces) - 1
    <2>1. (i + 1) * pieceLength <= Total /\ (i + 1) * pieceLength = from + pieceLength
      <3> DEFINE q == Total \div pieceLength
                 r == Total % pieceLength
      <3>1. q \in Nat /\ r \in Nat /\ Total = q * pieceLength + r
        <4>1. Total \in Nat /\ pieceLength \in Nat \ {0}
          BY <1>1
        <4>2. r \in 0 .. pieceLength - 1 /\ q \in Nat /\ Total = q * pieceLength + r
          BY <4>1, Division, Zenon
        <4> QED  BY <4>1, <4>2
      <3>2. i + 1 \in Nat /\ i + 1 <= q
        BY <1>1, <1>4
      <3> HIDE DEF q, r
      <3>3. (i + 1) * pieceLength <= q * pieceLength /\ q * pieceLength \in Nat
            /\ (i + 1) * pieceLength \in Nat
        BY <3>1, <3>2, <1>1, Product
      <3> QED  BY <3>1, <3>3, <1>1
    <2>2. ProperPiece(i) = Bytes(from, pieceLength)
      BY <2>1, <1>1, FullPiece
    <2>3. ~IsLast(i)
      BY <1>1, <1>4 DEF IsLast
    <2>4. InOneFile(ProperPiece(i), i) <=> Within(from, (i + 1) * pieceLength)
      <3>1. Bytes(from, pieceLength).from = from /\ Bytes(from, pieceLength).size = pieceLength
        BY DEF Bytes
      <3>2. \A f \in 1 .. Len(ends) : Start(f) \in Nat
        BY ElementOfNatSeq DEF Start, PiecesInv, PiecesTypeOK
      <3> HIDE DEF from
      <3>3. \A f \in 1 .. Len(ends) : from >= Start(f) <=> Start(f) <= from
        BY <3>2, <1>2
      <3> QED  BY <3>1, <3>3, <2>1, <2>2, <2>3, <1>3 DEF Within
    <2>5. pieces[i + 1] = Bytes(from, pieceLength) <=> Within(from, (i + 1) * pieceLength)
      BY <1>4 DEF FileBorders
    <2> QED  BY <2>2, <2>4, <2>5
  <1>5. CASE i = Len(pieces) - 1
    <2>1. pieces[i + 1] = ProperPiece(i) <=> Start(last) <= from
      <3>1. ~(file <= Len(ends) \/ i < Len(pieces) - 1)
        BY <1>1, <1>5
      <3>2. IF file <= Len(ends) \/ i < Len(pieces) - 1
              THEN TRUE
              ELSE pieces[i + 1] = ProperPiece(i) <=> Start(Len(ends)) <= i * pieceLength
        BY DEF FileBorders
      <3> QED  BY <3>1, <3>2 DEF last
    <2>2. IsLast(i)
      BY <1>5 DEF IsLast
    <2>3. /\ ProperPiece(i).from = from
          /\ from + ProperPiece(i).size <= Total
      <3>1. ProperPiece(i) = Bytes(from, Lesser(pieceLength, Total - from))
        BY DEF ProperPiece
      <3> HIDE DEF from
      <3>2. Lesser(pieceLength, Total - from) <= Total - from
            /\ Lesser(pieceLength, Total - from) \in Int
        BY <1>1, <1>2 DEF Lesser
      <3> QED  BY <3>1, <3>2, <1>1, <1>2 DEF Bytes
    <2>4. Start(last) \in Nat
      <3>1. last # 1 => ends[last - 1] \in Nat
        <4>1. ends \in Seq(Nat)
          BY DEF PiecesInv, PiecesTypeOK
        <4>2. last # 1 => last - 1 \in 1 .. Len(ends)
          BY <1>1
        <4> QED  BY <4>1, <4>2, ElementOfNatSeq
      <3> QED  BY <3>1 DEF Start
    <2> HIDE DEF from
    <2>5. from >= Start(last) <=> Start(last) <= from
      BY <2>4, <1>2
    <2> QED  BY <2>1, <2>2, <2>3, <2>5, <1>1, <1>3
  <1> QED  BY <1>1, <1>4, <1>5

(* createHash hashes the bytes of a piece exactly if the piece does not    *)
(* cross from one file to the next, wherever files and pieces end.         *)
THEOREM HashedInOneFile == PiecesSpec => []HashedIffInOneFile
  <1>1. PiecesInit => FileBorders
    BY DEF PiecesInit, FileBorders, Start
  <1> QED  BY <1>1, PiecesTypeInit, PiecesTypeNext, FileBordersNext, BordersDecide, PTL
           DEF PiecesSpec

-----------------------------------------------------------------------------
(* What the blocks cover, for torrents of this program and of others.      *)

(* There is at least one hash, the last piece has at most a piece's bytes, *)
(* and the blocks are those initiatePieces computes.                       *)
LastPiece ==
    Hashed =>
        /\ Len(pieces) >= 1
        /\ (Len(pieces) - 1) * pieceLength <= Total
        /\ Total - (Len(pieces) - 1) * pieceLength <= pieceLength
        /\ phase = "initiated" => torrentPieces = [i \in 1 .. Len(pieces) |-> Blocks(i - 1)]

(* The number of pieces rounded up leaves at most a piece for the last.    *)
LEMMA RoundedUp ==
    ASSUME NEW t \in Nat \ {0}, NEW p \in Nat \ {0}, NEW n, n = (t + p - 1) \div p
    PROVE  n \in Nat /\ n >= 1 /\ (n - 1) * p <= t /\ t - (n - 1) * p <= p
  <1> DEFINE r == (t + p - 1) % p
  <1>1. t + p - 1 \in Nat
    OBVIOUS
  <1>2. n \in Nat /\ r \in 0 .. p - 1 /\ t + p - 1 = n * p + r
    BY <1>1, Division, Zenon
  <1> HIDE DEF r
  <1>3. n * p \in Nat /\ (n - 1) * p = n * p - p
    BY <1>2
  <1>4. n # 0
    BY <1>2
  <1> QED  BY <1>2, <1>3, <1>4

LEMMA LastPieceInit == PiecesInit => LastPiece
  <1> SUFFICES ASSUME PiecesInit, Hashed PROVE LastPiece
    BY DEF LastPiece
  <1>1. PICK t \in Foreign : ends = <<t.total>> /\ pieceLength = t.pieceLength
    BY DEF PiecesInit, Hashed
  <1>2. Total \in Nat \ {0} /\ pieceLength \in Nat \ {0}
    BY <1>1, ForeignAssumption DEF Total
  <1> DEFINE n == (Total + pieceLength - 1) \div pieceLength
  <1>3. n \in Nat /\ n >= 1 /\ (n - 1) * pieceLength <= Total
        /\ Total - (n - 1) * pieceLength <= pieceLength
    BY <1>2, RoundedUp, Zenon
  <1>4. pieces = [i \in 1 .. n |-> ProperPiece(i - 1)] /\ phase = "torrent"
    BY DEF PiecesInit, Hashed
  <1> HIDE DEF n
  <1>5. Len(pieces) = n
    BY <1>3, <1>4
  <1> QED  BY <1>3, <1>4, <1>5 DEF LastPiece

LEMMA LastPieceNext ==
    ASSUME PiecesInv, PiecesInv', LastPiece, [PiecesNext]_piecesVars
    PROVE  LastPiece'
  <1>1. CASE Hashed /\ (UNCHANGED piecesVars \/ InitiatePieces)
    BY <1>1 DEF InitiatePieces, piecesVars, LastPiece, Hashed, Total, Blocks, BlockCount,
                BlockAt, IsLast, RemLength
  <1>2. CASE UNCHANGED piecesVars /\ ~Hashed
    BY <1>2 DEF piecesVars, LastPiece, Hashed
  <1>3. CASE ReadFile
    BY <1>3 DEF ReadFile, ReadThen, LastPiece, Hashed
  <1>4. CASE OpenFile
    <2> SUFFICES ASSUME Hashed' PROVE LastPiece'
      BY DEF LastPiece
    <2>1. /\ own' /\ phase' = "torrent"
          /\ UNCHANGED <<ends, pieceLength, pieces>>
      BY <1>4 DEF OpenFile, Hashed, PiecesInv
    <2>2. /\ Total \in Nat /\ pieceLength \in Nat \ {0} /\ Len(pieces) \in Nat
          /\ Len(pieces) = Total \div pieceLength + 1
      <3>1. ends' \in Seq(Nat) \ {<<>>} /\ pieceLength' \in Nat \ {0} /\ Len(pieces') \in Nat
        BY DEF PiecesInv, PiecesTypeOK
      <3>2. Len(ends) \in 1 .. Len(ends)
        BY <2>1, <3>1
      <3>3. Total \in Nat
        BY <2>1, <3>1, <3>2, ElementOfNatSeq DEF Total
      <3>4. Len(pieces)' = (Total \div pieceLength)' + 1
        <4>1. ~(file' <= Len(ends'))
          BY <2>1 DEF PiecesInv, PiecesTypeOK
        <4> QED  BY <2>1, <4>1 DEF PiecesInv, HashedSoFar
      <3> QED  BY <2>1, <3>1, <3>3, <3>4 DEF Total
    <2>3. /\ Total \div pieceLength \in Nat
          /\ Total % pieceLength \in 0 .. pieceLength - 1
          /\ Total = (Total \div pieceLength) * pieceLength + (Total % pieceLength)
      BY <2>2, Division, Zenon
    <2> DEFINE q == Total \div pieceLength
               r == Total % pieceLength
    <2> HIDE DEF q, r
    <2>4. q \in Nat /\ r \in 0 .. pieceLength - 1 /\ Total = q * pieceLength + r
          /\ Len(pieces) = q + 1
      BY <2>2, <2>3 DEF q, r
    <2>5. q * pieceLength \in Nat /\ Len(pieces) - 1 = q
      BY <2>2, <2>4
    <2> QED  BY <2>1, <2>2, <2>4, <2>5 DEF LastPiece, Total
  <1>5. CASE InitiatePieces
    BY <1>1, <1>5 DEF InitiatePieces, Hashed
  <1> QED  BY <1>1, <1>2, <1>3, <1>4, <1>5 DEF PiecesNext

(* A byte of a piece that no block has.                                    *)
LEMMA NotCovered ==
    ASSUME NEW blocks, NEW size \in Nat, pieceLength \in Nat, NEW b \in Nat, b < size,
           \A k \in DOMAIN blocks :
               ~(blocks[k].offset <= b /\ b < blocks[k].offset + blocks[k].length)
    PROVE  ~Covers(blocks, size)
  <1>1. b \in 0 .. Greater(size, pieceLength)
    BY DEF Greater
  <1> QED  BY <1>1 DEF Covers

(* A number is less than a multiple if its quotient is less.               *)
LEMMA SameQuotient ==
    ASSUME NEW q \in Nat, NEW c \in Nat, NEW s \in Nat \ {0}, NEW r \in 0 .. s - 1
    PROVE  q * s + r < c * s <=> q + 1 <= c
  <1>1. /\ q * s \in Nat /\ c * s \in Nat /\ (q + 1) * s = q * s + s
        /\ (q + 1) * s \in Nat /\ q + 1 \in Nat
    OBVIOUS
  <1>2. q + 1 <= c => (q + 1) * s <= c * s
    BY <1>1, Product
  <1>3. c <= q => c * s <= q * s
    BY Product
  <1> QED  BY <1>1, <1>2, <1>3

(* Whole blocks, one after the other, cover what they add up to.           *)
LEMMA WholeBlocksCover ==
    ASSUME NEW c \in Nat, NEW size \in Nat, size = c * block_size, pieceLength \in Nat,
           NEW blocks,
           blocks = [k \in 1 .. c |-> [offset |-> (k - 1) * block_size, length |-> block_size]]
    PROVE  Covers(blocks, size)
  <1> DEFINE Holds(k, b) == blocks[k].offset <= b /\ b < blocks[k].offset + blocks[k].length
  <1>1. DOMAIN blocks = 1 .. c
    OBVIOUS
  <1>2. ASSUME NEW k \in 1 .. c, NEW b \in Nat
        PROVE  Holds(k, b) <=> k = b \div block_size + 1
    <2>1. Holds(k, b) <=> (k - 1) * block_size <= b /\ b < (k - 1) * block_size + block_size
      BY <1>1, <1>2
    <2> DEFINE q == b \div block_size
               r == b % block_size
    <2>2. q \in Nat /\ r \in 0 .. block_size - 1 /\ b = q * block_size + r
      BY Division, Zenon
    <2>3. ASSUME (k - 1) * block_size <= b, b < (k - 1) * block_size + block_size
          PROVE  k - 1 = q
      <3>1. (k - 1) * block_size \in Nat /\ k - 1 \in Nat
        OBVIOUS
      <3>2. b - (k - 1) * block_size \in 0 .. block_size - 1
        BY <2>3, <3>1
      <3>3. b = (k - 1) * block_size + (b - (k - 1) * block_size)
        BY <3>1
      <3> QED  BY <3>1, <3>2, <3>3, Quotient, Zenon
    <2> HIDE DEF q, r
    <2>4. ASSUME k - 1 = q
          PROVE  (k - 1) * block_size <= b /\ b < (k - 1) * block_size + block_size
      <3>1. q * block_size \in Nat
        BY <2>2
      <3> QED  BY <2>2, <2>4, <3>1
    <2>5. k - 1 = q <=> k = q + 1
      BY <2>2
    <2> HIDE DEF Holds
    <2> QED  BY <2>1, <2>3, <2>4, <2>5 DEF q
  <1> SUFFICES ASSUME NEW b \in 0 .. Greater(size, pieceLength)
               PROVE  LET holding == {k \in DOMAIN blocks : Holds(k, b)}
                      IN  IF b < size THEN \E k \in holding : holding = {k} ELSE holding = {}
    BY DEF Covers
  <1> DEFINE k0 == b \div block_size + 1
             holding == {k \in DOMAIN blocks : Holds(k, b)}
  <1>3. b \in Nat
    BY DEF Greater
  <1>4. holding = {k \in 1 .. c : k = k0}
    <2> HIDE DEF Holds, k0
    <2> QED  BY <1>1, <1>2, <1>3 DEF k0
  <1> DEFINE q == b \div block_size
             r == b % block_size
  <1>5. q \in Nat /\ r \in 0 .. block_size - 1 /\ b = q * block_size + r
    BY <1>3, Division, Zenon
  <1> HIDE DEF q, r
  <1>6. b < size <=> q + 1 <= c
    BY <1>5, SameQuotient
  <1>7. k0 = q + 1
    BY DEF q
  <1> HIDE DEF k0, holding
  <1>8. IF b < size THEN \E k \in holding : holding = {k} ELSE holding = {}
    <2>1. CASE b < size
      <3>1. k0 \in 1 .. c
        BY <1>5, <1>6, <1>7, <2>1
      <3>2. holding = {k0}
        BY <1>4, <3>1
      <3> QED  BY <2>1, <3>2
    <2>2. CASE ~(b < size)
      <3>1. k0 \notin 1 .. c
        BY <1>5, <1>6, <1>7, <2>2
      <3> QED  BY <1>4, <2>2, <3>1
    <2> QED  BY <2>1, <2>2
  <1> QED  BY <1>8 DEF holding

(* A piece that is not the last is covered if it is whole blocks.          *)
LEMMA FullPieceCovered ==
    ASSUME PiecesInv, LastPiece, phase = "initiated", NEW i \in 0 .. Len(pieces) - 2
    PROVE  CoveredPiece(i) <=> pieceLength % block_size = 0
  <1> DEFINE c == pieceLength \div block_size
             r == pieceLength % block_size
             blocks == torrentPieces[i + 1]
  <1>1. /\ pieceLength \in Nat \ {0} /\ Len(pieces) \in Nat /\ Total \in Nat
        /\ i \in Nat /\ i + 1 \in 1 .. Len(pieces) - 1 /\ i + 1 - 1 = i
        /\ (Len(pieces) - 1) * pieceLength <= Total
        /\ torrentPieces = [j \in 1 .. Len(pieces) |-> Blocks(j - 1)]
    <2>1. ends \in Seq(Nat) \ {<<>>} /\ pieceLength \in Nat \ {0} /\ Len(pieces) \in Nat
      BY DEF PiecesInv, PiecesTypeOK
    <2>2. Len(ends) \in 1 .. Len(ends)
      BY <2>1
    <2>3. Total \in Nat
      BY <2>1, <2>2, ElementOfNatSeq DEF Total
    <2> QED  BY <2>1, <2>3 DEF LastPiece, Hashed
  <1>2. c \in Nat /\ r \in 0 .. block_size - 1 /\ pieceLength = c * block_size + r
    BY <1>1, Division, Zenon
  <1>3. ProperPiece(i).size = pieceLength
    <2>1. /\ (i + 1) * pieceLength <= (Len(pieces) - 1) * pieceLength
          /\ (i + 1) * pieceLength \in Nat /\ (Len(pieces) - 1) * pieceLength \in Nat
      <3>1. i + 1 \in Nat /\ Len(pieces) - 1 \in Nat /\ i + 1 <= Len(pieces) - 1
        BY <1>1
      <3> QED  BY <1>1, <3>1, Product
    <2>2. (i + 1) * pieceLength <= Total
      BY <1>1, <2>1
    <2>3. ProperPiece(i) = Bytes(i * pieceLength, pieceLength)
      BY <1>1, <2>2, FullPiece
    <2> QED  BY <2>3 DEF Bytes
  <1>4. blocks = [k \in 1 .. c |-> [offset |-> (k - 1) * block_size, length |-> block_size]]
    <2>1. blocks = Blocks(i)
      BY <1>1
    <2>2. ~IsLast(i)
      BY <1>1 DEF IsLast
    <2> QED  BY <2>1, <2>2 DEF Blocks, BlockAt, BlockCount
  <1>5. CoveredPiece(i) <=> Covers(blocks, pieceLength)
    BY <1>3 DEF CoveredPiece
  <1> HIDE DEF c, r, blocks
  <1>6. CASE r = 0
    <2>1. pieceLength = c * block_size
      BY <1>2, <1>6
    <2> QED  BY <1>1, <1>2, <1>4, <1>5, <1>6, <2>1, WholeBlocksCover DEF r
  <1>7. CASE r # 0
    <2>1. c * block_size \in Nat /\ c * block_size < pieceLength
      BY <1>2, <1>7
    <2>2. ASSUME NEW k \in DOMAIN blocks
          PROVE  ~(/\ blocks[k].offset <= c * block_size
                   /\ c * block_size < blocks[k].offset + blocks[k].length)
      <3>1. k \in 1 .. c /\ blocks[k].offset = (k - 1) * block_size
            /\ blocks[k].length = block_size
        BY <1>4, <2>2
      <3>2. k \in Nat /\ k <= c /\ (k - 1) * block_size = k * block_size - block_size
        BY <1>2, <3>1
      <3>3. k * block_size <= c * block_size /\ k * block_size \in Nat
        BY <1>2, <3>2, Product
      <3> QED  BY <2>1, <3>1, <3>2, <3>3
    <2>3. ~Covers(blocks, pieceLength)
      BY <1>1, <2>1, <2>2, NotCovered
    <2> QED  BY <1>5, <1>7, <2>3 DEF r
  <1> QED  BY <1>6, <1>7

(* The last piece is covered if what it has is less than a block, and less *)
(* than a piece.                                                           *)
LEMMA TailCovered ==
    ASSUME NEW n \in Nat, NEW tail \in Nat, tail <= pieceLength,
           Total \in Nat, pieceLength \in Nat \ {0}, Total = n * pieceLength + tail,
           IsLast(n), torrentPieces[n + 1] = Blocks(n)
    PROVE  CoveredPiece(n) <=> tail < Lesser(block_size, pieceLength)
  <1> DEFINE blocks == torrentPieces[n + 1]
             c == tail \div block_size
             r == tail % block_size
  <1>1. n * pieceLength \in Nat /\ Total - n * pieceLength = tail
    OBVIOUS
  <1>2. ProperPiece(n).size = tail
    <2>1. ProperPiece(n) = Bytes(n * pieceLength, Lesser(pieceLength, tail))
      BY <1>1, Zenon DEF ProperPiece
    <2>2. Lesser(pieceLength, tail) = tail
      BY DEF Lesser
    <2> QED  BY <2>1, <2>2 DEF Bytes
  <1>3. blocks = Blocks(n) /\ IsLast(n)
    OBVIOUS
  <1>4. CoveredPiece(n) <=> Covers(blocks, tail)
    BY <1>2 DEF CoveredPiece
  <1> HIDE DEF blocks
  <1>5. CASE tail = pieceLength
    <2>1. RemLength = 0
      <3>1. n + 1 \in Nat /\ (n + 1) * pieceLength = n * pieceLength + pieceLength
        BY <1>1
      <3>2. Total = (n + 1) * pieceLength + 0 /\ 0 \in 0 .. pieceLength - 1
        BY <1>1, <1>5, <3>1
      <3>3. \A m \in Nat : Total = m * pieceLength + 0 => Total % pieceLength = 0
        BY <3>2, Quotient, Zenon
      <3> QED  BY <3>1, <3>2, <3>3 DEF RemLength
    <2>2. 0 \div block_size = 0 /\ 0 % block_size = 0
      OBVIOUS
    <2>3. BlockCount(n) = 1
      BY <1>3, <2>1, <2>2 DEF BlockCount, Greater
    <2>4. blocks = [k \in 1 .. 1 |-> [offset |-> 0, length |-> 0]]
      BY <1>3, <2>1, <2>2, <2>3 DEF Blocks, BlockAt
    <2>5. ~Covers(blocks, tail)
      <3>1. \A k \in DOMAIN blocks :
               ~(blocks[k].offset <= 0 /\ 0 < blocks[k].offset + blocks[k].length)
        BY <2>4
      <3>2. tail \in Nat /\ pieceLength \in Nat /\ 0 \in Nat /\ 0 < tail
        BY <1>1, <1>5
      <3> QED  BY <3>1, <3>2, NotCovered, Zenon
    <2>6. ~(tail < Lesser(block_size, pieceLength))
      BY <1>1, <1>5 DEF Lesser
    <2> QED  BY <1>4, <2>5, <2>6
  <1>6. CASE tail < pieceLength
    <2>1. RemLength = tail
      <3>1. tail \in 0 .. pieceLength - 1
        BY <1>1, <1>6
      <3> QED  BY <1>1, <3>1, Quotient, Zenon DEF RemLength
    <2>2. c \in Nat /\ r \in 0 .. block_size - 1 /\ tail = c * block_size + r
      <3>1. tail \in Nat
        BY <1>1
      <3> QED  BY <3>1, Division, Zenon
    <2>3. BlockCount(n) = Greater(c, 1)
      BY <1>3, <2>1 DEF BlockCount
    <2>4. blocks = [k \in 1 .. BlockCount(n) |->
                      [offset |-> (k - 1) * block_size,
                       length |-> IF k - 1 = BlockCount(n) - 1 THEN r ELSE block_size]]
      BY <1>3, <2>1 DEF Blocks, BlockAt
    <2> HIDE DEF c, r
    <2>5. CASE tail < block_size
      <3>1. c = 0 /\ r = tail
        <4>1. tail = 0 * block_size + tail /\ tail \in 0 .. block_size - 1 /\ tail \in Nat
          BY <1>1, <2>5
        <4> QED  BY <4>1, Quotient DEF c, r
      <3>2. BlockCount(n) = 1
        BY <2>3, <3>1 DEF Greater
      <3>3. blocks = [k \in 1 .. 1 |-> [offset |-> 0, length |-> tail]]
        BY <2>4, <3>1, <3>2
      <3>4. Covers(blocks, tail)
        <4>1. tail \in Nat
          BY <1>1
        <4> QED  BY <3>3, <4>1, OneBlockCovers
      <3>5. tail < Lesser(block_size, pieceLength)
        BY <1>6, <2>5 DEF Lesser
      <3> QED  BY <1>4, <3>4, <3>5
    <2>6. CASE tail >= block_size
      <3>1. c >= 1
        <4>1. c # 0
          BY <2>2, <2>6
        <4> QED  BY <2>2, <4>1
      <3>2. BlockCount(n) = c
        BY <2>2, <2>3, <3>1 DEF Greater
      <3>3. /\ c * block_size \in Nat
            /\ (c - 1) * block_size = c * block_size - block_size
            /\ (c - 1) * block_size + r <= tail - 1
            /\ tail - 1 \in Nat /\ tail \in Nat
        BY <1>1, <2>2, <2>6
      <3>4. ASSUME NEW k \in DOMAIN blocks
            PROVE  ~(/\ blocks[k].offset <= tail - 1
                     /\ tail - 1 < blocks[k].offset + blocks[k].length)
        <4>1. /\ k \in 1 .. c /\ blocks[k].offset = (k - 1) * block_size
              /\ blocks[k].length = IF k = c THEN r ELSE block_size
          BY <2>2, <2>4, <3>2, <3>4
        <4>2. CASE k = c
          BY <2>2, <3>3, <4>1, <4>2
        <4>3. CASE k # c
          <5>1. k \in Nat /\ c - 1 \in Nat /\ k <= c - 1
            BY <2>2, <3>1, <4>1, <4>3
          <5>2. k * block_size <= (c - 1) * block_size /\ k * block_size \in Nat
                /\ (k - 1) * block_size = k * block_size - block_size
            BY <5>1, Product
          <5> QED  BY <2>2, <3>3, <4>1, <4>3, <5>2
        <4> QED  BY <4>2, <4>3
      <3>5. ~Covers(blocks, tail)
        BY <1>1, <3>3, <3>4, NotCovered
      <3>6. ~(tail < Lesser(block_size, pieceLength))
        BY <1>1, <1>6, <2>6 DEF Lesser
      <3> QED  BY <1>4, <3>5, <3>6
    <2> QED  BY <1>1, <2>5, <2>6
  <1> QED  BY <1>1, <1>5, <1>6

(* The last piece is covered exactly if it is shorter than a block and     *)
(* than a piece.                                                           *)
LEMMA LastPieceCovered ==
    ASSUME PiecesInv, LastPiece, phase = "initiated"
    PROVE  CoveredPiece(Len(pieces) - 1)
              <=> Total - (Len(pieces) - 1) * pieceLength < Lesser(block_size, pieceLength)
  <1> DEFINE n == Len(pieces) - 1
             tail == Total - n * pieceLength
  <1>1. ends \in Seq(Nat) \ {<<>>} /\ pieceLength \in Nat \ {0} /\ Len(pieces) \in Nat
    BY DEF PiecesInv, PiecesTypeOK
  <1>2. Total \in Nat
    <2>1. Len(ends) \in 1 .. Len(ends)
      BY <1>1
    <2> QED  BY <1>1, <2>1, ElementOfNatSeq DEF Total
  <1>3. /\ Len(pieces) >= 1 /\ n * pieceLength <= Total /\ tail <= pieceLength
        /\ torrentPieces = [j \in 1 .. Len(pieces) |-> Blocks(j - 1)]
    BY DEF LastPiece, Hashed
  <1>4. /\ n \in Nat /\ n + 1 \in 1 .. Len(pieces) /\ n + 1 - 1 = n /\ IsLast(n)
    BY <1>1, <1>3 DEF IsLast
  <1> HIDE DEF n
  <1>5. n * pieceLength \in Nat
    BY <1>1, <1>4, Product
  <1>6. tail \in Nat /\ Total = n * pieceLength + tail
    BY <1>2, <1>3, <1>5
  <1>7. torrentPieces[n + 1] = Blocks(n)
    BY <1>3, <1>4
  <1> HIDE DEF tail
  <1>8. CoveredPiece(n) <=> tail < Lesser(block_size, pieceLength)
    BY <1>1, <1>2, <1>3, <1>4, <1>6, <1>7, TailCovered
  <1> QED  BY <1>8 DEF n, tail

LEMMA CoverageDecided == PiecesInv /\ LastPiece => CoveredIffShortTail
  <1> DEFINE tail == Total - (Len(pieces) - 1) * pieceLength
             wholeBlocks == Len(pieces) > 1 => pieceLength % block_size = 0
             short == tail < Lesser(block_size, pieceLength)
  <1> SUFFICES ASSUME PiecesInv, LastPiece, phase = "initiated"
               PROVE  (\A i \in 0 .. Len(pieces) - 1 : CoveredPiece(i))
                         <=> wholeBlocks /\ short
    BY DEF CoveredIffShortTail
  <1>1. Len(pieces) \in Nat /\ Len(pieces) >= 1
    BY DEF PiecesInv, PiecesTypeOK, LastPiece, Hashed
  <1>2. CoveredPiece(Len(pieces) - 1) <=> short
    BY LastPieceCovered, Zenon
  <1>3. \A i \in 0 .. Len(pieces) - 2 : CoveredPiece(i) <=> pieceLength % block_size = 0
    BY FullPieceCovered
  <1> HIDE DEF short
  <1>4. /\ 0 .. Len(pieces) - 1 = 0 .. Len(pieces) - 2 \cup {Len(pieces) - 1}
        /\ Len(pieces) > 1 <=> 0 \in 0 .. Len(pieces) - 2
        /\ Len(pieces) > 1 \/ 0 .. Len(pieces) - 2 = {}
    BY <1>1
  <1> QED  BY <1>2, <1>3, <1>4

(* Whatever torrent the client is given, the blocks it requests have       *)
(* exactly the pieces' bytes if a piece is whole blocks and the last one   *)
(* has less than a block; and in every other case bytes are missing.       *)
THEOREM CoveredShortTail == PiecesSpec => []CoveredIffShortTail
  <1>1. PiecesInit => PiecesInv /\ LastPiece
    BY PiecesTypeInit, LastPieceInit
  <1>2. PiecesInv /\ LastPiece /\ [PiecesNext]_piecesVars => PiecesInv' /\ LastPiece'
    BY PiecesTypeNext, LastPieceNext
  <1> QED  BY <1>1, <1>2, CoverageDecided, PTL DEF PiecesSpec
=============================================================================
