------------------------- MODULE TorrentValueProofs -------------------------
(***************************************************************************)
(* What is saved for a torrent, read by a reader of the format, is the     *)
(* torrent, up to the conversion of its lengths and date to int, for every *)
(* torrent and any width of the numbers.                                   *)
(***************************************************************************)
EXTENDS TorrentValue, SequenceTheorems, TLAPS

(* The conversion to int keeps an int and nothing else.                    *)
LEMMA ToIntFixes ==
    ASSUME NEW n \in Int
    PROVE  ToInt(n) \in IntRange /\ (ToInt(n) = n <=> n \in IntRange)
<1> DEFINE h == IntWord \div 2
<1>1. h \in Nat /\ h >= 1 /\ IntWord = 2 * h
  BY WordAssumption
<1>2. ToInt(n) = ((n + h) % IntWord) - h /\ IntRange = -h .. h - 1
  BY DEF ToInt, IntRange
<1> HIDE DEF h
<1>3. (n + h) % IntWord \in 0 .. IntWord - 1 /\ IntWord \in Nat \ {0}
  BY <1>1
<1>4. n + h \in 0 .. IntWord - 1 => (n + h) % IntWord = n + h
  BY <1>1, <1>3
<1> QED
  BY <1>1, <1>2, <1>3, <1>4

(* A list is read back element by element.                                 *)
LEMMA TextsReadBack ==
    ASSUME NEW S, NEW texts \in Seq(S)
    PROVE  Contents(Tier(texts)[2]) = texts
<1>1. Tier(texts)[2] = [i \in DOMAIN texts |-> <<"string", texts[i]>>]
  BY DEF Tier, List, Str
<1>2. Contents(Tier(texts)[2]) = [i \in DOMAIN texts |-> texts[i]]
  BY <1>1 DEF Contents
<1> QED
  BY <1>2

(* What a reader makes of the torrent t.                                   *)
Cast(t) ==
    [announce |-> t.announce, announceList |-> t.announceList, createdBy |-> t.createdBy,
     creationDate |-> [i \in DOMAIN t.creationDate |-> ToInt(t.creationDate[i])],
     files |-> [i \in DOMAIN t.files |->
                   [length |-> ToInt(t.files[i].length), path |-> t.files[i].path]],
     name |-> t.name, pieceLength |-> t.pieceLength, pieces |-> t.pieces]

(* A sequence of at most one element.                                      *)
LEMMA AtMostOne ==
    ASSUME NEW S, NEW s \in Optional(S)
    PROVE  \/ s = <<>>
           \/ s # <<>> /\ DOMAIN s = {1} /\ s[1] \in S /\ s = <<s[1]>>
<1>0. s \in Seq(S) /\ Len(s) <= 1
  BY DEF Optional
<1>1. Len(s) \in {0, 1} /\ DOMAIN s = 1 .. Len(s)
  <2>1. Len(s) \in Nat /\ DOMAIN s = 1 .. Len(s)
    BY <1>0, LenProperties
  <2> QED
    BY <1>0, <2>1
<1>2. CASE Len(s) = 0
  BY <1>0, <1>2, EmptySeq
<1>3. CASE Len(s) = 1
  <2>1. DOMAIN s = {1} /\ s[1] \in S
    BY <1>0, <1>1, <1>3, ElementOfSeq
  <2>2. <<s[1]>> \in Seq(S) /\ Len(<<s[1]>>) = 1 /\ \A i \in 1 .. 1 : <<s[1]>>[i] = s[i]
    BY <2>1
  <2>3. s = <<s[1]>>
    BY <1>0, <1>3, <2>2, SeqEqual
  <2>4. s # <<>>
    BY <1>3
  <2> QED
    BY <2>1, <2>3, <2>4
<1> QED
  BY <1>1, <1>2, <1>3

(* The fields of the dictionaries that toValue makes.                      *)
LEMMA InfoRead ==
    ASSUME NEW t \in TorrentStructure
    PROVE  LET info == InfoValue(t)[2] IN
           /\ "length" \notin DOMAIN info
           /\ Look(info, "name", "") = t.name
           /\ Look(info, "pieces", "") = t.pieces
           /\ Look(info, "piece length", Indeterminate) = ToInt(t.pieceLength)
           /\ Look(info, "files", <<>>) = [i \in DOMAIN t.files |-> FileValue(t.files[i])]
<1> DEFINE keys == {"name", "piece length", "pieces"}
                     \cup (IF t.files = <<>> THEN {} ELSE {"files"})
           info == InfoValue(t)[2]
<1>1. info = [k \in keys |->
              CASE k = "name" -> Str(t.name)
                [] k = "piece length" -> Number(ToInt(t.pieceLength))
                [] k = "pieces" -> Str(t.pieces)
                [] k = "files" -> List(FileValue, t.files)]
  BY DEF InfoValue
<1>2. DOMAIN info = keys
  BY <1>1
<1> HIDE DEF info
<1>3. info["name"] = Str(t.name) /\ info["pieces"] = Str(t.pieces)
      /\ info["piece length"] = Number(ToInt(t.pieceLength))
  BY <1>1
<1>4. Look(info, "files", <<>>) = [i \in DOMAIN t.files |-> FileValue(t.files[i])]
  <2>1. CASE t.files = <<>>
    <3>1. "files" \notin DOMAIN info
      BY <1>2, <2>1
    <3> QED
      BY <2>1, <3>1 DEF Look
  <2>2. CASE t.files # <<>>
    <3>1. info["files"] = List(FileValue, t.files) /\ "files" \in DOMAIN info
      BY <1>1, <1>2, <2>2
    <3>2. List(FileValue, t.files)[2] = [i \in DOMAIN t.files |-> FileValue(t.files[i])]
      BY DEF List
    <3> QED
      BY <3>1, <3>2 DEF Look
  <2> QED
    BY <2>1, <2>2
<1>5. /\ "length" \notin DOMAIN info
      /\ Look(info, "name", "") = t.name
      /\ Look(info, "pieces", "") = t.pieces
      /\ Look(info, "piece length", Indeterminate) = ToInt(t.pieceLength)
  <2>1. "length" \notin DOMAIN info
    BY <1>2
  <2>2. {"name", "pieces", "piece length"} \subseteq DOMAIN info
    BY <1>2
  <2>3. \A x : Str(x)[2] = x /\ Number(x)[2] = x
    BY DEF Str, Number
  <2> QED
    BY <1>3, <2>1, <2>2, <2>3 DEF Look
<1> QED
  BY <1>4, <1>5 DEF info

(* The same of the outermost one.                                           *)
LEMMA TopRead ==
    ASSUME NEW t \in TorrentStructure
    PROVE  LET top == ToValue(t)[2] IN
           /\ Look(top, "info", <<>>) = InfoValue(t)[2]
           /\ Look(top, "announce", "") = t.announce
           /\ Look(top, "announce-list", <<>>) = [i \in DOMAIN t.announceList |-> Tier(t.announceList[i])]
           /\ LookOptional(top, "created by") = t.createdBy
           /\ LookOptional(top, "creation date") = [i \in DOMAIN t.creationDate |-> ToInt(t.creationDate[i])]
<1> DEFINE keys == {"info", "announce", "announce-list"}
                    \cup (IF t.createdBy = <<>> THEN {} ELSE {"created by"})
                    \cup (IF t.creationDate = <<>> THEN {} ELSE {"creation date"})
           top == ToValue(t)[2]
<1>1. top = [k \in keys |->
              CASE k = "info" -> InfoValue(t)
                [] k = "announce" -> Str(t.announce)
                [] k = "announce-list" -> List(Tier, t.announceList)
                [] k = "created by" -> Str(t.createdBy[1])
                [] k = "creation date" -> Number(ToInt(t.creationDate[1]))]
  BY DEF ToValue
<1>2. DOMAIN top = keys
  BY <1>1
<1> HIDE DEF top
<1>3. \A x : Str(x)[2] = x /\ Number(x)[2] = x
  BY DEF Str, Number
<1>4. /\ top["info"] = InfoValue(t) /\ top["announce"] = Str(t.announce)
      /\ top["announce-list"] = List(Tier, t.announceList)
  BY <1>1
<1>5. Look(top, "info", <<>>) = InfoValue(t)[2] /\ Look(top, "announce", "") = t.announce
  <2>1. {"info", "announce"} \subseteq DOMAIN top
    BY <1>2
  <2> QED
    BY <1>3, <1>4, <2>1 DEF Look
<1>6. Look(top, "announce-list", <<>>) = [i \in DOMAIN t.announceList |-> Tier(t.announceList[i])]
  <2>1. "announce-list" \in DOMAIN top
    BY <1>2
  <2>2. List(Tier, t.announceList)[2] = [i \in DOMAIN t.announceList |-> Tier(t.announceList[i])]
    BY DEF List
  <2> QED
    BY <1>4, <2>1, <2>2 DEF Look
<1>7. LookOptional(top, "created by") = t.createdBy
  <2>1. t.createdBy \in Optional(STRING)
    BY DEF TorrentStructure
  <2>2. CASE t.createdBy = <<>>
    <3>1. "created by" \notin DOMAIN top
      BY <1>2, <2>2
    <3> QED
      BY <2>2, <3>1 DEF LookOptional
  <2>3. CASE t.createdBy # <<>>
    <3>1. "created by" \in DOMAIN top
      BY <1>2, <2>3
    <3>2. top["created by"] = Str(t.createdBy[1])
      BY <1>1, <1>2, <3>1
    <3>3. t.createdBy = <<t.createdBy[1]>>
      BY <2>1, <2>3, AtMostOne
    <3> QED
      BY <1>3, <3>1, <3>2, <3>3 DEF LookOptional
  <2> QED
    BY <2>2, <2>3
<1>8. LookOptional(top, "creation date") = [i \in DOMAIN t.creationDate |-> ToInt(t.creationDate[i])]
  <2>1. t.creationDate \in Optional(Int)
    BY DEF TorrentStructure
  <2>2. CASE t.creationDate = <<>>
    <3>1. "creation date" \notin DOMAIN top
      BY <1>2, <2>2
    <3>2. [i \in DOMAIN t.creationDate |-> ToInt(t.creationDate[i])] = <<>>
      BY <2>2
    <3> QED
      BY <3>1, <3>2 DEF LookOptional
  <2>3. CASE t.creationDate # <<>>
    <3>1. "creation date" \in DOMAIN top
      BY <1>2, <2>3
    <3>2. top["creation date"] = Number(ToInt(t.creationDate[1]))
      BY <1>1, <1>2, <3>1
    <3> DEFINE n == t.creationDate[1]
    <3>3. t.creationDate = <<n>>
      BY <2>1, <2>3, AtMostOne
    <3> HIDE DEF n
    <3>4. [i \in DOMAIN <<n>> |-> ToInt(<<n>>[i])] = <<ToInt(n)>>
      <4>1. DOMAIN <<n>> = 1 .. 1
        OBVIOUS
      <4> DEFINE f == [i \in 1 .. 1 |-> ToInt(<<n>>[i])]
      <4>2. ToInt(n) \in Int
        BY <2>1, <2>3, ToIntFixes, AtMostOne DEF n, IntRange
      <4>3. f \in Seq(Int) /\ Len(f) = 1
        <5>1. f \in [1 .. 1 -> Int]
          BY <4>2
        <5>2. f \in Seq(Int)
          BY <5>1, SeqDef
        <5> QED
          BY <5>2, LenProperties
      <4> QED
        BY <4>1, <4>3
    <3>5. LookOptional(top, "creation date") = <<ToInt(n)>>
      BY <1>3, <3>1, <3>2 DEF LookOptional, n
    <3> QED
      BY <3>3, <3>4, <3>5
  <2> QED
    BY <2>2, <2>3
<1> QED
  BY <1>5, <1>6, <1>7, <1>8 DEF top

(* A file's dictionary is read back, with its length as an int.            *)
LEMMA FileRead ==
    ASSUME NEW f \in [length : Nat, path : Seq(STRING)]
    PROVE  LET dict == FileValue(f)[2] IN
           [length |-> dict["length"][2], path |-> Contents(dict["path"][2])]
              = [length |-> ToInt(f.length), path |-> f.path]
<1>1. FileValue(f)[2] = [length |-> Number(ToInt(f.length)), path |-> Tier(f.path)]
  BY DEF FileValue, Tier
<1>2. Number(ToInt(f.length))[2] = ToInt(f.length)
  BY DEF Number
<1>3. Contents(Tier(f.path)[2]) = f.path
  BY TextsReadBack
<1> QED
  BY <1>1, <1>2, <1>3

(* What a torrent has.                                                     *)
LEMMA Fields ==
    ASSUME NEW t \in TorrentStructure
    PROVE  /\ t = [announce |-> t.announce, announceList |-> t.announceList,
                   createdBy |-> t.createdBy, creationDate |-> t.creationDate,
                   files |-> t.files, name |-> t.name, pieceLength |-> t.pieceLength,
                   pieces |-> t.pieces]
           /\ t.creationDate \in Seq(Int) /\ t.pieceLength \in IntRange
           /\ \A i \in DOMAIN t.creationDate : t.creationDate[i] \in Int
           /\ t.files = [i \in DOMAIN t.files |-> t.files[i]]
           /\ \A i \in DOMAIN t.files : t.files[i] \in [length : Nat, path : Seq(STRING)]
<1>1. /\ t.files \in Seq([length : Nat, path : Seq(STRING)])
      /\ t.creationDate \in Optional(Int) /\ t.pieceLength \in IntRange
  BY DEF TorrentStructure
<1>2. t.creationDate \in Seq(Int)
  BY <1>1 DEF Optional
<1>3. /\ \A i \in DOMAIN t.files : t.files[i] \in [length : Nat, path : Seq(STRING)]
      /\ t.files = [i \in DOMAIN t.files |-> t.files[i]]
  <2> DEFINE S == [length : Nat, path : Seq(STRING)]
  <2> HIDE DEF S
  <2>1. t.files \in Seq(S)
    BY <1>1 DEF S
  <2>2. \A i \in DOMAIN t.files : t.files[i] \in S
    BY <2>1
  <2>3. t.files = [i \in DOMAIN t.files |-> t.files[i]]
    BY <2>1
  <2> QED
    BY <2>2, <2>3 DEF S
<1>4. \A i \in DOMAIN t.creationDate : t.creationDate[i] \in Int
  BY <1>2
<1>5. t = [announce |-> t.announce, announceList |-> t.announceList,
           createdBy |-> t.createdBy, creationDate |-> t.creationDate,
           files |-> t.files, name |-> t.name, pieceLength |-> t.pieceLength,
           pieces |-> t.pieces]
  BY DEF TorrentStructure
<1> QED
  BY <1>1, <1>2, <1>3, <1>4, <1>5

(* A reader of the format reads the torrent with its numbers cast.         *)
LEMMA ReferenceIsCast ==
    ASSUME NEW t \in TorrentStructure
    PROVE  Reference(ToValue(t)) = Cast(t)
<1> DEFINE top == ToValue(t)[2]
           info == InfoValue(t)[2]
           fileOf(f) == [length |-> f["length"][2], path |-> Contents(f["path"][2])]
           listed == [i \in DOMAIN t.files |-> FileValue(t.files[i])]
           tiers == [i \in DOMAIN t.announceList |-> Tier(t.announceList[i])]
<1>1. /\ Look(top, "info", <<>>) = info /\ Look(top, "announce", "") = t.announce
      /\ Look(top, "announce-list", <<>>) = tiers
      /\ LookOptional(top, "created by") = t.createdBy
      /\ LookOptional(top, "creation date") = [i \in DOMAIN t.creationDate |-> ToInt(t.creationDate[i])]
  BY TopRead
<1>2. /\ "length" \notin DOMAIN info
      /\ Look(info, "name", "") = t.name /\ Look(info, "pieces", "") = t.pieces
      /\ Look(info, "piece length", Indeterminate) = t.pieceLength
      /\ Look(info, "files", <<>>) = listed
  <2>1. ToInt(t.pieceLength) = t.pieceLength
    <3>1. t.pieceLength \in IntRange /\ t.pieceLength \in Int
      <4>1. t.pieceLength \in IntRange
        BY Fields
      <4>2. IntRange \subseteq Int
        BY WordAssumption DEF IntRange
      <4> QED
        BY <4>1, <4>2
    <3> QED
      BY <3>1, ToIntFixes
  <2> QED
    BY <2>1, InfoRead
<1>3. [i \in DOMAIN tiers |-> Contents(tiers[i][2])] = t.announceList
  <2>1. t.announceList \in Seq(Seq(STRING))
    BY DEF TorrentStructure
  <2>2. \A i \in DOMAIN t.announceList : Contents(Tier(t.announceList[i])[2]) = t.announceList[i]
    <3>1. \A i \in DOMAIN t.announceList : t.announceList[i] \in Seq(STRING)
      BY <2>1
    <3> QED
      BY <3>1, TextsReadBack
  <2>3. t.announceList = [i \in DOMAIN t.announceList |-> t.announceList[i]]
    BY <2>1
  <2> QED
    BY <2>2, <2>3
<1>4. [i \in DOMAIN listed |-> fileOf(listed[i][2])]
        = [i \in DOMAIN t.files |-> [length |-> ToInt(t.files[i].length), path |-> t.files[i].path]]
  <2>1. \A i \in DOMAIN t.files : t.files[i] \in [length : Nat, path : Seq(STRING)]
    BY Fields
  <2>2. \A i \in DOMAIN t.files : fileOf(FileValue(t.files[i])[2])
            = [length |-> ToInt(t.files[i].length), path |-> t.files[i].path]
    BY <2>1, FileRead
  <2> QED
    BY <2>2
<1> HIDE DEF top, info, listed, tiers, fileOf
<1>5. Reference(ToValue(t)) =
        [announce |-> t.announce, announceList |-> t.announceList, createdBy |-> t.createdBy,
         creationDate |-> [i \in DOMAIN t.creationDate |-> ToInt(t.creationDate[i])],
         files |-> [i \in DOMAIN t.files |-> [length |-> ToInt(t.files[i].length), path |-> t.files[i].path]],
         name |-> t.name, pieceLength |-> t.pieceLength, pieces |-> t.pieces]
  BY <1>1, <1>2, <1>3, <1>4 DEF Reference, top, fileOf
<1> QED
  BY <1>5 DEF Cast

(* The conversion changes nothing if and only if there is nothing that     *)
(* does not fit.                                                           *)
LEMMA CastKeeps ==
    ASSUME NEW t \in TorrentStructure
    PROVE  Cast(t) = t <=>
            /\ \A i \in DOMAIN t.files : t.files[i].length \in IntRange
            /\ \A i \in DOMAIN t.creationDate : t.creationDate[i] \in IntRange
<1> DEFINE dates == [i \in DOMAIN t.creationDate |-> ToInt(t.creationDate[i])]
           files == [i \in DOMAIN t.files |-> [length |-> ToInt(t.files[i].length), path |-> t.files[i].path]]
<1>1. /\ t.creationDate \in Seq(Int) /\ \A i \in DOMAIN t.creationDate : t.creationDate[i] \in Int
      /\ t.files = [i \in DOMAIN t.files |-> t.files[i]]
      /\ \A i \in DOMAIN t.files : t.files[i] \in [length : Nat, path : Seq(STRING)]
  BY Fields
<1>2. dates = t.creationDate <=> \A i \in DOMAIN t.creationDate : t.creationDate[i] \in IntRange
  <2>1. dates = t.creationDate <=> \A i \in DOMAIN t.creationDate : ToInt(t.creationDate[i]) = t.creationDate[i]
    <3>1. t.creationDate = [i \in DOMAIN t.creationDate |-> t.creationDate[i]]
      BY <1>1
    <3> QED
      BY <3>1
  <2> QED
    BY <1>1, <2>1, ToIntFixes
<1>3. files = t.files <=> \A i \in DOMAIN t.files : t.files[i].length \in IntRange
  <2>1. t.files = [i \in DOMAIN t.files |-> t.files[i]]
    BY <1>1
  <2>2. \A i \in DOMAIN t.files :
            t.files[i] = [length |-> t.files[i].length, path |-> t.files[i].path]
    BY <1>1
  <2>3. \A i \in DOMAIN t.files : ToInt(t.files[i].length) = t.files[i].length
                                    <=> t.files[i].length \in IntRange
    BY <1>1, ToIntFixes
  <2>4. ASSUME \A i \in DOMAIN t.files : t.files[i].length \in IntRange
        PROVE  files = t.files
    BY <2>1, <2>2, <2>3, <2>4
  <2>5. ASSUME files = t.files
        PROVE  \A i \in DOMAIN t.files : t.files[i].length \in IntRange
    <3>1. ASSUME NEW i \in DOMAIN t.files
          PROVE  t.files[i].length = ToInt(t.files[i].length)
      <4>1. t.files[i] = [length |-> ToInt(t.files[i].length), path |-> t.files[i].path]
        BY <2>5
      <4> QED
        BY <4>1
    <3> QED
      BY <2>3, <3>1
  <2> QED
    BY <2>4, <2>5
<1>4. Cast(t) = t <=> dates = t.creationDate /\ files = t.files
  <2> HIDE DEF dates, files
  <2>1. Cast(t) =
          [announce |-> t.announce, announceList |-> t.announceList, createdBy |-> t.createdBy,
           creationDate |-> dates, files |-> files,
           name |-> t.name, pieceLength |-> t.pieceLength, pieces |-> t.pieces]
    BY DEF Cast, dates, files
  <2>2. t = [announce |-> t.announce, announceList |-> t.announceList,
             createdBy |-> t.createdBy, creationDate |-> t.creationDate,
             files |-> t.files, name |-> t.name, pieceLength |-> t.pieceLength,
             pieces |-> t.pieces]
    BY Fields
  <2>3. Cast(t).creationDate = dates /\ Cast(t).files = files
    BY <2>1
  <2> QED
    BY <2>1, <2>2, <2>3
<1> QED
  BY <1>2, <1>3, <1>4

(* For every torrent and any width of int: another program reads from      *)
(* what this one saves exactly the torrent, if and only if no length and   *)
(* no date is cut off by the casts of toValue.                             *)
THEOREM SavedIsTorrent == ValueSpec => []SavedFaithfully
<1> DEFINE Inv == own = TRUE => torrent \in TorrentStructure /\ value = ToValue(torrent)
<1>1. ValueInit => Inv
  BY TorrentsAssumption DEF ValueInit
<1>2. Inv /\ [ValueNext]_valueVars => Inv'
  BY DEF ValueNext, SaveValue, LoadValue, valueVars
<1>3. Inv => SavedFaithfully
  <2> SUFFICES ASSUME Inv, own = TRUE
               PROVE  Reference(value) = torrent <=>
                        /\ \A i \in DOMAIN torrent.files : torrent.files[i].length \in IntRange
                        /\ \A i \in DOMAIN torrent.creationDate : torrent.creationDate[i] \in IntRange
    BY DEF SavedFaithfully
  <2>1. Reference(value) = Cast(torrent)
    BY ReferenceIsCast
  <2> QED
    BY <2>1, CastKeeps
<1> QED
  BY <1>1, <1>2, <1>3, PTL DEF ValueSpec
=============================================================================
