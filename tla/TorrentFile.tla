----------------------------- MODULE TorrentFile -----------------------------
(***************************************************************************)
(* A torrent file from the structure that createTorrentFile returns to the *)
(* structure that parseTorrentFile returns, with what can happen to the    *)
(* bytes in between; and the files of other programs, which start as       *)
(* bencoded values.  The preview of the user interface parses any file,    *)
(* TorrentClient::downloadFile only what libtorrent has accepted, which is *)
(* taken to be the complete ones.                                          *)
(***************************************************************************)
EXTENDS Bencode, TorrentValue

VARIABLES
    disk,       \* the file's text
    loaded      \* what it was parsed to, or Thrown

torrentVars == <<valueVars, disk, loaded>>

-----------------------------------------------------------------------------
(* parseTorrentFile.                                                       *)

Strings(v) == LET texts == SelectSeq(v[2], LAMBDA x : x[1] = "string")
              IN  [i \in DOMAIN texts |-> texts[i][2]]

(* Only an int is taken for a length, and the decoder gives none.          *)
ParsedFile(f) ==
    [length |-> IF "length" \in DOMAIN f /\ f["length"][1] = "int" THEN f["length"][2]
                                                                  ELSE Indeterminate,
     path |-> IF "path" \in DOMAIN f /\ f["path"][1] = "list" THEN Strings(f["path"]) ELSE <<>>]

OfKind(kind, v) == SelectSeq(v[2], LAMBDA x : x[1] = kind)

(* Mutant: all trackers are in one tier.                                   *)
ParsedTiers_Flat(v) == <<FlattenSeq([i \in DOMAIN v[2] |-> Strings(v[2][i])])>>
ParsedTiers(v) ==
    LET tiers == OfKind("list", v) IN [i \in DOMAIN tiers |-> Strings(tiers[i])]
ParsedFiles(v) ==
    LET dicts == OfKind("dict", v) IN [i \in DOMAIN dicts |-> ParsedFile(dicts[i][2])]

(* boost::get<string> throws for a tracker that is not a string.           *)
ParseThrows(key, v) ==
    /\ key = "announce-list" /\ v[1] = "list"
    /\ \E i \in DOMAIN v[2] : v[2][i][1] = "list"
          /\ \E j \in DOMAIN v[2][i][2] : v[2][i][2][j][1] # "string"

RECURSIVE Visit(_, _, _)
(* What a torrent becomes by the value of a key, wherever the key occurs,  *)
(* or Thrown.                                                              *)
Visit(t, key, v) ==
    LET text == v[1] = "string"
        number == v[1] \in {"int", "ull"}
        list == v[1] = "list"
        visitKey(s, k) == Visit(s, k, v[2][k])
    IN  CASE t = Thrown \/ ParseThrows(key, v) -> Thrown
          [] key = "creation date" /\ number -> [t EXCEPT !.creationDate = <<ToInt(v[2])>>]
          [] key = "piece length" /\ number ->
                [t EXCEPT !.pieceLength = ToUnsigned(ToInt(v[2]))]
          [] key = "announce" /\ text -> [t EXCEPT !.announce = v[2]]
          [] key = "created by" /\ text -> [t EXCEPT !.createdBy = <<v[2]>>]
          [] key = "name" /\ text -> [t EXCEPT !.name = v[2]]
          [] key = "pieces" /\ text -> [t EXCEPT !.pieces = v[2]]
          [] key = "announce-list" /\ list -> [t EXCEPT !.announceList = @ \o ParsedTiers(v)]
          [] key = "files" /\ list -> [t EXCEPT !.files = @ \o ParsedFiles(v)]
          [] key = "info" /\ v[1] = "dict" -> FoldLeft(visitKey, t, Keys(v[2]))
          [] OTHER -> t

ParseTorrentFile(data) ==
    LET visitKey(t, k) == Visit(t, k, data[2][k])
    IN  IF data = Thrown THEN Thrown
        ELSE IF data[1] # "dict" THEN Thrown
        ELSE FoldLeft(visitKey, EmptyTorrent, Keys(data[2]))

-----------------------------------------------------------------------------

TorrentFileInit ==
    /\ ValueInit /\ loaded = Thrown
    /\ disk = IF own THEN <<>> ELSE Written(value)

(* A text of which only some bytes have reached the disk.                  *)
Cuts(text) ==
    LET whole(n) == SubSeq(text, 1, n)
    IN  {whole(n) : n \in 0 .. Len(text) - 1}
        \cup {Append(whole(n), <<text[n + 1][1]>>) :
                 n \in {m \in 0 .. Len(text) - 1 : Len(text[m + 1]) = 2}}

(* Encoder::encode and createFile, which throw if there is an empty string *)
(* and if the file cannot be opened; bytes that are lost when the stream   *)
(* is closed, or with the process, go unnoticed.                           *)
Save ==
    /\ SaveValue
    /\ \/ phase' = "saved" /\ Encodes(value) /\ disk' \in {Encode(value)} \cup Cuts(Encode(value))
       \/ phase' = "threw" /\ UNCHANGED disk
    /\ UNCHANGED loaded

(* Decoder::decode and parseTorrentFile on what is in the file.            *)
Load ==
    /\ LoadValue
    /\ loaded' = ParseTorrentFile(Decode(disk))
    /\ UNCHANGED disk

TorrentFileNext == Save \/ Load

TorrentFileSpec == TorrentFileInit /\ [][TorrentFileNext]_torrentVars

-----------------------------------------------------------------------------
(* Properties.                                                             *)

TopKeys == {"announce", "announce-list", "comment", "created by", "creation date", "info"}
WellFormed ==
    /\ DOMAIN value[2] \subseteq TopKeys
    /\ \A key \in DOMAIN value[2] : ~ParseThrows(key, value[2][key])
Complete == disk = Written(value)

(* What the parser makes of a complete file, this program's or another's,  *)
(* is what a reader of the format makes of it, with two exceptions: no     *)
(* file has a length, and a single-file torrent has no file.  (The visitor *)
(* does not distinguish the levels of the file, so this holds if no key of *)
(* the info dictionary is also used outside, and trackers are strings.)    *)
ReadBack ==
    LET ref == Reference(value)
        single == "length" \in DOMAIN value[2]["info"][2]
    IN  phase = "loaded" /\ Complete /\ WellFormed =>
            loaded = [ref EXCEPT
                !.creationDate = [i \in DOMAIN @ |-> ToInt(@[i])],
                !.pieceLength = ToUnsigned(ToInt(@)),
                !.files = IF single THEN <<>>
                          ELSE [i \in DOMAIN @ |-> [length |-> Indeterminate, path |-> @[i].path]]]

(* Nothing is read from a file that was cut off which the torrent does not *)
(* have: the file is rejected, or each field is the torrent's, a beginning *)
(* of it, or unset.                                                        *)
SomeOf(part, all) == part \in {<<>>, all}
PartialIsPart ==
    LET ref == Reference(value)
        within(a, b, rel(_, _)) == Len(a) <= Len(b) /\ \A i \in DOMAIN a : rel(a[i], b[i])
        samePath(f, g) == IsPrefix(f.path, g.path)
    IN  own /\ phase = "loaded" /\ loaded # Thrown =>
            /\ loaded.announce \in {"", ref.announce}
            /\ loaded.name \in {"", ref.name}
            /\ loaded.pieces \in {"", ref.pieces}
            /\ loaded.pieceLength \in {Indeterminate, ToUnsigned(ref.pieceLength)}
            /\ SomeOf(loaded.createdBy, ref.createdBy)
            /\ SomeOf(loaded.creationDate, [i \in DOMAIN ref.creationDate |->
                                               ToInt(ref.creationDate[i])])
            /\ within(loaded.announceList, ref.announceList, IsPrefix)
            /\ within(loaded.files, ref.files, samePath)
=============================================================================
