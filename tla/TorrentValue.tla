---------------------------- MODULE TorrentValue ----------------------------
(***************************************************************************)
(* The value that is written for a torrent, as toValue makes it, and what  *)
(* a reader of the format takes from such a value.  A value is a pair of   *)
(* its kind and its content: <<"int", n>>, <<"ull", n>> (the variant has   *)
(* both), <<"string", s>>, <<"list", values>> or <<"dict", function of     *)
(* keys>>.  Optional fields are sequences of at most one element.          *)
(***************************************************************************)
EXTENDS Words, Sequences

CONSTANTS
    Torrents,        \* TorrentFile structures createTorrentFile may return
    Foreign,         \* values that other programs write
    Indeterminate    \* what an integer holds that is never assigned

Optional(S) == {s \in Seq(S) : Len(s) <= 1}

(* TorrentFile.  A length is an unsigned long long, a date a time_t, and   *)
(* choosePieceLength returns no more than 32 MiB, which fits an int.       *)
TorrentStructure ==
    [announce : STRING, announceList : Seq(Seq(STRING)), createdBy : Optional(STRING),
     creationDate : Optional(Int), files : Seq([length : Nat, path : Seq(STRING)]),
     name : STRING, pieceLength : IntRange \cap Nat, pieces : STRING]

ASSUME TorrentsAssumption == \A t \in Torrents : t \in TorrentStructure

VARIABLES
    own,        \* the file is written by this program
    torrent,    \* what it is written from
    value,      \* what is to be written
    phase       \* what has happened to it

valueVars == <<own, torrent, value, phase>>

Str(s) == <<"string", s>>
Number(n) == <<"int", n>>
List(op(_), xs) == <<"list", [i \in DOMAIN xs |-> op(xs[i])]>>
Tier(trackers) == List(Str, trackers)

EmptyTorrent ==
    [announce |-> "", announceList |-> <<>>, createdBy |-> <<>>, creationDate |-> <<>>,
     files |-> <<>>, name |-> "", pieceLength |-> Indeterminate, pieces |-> ""]

-----------------------------------------------------------------------------
(* toValue.                                                                *)

(* Mutant: the last component stands for the path.                         *)
FileValue_NoFolders(f) ==
    <<"dict", [length |-> Number(ToInt(f.length)), path |-> <<"list", <<Str(f.path[Len(f.path)])>>>>]>>

FileValue(f) == <<"dict", [length |-> Number(ToInt(f.length)), path |-> List(Str, f.path)]>>

InfoValue(t) ==
    LET keys == {"name", "piece length", "pieces"}
                    \cup (IF t.files = <<>> THEN {} ELSE {"files"})
    IN  <<"dict", [k \in keys |->
              CASE k = "name" -> Str(t.name)
                [] k = "piece length" -> Number(ToInt(t.pieceLength))
                [] k = "pieces" -> Str(t.pieces)
                [] k = "files" -> List(FileValue, t.files)]>>

ToValue(t) ==
    LET keys == {"info", "announce", "announce-list"}
                    \cup (IF t.createdBy = <<>> THEN {} ELSE {"created by"})
                    \cup (IF t.creationDate = <<>> THEN {} ELSE {"creation date"})
    IN  <<"dict", [k \in keys |->
              CASE k = "info" -> InfoValue(t)
                [] k = "announce" -> Str(t.announce)
                [] k = "announce-list" -> List(Tier, t.announceList)
                [] k = "created by" -> Str(t.createdBy[1])
                [] k = "creation date" -> Number(ToInt(t.creationDate[1]))]>>

-----------------------------------------------------------------------------
(* The steps, as far as they concern the value.                            *)

ValueInit ==
    \/ /\ own = TRUE /\ torrent \in Torrents
       /\ value = ToValue(torrent) /\ phase = "created"
    \/ /\ own = FALSE /\ torrent = EmptyTorrent
       /\ value \in Foreign /\ phase = "saved"

SaveValue ==
    /\ phase = "created" /\ phase' \in {"saved", "threw"}
    /\ UNCHANGED <<own, torrent, value>>

LoadValue ==
    /\ phase = "saved" /\ phase' = "loaded"
    /\ UNCHANGED <<own, torrent, value>>

ValueNext == SaveValue \/ LoadValue

ValueSpec == ValueInit /\ [][ValueNext]_valueVars

-----------------------------------------------------------------------------
(* The format.                                                             *)

(* What a reader takes from a value that looks each field up where the     *)
(* format has it.                                                          *)
Look(dict, key, default) == IF key \in DOMAIN dict THEN dict[key][2] ELSE default
LookOptional(dict, key) == IF key \in DOMAIN dict THEN <<dict[key][2]>> ELSE <<>>
Contents(list) == [i \in DOMAIN list |-> list[i][2]]

Reference(v) ==
    LET top == v[2]
        info == Look(top, "info", <<>>)
        listed == Look(info, "files", <<>>)
        tiers == Look(top, "announce-list", <<>>)
        fileOf(f) == [length |-> f["length"][2], path |-> Contents(f["path"][2])]
    IN  [announce |-> Look(top, "announce", ""),
         announceList |-> [i \in DOMAIN tiers |-> Contents(tiers[i][2])],
         createdBy |-> LookOptional(top, "created by"),
         creationDate |-> LookOptional(top, "creation date"),
         files |-> IF "length" \in DOMAIN info
                     THEN <<[length |-> info["length"][2], path |-> <<info["name"][2]>>]>>
                     ELSE [i \in DOMAIN listed |-> fileOf(listed[i][2])],
         name |-> Look(info, "name", ""),
         pieceLength |-> Look(info, "piece length", Indeterminate),
         pieces |-> Look(info, "pieces", "")]

(* Another program reads from what this one saves exactly the torrent, if  *)
(* and only if the lengths and the date fit an int, to which toValue casts *)
(* them.                                                                   *)
SavedFaithfully ==
    own = TRUE /\ phase # "threw" =>
        (Reference(value) = torrent <=>
            /\ \A i \in DOMAIN torrent.files : torrent.files[i].length \in IntRange
            /\ \A i \in DOMAIN torrent.creationDate : torrent.creationDate[i] \in IntRange)
=============================================================================
