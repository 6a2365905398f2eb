---------------------------- MODULE MCTorrentFile ----------------------------
(***************************************************************************)
(* Instances of TorrentFile for TLC: ints of 4 bits, torrents of one or    *)
(* two files with lengths on both sides of the largest int, and files of   *)
(* other programs.                                                         *)
(***************************************************************************)
EXTENDS TorrentFile

SomeFiles ==
    {<<[length |-> n, path |-> <<"a">>]>> : n \in {0, 7, 8}}
    \cup {<<[length |-> m, path |-> <<"d", "a">>], [length |-> n, path |-> <<"b">>]>> :
             m \in {1, 9}, n \in {2, 17}}

SomeTorrents ==
    [announce : {"t1", ""}, announceList : {<<<<"t1">>>>, <<<<"t1", "t2">>, <<"t3">>>>},
     createdBy : {<<>>, <<"UFO">>}, creationDate : {<<>>, <<5>>, <<12>>},
     files : SomeFiles, name : {"Tester"}, pieceLength : {4}, pieces : {"hashes"}]

Ull(n) == <<"ull", n>>
CommonInfo == ("name" :> Str("x")) @@ ("piece length" :> Ull(4)) @@ ("pieces" :> Str("hashes"))
SingleFile == <<"dict", "length" :> Ull(40) @@ CommonInfo>>
TwoFiles ==
    <<"dict", "files" :> <<"list", <<<<"dict", [length |-> Ull(40), path |-> Tier(<<"d", "a">>)]>>,
                                     <<"dict", [length |-> Ull(3), path |-> Tier(<<"b">>)]>>>>>>
              @@ CommonInfo>>

SomeForeign ==
    {<<"dict", ("info" :> info) @@ rest>> :
        info \in {SingleFile, TwoFiles},
        rest \in {"announce" :> Str("t1"),
                  ("announce" :> Str("t1")) @@ ("comment" :> Str(""))
                      @@ ("creation date" :> Ull(21)) @@ ("announce-list" :> <<"list", <<>>>>),
                  "name" :> Str("other"),
                  "announce-list" :> <<"list", <<Tier(<<"t1">>), <<"list", <<Ull(3)>>>>>>>>,
                  "announce-list" :> <<"list", <<Tier(<<"t1">>), Tier(<<"t2", "t3">>)>>>>}}
=============================================================================
