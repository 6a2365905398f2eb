------------------------------- MODULE MCWire -------------------------------
(***************************************************************************)
(* An instance of Wire for TLC: bytes of four bits, numbers of two bytes,  *)
(* five pieces, so that a bit field has two bytes and spare bits.          *)
(***************************************************************************)
EXTENDS Wire

Msg(id, pieces, size) == [id |-> id, pieces |-> pieces, size |-> size]

unchoke == 1
haveAll == 14    \* of the Fast Extension, above MaxId

(* A whole bit field, one that lacks its second byte, and announcements in *)
(* either byte.                                                            *)
SomeMessages ==
    {Msg(bitField, {0, 2, 4}, 2), Msg(bitField, {1}, 1), Msg(have, {3}, 0), Msg(have, {4}, 0),
     Msg(unchoke, {}, 0), Msg(keepAlive, {}, 0),
     Msg(haveAll, {}, 0)}
=============================================================================
