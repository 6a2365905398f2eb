---------------------------- MODULE Announcements ----------------------------
(***************************************************************************)
(* What a connection is for, with no mention of bytes, sockets or bit      *)
(* fields: a peer says which pieces it has, and a listener takes it at its *)
(* word, message by message in the order in which they are said, from a    *)
(* first bit field until it leaves for good.                               *)
(***************************************************************************)
EXTENDS Naturals, Sequences

CONSTANTS
    Piece,
    Messages,     \* records of at least an identifier and pieces
    bitField,     \* the identifiers that announce pieces
    have

VARIABLES
    said,      \* what the peer has said
    heard,     \* how much of it the listener has heard
    knows,     \* "nothing" before the first bit field, "pieces", or "gone"
    pieces     \* those the listener takes the peer to have

vars == <<said, heard, knows, pieces>>

Init == said = <<>> /\ heard = 0 /\ knows = "nothing" /\ pieces = {}

Say(m) == said' = Append(said, m) /\ UNCHANGED <<heard, knows, pieces>>

(* The next message.                                                       *)
Hears(m) == heard < Len(said) /\ m = said[heard + 1] /\ heard' = heard + 1

(* A bit field has all pieces of the peer, the first and any later one.    *)
HearAll ==
    /\ knows # "gone"
    /\ \E m \in Messages : Hears(m) /\ m.id = bitField /\ pieces' = m.pieces \cap Piece
    /\ knows' = "pieces"
    /\ UNCHANGED said

(* One more piece, or something else.                                      *)
HearMore ==
    /\ knows = "pieces"
    /\ \E m \in Messages :
          /\ Hears(m) /\ m.id # bitField
          /\ pieces' = IF m.id = have THEN pieces \cup (m.pieces \cap Piece) ELSE pieces
    /\ UNCHANGED <<said, knows>>

(* The listener leaves, for what it has heard or for no reason.            *)
Leave ==
    /\ knows # "gone"
    /\ heard' = heard \/ \E m \in Messages : Hears(m)
    /\ knows' = "gone" /\ pieces' = {}
    /\ UNCHANGED said

Next == HearAll \/ HearMore \/ Leave \/ \E m \in Messages : Say(m)

Spec == Init /\ [][Next]_vars
=============================================================================
