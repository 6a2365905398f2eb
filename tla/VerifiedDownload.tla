-------------------------- MODULE VerifiedDownload --------------------------
(***************************************************************************)
(* What a download promises its user, with no mention of blocks, peers,    *)
(* requests or threads: a piece is announced as downloaded only once its   *)
(* verified data is in the output file, and neither the announcement nor   *)
(* the data is ever taken back.                                            *)
(***************************************************************************)
CONSTANT Piece

VARIABLES
    have,   \* pieces announced as downloaded
    disk    \* contents of each piece's part of the output file

vars == <<have, disk>>

Init ==
    /\ have = {}
    /\ disk = [p \in Piece |-> "none"]

(* The verified data of a piece reaches its place in the file.             *)
Write(p) ==
    /\ disk' = [disk EXCEPT ![p] = "good"]
    /\ UNCHANGED have

(* A piece whose data is in place is announced.                            *)
Announce(p) ==
    /\ disk[p] = "good"
    /\ have' = have \cup {p}
    /\ UNCHANGED disk

Next == \E p \in Piece : Write(p) \/ Announce(p)

Spec == Init /\ [][Next]_vars
=============================================================================
