--------------------------- MODULE MCTorrentClient ---------------------------
(***************************************************************************)
(* Instances of TorrentClient for TLC.                                     *)
(***************************************************************************)
EXTENDS TorrentClient

CONSTANT Peer    \* a peer of the tracker

Items == {Dummy, Peer}

(* The tracker lists one peer, or the same peer twice.                     *)
OneOrTwo == {<<Peer>>, <<Peer, Peer>>}

(* A minute, and the first duration with three digits of hours.            *)
MinuteAndDays == {60, 360000}
=============================================================================
