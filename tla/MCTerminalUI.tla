---------------------------- MODULE MCTerminalUI ----------------------------
(***************************************************************************)
(* An instance of TerminalUI for TLC: the root has a torrent file and home,*)
(* where the program starts, and home a further directory, whose name      *)
(* comes before "..".                                                      *)
(***************************************************************************)
EXTENDS TerminalUI, TLC

CONSTANTS root, home, sub, one

Tree == root :> root @@ home :> root @@ sub :> home @@ one :> root
ByName == sub :> 0 @@ Up :> 1 @@ home :> 2 @@ one :> 3 @@ root :> 4

(* The torrent file may turn out to be anything.                           *)
AnyContent == one :> Content

Anything == {"answers", "throws", "hangs"}
=============================================================================
