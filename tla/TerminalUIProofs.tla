-------------------------- MODULE TerminalUIProofs --------------------------
(***************************************************************************)
(* The terminal UI for any directories, torrents and number of rows, any   *)
(* keys and any changes of the disk: the dialog's selection is an entry of *)
(* its list, no deleted window is used, and nothing that was on the screen *)
(* vanishes from it.                                                       *)
(***************************************************************************)
EXTENDS TerminalUI, FiniteSetTheorems, SequenceTheorems, TLAPS

USE TreeAssumption, EntryAssumption, OrderAssumption, FilesAssumption,
    SessionAssumption, BoundsAssumption

-----------------------------------------------------------------------------
(* The list of a dialog.                                                   *)

LEMMA FirstNumbers ==
    ASSUME NEW n \in Nat
    PROVE  IsFiniteSet(0 .. n - 1) /\ Cardinality(0 .. n - 1) = n
<1>1. 0 \in Int /\ n - 1 \in Int
  OBVIOUS
<1>2. /\ IsFiniteSet(0 .. n - 1)
      /\ Cardinality(0 .. n - 1) = IF 0 > n - 1 THEN 0 ELSE (n - 1) - 0 + 1
  BY <1>1, FS_Interval, Zenon
<1> QED  BY <1>2

(* Among finitely many entries one stands at each place of their order: no *)
(* two have as many before them, and there are as many places as entries.  *)
LEMMA ChoiceIsListed ==
    ASSUME files \subseteq Entry \cup {Up}, IsFiniteSet(files),
           selected \in Nat, selected < Cardinality(files)
    PROVE  Choice \in files
<1> DEFINE Before(e) == {f \in files : order[f] < order[e]}
           n == Cardinality(files)
           rank == [e \in files |-> Cardinality(Before(e))]
<1>1. \A e \in files : order[e] \in Nat
  OBVIOUS
<1>2. \A d, e \in files : d # e => order[d] < order[e] \/ order[e] < order[d]
  <2> TAKE d, e \in files
  <2>1. d # e => order[d] # order[e]
    OBVIOUS
  <2> QED  BY <1>1, <2>1
<1>3. n \in Nat /\ \A e \in files : IsFiniteSet(Before(e)) /\ Cardinality(Before(e)) \in Nat
  <2>1. \A e \in files : IsFiniteSet(Before(e))
    BY FS_Subset
  <2> QED  BY <2>1, FS_CardinalityType
<1>4. \A e \in files : rank[e] \in 0 .. n - 1
  <2> TAKE e \in files
  <2>1. IsFiniteSet(files \ {e}) /\ Cardinality(files \ {e}) = n - 1
    BY FS_RemoveElement
  <2>2. Before(e) \in SUBSET (files \ {e})
    BY <1>1
  <2>3. Cardinality(Before(e)) <= n - 1
    BY <2>1, <2>2, FS_Subset
  <2> QED  BY <1>3, <2>3
<1>5. ASSUME NEW d \in files, NEW e \in files, order[d] < order[e]
      PROVE  rank[d] # rank[e]
  <2>1. d \notin Before(d)
    BY <1>1
  <2>2. Cardinality(Before(d) \cup {d}) = Cardinality(Before(d)) + 1
    BY <1>3, <2>1, FS_AddElement
  <2>3. Before(d) \cup {d} \in SUBSET Before(e)
    BY <1>1, <1>5
  <2>4. Cardinality(Before(d)) + 1 <= Cardinality(Before(e))
    BY <1>3, <2>2, <2>3, FS_Subset
  <2> QED  BY <1>3, <2>4
<1>6. rank \in Injection(files, 0 .. n - 1)
  <2>1. rank \in [files -> 0 .. n - 1]
    BY <1>4
  <2>2. \A d, e \in files : rank[d] = rank[e] => d = e
    BY <1>2, <1>5
  <2> HIDE DEF rank
  <2>3. IsInjective(rank)
    BY <2>1, <2>2 DEF IsInjective
  <2> QED  BY <2>1, <2>3 DEF Injection
<1>7. IsFiniteSet(0 .. n - 1) /\ Cardinality(0 .. n - 1) = n
  BY <1>3, FirstNumbers
<1>8. rank \in Surjection(files, 0 .. n - 1)
  <2> HIDE DEF rank
  <2> QED  BY <1>6, <1>7, FS_Injection
<1>9. PICK e \in files : rank[e] = selected
  <2>1. selected \in 0 .. n - 1
    BY <1>3
  <2> HIDE DEF rank
  <2> QED  BY <1>8, <2>1 DEF Surjection
<1>10. Cardinality(Before(e)) = selected
  BY <1>9
<1> QED  BY <1>10 DEF Choice

Purposes == {"add", "dir", "base", "out"}

(* What fileDialog relies on while it waits for a key.                     *)
ListOK ==
    /\ purpose \in Purposes
    /\ currentDir \in Dir
    /\ files \subseteq Entry \cup {Up}
    /\ purpose # "add" => files \subseteq Dir \cup {Up}
    /\ IsFiniteSet(files)
    /\ selected \in Nat /\ selected < Cardinality(files)

LEMMA EntriesAreFinite == IsFiniteSet(Entry \cup {Up})
  BY FiniteAssumption, FS_Union, FS_Singleton DEF Entry

(* Whatever has become of the directory, the list has ".." at least.       *)
LEMMA ListIsOK ==
    ASSUME NEW dir \in Dir, NEW at \in Nat, purpose' \in Purposes, ShowList(dir, at)
    PROVE  ListOK' /\ ui' = "dialog"
<1>1. files' \subseteq Entry \cup {Up} /\ Up \in files'
  BY DEF ShowList, Listing, Entry
<1>2. purpose' # "add" => files' \subseteq Dir \cup {Up}
  BY DEF ShowList, Listing, OnlyDirs
<1>3. IsFiniteSet(files') /\ Cardinality(files') \in Nat
  BY <1>1, EntriesAreFinite, FS_Subset, FS_CardinalityType
<1>4. Cardinality(files') # 0
  BY <1>1, <1>3, FS_EmptySet
<1>5. selected' = Clamp(at, Cardinality(files') - 1)
  BY DEF ShowList
<1>6. selected' \in Nat /\ selected' < Cardinality(files')
  BY <1>3, <1>4, <1>5 DEF Clamp
<1> QED  BY <1>1, <1>2, <1>3, <1>6 DEF ListOK, ShowList

-----------------------------------------------------------------------------
(* The main thread.                                                        *)

Places == {"draw", "redraw", "chosen", "menu", "dialog", "create", "preview", "rejected",
           "error", "cleanup", "stop", "join", "ended", "crashed"}

(* fileDialog has a list: it waits for a key, or for the preview's end.    *)
Open == ui \in {"dialog", "preview", "rejected", "error"}

MenuOK ==
    /\ menu \in 0 .. 3
    /\ downDir \in Dir \cup {Nothing}
    /\ base \in Dir \cup {Nothing}
    /\ present \subseteq Entry

MainInv ==
    /\ ui \in Places
    /\ MenuOK
    /\ purpose \in Purposes \cup {Nothing}
    /\ currentDir \in Dir \cup {Nothing}
    /\ files \subseteq Entry \cup {Up}
    /\ selected \in Nat
    /\ Open => ListOK
    /\ ui \in {"preview", "rejected"} => Choice \in Torrent

(* The list stays, another is shown, or the dialog is left.                *)
LEMMA ListStays ==
    ASSUME MainInv, UNCHANGED dialogVars, MenuOK', ui' \in Places, Open' => Open,
           ui' \in {"preview", "rejected"} => Choice \in Torrent
    PROVE  MainInv'
<1>1. ListOK => ListOK'
  BY DEF dialogVars, ListOK
<1>2. Choice' = Choice
  BY DEF dialogVars, Choice
<1> QED  BY <1>1, <1>2 DEF MainInv, dialogVars

LEMMA ListIsShown ==
    ASSUME NEW dir \in Dir, NEW at \in Nat, purpose' \in Purposes, ShowList(dir, at), MenuOK'
    PROVE  MainInv'
  BY ListIsOK DEF MainInv, ListOK, Places, Open

LEMMA DialogIsLeft ==
    ASSUME NEW next \in Places \ {"dialog", "preview", "rejected", "error"},
           LeaveDialog(next), MenuOK'
    PROVE  MainInv'
  BY DEF MainInv, LeaveDialog, Open

LEMMA DialogIsOpened ==
    ASSUME NEW p \in Purposes, OpenDialog(p), MenuOK'
    PROVE  MainInv'
  BY ListIsShown DEF OpenDialog

LEMMA MainInit == Init => MainInv
  BY DEF Init, MainInv, MenuOK, Places, Open

(* The keys of a dialog.                                                   *)
LEMMA DialogKeys ==
    ASSUME MainInv,
           DialogMove \/ DialogBackspace \/ DialogInto \/ DialogSelects \/ DialogQuit
    PROVE  MainInv'
<1>1. /\ At("dialog") /\ ListOK /\ Choice \in files /\ MenuOK
      /\ \A d \in Dir : parent[d] \in Dir
      /\ selected \in Nat /\ (selected > 0 => selected - 1 \in Nat) /\ selected + 1 \in Nat
  <2>1. At("dialog")
    BY DEF DialogMove, DialogBackspace, DialogInto, DialogSelects, DialogQuit
  <2>2. ListOK
    BY <2>1 DEF MainInv, At, Open
  <2>3. Choice \in files
    BY <2>2, ChoiceIsListed DEF ListOK
  <2> QED  BY <2>1, <2>2, <2>3 DEF ListOK, Entry, MainInv
<1>2. ASSUME StayInDialog, NEW dir \in Dir, NEW at \in Nat, ShowList(dir, at)
      PROVE  MainInv'
  <2>1. purpose' \in Purposes /\ MenuOK'
    BY <1>1, <1>2 DEF StayInDialog, ListOK, MenuOK, othersThanMain, diskVars
  <2> QED  BY <1>2, <2>1, ListIsShown
<1>3. CASE DialogMove
  BY <1>1, <1>2, <1>3 DEF DialogMove, ListOK
<1>4. ASSUME StayInDialog, GoUp PROVE MainInv'
  BY <1>1, <1>2, <1>4 DEF GoUp, ListOK
<1>5. CASE DialogBackspace
  BY <1>4, <1>5 DEF DialogBackspace
<1>6. CASE DialogInto
  BY <1>1, <1>2, <1>4, <1>6 DEF DialogInto, GoInto, ListOK
<1>7. CASE DialogSelects
  <2>1. purpose # "add" => Choice \in Dir
    BY <1>1, <1>7 DEF DialogSelects, ListOK
  <2>2. MenuOK'
    BY <1>1, <1>7, <2>1 DEF DialogSelects, MenuOK, Entry
  <2>3. CASE LeaveDialog("redraw") \/ LeaveDialog("chosen")
    BY <2>2, <2>3, DialogIsLeft DEF Places
  <2>4. CASE Crash /\ UNCHANGED dialogVars
    BY <2>2, <2>4, ListStays DEF Crash, Places, Open
  <2> QED  BY <1>7, <2>3, <2>4 DEF DialogSelects
<1>8. CASE DialogQuit
  <2>1. MenuOK'
    BY <1>1, <1>8 DEF DialogQuit, MenuOK, othersThanMain, diskVars
  <2> QED  BY <1>8, <2>1, DialogIsLeft DEF DialogQuit, Places
<1> QED  BY <1>3, <1>5, <1>6, <1>7, <1>8

LEMMA MainNext ==
    ASSUME MainInv, [Next]_vars
    PROVE  MainInv'
<1> USE DEF othersThanMain, updateVars, sharedVars, sessionVars, diskVars
<1>1. MenuOK
  BY DEF MainInv
<1>2. CASE UNCHANGED vars
  BY <1>2, ListStays DEF vars, mainVars, MainInv, MenuOK, Open
<1>3. CASE UpdateProgress
  <2>1. /\ UNCHANGED <<dialogVars, menu, downDir, base, present>>
        /\ ui' \in {ui, "crashed"}
    BY <1>3 DEF UpdateProgress, GetTorrents, Poll, PollAborted, LockAndClear, Fill,
                CallsAborted, Crash, mainVars
  <2>2. MenuOK'
    BY <1>1, <2>1 DEF MenuOK
  <2> QED  BY <2>1, <2>2, ListStays DEF MainInv, Places, Open
<1>4. CASE Draw \/ MenuIdle \/ MenuMove \/ F1 \/ Cleanup \/ Stop \/ Join \/ Environment
  <2>1. /\ UNCHANGED dialogVars
        /\ ui' \in {ui, "menu", "draw", "create", "cleanup", "stop", "join", "ended"}
    BY <1>4 DEF Draw, AfterDraw, MenuIdle, MenuMove, F1, Cleanup, Stop, Join, Environment,
                StatusChanges, DiskChanges, mainVars
  <2>2. MenuOK'
    BY <1>1, <1>4 DEF Draw, MenuIdle, MenuMove, F1, Cleanup, Stop, Join, Environment,
                StatusChanges, DiskChanges, mainVars, MenuOK
  <2> QED  BY <2>1, <2>2, ListStays DEF MainInv, Places, Open
<1>5. CASE MenuEnter \/ CreateTorrent
  <2>1. MenuOK'
    BY <1>1, <1>5 DEF MenuEnter, CreateTorrent, MenuOK
  <2>2. CASE OpenDialog("add") \/ OpenDialog("dir") \/ OpenDialog("base") \/ OpenDialog("out")
    BY <2>1, <2>2, DialogIsOpened DEF Purposes
  <2>3. CASE UNCHANGED dialogVars /\ ui' \in {"cleanup", "crashed"}
    BY <2>1, <2>3, ListStays DEF Places, Open
  <2> QED  BY <1>5, <2>2, <2>3 DEF MenuEnter, CreateTorrent, NoCurrentPath, Crash, dialogVars
<1>6. CASE DialogMove \/ DialogBackspace \/ DialogInto \/ DialogSelects \/ DialogQuit
  BY <1>6, DialogKeys
<1>7. CASE OpenPreview \/ QuitPreview
  <2>1. MenuOK'
    BY <1>1, <1>7 DEF OpenPreview, QuitPreview, MenuOK
  <2>2. /\ UNCHANGED dialogVars /\ ui' \in {"preview", "error", "crashed", "rejected"} /\ Open
        /\ Choice \in Torrent
    BY <1>7 DEF OpenPreview, QuitPreview, Crash, At, Open, MainInv
  <2> QED  BY <2>1, <2>2, ListStays DEF Places
<1>8. CASE AcceptPreview
  <2>1. MenuOK'
    BY <1>1, <1>8 DEF AcceptPreview, MenuOK
  <2> QED  BY <1>8, <2>1, ListStays, DialogIsLeft DEF AcceptPreview, Crash, Places, Open
<1>9. CASE AfterReject \/ AfterError
  <2>1. MenuOK' /\ purpose' = purpose
    BY <1>1, <1>9 DEF AfterReject, AfterError, MenuOK
  <2>2. ListOK
    BY <1>9 DEF AfterReject, AfterError, MainInv, At, Open
  <2>3. ShowList(currentDir, selected)
    BY <1>9 DEF AfterReject, AfterError, Reopen
  <2> QED  BY <2>1, <2>2, <2>3, ListIsShown DEF ListOK
<1> QED
  BY <1>2, <1>3, <1>4, <1>5, <1>6, <1>7, <1>8, <1>9 DEF Next, MainStep, Keys

(* The entry that E or ENTER takes out of the list is in it, whatever has  *)
(* become of the directory since it was listed before.                     *)
THEOREM SelectionStaysInList == Spec => []SelectionInList
<1>1. MainInv => SelectionInList
  BY DEF MainInv, Open, ListOK, SelectionInList
<1> QED  BY <1>1, MainInit, MainNext, PTL DEF Spec

-----------------------------------------------------------------------------
(* The windows.                                                            *)

AllWindows == {"lwin", "rwin", "path_win", "dialog", "preview", "content", "err"}

(* cleanup has not begun.                                                  *)
Before == ui \notin {"stop", "join", "ended", "crashed"}

WindowsInv ==
    /\ windows \subseteq AllWindows
    /\ Before => {"lwin", "rwin"} \subseteq windows
    /\ WindowsUsed \subseteq windows

LEMMA WindowsNext ==
    ASSUME MainInv, WindowsInv, [Next]_vars
    PROVE  WindowsInv'
<1> USE DEF WindowsInv, WindowsUsed, Before, AllWindows
<1>1. CASE UNCHANGED vars \/ Environment
  BY <1>1 DEF vars, mainVars, Environment, StatusChanges, DiskChanges
<1>2. CASE UpdateProgress
  <2>1. windows' = windows /\ ui' \in {ui, "crashed"}
    BY <1>2 DEF UpdateProgress, GetTorrents, Poll, PollAborted, LockAndClear, Fill,
                CallsAborted, Crash, mainVars
  <2> QED  BY <2>1
<1>3. CASE Draw \/ MenuIdle \/ MenuMove \/ F1 \/ Stop \/ Join
  <2>1. /\ windows' = windows
        /\ \/ ui' \in {"menu", "draw", "create", "cleanup"} /\ Before
           \/ ui' \in {"join", "ended"}
    BY <1>3 DEF Draw, AfterDraw, MenuIdle, MenuMove, F1, Stop, Join, At
  <2> QED  BY <2>1
<1>4. CASE Cleanup
  BY <1>4 DEF Cleanup
<1>5. CASE MenuEnter \/ CreateTorrent
  <2>1. /\ windows' \in {windows, windows \cup {"path_win", "dialog"}}
        /\ \/ ui' = "dialog" /\ windows' = windows \cup {"path_win", "dialog"} /\ Before
           \/ ui' = "cleanup" /\ Before
           \/ ui' = "crashed"
    BY <1>5 DEF MenuEnter, CreateTorrent, OpenDialog, ShowList, NoCurrentPath, Crash, At
  <2> QED  BY <2>1
<1>6. CASE DialogMove \/ DialogBackspace \/ DialogInto
  <2>1. windows' = windows /\ ui' = "dialog" /\ ui = "dialog"
    BY <1>6 DEF DialogMove, DialogBackspace, DialogInto, GoUp, GoInto, ShowList,
                StayInDialog, At
  <2> QED  BY <2>1
<1>7. CASE DialogSelects \/ DialogQuit
  <2>1. /\ windows' \in {windows, windows \ {"path_win", "dialog"}}
        /\ ui' \in {"redraw", "chosen", "draw", "crashed"} /\ Before
    BY <1>7 DEF DialogSelects, DialogQuit, LeaveDialog, Crash, At
  <2> QED  BY <2>1
<1>8. CASE OpenPreview \/ AcceptPreview \/ QuitPreview
  BY <1>8 DEF OpenPreview, AcceptPreview, QuitPreview, LeaveDialog, Crash, At
<1>9. CASE AfterReject \/ AfterError
  <2>1. /\ \/ windows' = windows \cup {"path_win", "dialog"}
           \/ windows' = (windows \ {"err"}) \cup {"path_win", "dialog"}
        /\ ui' = "dialog" /\ Before
    BY <1>9 DEF AfterReject, AfterError, Reopen, ShowList, At
  <2> QED  BY <2>1
<1> QED
  BY <1>1, <1>2, <1>3, <1>4, <1>5, <1>6, <1>7, <1>8, <1>9 DEF Next, MainStep, Keys

(* No window is drawn in, or waited in for a key, after it was deleted.    *)
THEOREM WindowsStayLive == Spec => []DrawnIsLive
<1>1. Init => WindowsInv
  BY DEF Init, WindowsInv, WindowsUsed, AllWindows, Before
<1>2. WindowsInv => DrawnIsLive
  BY DEF WindowsInv, DrawnIsLive
<1> QED  BY <1>1, <1>2, MainInit, MainNext, WindowsNext, PTL DEF Spec

-----------------------------------------------------------------------------
(* The list of torrents, from the session to the screen.                   *)

Status == [file : Torrent, news : Nat]
Added == [file : Torrent, save_path : Dir \cup {Nothing}]

ListsInv ==
    /\ upd \in {"sleep", "poll", "fill", "done", "stuck"}
    /\ running \in BOOLEAN /\ locked \in BOOLEAN /\ aborted \in BOOLEAN
    /\ torrents \in Seq(Added)
    /\ news \in [Torrent -> Nat]
    /\ handles \in Nat /\ handles <= Len(torrents)
    /\ statuses \in Seq(Status) /\ Len(statuses) <= handles
    /\ active_torrents \in Seq(Status)
    /\ screen \in Seq(Status)
    /\ locked = TRUE <=> upd = "fill"
    /\ upd = "sleep" => statuses = <<>>
    /\ upd = "fill" => Len(statuses) = handles
    /\ aborted = TRUE => ~Before

LEMMA RowsOfList ==
    ASSUME NEW s \in Seq(Status)
    PROVE  /\ FirstRows(s) \in Seq(Status)
           /\ Len(FirstRows(s)) = IF Len(s) < Rows THEN Len(s) ELSE Rows
           /\ \A i \in 1 .. Len(FirstRows(s)) : FirstRows(s)[i] = s[i]
<1> DEFINE n == IF Len(s) < Rows THEN Len(s) ELSE Rows
<1>1. n \in Nat /\ n <= Len(s) /\ \A i \in 1 .. n : s[i] \in Status
  OBVIOUS
<1>2. FirstRows(s) = SubSeq(s, 1, n)
  BY DEF FirstRows
<1> HIDE DEF n
<1>3. /\ SubSeq(s, 1, n) \in Seq(Status)
      /\ Len(SubSeq(s, 1, n)) = n
      /\ \A i \in 1 .. n : SubSeq(s, 1, n)[i] = s[i]
  BY <1>1
<1> QED  BY <1>2, <1>3 DEF n

(* No torrent ever leaves the session.                                     *)
LEMMA SessionGrows ==
    ASSUME MainInv, ListsInv, [Next]_vars
    PROVE  /\ torrents' \in Seq(Added)
           /\ Len(torrents) <= Len(torrents')
           /\ \A i \in 1 .. Len(torrents) : torrents'[i] = torrents[i]
           /\ news' \in [Torrent -> Nat]
           /\ \A t \in Torrent : news[t] <= news'[t]
<1>1. CASE AcceptPreview
  <2>1. Choice \in Torrent
    BY <1>1 DEF AcceptPreview, At, MainInv
  <2>2. [file |-> Choice, save_path |-> downDir] \in Added
    BY <2>1 DEF Added, MainInv, MenuOK
  <2>3. /\ UNCHANGED news
        /\ torrents' \in {torrents, Append(torrents, [file |-> Choice, save_path |-> downDir])}
    BY <1>1 DEF AcceptPreview, Adds
  <2> DEFINE new == [file |-> Choice, save_path |-> downDir]
  <2>4. torrents \in Seq(Added) /\ new \in Added /\ news \in [Torrent -> Nat]
    BY <2>2 DEF ListsInv
  <2>5. torrents' \in {torrents, Append(torrents, new)}
    BY <2>3
  <2> HIDE DEF new
  <2>6. \A t \in Torrent : news'[t] = news[t] /\ news[t] \in Nat
    BY <2>3, <2>4
  <2>7. CASE torrents' = torrents
    BY <2>3, <2>4, <2>6, <2>7
  <2>8. CASE torrents' = Append(torrents, new)
    BY <2>3, <2>4, <2>6, <2>8, AppendProperties
  <2> QED  BY <2>5, <2>7, <2>8
<1>2. ASSUME NEW t \in Torrent, StatusChanges(t)
      PROVE  /\ UNCHANGED torrents
             /\ news' \in [Torrent -> Nat]
             /\ \A u \in Torrent : news[u] <= news'[u]
  BY <1>2 DEF StatusChanges, ListsInv
<1>3. CASE UNCHANGED <<torrents, news>>
  BY <1>3 DEF ListsInv
<1>4. AcceptPreview \/ (\E t \in Torrent : StatusChanges(t)) \/ UNCHANGED <<torrents, news>>
  <2> USE DEF othersThanMain, sessionVars
  <2>1. CASE UpdateProgress \/ UNCHANGED vars
    BY <2>1 DEF vars, UpdateProgress, GetTorrents, Poll, PollAborted, LockAndClear, Fill,
                CallsAborted
  <2>2. CASE MainStep
    BY <2>2 DEF MainStep, Draw, MenuIdle, CreateTorrent, AfterReject, Cleanup, Stop, Join
  <2>3. CASE Keys
    BY <2>3 DEF Keys, MenuMove, MenuEnter, F1, DialogMove, DialogBackspace, DialogInto,
                DialogSelects, DialogQuit, OpenPreview, QuitPreview, AfterError, StayInDialog
  <2>4. CASE Environment
    BY <2>4 DEF Environment, DiskChanges
  <2> QED  BY <2>1, <2>2, <2>3, <2>4 DEF Next
<1> QED  BY <1>1, <1>2, <1>3, <1>4 DEF ListsInv

(* What renderWindows and the update thread do to the lists.               *)
Rendered == RenderWindows /\ Before /\ UNCHANGED <<updateVars, sharedVars, aborted>>
ListsStay == UNCHANGED <<updateVars, running, active_torrents, locked, screen>>

LEMMA StepsOfLists ==
    ASSUME [Next]_vars
    PROVE  \/ UpdateProgress
           \/ Rendered /\ Before'
           \/ /\ ListsStay
              /\ Before' => Before
              /\ \/ aborted' = aborted
                 \/ aborted' = TRUE /\ ~Before'
           \/ Stop
<1> USE DEF othersThanMain, updateVars, sharedVars, sessionVars, Before
<1>1. CASE Draw \/ AfterReject
  BY <1>1 DEF Draw, AfterDraw, AfterReject, Reopen, ShowList, Rendered, At
<1>2. CASE UNCHANGED vars \/ Environment
  BY <1>2 DEF vars, mainVars, Environment, StatusChanges, DiskChanges, ListsStay
<1>3. CASE MenuIdle \/ CreateTorrent \/ Cleanup \/ Join
  BY <1>3 DEF MenuIdle, CreateTorrent, Cleanup, Join, At, ListsStay
<1>4. CASE MenuMove \/ MenuEnter \/ F1 \/ OpenPreview \/ QuitPreview \/ AcceptPreview \/ AfterError
  BY <1>4 DEF MenuMove, MenuEnter, F1, OpenPreview, QuitPreview, AcceptPreview, AfterError,
              At, ListsStay
<1>5. CASE DialogMove \/ DialogBackspace \/ DialogInto \/ DialogSelects \/ DialogQuit
  BY <1>5 DEF DialogMove, DialogBackspace, DialogInto, DialogSelects, DialogQuit,
              StayInDialog, At, ListsStay
<1> QED  BY <1>1, <1>2, <1>3, <1>4, <1>5 DEF Next, MainStep, Keys

LEMMA ListsNext ==
    ASSUME MainInv, ListsInv, [Next]_vars
    PROVE  ListsInv'
<1> USE DEF updateVars, sharedVars, sessionVars
<1>0. handles <= Len(torrents')
  <2>1. Len(torrents) \in Nat /\ Len(torrents') \in Nat /\ Len(torrents) <= Len(torrents')
    BY SessionGrows, LenProperties DEF ListsInv
  <2> QED  BY <2>1 DEF ListsInv
<1>1. CASE UpdateProgress
  <2>1. UNCHANGED <<torrents, news, running, aborted, screen>> /\ (Before' => Before)
    BY <1>1 DEF UpdateProgress, GetTorrents, Poll, PollAborted, LockAndClear, Fill,
                CallsAborted, Crash, mainVars, Before
  <2>2. CASE GetTorrents
    <3>1. handles' \in Nat /\ handles' <= Len(torrents) /\ Len(statuses) <= handles'
      BY <2>2, EmptySeq DEF GetTorrents, ListsInv
    <3> QED  BY <2>1, <2>2, <3>1 DEF GetTorrents, ListsInv
  <2>3. CASE Poll
    <3> DEFINE i == Len(statuses) + 1
               status == [file |-> torrents[i].file, news |-> news[torrents[i].file]]
    <3>1. i \in 1 .. Len(torrents) /\ Len(statuses) < handles /\ upd = "poll"
      BY <2>3 DEF Poll, ListsInv
    <3>2. torrents[i].file \in Torrent
      <4>1. torrents[i] \in Added
        BY <3>1, ElementOfSeq DEF ListsInv
      <4> QED  BY <4>1 DEF Added
    <3>3. status \in Status
      BY <3>2 DEF ListsInv, Status
    <3>4. statuses' = Append(statuses, status) /\ UNCHANGED <<upd, handles, active_torrents, locked>>
      BY <2>3 DEF Poll
    <3> HIDE DEF status
    <3> QED  BY <2>1, <2>3, <3>1, <3>3, <3>4 DEF ListsInv, Poll
  <2>4. CASE PollAborted
    BY <2>1, <2>4 DEF PollAborted, CallsAborted, ListsInv
  <2>5. CASE LockAndClear
    BY <2>1, <2>5 DEF LockAndClear, ListsInv
  <2>6. CASE Fill
    <3>1. statuses' = <<>> /\ Len(statuses') = 0 /\ statuses' \in Seq(Status)
      BY <2>6, EmptySeq DEF Fill
    <3>2. handles' = 0 /\ 0 <= Len(torrents)
      BY <2>6 DEF Fill, ListsInv
    <3>3. upd' \in {"sleep", "done"} /\ locked' = FALSE
      BY <2>6 DEF Fill
    <3>4. active_torrents' \in Seq(Status)
      BY <2>6 DEF Fill, ListsInv
    <3>5. handles' \in Nat /\ Len(statuses') <= handles'
      BY <3>1, <3>2
    <3> QED  BY <2>1, <3>1, <3>2, <3>3, <3>4, <3>5 DEF ListsInv, Before
  <2> QED  BY <1>1, <2>2, <2>3, <2>4, <2>5, <2>6 DEF UpdateProgress
<1>2. CASE Rendered /\ Before'
  <2>1. screen' \in Seq(Status)
    BY <1>2, RowsOfList DEF Rendered, RenderWindows, ListsInv
  <2>2. aborted' = aborted /\ (aborted = TRUE => ~Before')
    BY <1>2 DEF Rendered, ListsInv
  <2>3. UNCHANGED <<updateVars, sharedVars>>
    BY <1>2 DEF Rendered
  <2> QED  BY <1>0, <2>1, <2>2, <2>3, SessionGrows DEF ListsInv
<1>3. CASE /\ ListsStay
           /\ Before' => Before
           /\ \/ aborted' = aborted
              \/ aborted' = TRUE /\ ~Before'
  <2>1. aborted' \in BOOLEAN /\ (aborted' = TRUE => ~Before')
    BY <1>3 DEF ListsInv
  <2>2. ListsStay
    BY <1>3
  <2> QED  BY <1>0, <2>1, <2>2, SessionGrows DEF ListsStay, ListsInv
<1>4. CASE Stop
  <2>1. UNCHANGED <<updateVars, active_torrents, locked, screen, torrents, news, aborted>>
    BY <1>4 DEF Stop
  <2>2. ~Before' /\ running' = FALSE
    BY <1>4 DEF Stop, Before
  <2> QED  BY <2>1, <2>2 DEF ListsInv, Before
<1> QED  BY <1>1, <1>2, <1>3, <1>4, StepsOfLists

LEMMA ListsInit == Init => ListsInv
<1> SUFFICES ASSUME Init PROVE ListsInv
  OBVIOUS
<1>1. /\ <<>> \in Seq(Added) /\ <<>> \in Seq(Status) /\ Len(<<>>) = 0
  BY EmptySeq
<1>2. /\ statuses = <<>> /\ active_torrents = <<>> /\ screen = <<>> /\ torrents = <<>>
      /\ handles = 0 /\ upd = "sleep" /\ running = TRUE /\ locked = FALSE /\ aborted = FALSE
  BY DEF Init
<1>3. news \in [Torrent -> Nat]
  BY DEF Init
<1>4. 0 \in Nat /\ 0 <= 0
  OBVIOUS
<1>5. handles <= Len(torrents) /\ Len(statuses) <= handles
  BY <1>1, <1>2, <1>4
<1> QED  BY <1>1, <1>2, <1>3, <1>5 DEF ListsInv

ChangesOK == changes \in Nat

(* The variables' types.                                                   *)
THEOREM UITypeCorrect == Spec => []UITypeOK
<1>1. MainInv /\ WindowsInv /\ ListsInv /\ ChangesOK => UITypeOK
  BY DEF ChangesOK, MainInv, MenuOK, Places, Purposes, WindowsInv, AllWindows, ListsInv, Added, Status,
         UITypeOK
<1>2. Init => WindowsInv /\ ChangesOK
  BY DEF ChangesOK, Init, WindowsInv, WindowsUsed, AllWindows, Before
<1>3. ASSUME ChangesOK, [Next]_vars PROVE ChangesOK'
  <2> USE <1>3 DEF ChangesOK, othersThanMain, diskVars
  <2>1. CASE UpdateProgress \/ UNCHANGED vars
    BY <2>1 DEF vars, UpdateProgress, GetTorrents, Poll, PollAborted, LockAndClear, Fill,
                CallsAborted
  <2>2. CASE MainStep
    BY <2>2 DEF MainStep, Draw, MenuIdle, CreateTorrent, AfterReject, Cleanup, Stop, Join
  <2>3. CASE Keys
    BY <2>3 DEF Keys, MenuMove, MenuEnter, F1, DialogMove, DialogBackspace, DialogInto,
                DialogSelects, DialogQuit, OpenPreview, AcceptPreview, QuitPreview, AfterError,
                StayInDialog
  <2>4. CASE Environment
    BY <2>4 DEF Environment, StatusChanges, DiskChanges
  <2> QED  BY <2>1, <2>2, <2>3, <2>4 DEF Next
<1> QED
  BY <1>1, <1>2, <1>3, MainInit, ListsInit, MainNext, WindowsNext, ListsNext, PTL DEF Spec

(* A list that agrees with the session, as far as it goes.                 *)
Known(s, ts, ns) ==
    /\ Len(s) <= Len(ts)
    /\ \A i \in 1 .. Len(s) : s[i].file = ts[i].file /\ s[i].news <= ns[s[i].file]

(* s is not longer than r, and of no torrent newer.                        *)
Older(s, r) ==
    /\ Len(s) <= Len(r)
    /\ \A i \in 1 .. Len(s) : s[i].file = r[i].file /\ s[i].news <= r[i].news

(* Until cleanup, the lists follow each other: the screen's is behind that *)
(* of active_torrents, or of what is about to be copied into it.           *)
ShownInv ==
    Before =>
        /\ Known(statuses, torrents, news)
        /\ Known(active_torrents, torrents, news)
        /\ Known(screen, torrents, news)
        /\ Len(screen) <= Rows
        /\ upd = "poll" => Len(active_torrents) <= handles
        /\ upd = "poll" => \A i \in 1 .. Len(statuses) :
                               i <= Len(active_torrents) => active_torrents[i].news <= statuses[i].news
        /\ upd = "fill" => Older(screen, statuses)
        /\ upd # "fill" => Older(screen, active_torrents)

LEMMA KnownStays ==
    ASSUME NEW s \in Seq(Status), NEW ts \in Seq(Added), NEW us \in Seq(Added),
           NEW ns \in [Torrent -> Nat], NEW os \in [Torrent -> Nat],
           Known(s, ts, ns), Len(ts) <= Len(us),
           \A i \in 1 .. Len(ts) : us[i] = ts[i],
           \A t \in Torrent : ns[t] <= os[t]
    PROVE  Known(s, us, os)
<1>1. Len(s) \in Nat /\ Len(ts) \in Nat /\ Len(us) \in Nat
  OBVIOUS
<1>2. ASSUME NEW i \in 1 .. Len(s)
      PROVE  s[i].file = us[i].file /\ s[i].news <= os[s[i].file]
  <2>1. s[i].file \in Torrent /\ s[i].news \in Nat
    <3>1. s[i] \in Status
      BY ElementOfSeq
    <3> QED  BY <3>1 DEF Status
  <2>2. i \in 1 .. Len(ts)
    BY <1>1 DEF Known
  <2>3. ns[s[i].file] \in Nat /\ os[s[i].file] \in Nat /\ ns[s[i].file] <= os[s[i].file]
    BY <2>1
  <2>4. s[i].file = ts[i].file /\ s[i].news <= ns[s[i].file]
    BY DEF Known
  <2> QED  BY <2>1, <2>2, <2>3, <2>4
<1>3. Len(s) <= Len(us)
  BY <1>1 DEF Known
<1> QED  BY <1>2, <1>3 DEF Known

LEMMA OlderIsTransitive ==
    ASSUME NEW s \in Seq(Status), NEW r \in Seq(Status), NEW q \in Seq(Status),
           Older(s, r), Older(r, q)
    PROVE  Older(s, q)
<1>1. Len(s) \in Nat /\ Len(r) \in Nat /\ Len(q) \in Nat
  OBVIOUS
<1>2. ASSUME NEW i \in 1 .. Len(s)
      PROVE  s[i].file = q[i].file /\ s[i].news <= q[i].news
  <2>1. i \in 1 .. Len(r) /\ i \in 1 .. Len(q)
    BY <1>1 DEF Older
  <2>2. s[i] \in Status /\ r[i] \in Status /\ q[i] \in Status
    BY <2>1, ElementOfSeq
  <2>3. s[i].news \in Nat /\ r[i].news \in Nat /\ q[i].news \in Nat
    BY <2>2 DEF Status
  <2>4. s[i].file = r[i].file /\ s[i].news <= r[i].news
    BY DEF Older
  <2>5. r[i].file = q[i].file /\ r[i].news <= q[i].news
    BY <2>1 DEF Older
  <2> QED  BY <2>3, <2>4, <2>5
<1>3. Len(s) <= Len(q)
  BY <1>1 DEF Older
<1> QED  BY <1>2, <1>3 DEF Older

(* What is drawn of a list is behind it, and what was behind the list and  *)
(* fits in the window is behind what is drawn.                             *)
LEMMA RowsAreBehind ==
    ASSUME NEW s \in Seq(Status), NEW r \in Seq(Status), Older(r, s), Len(r) <= Rows
    PROVE  /\ Older(FirstRows(s), s)
           /\ Older(r, FirstRows(s))
           /\ Len(FirstRows(s)) <= Rows
<1>1. /\ Len(FirstRows(s)) = IF Len(s) < Rows THEN Len(s) ELSE Rows
      /\ \A i \in 1 .. Len(FirstRows(s)) : FirstRows(s)[i] = s[i]
  BY RowsOfList
<1>2. /\ Len(s) \in Nat /\ Len(r) \in Nat /\ Rows \in Nat /\ Len(r) <= Len(s)
      /\ \A i \in 1 .. Len(r) : r[i].file = s[i].file /\ r[i].news <= s[i].news
  BY DEF Older
<1>3. Len(FirstRows(s)) <= Rows /\ Len(FirstRows(s)) <= Len(s) /\ Len(r) <= Len(FirstRows(s))
      /\ Len(FirstRows(s)) \in Nat
  BY <1>1, <1>2
<1>4. \A i \in 1 .. Len(s) : s[i].news \in Nat
  <2> TAKE i \in 1 .. Len(s)
  <2>1. s[i] \in Status
    BY ElementOfSeq
  <2> QED  BY <2>1 DEF Status
<1>5. Older(FirstRows(s), s)
  BY <1>1, <1>2, <1>3, <1>4 DEF Older
<1>6. Older(r, FirstRows(s))
  BY <1>1, <1>2, <1>3 DEF Older
<1> QED  BY <1>3, <1>5, <1>6

LEMMA EmptyIsBehind ==
    ASSUME NEW ts \in Seq(Added), NEW ns
    PROVE  Known(<<>>, ts, ns)
  BY DEF Known

(* The steps of update_progress before cleanup.                            *)
LEMMA ShownUpdate ==
    ASSUME ListsInv, ListsInv', ShownInv, UpdateProgress, Before'
    PROVE  ShownInv'
<1> USE DEF updateVars, sharedVars, sessionVars
<1>1. /\ Before /\ aborted = FALSE
      /\ UNCHANGED <<torrents, news, screen>>
  <2>1. UNCHANGED <<torrents, news, screen>> /\ (Before' => Before)
    BY DEF UpdateProgress, GetTorrents, Poll, PollAborted, LockAndClear, Fill,
           CallsAborted, Crash, mainVars, Before
  <2> QED  BY <2>1 DEF ListsInv
<1>2. /\ Known(statuses, torrents, news)
      /\ Known(active_torrents, torrents, news)
      /\ Known(screen, torrents, news)
      /\ Len(screen) <= Rows
  BY <1>1 DEF ShownInv
<1>3. CASE GetTorrents
  <2>1. /\ upd = "sleep" /\ upd' = "poll" /\ handles' = Len(torrents)
        /\ UNCHANGED <<statuses, active_torrents>>
    BY <1>1, <1>3 DEF GetTorrents
  <2>2. statuses = <<>> /\ Len(statuses) = 0
    BY <2>1, EmptySeq DEF ListsInv
  <2>3. Older(screen, active_torrents) /\ Len(active_torrents) <= handles'
    BY <1>1, <1>2, <2>1 DEF ShownInv, Known
  <2> QED  BY <1>1, <1>2, <2>1, <2>2, <2>3 DEF ShownInv
<1>4. CASE Poll
  <2> DEFINE i == Len(statuses) + 1
             t == torrents[i].file
             status == [file |-> t, news |-> news[t]]
  <2>1. /\ upd = "poll" /\ Len(statuses) < handles
        /\ statuses' = Append(statuses, status)
        /\ UNCHANGED <<upd, handles, active_torrents>>
    BY <1>4 DEF Poll
  <2>2. i \in 1 .. Len(torrents) /\ i \in Nat /\ Len(statuses) \in Nat /\ Len(torrents) \in Nat
    BY <2>1 DEF ListsInv
  <2>3. t \in Torrent
    <3>1. torrents[i] \in Added
      BY <2>2, ElementOfSeq DEF ListsInv
    <3> QED  BY <3>1 DEF Added
  <2>4. status \in Status /\ status.file = t /\ status.news = news[t] /\ news[t] \in Nat
    BY <2>3 DEF ListsInv, Status
  <2> HIDE DEF status
  <2>5. /\ Len(statuses') = i
        /\ \A k \in 1 .. Len(statuses) : statuses'[k] = statuses[k]
        /\ statuses'[i] = status
    BY <2>1, <2>2, <2>4, AppendProperties DEF ListsInv
  <2>6. Known(statuses', torrents, news)
    <3>1. \A k \in 1 .. Len(statuses) : /\ statuses[k].file = torrents[k].file
                                        /\ statuses[k].news <= news[statuses[k].file]
      BY <1>2 DEF Known
    <3>2. \A k \in 1 .. i : k \in 1 .. Len(statuses) \/ k = i
      BY <2>2
    <3>3. \A k \in 1 .. i : /\ statuses'[k].file = torrents[k].file
                            /\ statuses'[k].news <= news[statuses'[k].file]
      BY <2>4, <2>5, <3>1, <3>2
    <3> QED  BY <2>2, <2>5, <3>3 DEF Known
  <2>7. ASSUME NEW k \in 1 .. Len(statuses'), k <= Len(active_torrents)
        PROVE  active_torrents[k].news <= statuses'[k].news
    <3>1. k \in 1 .. Len(statuses) \/ k = i
      BY <2>2, <2>5
    <3>2. CASE k \in 1 .. Len(statuses)
      BY <1>1, <2>1, <2>5, <2>7, <3>2 DEF ShownInv
    <3>3. CASE k = i
      <4>1. k \in 1 .. Len(active_torrents)
        BY <2>2, <2>7, <3>3 DEF ListsInv
      <4>2. /\ active_torrents[k].file = t
            /\ active_torrents[k].news <= news[active_torrents[k].file]
        BY <1>2, <3>3, <4>1 DEF Known
      <4> QED  BY <2>4, <2>5, <3>3, <4>2
    <3> QED  BY <3>1, <3>2, <3>3
  <2>8. Older(screen, active_torrents) /\ Len(active_torrents) <= handles'
    BY <1>1, <2>1 DEF ShownInv
  <2> HIDE DEF t, i
  <2> QED  BY <1>1, <1>2, <2>1, <2>6, <2>7, <2>8 DEF ShownInv
<1>5. CASE PollAborted
  BY <1>1, <1>5 DEF PollAborted, CallsAborted
<1>6. CASE LockAndClear
  <2>1. /\ upd = "poll" /\ upd' = "fill" /\ Len(statuses) = handles
        /\ active_torrents' = <<>> /\ UNCHANGED <<handles, statuses>>
    BY <1>6 DEF LockAndClear
  <2>2. Older(active_torrents, statuses)
    <3>1. /\ Len(active_torrents) <= Len(statuses)
          /\ Len(active_torrents) \in Nat /\ Len(statuses) \in Nat
      BY <1>1, <2>1 DEF ShownInv, ListsInv
    <3>2. \A k \in 1 .. Len(active_torrents) :
              active_torrents[k].file = torrents[k].file /\ statuses[k].file = torrents[k].file
      BY <1>2, <3>1 DEF Known
    <3>3. \A k \in 1 .. Len(active_torrents) : active_torrents[k].news <= statuses[k].news
      BY <1>1, <2>1, <3>1 DEF ShownInv
    <3> QED  BY <3>1, <3>2, <3>3 DEF Older
  <2>3. Older(screen, active_torrents)
    BY <1>1, <2>1 DEF ShownInv
  <2>4. Older(screen, statuses)
    BY <2>2, <2>3, OlderIsTransitive DEF ListsInv
  <2>5. Known(active_torrents', torrents, news)
    BY <2>1, EmptyIsBehind DEF ListsInv
  <2> QED  BY <1>1, <1>2, <2>1, <2>4, <2>5 DEF ShownInv
<1>7. CASE Fill
  <2>1. /\ upd = "fill" /\ upd' \in {"sleep", "done"}
        /\ active_torrents' = statuses /\ statuses' = <<>>
    BY <1>7 DEF Fill
  <2>2. Older(screen, active_torrents')
    BY <1>1, <2>1 DEF ShownInv
  <2>3. Known(statuses', torrents, news)
    BY <2>1, EmptyIsBehind DEF ListsInv
  <2> QED  BY <1>1, <1>2, <2>1, <2>2, <2>3 DEF ShownInv
<1> QED  BY <1>3, <1>4, <1>5, <1>6, <1>7 DEF UpdateProgress

LEMMA ShownNext ==
    ASSUME MainInv, ListsInv, ListsInv', ShownInv, [Next]_vars
    PROVE  ShownInv'
<1> SUFFICES ASSUME Before' PROVE ShownInv'
  BY DEF ShownInv
<1>1. CASE UpdateProgress
  BY <1>1, ShownUpdate
<1>2. ASSUME NEW s \in Seq(Status), Known(s, torrents, news)
      PROVE  Known(s, torrents', news')
  BY <1>2, SessionGrows, KnownStays DEF ListsInv
<1>3. CASE Rendered
  <2>1. /\ Before /\ locked = FALSE /\ screen' = FirstRows(active_torrents)
        /\ UNCHANGED <<upd, handles, statuses, active_torrents>>
    BY <1>3 DEF Rendered, RenderWindows, updateVars, sharedVars, ListsInv
  <2>2. upd # "fill"
    BY <2>1 DEF ListsInv
  <2>3. /\ Known(statuses, torrents, news) /\ Known(active_torrents, torrents, news)
        /\ Older(screen, active_torrents) /\ Len(screen) <= Rows
    BY <2>1, <2>2 DEF ShownInv
  <2>4. Older(screen', active_torrents) /\ Len(screen') <= Rows
    BY <2>1, <2>3, RowsAreBehind DEF ListsInv
  <2>5. Known(screen', torrents, news)
    <3>1. /\ screen' \in Seq(Status)
          /\ Len(screen') \in Nat /\ Len(active_torrents) \in Nat /\ Len(torrents) \in Nat
          /\ Len(screen') <= Len(active_torrents) /\ Len(active_torrents) <= Len(torrents)
      BY <2>3, <2>4 DEF ListsInv, Older, Known
    <3>2. \A i \in 1 .. Len(screen') : screen'[i] = active_torrents[i]
      BY <2>1, RowsOfList DEF ListsInv
    <3> QED  BY <2>3, <3>1, <3>2 DEF Known
  <2> QED  BY <1>2, <2>1, <2>2, <2>3, <2>4, <2>5 DEF ShownInv, ListsInv
<1>4. CASE Before /\ ListsStay
  BY <1>2, <1>4 DEF ShownInv, ListsInv, ListsStay, updateVars
<1>5. CASE Stop
  BY <1>5 DEF Stop, Before
<1> QED  BY <1>1, <1>3, <1>4, <1>5, StepsOfLists

(* A torrent that has once been on the screen stays there, and what is     *)
(* shown of it is never older than before, although update_progress clears *)
(* and fills the list that renderWindows draws.                            *)
THEOREM NothingVanishes == Spec => NeverVanishes
<1> DEFINE Keeps == \A i \in DOMAIN screen : \E j \in DOMAIN screen' :
                        screen'[j].file = screen[i].file /\ screen'[j].news >= screen[i].news
<1>1. Init => ShownInv
  <2> SUFFICES ASSUME Init PROVE ShownInv
    OBVIOUS
  <2>1. /\ statuses = <<>> /\ active_torrents = <<>> /\ screen = <<>> /\ torrents = <<>>
        /\ upd = "sleep" /\ Len(<<>>) = 0
    BY EmptySeq DEF Init
  <2>2. Known(<<>>, <<>>, news) /\ Older(<<>>, <<>>) /\ Len(<<>>) <= Rows
    BY <2>1 DEF Known, Older
  <2> QED  BY <2>1, <2>2 DEF ShownInv
<1>2. ASSUME ListsInv, ListsInv', ShownInv, [Next]_vars
      PROVE  [Keeps]_screen
  <2> SUFFICES ASSUME screen' # screen PROVE Keeps
    OBVIOUS
  <2>1. UpdateProgress => UNCHANGED screen
    BY DEF UpdateProgress, GetTorrents, Poll, PollAborted, LockAndClear, Fill, CallsAborted
  <2>2. Rendered
    BY <1>2, <2>1, StepsOfLists DEF ListsStay, Stop
  <2>3. /\ Before /\ locked = FALSE /\ screen' = FirstRows(active_torrents)
    BY <1>2, <2>2 DEF Rendered, RenderWindows, ListsInv
  <2>4. Older(screen, active_torrents) /\ Len(screen) <= Rows
    BY <1>2, <2>3 DEF ShownInv, ListsInv
  <2>5. Older(screen, screen')
    BY <1>2, <2>3, <2>4, RowsAreBehind DEF ListsInv
  <2>6. /\ Len(screen) \in Nat /\ Len(screen') \in Nat
        /\ DOMAIN screen = 1 .. Len(screen) /\ DOMAIN screen' = 1 .. Len(screen')
        /\ \A i \in DOMAIN screen : screen[i].news \in Nat
        /\ \A i \in DOMAIN screen' : screen'[i].news \in Nat
    <3>1. screen \in Seq(Status) /\ screen' \in Seq(Status)
      BY <1>2 DEF ListsInv
    <3>2. /\ Len(screen) \in Nat /\ DOMAIN screen = 1 .. Len(screen)
          /\ Len(screen') \in Nat /\ DOMAIN screen' = 1 .. Len(screen')
      BY <3>1, LenProperties
    <3>3. ASSUME NEW s \in Seq(Status), NEW i \in 1 .. Len(s) PROVE s[i].news \in Nat
      <4>1. s[i] \in Status
        BY <3>3, ElementOfSeq
      <4> QED  BY <4>1 DEF Status
    <3> QED  BY <3>1, <3>2, <3>3
  <2> SUFFICES ASSUME NEW i \in DOMAIN screen
               PROVE  \E j \in DOMAIN screen' :
                         screen'[j].file = screen[i].file /\ screen'[j].news >= screen[i].news
    OBVIOUS
  <2>7. i \in DOMAIN screen'
    BY <2>5, <2>6 DEF Older
  <2>8. screen'[i].file = screen[i].file /\ screen'[i].news >= screen[i].news
    BY <2>5, <2>6, <2>7 DEF Older
  <2> QED  BY <2>7, <2>8
<1> QED
  BY <1>1, <1>2, MainInit, ListsInit, MainNext, ListsNext, ShownNext, PTL
  DEF Spec, NeverVanishes
=============================================================================
