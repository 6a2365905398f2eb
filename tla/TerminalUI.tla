----------------------------- MODULE TerminalUI -----------------------------
(***************************************************************************)
(* The ncurses front end (src/src/main.cpp): a main thread in its menu, in *)
(* a file dialog, in the preview of a torrent file or on its way out, and  *)
(* the update thread that copies the state of the torrents of a libtorrent *)
(* session into active_torrents, from where renderWindows draws it.        *)
(*                                                                         *)
(* The user presses any key at any time; other programs create and remove  *)
(* entries of the file system (at most MaxChanges times) between two keys; *)
(* the session is libtorrent's, of which only get_torrents, status,        *)
(* add_torrent and abort are used.                                         *)
(***************************************************************************)
EXTENDS Naturals, Sequences, FiniteSets

CONSTANTS
    Dir, Torrent,      \* directories and torrent files that may exist
    parent, cwd,       \* the directory of each; that the program starts in
    Up,                \* the entry ".." of a dialog
    order,             \* where each entry, and Up, stands among the names
    Unreadable,        \* directories that cannot be listed
    contents,          \* contents[t]: what may be found in torrent file t
    Example,           \* the torrent files named example.torrent
    Nothing,           \* an empty string, or no value
    Rows,              \* torrents that fit in the right window
    AfterAbort,        \* what a call of an aborted session may do
    MaxNews,           \* bound: changes of a torrent's status
    MaxChanges         \* bound: entries other programs create or remove

Entry == Dir \cup Torrent

(* good       the preview shows it and libtorrent takes it                 *)
(* unparsable parseTorrentFile throws                                      *)
(* noPath     a file of the torrent has an empty path                      *)
(* rejected   the preview shows it, libtorrent::torrent_info throws        *)
Content == {"good", "unparsable", "noPath", "rejected"}

ASSUME TreeAssumption == parent \in [Entry -> Dir] /\ cwd \in Dir
ASSUME EntryAssumption == Dir \cap Torrent = {} /\ Up \notin Entry /\ Nothing \notin Entry
ASSUME FiniteAssumption == IsFiniteSet(Dir) /\ IsFiniteSet(Torrent)
ASSUME OrderAssumption ==
    /\ order \in [Entry \cup {Up} -> Nat]
    /\ \A d, e \in Entry \cup {Up} : d # e => order[d] # order[e]
ASSUME FilesAssumption ==
    /\ Unreadable \subseteq Dir /\ Example \subseteq Torrent
    /\ contents \in [Torrent -> (SUBSET Content) \ {{}}]
ASSUME SessionAssumption == AfterAbort \subseteq {"answers", "throws", "hangs"}
ASSUME BoundsAssumption == Rows \in Nat /\ MaxNews \in Nat /\ MaxChanges \in Nat

VARIABLES
    ui,              \* where the main thread is
    menu,            \* left_win.selected
    purpose,         \* what the open file dialog is for
    currentDir,      \* the dialog's variable of the same name
    files,           \* the entries it lists, in their order
    selected,
    downDir,
    base,            \* the folder an example torrent is created from
    windows,         \* the ncurses windows that exist
    upd,             \* where the update thread is
    handles,         \* the number of torrents get_torrents gave it
    statuses,        \* what it has of them
    running, active_torrents,
    locked,          \* the update thread holds updates_mutex
    screen,          \* what renderWindows drew of active_torrents
    torrents,        \* the torrents of the session, in the order they were added
    news,            \* how often the status of each has changed
    aborted,
    present,         \* the entries that exist
    changes

dialogVars == <<purpose, currentDir, files, selected>>
mainVars == <<ui, menu, dialogVars, downDir, base, windows>>
updateVars == <<upd, handles, statuses>>
sharedVars == <<running, active_torrents, locked>>
sessionVars == <<torrents, news, aborted>>
diskVars == <<present, changes>>
vars == <<mainVars, updateVars, sharedVars, screen, sessionVars, diskVars>>

(* main, up to the first renderWindows.                                    *)
Init ==
    /\ ui = "draw" /\ menu = 0
    /\ purpose = Nothing /\ currentDir = Nothing /\ files = {} /\ selected = 0
    /\ downDir = cwd /\ base = Nothing
    /\ windows = {"lwin", "rwin"}
    /\ upd = "sleep" /\ handles = 0 /\ statuses = <<>>
    /\ running = TRUE /\ active_torrents = <<>> /\ locked = FALSE
    /\ screen = <<>>
    /\ torrents = <<>> /\ news = [t \in Torrent |-> 0] /\ aborted = FALSE
    /\ present = Entry /\ changes = 0

(* The process exists: it has neither returned from main nor been ended by *)
(* an exception nobody catches.                                            *)
Alive == ui \notin {"ended", "crashed"}
At(place) == ui = place
Crash == ui' = "crashed"

-----------------------------------------------------------------------------
(* update_progress.                                                        *)

(* What a call of the session gives once torrent_session.abort() has been  *)
(* called: it throws, which ends the process, or never returns.            *)
CallsAborted ==
    /\ aborted
    /\ \/ "throws" \in AfterAbort /\ Crash /\ UNCHANGED upd
       \/ "hangs" \in AfterAbort /\ upd' = "stuck" /\ UNCHANGED ui
    /\ UNCHANGED <<handles, statuses, sharedVars, screen, sessionVars, diskVars>>
    /\ UNCHANGED <<menu, dialogVars, downDir, base, windows>>

Answers == ~aborted \/ "answers" \in AfterAbort

(* Mutant: the last torrent is left out.                                   *)
GetTorrents_ButLast ==
    /\ upd = "sleep" /\ Answers
    /\ handles' \in IF aborted THEN 0 .. Len(torrents)
                    ELSE {IF torrents = <<>> THEN 0 ELSE Len(torrents) - 1}
    /\ upd' = "poll"
    /\ UNCHANGED <<mainVars, statuses, sharedVars, screen, sessionVars, diskVars>>

(* The sleep of 500 ms is over.  running is not looked at again.           *)
GetTorrents ==
    /\ upd = "sleep" /\ Answers
    /\ handles' \in IF aborted THEN 0 .. Len(torrents) ELSE {Len(torrents)}
    /\ upd' = "poll"
    /\ UNCHANGED <<mainVars, statuses, sharedVars, screen, sessionVars, diskVars>>

(* handle.status() of the next torrent.                                    *)
Poll ==
    /\ upd = "poll" /\ Len(statuses) < handles /\ Answers
    /\ LET t == torrents[Len(statuses) + 1].file IN
          statuses' = Append(statuses, [file |-> t, news |-> news[t]])
    /\ UNCHANGED <<mainVars, upd, handles, sharedVars, screen, sessionVars, diskVars>>

PollAborted ==
    /\ upd = "sleep" \/ (upd = "poll" /\ Len(statuses) < handles)
    /\ CallsAborted

(* lock_guard and active_torrents.clear().                                 *)
LockAndClear ==
    /\ upd = "poll" /\ Len(statuses) = handles
    /\ upd' = "fill"
    /\ locked' = TRUE
    /\ active_torrents' = <<>>
    /\ UNCHANGED <<mainVars, handles, statuses, running, screen, sessionVars, diskVars>>

(* The push_backs, the end of the lock_guard, and while (running).         *)
Fill ==
    /\ upd = "fill"
    /\ active_torrents' = statuses
    /\ locked' = FALSE
    /\ statuses' = <<>> /\ handles' = 0
    /\ upd' = IF running THEN "sleep" ELSE "done"
    /\ UNCHANGED <<mainVars, running, screen, sessionVars, diskVars>>

UpdateProgress ==
    Alive /\ (GetTorrents \/ Poll \/ PollAborted \/ LockAndClear \/ Fill)

-----------------------------------------------------------------------------
(* renderWindows: one step, since the mutex is held throughout.            *)

FirstRows(s) == SubSeq(s, 1, IF Len(s) < Rows THEN Len(s) ELSE Rows)

(* Mutant: the mutex is not taken.                                         *)
RenderWindows_NoLock == screen' = FirstRows(active_torrents)

RenderWindows ==
    /\ ~locked
    /\ screen' = FirstRows(active_torrents)

(* Where the main thread goes from a call of renderWindows.                *)
AfterDraw == [draw |-> "menu", redraw |-> "draw", chosen |-> "create"]

Draw ==
    /\ ui \in DOMAIN AfterDraw
    /\ RenderWindows
    /\ ui' = AfterDraw[ui]
    /\ UNCHANGED <<menu, dialogVars, downDir, base, windows>>
    /\ UNCHANGED <<updateVars, sharedVars, sessionVars, diskVars>>

-----------------------------------------------------------------------------
(* One turn of fileDialog's loop up to wgetch: list, clamp, sort.          *)

OnlyDirs(p) == p # "add"

(* directory_iterator fails for a directory that is gone or unreadable.    *)
Listing(dir, p) ==
    {Up} \cup {e \in present \cap (IF OnlyDirs(p) THEN Dir ELSE Entry) :
                dir \in present \ Unreadable /\ parent[e] = dir /\ e # dir}

Clamp(i, max) == IF i <= max THEN i ELSE max

(* Mutant: the selection stays where it was.                               *)
ShowList_NoClamp(dir, at) ==
    /\ ui' = "dialog"
    /\ currentDir' = dir
    /\ files' = Listing(dir, purpose')
    /\ selected' = at

ShowList(dir, at) ==
    /\ ui' = "dialog"
    /\ currentDir' = dir
    /\ files' = Listing(dir, purpose')
    /\ selected' = Clamp(at, Cardinality(files') - 1)

(* fileDialog from its beginning.                                          *)
OpenDialog(p) ==
    /\ cwd \in present
    /\ purpose' = p
    /\ windows' = windows \cup {"path_win", "dialog"}
    /\ ShowList(cwd, 0)

(* fs::current_path throws if the directory is gone.                       *)
NoCurrentPath ==
    /\ cwd \notin present
    /\ Crash
    /\ UNCHANGED <<dialogVars, windows>>

(* fileDialog returns: its variables are gone, its windows only when it    *)
(* deletes them.                                                           *)
LeaveDialog(next) ==
    /\ ui' = next
    /\ purpose' = Nothing /\ currentDir' = Nothing /\ files' = {} /\ selected' = 0

(* files[selected], the files being sorted.                                *)
Choice == CHOOSE e \in files : Cardinality({f \in files : order[f] < order[e]}) = selected

othersThanMain == <<updateVars, sharedVars, screen, sessionVars, diskVars>>

-----------------------------------------------------------------------------
(* The main loop: wgetch(lwin) with a timeout of 100 ms.  The right window *)
(* cannot become active, since selectedTorrents is never filled.           *)

(* The timeout, KEY_RIGHT, or a key without a meaning.                     *)
MenuIdle ==
    /\ At("menu") /\ running
    /\ ui' = "draw"
    /\ UNCHANGED <<menu, dialogVars, downDir, base, windows, othersThanMain>>

MenuMove ==
    /\ At("menu") /\ running
    /\ menu' \in {(menu + 1) % 4, (menu + 3) % 4}
    /\ ui' = "draw"
    /\ UNCHANGED <<dialogVars, downDir, base, windows, othersThanMain>>

MenuEnter ==
    /\ At("menu") /\ running
    /\ \/ menu = 0 /\ OpenDialog("add")
       \/ menu = 1 /\ OpenDialog("dir")
       \/ menu = 2 /\ OpenDialog("base")
       \/ menu # 3 /\ NoCurrentPath
       \/ menu = 3 /\ ui' = "cleanup" /\ UNCHANGED <<dialogVars, windows>>
    /\ UNCHANGED <<menu, downDir, base, othersThanMain>>

F1 ==
    /\ At("menu") /\ running
    /\ ui' = "cleanup"
    /\ UNCHANGED <<menu, dialogVars, downDir, base, windows, othersThanMain>>

-----------------------------------------------------------------------------
(* fileDialog's keys.  Each action ends with the loop's next turn, which   *)
(* begins with errorMsg.clear(): no message of a handler is ever shown.    *)

StayInDialog == UNCHANGED <<menu, purpose, downDir, base, windows, othersThanMain>>

(* KEY_UP, KEY_DOWN and any key without a meaning.                         *)
DialogMove ==
    /\ At("dialog") /\ StayInDialog
    /\ \/ ShowList(currentDir, selected)
       \/ selected > 0 /\ ShowList(currentDir, selected - 1)
       \/ selected < Cardinality(files) - 1 /\ ShowList(currentDir, selected + 1)

(* To the parent directory, if it exists; the root is its own parent.      *)
GoUp ==
    \/ parent[currentDir] \in present /\ ShowList(parent[currentDir], 0)
    \/ parent[currentDir] \notin present /\ ShowList(currentDir, selected)

(* Into a directory that can be listed.                                    *)
GoInto(d) ==
    \/ d \in present \ Unreadable /\ ShowList(d, 0)
    \/ d \notin present \ Unreadable /\ ShowList(currentDir, selected)

DialogBackspace ==
    /\ At("dialog") /\ StayInDialog
    /\ GoUp

(* E, which moves among directories where ENTER selects them; and ENTER    *)
(* where it does not select.                                               *)
DialogInto ==
    /\ At("dialog") /\ StayInDialog
    /\ \/ Choice = Up /\ GoUp
       \/ Choice \in Dir /\ GoInto(Choice)

(* ENTER on a directory where one is to be selected: its path is returned, *)
(* for main to use.  The windows are not deleted.                          *)
DialogSelects ==
    /\ At("dialog") /\ Choice # Up
    /\ \/ /\ purpose = "dir"
          /\ downDir' = Choice
          /\ LeaveDialog("redraw")
          /\ UNCHANGED <<base, present>>
       \/ /\ purpose = "base"
          /\ base' = Choice
          /\ LeaveDialog("chosen")
          /\ UNCHANGED <<downDir, present>>
       \/ /\ purpose = "out"
          /\ \/ /\ LeaveDialog("redraw")       \* encode and createFile succeed
                /\ present' = present \cup {t \in Example : parent[t] = Choice /\ Choice \in present}
             \/ /\ Crash                       \* createFile throws
                /\ UNCHANGED <<dialogVars, present>>
          /\ UNCHANGED <<downDir, base>>
    /\ UNCHANGED <<menu, windows, updateVars, sharedVars, screen, sessionVars, changes>>

(* Q: an empty path is returned, to which a download folder is set too.    *)
DialogQuit ==
    /\ At("dialog")
    /\ LeaveDialog(IF purpose \in {"add", "dir"} THEN "redraw" ELSE "draw")
    /\ downDir' = IF purpose = "dir" THEN Nothing ELSE downDir
    /\ windows' = windows \ {"path_win", "dialog"}
    /\ UNCHANGED <<menu, base, othersThanMain>>

(* "exemple" from the base folder.  createTorrentFile throws if it is gone *)
(* or empty, or if a file in it cannot be read; fileDialog as above.       *)
CreateTorrent ==
    /\ At("create")
    /\ \/ base \in present /\ OpenDialog("out")
       \/ Crash /\ UNCHANGED <<dialogVars, windows>>
    /\ base' = Nothing
    /\ UNCHANGED <<menu, downDir, othersThanMain>>

-----------------------------------------------------------------------------
(* showTorrentPreview.                                                     *)

(* ENTER on a torrent file: path_win is deleted, the file is read.  With   *)
(* an empty path, path.size() - 1 wraps around and the loop reads beyond   *)
(* the vector's end, of which anything may come.                           *)
OpenPreview ==
    /\ At("dialog") /\ Choice \in Torrent
    /\ \/ /\ Choice \in present
          /\ contents[Choice] \cap {"good", "rejected"} # {}
          /\ ui' = "preview"
          /\ windows' = (windows \ {"path_win"}) \cup {"preview", "content"}
       \/ /\ Choice \notin present \/ "unparsable" \in contents[Choice]
          /\ ui' = "error"
          /\ windows' = (windows \ {"path_win"}) \cup {"err"}
       \/ /\ Choice \in present /\ "noPath" \in contents[Choice]
          /\ \/ Crash
             \/ ui' = "error"
          /\ windows' = (windows \ {"path_win"}) \cup {"preview", "content", "err"}
    /\ UNCHANGED <<menu, dialogVars, downDir, base, othersThanMain>>

(* session::add_torrent does not add a torrent a second time.              *)
Adds(t) ==
    IF \E i \in DOMAIN torrents : torrents[i].file = t THEN torrents
    ELSE Append(torrents, [file |-> t, save_path |-> downDir])

(* ENTER: the preview returns true, the dialog the path, and main reads    *)
(* the file again, with libtorrent, and adds it.  What torrent_info throws *)
(* is not caught.                                                          *)
AcceptPreview ==
    /\ At("preview")
    /\ windows' = windows \ {"preview", "content", "dialog"}
    /\ \/ /\ Choice \in present /\ "good" \in contents[Choice]
          /\ torrents' = Adds(Choice)
          /\ LeaveDialog("redraw")
       \/ /\ Choice \notin present \/ "rejected" \in contents[Choice]
          /\ Crash
          /\ UNCHANGED <<dialogVars, torrents>>
    /\ UNCHANGED <<menu, downDir, base, updateVars, sharedVars, screen, news, aborted, diskVars>>

QuitPreview ==
    /\ At("preview")
    /\ windows' = windows \ {"preview", "content"}
    /\ ui' = "rejected"
    /\ UNCHANGED <<menu, dialogVars, downDir, base, othersThanMain>>

(* Mutant: only the dialog is created again.                               *)
Reopen_DialogOnly(ws) ==
    /\ windows' = ws \cup {"dialog"}
    /\ ShowList(currentDir, selected)

(* The preview has returned false: the dialog's windows are created again. *)
Reopen(ws) ==
    /\ windows' = ws \cup {"path_win", "dialog"}
    /\ ShowList(currentDir, selected)

(* ... after the renderWindows of Q,                                       *)
AfterReject ==
    /\ At("rejected")
    /\ RenderWindows
    /\ UNCHANGED <<menu, purpose, downDir, base, updateVars, sharedVars, sessionVars, diskVars>>
    /\ Reopen(windows)

(* ... or after a key in the window that shows the parser's error.         *)
AfterError ==
    /\ At("error")
    /\ UNCHANGED <<menu, purpose, downDir, base, othersThanMain>>
    /\ Reopen(windows \ {"err"})

-----------------------------------------------------------------------------
(* cleanup.                                                                *)

Cleanup ==
    /\ At("cleanup")
    /\ aborted' = TRUE
    /\ windows' = windows \ {"lwin", "rwin"}
    /\ ui' = "stop"
    /\ UNCHANGED <<menu, dialogVars, downDir, base, updateVars, sharedVars, screen>>
    /\ UNCHANGED <<torrents, news, diskVars>>

(* Mutant: the update thread is not told.                                  *)
Stop_NotTold ==
    /\ At("stop")
    /\ ui' = "join"
    /\ UNCHANGED <<menu, dialogVars, downDir, base, windows, othersThanMain>>

Stop ==
    /\ At("stop")
    /\ running' = FALSE
    /\ ui' = "join"
    /\ UNCHANGED <<menu, dialogVars, downDir, base, windows, updateVars>>
    /\ UNCHANGED <<active_torrents, locked, screen, sessionVars, diskVars>>

Join ==
    /\ At("join") /\ upd = "done"
    /\ ui' = "ended"
    /\ UNCHANGED <<menu, dialogVars, downDir, base, windows, othersThanMain>>

-----------------------------------------------------------------------------
(* The rest of the world.                                                  *)

(* A torrent of the session makes progress, or changes its speed or state. *)
StatusChanges(t) ==
    /\ Alive /\ ~aborted
    /\ \E i \in DOMAIN torrents : torrents[i].file = t
    /\ news[t] < MaxNews
    /\ news' = [news EXCEPT ![t] = @ + 1]
    /\ UNCHANGED <<mainVars, updateVars, sharedVars, screen, torrents, aborted, diskVars>>

(* Another program removes a file or an empty directory, or creates one.   *)
DiskChanges(e) ==
    /\ Alive /\ changes < MaxChanges
    /\ \/ e \in present /\ parent[e] # e
          /\ \A x \in present : parent[x] # e
          /\ present' = present \ {e}
       \/ e \notin present /\ parent[e] \in present
          /\ present' = present \cup {e}
    /\ changes' = changes + 1
    /\ UNCHANGED <<mainVars, updateVars, sharedVars, screen, sessionVars>>

Environment == (\E t \in Torrent : StatusChanges(t)) \/ (\E e \in Entry : DiskChanges(e))

Keys ==
    \/ MenuMove \/ MenuEnter \/ F1
    \/ DialogMove \/ DialogBackspace \/ DialogInto \/ DialogSelects \/ DialogQuit
    \/ OpenPreview \/ AcceptPreview \/ QuitPreview \/ AfterError

(* Steps of the main thread that do not wait for a key.                    *)
MainStep == Draw \/ MenuIdle \/ CreateTorrent \/ AfterReject \/ Cleanup \/ Stop \/ Join

Next == UpdateProgress \/ MainStep \/ Keys \/ Environment

Spec == Init /\ [][Next]_vars

(* Both threads run.  The update thread sleeps for half a second between   *)
(* two locks, so the main thread gets the mutex, though it is not free all *)
(* the time.  Nothing is assumed of the user but what a property says.     *)
Fairness == WF_vars(UpdateProgress) /\ SF_vars(MainStep)

FairSpec == Spec /\ Fairness

-----------------------------------------------------------------------------
(* Properties.                                                             *)

UITypeOK ==
    /\ ui \in {"draw", "redraw", "chosen", "menu", "dialog", "create", "preview", "rejected",
               "error", "cleanup", "stop", "join", "ended", "crashed"}
    /\ menu \in 0 .. 3
    /\ purpose \in {Nothing, "add", "dir", "base", "out"}
    /\ currentDir \in Dir \cup {Nothing}
    /\ files \subseteq Entry \cup {Up}
    /\ selected \in Nat
    /\ downDir \in Dir \cup {Nothing} /\ base \in Dir \cup {Nothing}
    /\ windows \subseteq {"lwin", "rwin", "path_win", "dialog", "preview", "content", "err"}
    /\ upd \in {"sleep", "poll", "fill", "done", "stuck"}
    /\ handles \in Nat
    /\ statuses \in Seq([file : Torrent, news : Nat])
    /\ active_torrents \in Seq([file : Torrent, news : Nat])
    /\ screen \in Seq([file : Torrent, news : Nat])
    /\ running \in BOOLEAN /\ locked \in BOOLEAN /\ aborted \in BOOLEAN
    /\ torrents \in Seq([file : Torrent, save_path : Dir \cup {Nothing}])
    /\ news \in [Torrent -> Nat]
    /\ present \subseteq Entry
    /\ changes \in Nat

(* While the dialog waits for a key its selection is an entry of the list, *)
(* whatever has disappeared since the list was longer: E and ENTER index   *)
(* files with it.                                                          *)
SelectionInList == ui \in {"dialog", "preview", "error", "rejected"} => selected < Cardinality(files)

(* The windows a place of the main thread draws in or reads keys from.     *)
WindowsUsed ==
    CASE ui \in {"draw", "redraw", "chosen", "menu"} -> {"lwin", "rwin"}
      [] ui = "rejected" -> {"lwin", "rwin"}
      [] ui = "dialog" -> {"path_win", "dialog"}
      [] ui = "preview" -> {"preview", "content"}
      [] ui = "error" -> {"err"}
      [] OTHER -> {}

(* Through previews accepted, left or failed, dialogs left and dialogs     *)
(* opened again, no deleted window is used.                                *)
DrawnIsLive == WindowsUsed \subseteq windows

(* A torrent that has once been on the screen stays there, and what is     *)
(* shown of it is never older than what was shown before, although the     *)
(* update thread clears and refills the list behind renderWindows.         *)
NeverVanishes ==
    [][\A i \in DOMAIN screen : \E j \in DOMAIN screen' :
          screen'[j].file = screen[i].file /\ screen'[j].news >= screen[i].news]_screen

OnScreen(t) == \E i \in DOMAIN screen : screen[i].file = t

(* A torrent that was added, and for which there is a row, comes on the    *)
(* screen, if the user returns to the menu again and again.                *)
AddedIsShown ==
    []<>(ui = "menu") =>
        \A t \in Torrent : (\E i \in 1 .. Rows : i <= Len(torrents) /\ torrents[i].file = t)
                               ~> OnScreen(t)

(* Exit and F1 end the process: the two threads do not wait for each       *)
(* other, only libtorrent can keep the update thread in a call for ever.   *)
EndsAfterExit == (ui = "cleanup") ~> (~Alive \/ upd = "stuck")
=============================================================================
