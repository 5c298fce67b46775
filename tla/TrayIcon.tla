------------------------------ MODULE TrayIcon ------------------------------
(***************************************************************************)
(* The notification-area icon and its window (src/service/tray_icon.cpp),  *)
(* with the part of Explorer it depends on: Shell_NotifyIcon fails while   *)
(* there is no taskbar, a taskbar that dies takes the icon with it, and a  *)
(* new one broadcasts TaskbarCreated.                                      *)
(*                                                                         *)
(* The icon and its context menu open the settings; the loader's show()    *)
(* (src/service/settings_ui_loader.cpp, SettingsUiLoader) comes back at    *)
(* once, or tells its user of an error in a message box.  Menu and box run *)
(* message loops of their own, one above the other, that go on dispatching *)
(* to this window.                                                         *)
(*                                                                         *)
(* The actions are the messages of the window; who pumps them, and when,   *)
(* is ServiceProcess's business.                                           *)
(***************************************************************************)
EXTENDS Naturals, Sequences

CONSTANTS
    MaxRestarts,  \* bound: how often Explorer starts anew
    MaxModal      \* bound: menus and message boxes above one another

ASSUME TrayBoundsAssumption == MaxRestarts \in Nat /\ MaxModal \in Nat

VARIABLES
    window,        \* window_: "none", "alive" or "destroyed"
    notification,  \* notification_window_ is set
    iconAdded,     \* icon_added_
    timer,         \* tray_retry_timer is running
    quit,          \* PostQuitMessage was called
    posted,        \* messages posted to the window
    modal,         \* message loops inside the window's messages, the innermost
                   \* last: TrackPopupMenu's and report_error()'s
    settingsUp,    \* started_ of the settings loader
    explorer,      \* "down", "busy" (NIM_ADD times out) or "up"
    onTaskbar,     \* the taskbar really has the icon
    restarts       \* for the bound

shellVars == <<explorer, onTaskbar, restarts>>
iconVars  == <<iconAdded, timer>>
loopVars  == <<modal, settingsUp>>
trayVars  == <<window, notification, iconVars, quit, posted, loopVars, shellVars>>

TrayMessages == {"taskbar_created", "server_stopped", "close"}

TrayTypeOK ==
    /\ window \in {"none", "alive", "destroyed"}
    /\ {notification, iconAdded, timer, quit, settingsUp, onTaskbar} \subseteq BOOLEAN
    /\ posted \in Seq(TrayMessages)
    /\ modal \in Seq({"menu", "box"}) /\ Len(modal) <= MaxModal
    /\ explorer \in {"down", "busy", "up"}
    /\ restarts \in 0..MaxRestarts
    /\ notification <=> window = "alive"
    /\ timer => window = "alive"

TrayInit ==
    /\ window = "none"
    /\ notification = FALSE /\ iconAdded = FALSE /\ timer = FALSE
    /\ quit = FALSE /\ settingsUp = FALSE /\ onTaskbar = FALSE
    /\ posted = <<>> /\ modal = <<>>
    /\ explorer \in {"down", "busy", "up"}
    /\ restarts = 0

-----------------------------------------------------------------------------
(* Explorer *)

ExplorerDies ==
    /\ explorer # "down"
    /\ explorer' = "down"
    /\ onTaskbar' = FALSE
    /\ UNCHANGED <<window, notification, iconVars, quit, posted, loopVars, restarts>>

\* The taskbar exists before its broadcast reaches the window: an icon may be
\* added in between.
ExplorerStarts ==
    /\ explorer = "down"
    /\ restarts < MaxRestarts
    /\ restarts' = restarts + 1
    /\ explorer' = "busy"
    /\ UNCHANGED <<window, notification, iconVars, quit, posted, loopVars, onTaskbar>>

ExplorerBroadcasts ==
    /\ explorer = "busy"
    /\ explorer' = "up"
    /\ posted' = IF window = "alive" THEN Append(posted, "taskbar_created") ELSE posted
    /\ UNCHANGED <<window, notification, iconVars, quit, loopVars, onTaskbar, restarts>>

-----------------------------------------------------------------------------
(* add_icon() and remove_icon() *)

\* NIM_ADD may succeed as soon as there is a taskbar, and does when it is up;
\* it fails for an icon that is already there.
ShellTakesIcon   == explorer # "down" /\ ~onTaskbar
ShellRefusesIcon == explorer # "up" \/ onTaskbar

\* The outcomes of add_icon(), given what icon_added_ is when it is called.
AddIconSucceeds(added) ==
    \/ added /\ iconAdded' = TRUE /\ UNCHANGED onTaskbar
    \/ ~added /\ ShellTakesIcon /\ iconAdded' = TRUE /\ onTaskbar' = TRUE

AddIconFails(added) ==
    ~added /\ ShellRefusesIcon /\ iconAdded' = FALSE /\ UNCHANGED onTaskbar

\* Adds the icon, or arms the timer that tries again.
AddIconOrRetry(added) ==
    \/ AddIconSucceeds(added) /\ UNCHANGED timer
    \/ AddIconFails(added) /\ timer' = TRUE

RemoveIcon ==
    /\ onTaskbar' = IF iconAdded THEN FALSE ELSE onTaskbar
    /\ iconAdded' = FALSE

-----------------------------------------------------------------------------
(* create() and the window procedure *)

CreateTray ==
    /\ window = "none"
    /\ window' = "alive"
    /\ notification' = TRUE
    /\ AddIconOrRetry(FALSE)
    /\ UNCHANGED <<quit, posted, loopVars, explorer, restarts>>

Dispatch(m) == window = "alive" /\ posted # <<>> /\ Head(posted) = m

\* Mutant: icon_added_ is still believed when a new taskbar appears.
OnTaskbarIgnored ==
    /\ Dispatch("taskbar_created")
    /\ posted' = Tail(posted)
    /\ AddIconOrRetry(iconAdded)
    /\ UNCHANGED <<window, notification, quit, loopVars, explorer, restarts>>

\* A new taskbar has no icons, so icon_added_ is forgotten first.
OnTaskbarCreated ==
    /\ Dispatch("taskbar_created")
    /\ posted' = Tail(posted)
    /\ AddIconOrRetry(FALSE)
    /\ UNCHANGED <<window, notification, quit, loopVars, explorer, restarts>>

\* Mutant: the timer goes on although the icon is there.
OnTimerForEver ==
    /\ window = "alive" /\ timer /\ posted = <<>>
    /\ AddIconSucceeds(iconAdded) \/ AddIconFails(iconAdded)
    /\ UNCHANGED <<window, notification, timer, quit, posted, loopVars, explorer, restarts>>

\* WM_TIMER is made up when the queue is empty.
OnTimer ==
    /\ window = "alive" /\ timer /\ posted = <<>>
    /\ \/ AddIconSucceeds(iconAdded) /\ timer' = FALSE
       \/ AddIconFails(iconAdded) /\ UNCHANGED timer
    /\ UNCHANGED <<window, notification, quit, posted, loopVars, explorer, restarts>>

\* Mutants: the notification window is not forgotten; WM_QUIT is not posted.
DestroyTrayKeepsHandle ==
    /\ timer' = FALSE
    /\ RemoveIcon
    /\ window' = "destroyed"
    /\ quit' = TRUE
    /\ posted' = <<>>
    /\ UNCHANGED <<notification, loopVars, explorer, restarts>>

DestroyTrayQuietly ==
    /\ timer' = FALSE
    /\ RemoveIcon
    /\ notification' = FALSE
    /\ window' = "destroyed"
    /\ posted' = <<>>
    /\ UNCHANGED <<quit, loopVars, explorer, restarts>>

\* DestroyWindow and the WM_DESTROY it sends: the messages still posted to the
\* window go with it.
DestroyTray ==
    /\ timer' = FALSE
    /\ RemoveIcon
    /\ notification' = FALSE
    /\ window' = "destroyed"
    /\ quit' = TRUE
    /\ posted' = <<>>
    /\ UNCHANGED <<loopVars, explorer, restarts>>

\* Mutant: the notice is not heeded in the loop of a menu or a box.
OnServerStoppedOutside ==
    /\ Dispatch("server_stopped")
    /\ \/ modal = <<>> /\ DestroyTray
       \/ /\ modal # <<>> /\ posted' = Tail(posted)
          /\ UNCHANGED <<window, notification, iconVars, quit, loopVars, shellVars>>

OnServerStopped == Dispatch("server_stopped") /\ DestroyTray

\* WM_CLOSE, which nothing in the program sends, goes to DefWindowProc.
OnClose == Dispatch("close") /\ DestroyTray

Innermost(l) == modal # <<>> /\ modal[Len(modal)] = l
Outer == SubSeq(modal, 1, Len(modal) - 1)

\* open_settings(), above what is left of the loops: the settings UI is asked to
\* show its window, or could not be loaded or started.  Once started it stays.
OpensSettings(below) ==
    \/ settingsUp' = TRUE /\ modal' = below
    \/ ~settingsUp /\ modal' = Append(below, "box") /\ UNCHANGED settingsUp

\* A double click on the icon.
IconOpensSettings ==
    /\ window = "alive" /\ Len(modal) < MaxModal
    /\ OpensSettings(modal)
    /\ UNCHANGED <<window, notification, iconVars, quit, posted, shellVars>>

\* The context menu.  (While there is one, TrackPopupMenu refuses another.)
OpenMenu ==
    /\ window = "alive" /\ Len(modal) < MaxModal
    /\ \A i \in 1..Len(modal) : modal[i] # "menu"
    /\ modal' = Append(modal, "menu")
    /\ UNCHANGED <<window, notification, iconVars, quit, posted, settingsUp, shellVars>>

\* The menu goes, by WM_QUIT or without a choice, or opens the settings.  Its
\* window may be gone by then.
CloseMenu ==
    /\ Innermost("menu")
    /\ (modal' = Outer /\ UNCHANGED settingsUp) \/ OpensSettings(Outer)
    /\ UNCHANGED <<window, notification, iconVars, quit, posted, shellVars>>

\* The user dismisses a message box, or WM_QUIT ends it.
CloseBox ==
    /\ Innermost("box")
    /\ modal' = Outer
    /\ UNCHANGED <<window, notification, iconVars, quit, posted, settingsUp, shellVars>>

\* A message from outside this window: a close request, or the server thread's.
PostToTray(m) ==
    /\ posted' = IF window = "alive" THEN Append(posted, m) ELSE posted
    /\ UNCHANGED <<window, notification, iconVars, quit, loopVars, shellVars>>

Explorer == ExplorerDies \/ ExplorerStarts \/ ExplorerBroadcasts

Pumps == OnTaskbarCreated \/ OnTimer \/ OnServerStopped \/ OnClose
=============================================================================
