--------------------------- MODULE ServiceProcess ---------------------------
(***************************************************************************)
(* The life of the service process (src/main.cpp): the main thread owns    *)
(* the tray and pumps its messages, a second thread runs the pipe servers  *)
(* and tells the tray when they have stopped, and the UI loaders, which    *)
(* the server thread uses, are destroyed at the end of main().             *)
(***************************************************************************)
EXTENDS TrayIcon

CONSTANT Closable   \* may something outside the program close the tray window?

ASSUME ClosableAssumption == Closable \in BOOLEAN

VARIABLES
    main,     \* where main() is
    server,   \* where the server thread is; "inline" runs on the main thread
    handle,   \* the notification window that notify_server_stopped loaded
    closed    \* a close request was posted, for the bound

processVars == <<main, server, handle, closed>>
vars == <<trayVars, processVars>>

TypeOK ==
    /\ TrayTypeOK
    /\ main \in {"create", "inline", "loop", "join", "destroy", "ended"}
    /\ server \in {"none", "running", "stopped", "notifying", "ended"}
    /\ handle \in BOOLEAN /\ closed \in BOOLEAN

Init ==
    /\ TrayInit
    /\ main = "create" /\ server = "none"
    /\ handle = FALSE /\ closed = FALSE

-----------------------------------------------------------------------------
(* The main thread *)

TrayCreated ==
    /\ main = "create"
    /\ CreateTray
    /\ main' = "loop"
    /\ server' = "running"
    /\ UNCHANGED <<handle, closed>>

\* Without a tray the server runs on the main thread, and is never notified.
TrayFailed ==
    /\ main = "create"
    /\ main' = "inline"
    /\ UNCHANGED <<trayVars, server, handle, closed>>

InlineServerStops ==
    /\ main = "inline"
    /\ main' = "destroy"
    /\ UNCHANGED <<trayVars, server, handle, closed>>

PumpsMessage == main = "loop" /\ Pumps /\ UNCHANGED processVars

UsesTray ==
    /\ main = "loop"
    /\ IconOpensSettings \/ OpenMenu \/ CloseMenu \/ CloseBox
    /\ UNCHANGED processVars

\* WM_QUIT is seen by the outer loop once it has ended those in between.
LeavesLoop ==
    /\ main = "loop"
    /\ quit /\ modal = <<>> /\ posted = <<>>
    /\ main' = "join"
    /\ UNCHANGED <<trayVars, server, handle, closed>>

JoinsServer ==
    /\ main = "join"
    /\ server = "ended"
    /\ main' = "destroy"
    /\ UNCHANGED <<trayVars, server, handle, closed>>

\* ~TrayIcon, then the settings and the candidate loader.
Destroys ==
    /\ main = "destroy"
    /\ RemoveIcon
    /\ main' = "ended"
    /\ UNCHANGED <<window, notification, timer, quit, posted, loopVars, explorer,
                   restarts, server, handle, closed>>

-----------------------------------------------------------------------------
(* The server thread *)

ServerStops ==
    /\ server = "running"
    /\ server' = "stopped"
    /\ UNCHANGED <<trayVars, main, handle, closed>>

LoadsHandle ==
    /\ server = "stopped"
    /\ server' = "notifying"
    /\ handle' = notification
    /\ UNCHANGED <<trayVars, main, closed>>

\* The window may have been destroyed since the handle was loaded.
NotifiesTray ==
    /\ server = "notifying"
    /\ server' = "ended"
    /\ IF handle THEN PostToTray("server_stopped") ELSE UNCHANGED trayVars
    /\ UNCHANGED <<main, handle, closed>>

-----------------------------------------------------------------------------
CloseRequest ==
    /\ Closable /\ ~closed /\ window = "alive"
    /\ PostToTray("close")
    /\ closed' = TRUE
    /\ UNCHANGED <<main, server, handle>>

ExplorerMoves == Explorer /\ UNCHANGED processVars

MainThread ==
    \/ TrayCreated \/ TrayFailed \/ InlineServerStops
    \/ PumpsMessage \/ UsesTray \/ LeavesLoop \/ JoinsServer \/ Destroys

ServerThread == ServerStops \/ LoadsHandle \/ NotifiesTray

Next == MainThread \/ ServerThread \/ ExplorerMoves \/ CloseRequest

Spec == Init /\ [][Next]_vars

\* The main thread pumps; WM_QUIT ends menus and boxes; a server that has stopped
\* goes on to notify.  Whether it stops, and what Explorer does, is open.
Fairness ==
    /\ WF_vars(PumpsMessage)
    /\ WF_vars(main = "loop" /\ quit /\ (CloseMenu \/ CloseBox) /\ UNCHANGED processVars)
    /\ WF_vars(LeavesLoop) /\ WF_vars(JoinsServer) /\ WF_vars(Destroys)
    /\ WF_vars(LoadsHandle \/ NotifiesTray)

FairSpec == Spec /\ Fairness

-----------------------------------------------------------------------------
(* Properties *)

Noticed(q) == \E i \in 1..Len(q) : q[i] = "server_stopped"

\* The end of the server is not lost on the main thread: its notice is in the
\* queue of the tray's window, or WM_QUIT was posted, also when the window goes
\* between the load of its handle and the post, and when the notice comes in the
\* message loop of a menu or a box.
StopIsNoticed == server = "ended" => quit \/ Noticed(posted)

\* The icon is on the taskbar, and no timer is running to put it there.  Only an icon
\* that was added before its taskbar's broadcast keeps the timer: icon_added_ is
\* forgotten then, and the taskbar refuses to take the icon again.
IconSettled == onTaskbar /\ (timer => ~iconAdded)

\* The icon comes back after every loss, if Explorer lets it, and the retries end.
IconComesBack == []<>(IconSettled \/ explorer # "up" \/ window # "alive" \/ main = "create")

\* When the servers have stopped the process ends, also when the tray window
\* is closed at the same time, a menu is open, or an error of the settings waits
\* for its user, with more of them above it.
ProcessEnds == server = "stopped" ~> main = "ended"
=============================================================================
