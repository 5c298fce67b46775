------------------------ MODULE ServiceProcessProofs ------------------------
(***************************************************************************)
(* Theorems about the process and its tray, for any number of restarts of  *)
(* Explorer and any depth of menus and message boxes: the end of the server*)
(* is never lost on the main thread, and a lost icon is always being       *)
(* retried.                                                                *)
(***************************************************************************)
EXTENDS ServiceProcess, SequenceTheorems, TLAPS

-----------------------------------------------------------------------------
(* Types *)

\* Shell_NotifyIcon, whatever it does, sets Booleans; the timer is set only for
\* an icon that is being added.
LEMMA IconTyped ==
    ASSUME TrayTypeOK, NEW added \in BOOLEAN,
           AddIconSucceeds(added) \/ AddIconFails(added)
    PROVE  {iconAdded', onTaskbar'} \subseteq BOOLEAN
  BY DEF TrayTypeOK, AddIconSucceeds, AddIconFails

\* The messages of the window, pumped by whoever pumps them.
LEMMA PumpsTyped == TrayTypeOK /\ Pumps => TrayTypeOK'
<1> SUFFICES ASSUME TrayTypeOK, Pumps
             PROVE  TrayTypeOK'
  OBVIOUS
<1>1. posted # <<>> => Tail(posted) \in Seq(TrayMessages)
  BY DEF TrayTypeOK
<1>2. CASE OnTaskbarCreated
  <2>1. {iconAdded', onTaskbar'} \subseteq BOOLEAN /\ timer' \in BOOLEAN /\ window = "alive"
    BY <1>2, IconTyped DEF OnTaskbarCreated, AddIconOrRetry, TrayTypeOK, Dispatch
  <2> QED
    BY <1>1, <1>2, <2>1 DEF OnTaskbarCreated, Dispatch, TrayTypeOK, loopVars
<1>3. CASE OnTimer
  <2>1. {iconAdded', onTaskbar'} \subseteq BOOLEAN /\ timer' \in BOOLEAN
    BY <1>3, IconTyped DEF OnTimer, TrayTypeOK
  <2> QED
    BY <1>3, <2>1 DEF OnTimer, TrayTypeOK, loopVars
<1>4. CASE OnServerStopped \/ OnClose
  <2>1. {iconAdded', onTaskbar'} \subseteq BOOLEAN
    BY <1>4 DEF OnServerStopped, OnClose, DestroyTray, RemoveIcon, TrayTypeOK
  <2>2. <<>> \in Seq(TrayMessages)
    OBVIOUS
  <2> QED
    BY <1>4, <2>1, <2>2 DEF OnServerStopped, OnClose, DestroyTray, TrayTypeOK, loopVars
<1> QED
  BY <1>2, <1>3, <1>4 DEF Pumps

\* The message loops stay within their bound.
LEMMA LoopsTyped ==
    ASSUME TrayTypeOK,
           \/ window = "alive" /\ Len(modal) < MaxModal /\ OpensSettings(modal)
           \/ Len(modal) < MaxModal /\ modal' = Append(modal, "menu") /\ UNCHANGED settingsUp
           \/ CloseMenu
           \/ CloseBox
    PROVE  /\ modal' \in Seq({"menu", "box"}) /\ Len(modal') <= MaxModal
           /\ settingsUp' \in BOOLEAN
<1> USE TrayBoundsAssumption
<1>1. modal \in Seq({"menu", "box"}) /\ Len(modal) \in Nat /\ Len(modal) <= MaxModal
  BY DEF TrayTypeOK
<1>2. ASSUME NEW below \in Seq({"menu", "box"}), Len(below) < MaxModal, OpensSettings(below)
      PROVE  /\ modal' \in Seq({"menu", "box"}) /\ Len(modal') <= MaxModal
             /\ settingsUp' \in BOOLEAN
  <2>1. /\ Append(below, "box") \in Seq({"menu", "box"})
        /\ Len(below) \in Nat /\ Len(Append(below, "box")) = Len(below) + 1
    OBVIOUS
  <2>2. Len(below) <= MaxModal /\ Len(below) + 1 <= MaxModal
    BY <1>2, <2>1
  <2>3. settingsUp \in BOOLEAN
    BY DEF TrayTypeOK
  <2> QED
    BY <1>2, <2>1, <2>2, <2>3 DEF OpensSettings
<1>3. modal # <<>> => Outer \in Seq({"menu", "box"}) /\ Len(Outer) = Len(modal) - 1
  <2>1. modal # <<>> => Len(modal) >= 1
    BY <1>1
  <2>2. \A i \in 1..Len(modal) - 1 : modal[i] \in {"menu", "box"}
    BY <1>1
  <2>3. Len(modal) - 1 \in Int /\ 1 \in Int
    BY <1>1
  <2>4. /\ SubSeq(modal, 1, Len(modal) - 1) \in Seq({"menu", "box"})
        /\ Len(SubSeq(modal, 1, Len(modal) - 1)) =
               IF 1 <= Len(modal) - 1 THEN Len(modal) - 1 - 1 + 1 ELSE 0
    BY <2>2, <2>3, SubSeqProperties
  <2>5. \A n \in Nat : n >= 1 => (IF 1 <= n - 1 THEN n - 1 - 1 + 1 ELSE 0) = n - 1
    OBVIOUS
  <2>6. Len(modal) >= 1 => Len(SubSeq(modal, 1, Len(modal) - 1)) = Len(modal) - 1
    BY <1>1, <2>4, <2>5
  <2> QED
    BY <2>1, <2>4, <2>6 DEF Outer
<1>4. CASE CloseMenu
  <2>1. modal # <<>> /\ Len(Outer) < MaxModal
    BY <1>1, <1>3, <1>4 DEF CloseMenu, Innermost
  <2> QED
    BY <1>2, <1>3, <1>4, <2>1 DEF CloseMenu, TrayTypeOK
<1>5. CASE CloseBox
  BY <1>1, <1>3, <1>5 DEF CloseBox, Innermost, TrayTypeOK
<1>6. CASE Len(modal) < MaxModal /\ modal' = Append(modal, "menu") /\ UNCHANGED settingsUp
  BY <1>1, <1>6 DEF TrayTypeOK
<1> QED
  BY <1>1, <1>2, <1>4, <1>5, <1>6

\* The user at the icon, its menu and the message boxes.
LEMMA UsersTyped == TrayTypeOK /\ UsesTray => TrayTypeOK'
<1> SUFFICES ASSUME TrayTypeOK, UsesTray
             PROVE  TrayTypeOK'
  OBVIOUS
<1>1. /\ modal' \in Seq({"menu", "box"}) /\ Len(modal') <= MaxModal
      /\ settingsUp' \in BOOLEAN
  BY LoopsTyped DEF UsesTray, IconOpensSettings, OpenMenu
<1>2. UNCHANGED <<window, notification, iconVars, quit, posted, shellVars>>
  BY DEF UsesTray, IconOpensSettings, OpenMenu, CloseMenu, CloseBox
<1> QED
  BY <1>1, <1>2 DEF TrayTypeOK, iconVars, shellVars

\* A message that is posted from outside, and Explorer.
LEMMA OthersTyped ==
    ASSUME TrayTypeOK,
           (\E m \in TrayMessages : PostToTray(m)) \/ Explorer
    PROVE  TrayTypeOK'
<1>1. ASSUME NEW m \in TrayMessages
      PROVE  Append(posted, m) \in Seq(TrayMessages)
  BY DEF TrayTypeOK
<1>2. CASE Explorer
  <2> USE TrayBoundsAssumption
  <2>1. CASE ExplorerDies
    BY <2>1 DEF ExplorerDies, TrayTypeOK, iconVars, loopVars
  <2>2. CASE ExplorerStarts
    BY <2>2 DEF ExplorerStarts, TrayTypeOK, iconVars, loopVars
  <2>3. CASE ExplorerBroadcasts
    BY <1>1, <2>3 DEF ExplorerBroadcasts, TrayTypeOK, TrayMessages, iconVars, loopVars
  <2> QED
    BY <1>2, <2>1, <2>2, <2>3 DEF Explorer
<1>3. CASE \E m \in TrayMessages : PostToTray(m)
  BY <1>1, <1>3 DEF PostToTray, TrayTypeOK, iconVars, loopVars, shellVars
<1> QED
  BY <1>2, <1>3

-----------------------------------------------------------------------------
(* The process *)

\* While the server thread is there, the tray's window lives or WM_QUIT is posted; a
\* handle that was loaded as null was so because the window had gone.
NoticeInv ==
    /\ server # "none" => window = "alive" \/ quit
    /\ server = "notifying" /\ ~handle => quit
    /\ StopIsNoticed

\* While the tray lives, an icon that icon_added_ does not claim is being
\* retried, so no failed Shell_NotifyIcon is the last attempt.
RetryArmed == window = "alive" /\ ~iconAdded => timer

\* There is no window before main() has created the tray, and none is left once
\* the message loop can end.  Without this the end of main(), which takes the icon
\* away, would break RetryArmed.
WindowInv ==
    /\ main \in {"create", "inline"} => window = "none"
    /\ quit => window = "destroyed"
    /\ main \in {"join", "destroy", "ended"} => window # "alive"

ProcessInv == TypeOK /\ NoticeInv /\ RetryArmed /\ WindowInv

\* No icon, no window, no server: the process starts well.
LEMMA InitHolds == Init => ProcessInv
<1> SUFFICES ASSUME Init
             PROVE  ProcessInv
  OBVIOUS
<1>1. <<>> \in Seq(TrayMessages) /\ <<>> \in Seq({"menu", "box"}) /\ Len(<<>>) = 0
  OBVIOUS
<1>2. 0 <= MaxModal /\ 0 \in 0..MaxRestarts
  BY TrayBoundsAssumption
<1>3. TypeOK
  BY <1>1, <1>2 DEF Init, TrayInit, TypeOK, TrayTypeOK
<1>4. NoticeInv /\ RetryArmed /\ WindowInv
  BY DEF Init, TrayInit, NoticeInv, StopIsNoticed, RetryArmed, WindowInv
<1> QED
  BY <1>3, <1>4 DEF ProcessInv

\* Every step keeps the types.
LEMMA TypesHold ==
    ASSUME ProcessInv, [Next]_vars
    PROVE  TypeOK'
<1> USE DEF ProcessInv, TypeOK
<1>1. CASE TrayCreated
  <2>1. {iconAdded', onTaskbar'} \subseteq BOOLEAN /\ timer' \in BOOLEAN
    BY <1>1, IconTyped DEF TrayCreated, CreateTray, AddIconOrRetry, TrayTypeOK
  <2> QED
    BY <1>1, <2>1 DEF TrayCreated, CreateTray, TrayTypeOK, loopVars
<1>2. CASE PumpsMessage \/ UsesTray
  BY <1>2, PumpsTyped, UsersTyped DEF PumpsMessage, UsesTray, processVars
<1>3. CASE CloseRequest \/ ExplorerMoves \/ NotifiesTray
  <2>1. TrayTypeOK' \/ UNCHANGED trayVars
    BY <1>3, OthersTyped DEF CloseRequest, ExplorerMoves, NotifiesTray, TrayMessages
  <2>2. UNCHANGED trayVars => TrayTypeOK'
    BY DEF trayVars, iconVars, loopVars, shellVars, TrayTypeOK
  <2> QED
    BY <1>3, <2>1, <2>2 DEF CloseRequest, ExplorerMoves, NotifiesTray, processVars
<1>4. CASE Destroys
  <2>1. {iconAdded', onTaskbar'} \subseteq BOOLEAN
    BY <1>4 DEF Destroys, RemoveIcon, TrayTypeOK
  <2> QED
    BY <1>4, <2>1 DEF Destroys, TrayTypeOK, loopVars
<1>5. CASE TrayFailed \/ InlineServerStops \/ LeavesLoop \/ JoinsServer \/ ServerStops
           \/ LoadsHandle \/ UNCHANGED vars
  <2>1. UNCHANGED trayVars
    BY <1>5 DEF TrayFailed, InlineServerStops, LeavesLoop, JoinsServer, ServerStops, LoadsHandle, vars
  <2>2. TrayTypeOK' /\ notification \in BOOLEAN
    BY <2>1 DEF trayVars, iconVars, loopVars, shellVars, TrayTypeOK
  <2> QED
    BY <1>5, <2>2 DEF TrayFailed, InlineServerStops, LeavesLoop, JoinsServer, ServerStops,
        LoadsHandle, vars, processVars
<1> QED
  BY <1>1, <1>2, <1>3, <1>4, <1>5 DEF Next, MainThread, ServerThread

\* Every step keeps the order of the process and the timer of a lost icon.
LEMMA ProcessHolds ==
    ASSUME ProcessInv, [Next]_vars
    PROVE  RetryArmed' /\ WindowInv'
<1> USE DEF ProcessInv, RetryArmed, WindowInv
<1>1. CASE TrayCreated
  BY <1>1 DEF TrayCreated, CreateTray, AddIconOrRetry, AddIconSucceeds, AddIconFails
<1>2. CASE PumpsMessage
  <2>1. main = "loop" /\ main' = "loop" /\ server' = server /\ window = "alive"
    BY <1>2 DEF PumpsMessage, Pumps, OnTaskbarCreated, OnTimer, OnServerStopped, OnClose,
        Dispatch, processVars
  <2>2. CASE OnTaskbarCreated \/ OnTimer
    BY <2>1, <2>2 DEF OnTaskbarCreated, OnTimer, AddIconOrRetry, AddIconSucceeds, AddIconFails
  <2>3. CASE OnServerStopped \/ OnClose
    BY <2>1, <2>3 DEF OnServerStopped, OnClose, DestroyTray
  <2> QED
    BY <1>2, <2>2, <2>3 DEF PumpsMessage, Pumps
<1>3. CASE UsesTray \/ CloseRequest \/ ExplorerMoves \/ UNCHANGED vars
  <2>1. UNCHANGED <<window, iconVars, quit, main, server>>
    BY <1>3 DEF UsesTray, IconOpensSettings, OpenMenu, CloseMenu, CloseBox, CloseRequest,
        PostToTray, ExplorerMoves, Explorer, ExplorerDies, ExplorerStarts, ExplorerBroadcasts,
        processVars, vars, trayVars
  <2> QED
    BY <2>1 DEF iconVars
<1>4. CASE ServerThread
  <2>1. UNCHANGED <<window, iconVars, quit, main>> /\ server # "none" /\ server # "ended"
    BY <1>4 DEF ServerThread, ServerStops, LoadsHandle, NotifiesTray, PostToTray, trayVars
  <2> QED
    BY <2>1 DEF iconVars
<1>5. CASE TrayFailed \/ InlineServerStops \/ LeavesLoop \/ JoinsServer \/ Destroys
  BY <1>5 DEF TrayFailed, InlineServerStops, LeavesLoop, JoinsServer, Destroys, trayVars, iconVars
<1> QED
  BY <1>1, <1>2, <1>3, <1>4, <1>5 DEF Next, MainThread

\* A notice stays in the queue while others are appended, and until it is its turn.
LEMMA NoticeStays ==
    ASSUME NEW q \in Seq(TrayMessages), NEW m \in TrayMessages
    PROVE  /\ Noticed(q) => Noticed(Append(q, m))
           /\ m = "server_stopped" => Noticed(Append(q, m))
           /\ Noticed(q) /\ Head(q) # "server_stopped" => Noticed(Tail(q))
<1>1. Len(q) \in Nat /\ Len(Append(q, m)) = Len(q) + 1 /\ Append(q, m)[Len(q) + 1] = m
      /\ \A i \in 1..Len(q) : Append(q, m)[i] = q[i]
  OBVIOUS
<1>2. ASSUME Noticed(q), Head(q) # "server_stopped"
      PROVE  Noticed(Tail(q))
  <2>1. PICK i \in 1..Len(q) : q[i] = "server_stopped"
    BY <1>2 DEF Noticed
  <2>2. i # 1 /\ q # <<>>
    BY <1>2, <2>1
  <2>3. i - 1 \in 1..Len(Tail(q)) /\ Tail(q)[i - 1] = q[i]
    BY <2>1, <2>2
  <2> QED
    BY <2>1, <2>3 DEF Noticed
<1> QED
  BY <1>1, <1>2 DEF Noticed

\* Every step keeps the notice on its way.
LEMMA NoticeHolds ==
    ASSUME ProcessInv, [Next]_vars
    PROVE  NoticeInv'
<1> USE DEF ProcessInv, NoticeInv, StopIsNoticed
<1>1. posted \in Seq(TrayMessages) /\ (notification <=> window = "alive")
  BY DEF TypeOK, TrayTypeOK
<1>2. CASE TrayCreated
  BY <1>2 DEF TrayCreated, CreateTray
<1>3. CASE PumpsMessage
  <2>1. main = "loop" /\ UNCHANGED <<server, handle>>
    BY <1>3 DEF PumpsMessage, processVars
  <2>2. CASE OnTaskbarCreated
    <3>1. Head(posted) # "server_stopped" /\ posted' = Tail(posted) /\ UNCHANGED <<window, quit>>
      BY <2>2 DEF OnTaskbarCreated, Dispatch
    <3> QED
      BY <1>1, <2>1, <3>1, NoticeStays DEF Noticed, TrayMessages
  <2>3. CASE OnTimer
    BY <2>1, <2>3 DEF OnTimer
  <2>4. CASE OnServerStopped \/ OnClose
    BY <2>1, <2>4 DEF OnServerStopped, OnClose, DestroyTray
  <2> QED
    BY <1>3, <2>2, <2>3, <2>4 DEF PumpsMessage, Pumps
<1>4. CASE UsesTray
  BY <1>4 DEF UsesTray, IconOpensSettings, OpenMenu, CloseMenu, CloseBox, processVars
<1>5. ASSUME NEW m \in TrayMessages, UNCHANGED <<window, quit, server, handle>>,
             posted' = posted \/ posted' = Append(posted, m)
      PROVE  NoticeInv'
  BY <1>1, <1>5, NoticeStays DEF Noticed
<1>6. CASE CloseRequest \/ ExplorerMoves
  BY <1>5, <1>6 DEF CloseRequest, PostToTray, ExplorerMoves, Explorer, ExplorerDies,
     ExplorerStarts, ExplorerBroadcasts, processVars, TrayMessages
<1>7. CASE NotifiesTray
  BY <1>1, <1>7, NoticeStays DEF NotifiesTray, PostToTray, Noticed, TrayMessages, trayVars
<1>8. CASE ServerStops \/ LoadsHandle
  BY <1>1, <1>8 DEF ServerStops, LoadsHandle, trayVars
<1>9. CASE TrayFailed \/ InlineServerStops \/ LeavesLoop \/ JoinsServer \/ Destroys
           \/ UNCHANGED vars
  BY <1>9 DEF TrayFailed, InlineServerStops, LeavesLoop, JoinsServer, Destroys, vars,
     processVars, trayVars
<1> QED
  BY <1>2, <1>3, <1>4, <1>6, <1>7, <1>8, <1>9 DEF Next, MainThread, ServerThread

\* The invariant of the process holds in every behaviour.
LEMMA ProcessInvariant == Spec => []ProcessInv
<1>1. ProcessInv /\ [Next]_vars => ProcessInv'
  BY TypesHold, ProcessHolds, NoticeHolds DEF ProcessInv
<1> QED
  BY <1>1, InitHolds, PTL DEF Spec

\* Every variable keeps its type: the notification window is set exactly while
\* the tray's window lives, and so is its timer (src/service/tray_icon.cpp).
THEOREM ProcessTypeCorrect == Spec => []TypeOK
  BY ProcessInvariant, PTL DEF ProcessInv

\* Once the server thread has ended, the main thread's message loop is going to
\* hear of it: no interleaving of notify_server_stopped() with the end of the
\* window, and no message loop of a menu or a box, loses the notice.
THEOREM StopIsNoticedCorrect == Spec => []StopIsNoticed
  BY ProcessInvariant, PTL DEF ProcessInv, NoticeInv

\* An icon that Shell_NotifyIcon refused is always being retried: at creation,
\* after a new taskbar's broadcast and by the timer itself.
THEOREM RetryArmedCorrect == Spec => []RetryArmed
  BY ProcessInvariant, PTL DEF ProcessInv
=============================================================================
