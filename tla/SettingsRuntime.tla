--------------------------- MODULE SettingsRuntime ---------------------------
(***************************************************************************)
(* The settings UI runtime of the DLL (src/settings/settings_runtime.cpp). *)
(*                                                                         *)
(* The caller (the service's main thread, by its loader) uses start, show, *)
(* hide and stop; a UI thread owns a SettingsWindow and a message-only     *)
(* command window.  A posted message is all of a request: there is no slot *)
(* as the candidate UI has one.  What can go wrong lies on the UI thread:  *)
(* opening the window may fail, which is told in a message box that runs a *)
(* message loop of its own, and the XAML island may throw out of the outer *)
(* message loop, which ends the thread.                                    *)
(***************************************************************************)
EXTENDS SettingsWindow

CONSTANTS
    Threads,      \* the UI threads that may ever be created
    NoThread,     \* the null handle / the null window
    MaxRequests,  \* bound: show and hide requests in a behaviour
    QueueLimit,   \* posted messages the command window's queue holds
    Faults        \* rare faults that this instance admits

ASSUME NoThreadAssumption == NoThread \notin Threads
\* The first check of each show() is within the bound on checks.
ASSUME BoundsAssumption == MaxRequests \in 0..MaxChecks /\ QueueLimit \in Nat

\* "wait": the wait of start() on its ready event fails at once.
\* "linger": a thread that failed to start is still running its cleanup when
\* the ten seconds start() waits for it are over.
\* "create": the settings window cannot be made.
\* "island": PreTranslateMessage of the XAML island fails.
ASSUME FaultsAssumption == Faults \subseteq {"wait", "linger", "create", "island"}

VARIABLES
    thread,          \* thread_
    commandWindow,   \* command_window_, named by the thread that owns it
    settingsWindow,  \* settings_window_, named the same way
    startResult,     \* start_result_
    ready,           \* ready_event_ is signalled
    phase,           \* where each UI thread is in thread_main
    inbox,           \* posted messages of each thread's command window
    boxes,           \* error message boxes, one above the other
    call,            \* where the caller is inside the API
    result,          \* what the last call returned
    requested,       \* requests made, for the bound
    crashed          \* ghost: an exception ended a message loop

lifeVars    == <<thread, commandWindow, settingsWindow, startResult, ready, phase>>
callVars    == <<call, result, requested>>
runtimeVars == <<windowVars, lifeVars, inbox, boxes, callVars, crashed>>

Messages == {"show", "hide", "stop"}
Phases == {"none", "starting", "loop", "quitting", "unwinding", "destructing",
           "cleanup", "exited"}

RuntimeTypeOK ==
    /\ WindowTypeOK
    /\ {thread, commandWindow, settingsWindow} \subseteq Threads \cup {NoThread}
    /\ startResult \in {"ok", "error"} /\ result \in {"ok", "error"}
    /\ ready \in BOOLEAN /\ crashed \in BOOLEAN
    /\ phase \in [Threads -> Phases]
    /\ inbox \in [Threads -> Seq(Messages)]
    /\ boxes \in 0..MaxRequests /\ requested \in 0..MaxRequests
    /\ call \in {"idle", "start_wait", "start_join", "stop_wait"}

RuntimeInit ==
    /\ WindowInit
    /\ thread = NoThread /\ commandWindow = NoThread /\ settingsWindow = NoThread
    /\ startResult = "error" /\ ready = FALSE
    /\ phase = [t \in Threads |-> "none"]
    /\ inbox = [t \in Threads |-> <<>>]
    /\ boxes = 0 /\ call = "idle" /\ result = "ok"
    /\ requested = 0 /\ crashed = FALSE

GoesTo(t, p) == phase' = [phase EXCEPT ![t] = p]

-----------------------------------------------------------------------------
(* start() *)

Return(r) == call' = "idle" /\ result' = r

StartUnchanged == UNCHANGED <<windowVars, inbox, boxes, requested, crashed>>

\* thread_ is already there: nothing to do, even if that thread has ended.
StartAgain ==
    /\ call = "idle" /\ thread # NoThread
    /\ Return("ok")
    /\ UNCHANGED lifeVars /\ StartUnchanged

\* CreateEventW or CreateThread failed: every field is back at its old value.
StartFails ==
    /\ call = "idle" /\ thread = NoThread
    /\ Return("error")
    /\ startResult' \in {startResult, "error"}
    /\ UNCHANGED <<thread, commandWindow, settingsWindow, ready, phase>>
    /\ StartUnchanged

StartThread(t) ==
    /\ call = "idle" /\ thread = NoThread
    /\ phase[t] = "none"
    /\ thread' = t
    /\ GoesTo(t, "starting")
    /\ startResult' = "error" /\ ready' = FALSE
    /\ call' = "start_wait"
    /\ UNCHANGED <<commandWindow, settingsWindow, result>>
    /\ StartUnchanged

\* The event is signalled.  A failed start goes on to wait for the thread.
StartReady ==
    /\ call = "start_wait" /\ ready
    /\ IF startResult = "ok" THEN Return("ok")
       ELSE call' = "start_join" /\ UNCHANGED result
    /\ UNCHANGED lifeVars /\ StartUnchanged

\* The wait itself failed: start() gives up but thread_ stays set.
StartWaitFails ==
    /\ "wait" \in Faults
    /\ call = "start_wait"
    /\ Return("error")
    /\ UNCHANGED lifeVars /\ StartUnchanged

\* The handle of a failed thread is dropped, ended or not.
StartJoin ==
    /\ call = "start_join"
    /\ phase[thread] = "exited" \/ "linger" \in Faults
    /\ thread' = NoThread
    /\ Return("error")
    /\ UNCHANGED <<commandWindow, settingsWindow, startResult, ready, phase>>
    /\ StartUnchanged

-----------------------------------------------------------------------------
(* show(), hide() and stop() *)

\* The command window lives from the start of the message loop to the stop
\* message, or to the end of a thread that an exception takes out of its loop.
CanPost ==
    /\ commandWindow # NoThread
    /\ phase[commandWindow] \in {"loop", "unwinding", "cleanup"}
    /\ Len(inbox[commandWindow]) < QueueLimit

\* post(): nobody is told when the message is not queued.
Post(m) ==
    inbox' = IF CanPost THEN [inbox EXCEPT ![commandWindow] = Append(@, m)] ELSE inbox

Request(m) ==
    /\ requested < MaxRequests
    /\ requested' = requested + 1
    /\ Post(m)
    /\ UNCHANGED <<windowVars, lifeVars, boxes, call, result, crashed>>

Show == Request("show")
Hide == Request("hide")

StopNothing ==
    /\ call = "idle" /\ thread = NoThread
    /\ Return("ok")
    /\ UNCHANGED <<lifeVars, inbox>>

StopPost ==
    /\ call = "idle" /\ thread # NoThread
    /\ Post("stop")
    /\ call' = "stop_wait"
    /\ UNCHANGED <<lifeVars, result>>

Stop ==
    /\ StopNothing \/ StopPost
    /\ UNCHANGED <<windowVars, boxes, requested, crashed>>

StopJoined ==
    /\ call = "stop_wait"
    /\ phase[thread] = "exited"
    /\ thread' = NoThread
    /\ Return("ok")
    /\ UNCHANGED <<commandWindow, settingsWindow, startResult, ready, phase>>
    /\ StartUnchanged

\* Ten seconds have passed (or the wait failed): thread_ is kept.
StopTimesOut ==
    /\ call = "stop_wait"
    /\ Return("error")
    /\ UNCHANGED lifeVars /\ StartUnchanged

\* A call in progress goes on; only the first three come by themselves.
CallReturns   == StartReady \/ StartJoin \/ StopJoined
CallContinues == CallReturns \/ StartWaitFails \/ StopTimesOut

-----------------------------------------------------------------------------
(* thread_main() *)

UiUnchanged == UNCHANGED <<thread, callVars>>

\* A fresh SettingsWindow on the thread's stack.
FreshWindow ==
    /\ ui' = "closed" /\ targetOpen' = FALSE
    /\ checking' = FALSE /\ worker' = "none" /\ held' = Failed /\ queue' = <<>>
    /\ button' = TRUE /\ status' = "none" /\ download' = 0
    /\ latest' = Failed /\ lost' = FALSE
    /\ visible' = FALSE /\ dark' = FALSE /\ pagePaint' = FALSE
    /\ tone' = "secondary"
    /\ statusPaint' = [dark |-> FALSE, tone |-> "secondary"]
    /\ UNCHANGED <<installed, checks>>

ThreadStarted(t) ==
    /\ phase[t] = "starting"
    /\ FreshWindow
    /\ settingsWindow' = t /\ commandWindow' = t
    /\ startResult' = "ok" /\ ready' = TRUE
    /\ GoesTo(t, "loop")
    /\ UNCHANGED <<inbox, boxes, crashed>> /\ UiUnchanged

\* Mutant: a failure path that does not signal the event.
ThreadFailedSilently(t) ==
    /\ phase[t] = "starting"
    /\ settingsWindow' \in {settingsWindow, t}
    /\ startResult' = "error"
    /\ GoesTo(t, "cleanup")
    /\ UNCHANGED <<windowVars, commandWindow, ready, inbox, boxes, crashed>> /\ UiUnchanged

\* Apartment, window class or command window failed, the last one after
\* settings_window_ was set.  The caller is woken BEFORE the thread's end.
ThreadFailed(t) ==
    /\ phase[t] = "starting"
    /\ settingsWindow' \in {settingsWindow, t}
    /\ startResult' = "error" /\ ready' = TRUE
    /\ GoesTo(t, "cleanup")
    /\ UNCHANGED <<windowVars, commandWindow, inbox, boxes, crashed>> /\ UiUnchanged

\* WM_QUIT ended the loop once no message box was left in between, and the
\* window is destroyed.  What is left in the queue is drained: results only,
\* and there are none.
ThreadQuits(t) ==
    /\ phase[t] = "quitting" /\ ui = "leaving" /\ boxes = 0
    /\ settingsWindow' = NoThread /\ commandWindow' = NoThread
    /\ GoesTo(t, "destructing")
    /\ UNCHANGED <<windowVars, startResult, ready, inbox, boxes, crashed>> /\ UiUnchanged

\* Mutant: the worker is left to itself.
DetachesWorker(t) ==
    /\ phase[t] \in {"destructing", "unwinding"}
    /\ ui = "leaving" /\ ui' = "gone"
    /\ GoesTo(t, "cleanup")
    /\ startResult' = IF phase[t] = "unwinding" THEN "error" ELSE startResult
    /\ UNCHANGED <<installed, targetOpen, queue, workerVars, uiVars, visible,
                   paintVars, commandWindow, settingsWindow, ready, inbox, boxes,
                   crashed>>
    /\ UiUnchanged

\* ~SettingsWindow() joins the worker, at the end of the loop or, after an
\* exception, before it is caught.
Destructs(t) ==
    /\ phase[t] \in {"destructing", "unwinding"}
    /\ JoinsWorker
    /\ GoesTo(t, "cleanup")
    /\ startResult' = IF phase[t] = "unwinding" THEN "error" ELSE startResult
    /\ UNCHANGED <<commandWindow, settingsWindow, ready, inbox, boxes, crashed>>
    /\ UiUnchanged

\* The pointers are cleared whoever they belong to by now, and a command window
\* that is still there goes with the thread.
ThreadExits(t) ==
    /\ phase[t] = "cleanup"
    /\ settingsWindow' = NoThread /\ commandWindow' = NoThread
    /\ GoesTo(t, "exited")
    /\ inbox' = [inbox EXCEPT ![t] = <<>>]
    /\ UNCHANGED <<windowVars, startResult, ready, boxes, crashed>> /\ UiUnchanged

-----------------------------------------------------------------------------
(* The message loop, or that of a message box above it *)

\* The UI thread is between two messages of its command window.
Receives(t, m) ==
    /\ phase[t] = "loop" /\ ui \in {"closed", "loop"}
    /\ inbox[t] # <<>> /\ Head(inbox[t]) = m
    /\ UiUnchanged /\ UNCHANGED crashed

Consumes(t) == inbox' = [inbox EXCEPT ![t] = Tail(@)]

\* show_on_thread(): a failure is told in a message box, and a later request
\* tries again.
HandleShow(t) ==
    /\ Receives(t, "show") /\ Consumes(t)
    /\ \/ settingsWindow # NoThread /\ (CreateAndShow \/ ShowAgain) /\ UNCHANGED boxes
       \/ /\ "create" \in Faults /\ settingsWindow # NoThread
          /\ CreateFails /\ boxes' = boxes + 1
       \/ settingsWindow = NoThread /\ UNCHANGED <<windowVars, boxes>>
    /\ UNCHANGED <<commandWindow, settingsWindow, startResult, ready, phase>>

\* Mutant: hide takes a window away only if the button's check has ended.
HandleHideUnlessChecking(t) ==
    /\ Receives(t, "hide") /\ Consumes(t)
    /\ IF ui = "loop" /\ visible /\ ~checking THEN HideWindow ELSE UNCHANGED windowVars
    /\ UNCHANGED <<boxes, commandWindow, settingsWindow, startResult, ready, phase>>

HandleHide(t) ==
    /\ Receives(t, "hide") /\ Consumes(t)
    /\ IF settingsWindow # NoThread /\ ui = "loop" /\ visible THEN HideWindow
       ELSE UNCHANGED windowVars
    /\ UNCHANGED <<boxes, commandWindow, settingsWindow, startResult, ready, phase>>

\* The settings window is destroyed, here or at the end of the loop; the command
\* window goes with what is still posted to it, and WM_QUIT ends every loop.
HandleStop(t) ==
    /\ Receives(t, "stop")
    /\ inbox' = [inbox EXCEPT ![t] = <<>>]
    /\ BeginsDestroy
    /\ GoesTo(t, "quitting")
    /\ UNCHANGED <<boxes, commandWindow, settingsWindow, startResult, ready>>

\* Mutant: a message box waits for its user, whatever has been posted.
BoxWaits(t) == phase[t] = "loop" /\ ui \in {"closed", "loop"}

\* The user dismisses the topmost message box, or WM_QUIT ends it.
BoxMayEnd(t) ==
    \/ phase[t] = "loop" /\ ui \in {"closed", "loop"}
    \/ phase[t] = "quitting" /\ ui = "leaving"

BoxEnds(t) ==
    /\ boxes > 0 /\ BoxMayEnd(t)
    /\ boxes' = boxes - 1
    /\ UNCHANGED <<windowVars, lifeVars, inbox, callVars, crashed>>

\* pretranslate() throws: only the outer loop calls it, and it asks the island,
\* which is there for as long as the window.
IslandThrows(t) ==
    /\ "island" \in Faults
    /\ phase[t] = "loop" /\ ui = "loop" /\ boxes = 0
    /\ BeginsDestroy
    /\ GoesTo(t, "unwinding")
    /\ crashed' = TRUE
    /\ UNCHANGED <<commandWindow, settingsWindow, startResult, ready, inbox, boxes>>
    /\ UiUnchanged

\* What the thread goes on with inside a message, or at its end.
HandlerGoesOn(t) ==
    /\ phase[t] \in {"loop", "quitting", "unwinding"}
    /\ (ui = "showing" /\ BeginsCheck) \/ StartsWorker \/ GoesOnDestroying
    /\ UNCHANGED <<lifeVars, inbox, boxes, callVars, crashed>>

\* The settings window's own messages.  A click leaves checks for the requests.
WindowMessage(t) ==
    /\ phase[t] = "loop" /\ ui = "loop"
    /\ \/ AppliesResult \/ HideWindow \/ ThemeMessage
       \/ checks + MaxRequests < MaxChecks /\ BeginsCheck
    /\ UNCHANGED <<lifeVars, inbox, boxes, callVars, crashed>>

Worker == WorkerThread /\ UNCHANGED <<lifeVars, inbox, boxes, callVars, crashed>>

\* What the UI thread does of itself, and what its user makes it do.
UiSteps(t) ==
    \/ ThreadStarted(t) \/ ThreadFailed(t) \/ ThreadQuits(t) \/ Destructs(t) \/ ThreadExits(t)
    \/ HandleShow(t) \/ HandleHide(t) \/ HandleStop(t) \/ HandlerGoesOn(t)
    \/ phase[t] = "quitting" /\ BoxEnds(t)

UserSteps(t) ==
    WindowMessage(t) \/ IslandThrows(t) \/ (phase[t] = "loop" /\ BoxEnds(t))

UiThread(t) == UiSteps(t) \/ UserSteps(t)
=============================================================================
