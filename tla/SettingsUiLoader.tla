-------------------------- MODULE SettingsUiLoader ---------------------------
(***************************************************************************)
(* The service's side of the settings UI DLL                               *)
(* (src/service/settings_ui_loader.cpp), with the DLL behind it.  Only the *)
(* main thread uses the loader: the tray opens the settings through show(),*)
(* and the end of main() destroys it.  show() loads the DLL and starts its *)
(* thread on first use; the destructor unloads the DLL unless its thread   *)
(* could not be stopped.                                                   *)
(*                                                                         *)
(* An error is reported in a message box on the main thread, after which   *)
(* nothing is left to do: ServiceProcess has that box.                     *)
(***************************************************************************)
EXTENDS SettingsRuntime

VARIABLES
    module,    \* module_: the DLL and, at the end, what became of it
    started,   \* started_
    op,        \* the DLL call that the main thread is in
    abandoned  \* ghost: start_() failed but left a thread, or its handle

loaderVars   == <<module, started, op, abandoned>>
settingsVars == <<runtimeVars, loaderVars>>

SettingsTypeOK ==
    /\ RuntimeTypeOK
    /\ module \in {"none", "loaded", "freed", "kept"}
    /\ {started, abandoned} \subseteq BOOLEAN
    /\ op \in {"idle", "start", "stop", "gone"}
    /\ op \in {"idle", "gone"} => call = "idle"
    /\ started => module # "none"

SettingsInit ==
    /\ RuntimeInit
    /\ module = "none" /\ started = FALSE /\ op = "idle" /\ abandoned = FALSE

Free == op = "idle" /\ call = "idle"

-----------------------------------------------------------------------------
(* show() *)

\* First use: the DLL is loaded if need be, and its thread is started.  (A DLL
\* that cannot be loaded leaves everything as it was.)
ShowStarts ==
    /\ Free /\ ~started /\ requested < MaxRequests
    /\ module' = "loaded"
    /\ op' = "start"
    /\ StartAgain \/ StartFails \/ \E t \in Threads : StartThread(t)
    /\ UNCHANGED <<started, abandoned>>

ShowGivesUp ==
    /\ op = "start" /\ call = "idle" /\ result = "error"
    /\ op' = "idle"
    /\ abandoned' = \/ abandoned \/ thread # NoThread
                    \/ \E t \in Threads : phase[t] \notin {"none", "exited"}
    /\ UNCHANGED <<runtimeVars, module, started>>

\* Mutant: started_ is set although the start failed.
ShowUnstarted ==
    /\ op = "start" /\ call = "idle"
    /\ started' = TRUE
    /\ op' = "idle"
    /\ Show
    /\ UNCHANGED <<module, abandoned>>

ShowAfterStart ==
    /\ op = "start" /\ call = "idle" /\ result = "ok"
    /\ started' = TRUE
    /\ op' = "idle"
    /\ Show
    /\ UNCHANGED <<module, abandoned>>

ShowStarted == Free /\ started /\ Show /\ UNCHANGED loaderVars

\* The loader does not use hide(), but the DLL exports it to the process.  (The
\* bound leaves a request for the show() that is being made.)
HideExported ==
    /\ module = "loaded" /\ op # "gone"
    /\ op = "start" => requested + 1 < MaxRequests
    /\ Hide
    /\ UNCHANGED loaderVars

-----------------------------------------------------------------------------
(* ~SettingsUiLoader() *)

\* Without a started thread the DLL is freed, or there is none to free.
DestroyAtOnce ==
    /\ Free /\ ~started
    /\ module' = IF module = "loaded" THEN "freed" ELSE module
    /\ op' = "gone"
    /\ UNCHANGED <<runtimeVars, started, abandoned>>

DestroyStops ==
    /\ Free /\ started
    /\ op' = "stop"
    /\ Stop
    /\ UNCHANGED <<module, started, abandoned>>

\* Mutant: the DLL is freed whatever stop_() returned.
DestroyFrees ==
    /\ op = "stop" /\ call = "idle"
    /\ module' = "freed"
    /\ op' = "gone"
    /\ UNCHANGED <<runtimeVars, started, abandoned>>

DestroyEnds ==
    /\ op = "stop" /\ call = "idle"
    /\ module' = IF result = "ok" THEN "freed" ELSE "kept"
    /\ op' = "gone"
    /\ UNCHANGED <<runtimeVars, started, abandoned>>

-----------------------------------------------------------------------------
LoaderReturns == ShowGivesUp \/ ShowAfterStart \/ DestroyEnds

MainReturns  == LoaderReturns \/ (CallReturns /\ UNCHANGED loaderVars)
MainGivesUp  == (StartWaitFails \/ StopTimesOut) /\ UNCHANGED loaderVars

MainThread ==
    \/ ShowStarts \/ ShowStarted \/ DestroyAtOnce \/ DestroyStops
    \/ MainReturns \/ MainGivesUp

Ui(t)   == UiSteps(t) /\ UNCHANGED loaderVars
User(t) == UserSteps(t) /\ UNCHANGED loaderVars

CheckWorker == Worker /\ UNCHANGED loaderVars

SettingsNext ==
    \/ MainThread \/ HideExported \/ CheckWorker
    \/ \E t \in Threads : Ui(t) \/ User(t)

SettingsSpec == SettingsInit /\ [][SettingsNext]_settingsVars

\* Threads run, and the request's timer fires.  The network owes no answer, the
\* user no click, and nobody has to show, to hide or to end.
FairSettingsSpec ==
    /\ SettingsSpec
    /\ WF_settingsVars(MainReturns)
    /\ \A t \in Threads : WF_settingsVars(Ui(t))
    /\ WF_settingsVars(TimedOut /\ CheckWorker)
    /\ WF_settingsVars((Complete \/ StoreIdle \/ Exit) /\ CheckWorker)

-----------------------------------------------------------------------------
(* Properties *)

Ended(t) == phase[t] \in {"none", "exited"}

\* The code of the DLL is never unmapped under a thread that runs it, be it the
\* UI thread or the worker of an update check that it has begun.  Only a thread
\* that start() gave up on escapes the destructor.
SettingsUnloadSafe ==
    module = "freed" /\ ~abandoned =>
        worker \in {"none", "exited"} /\ \A t \in Threads : Ended(t)

\* A UI thread takes everything along when it ends, by a stop or by an exception
\* out of its loop: the window, the results in its queue, the worker, and every
\* message box.
NothingOutlivesThread ==
    (\A t \in Threads : phase[t] \notin {"loop", "quitting", "unwinding", "destructing"}) =>
        /\ ui \in {"closed", "gone"} /\ ~visible
        /\ queue = <<>> /\ boxes = 0
        /\ worker \in {"none", "exited"}

\* After a successful start the loader's requests reach a thread that has a
\* window to show, unless an exception has ended its loop.
StartedServes ==
    started /\ ~abandoned /\ ~crashed /\ op = "idle" =>
        /\ thread # NoThread /\ commandWindow = thread /\ settingsWindow = thread
        /\ phase[thread] = "loop"

\* "Settings UI calls are queued to the DLL's STA thread" (README.md:14): once
\* start() has succeeded, a show() puts its message into the thread's queue.
ShowIsQueued ==
    [][ShowStarted => \E t \in Threads : inbox'[t] = Append(inbox[t], "show")]_settingsVars

\* start() returns to the main thread: every way a thread can begin, the failing
\* ones included, signals the event.
StartReturns == op = "start" ~> op # "start"

\* A stop message that was queued ends its thread, and the destructor with it,
\* also while an error message box waits for its user or a check for the network.
StopEnds ==
    \A t \in Threads :
        (\E i \in 1..Len(inbox[t]) : inbox[t][i] = "stop") /\ phase[t] = "loop"
            ~> phase[t] = "exited"

\* What the settings UI promises, with the window's own state left out.  A start
\* that was given up on may leave a thread whose end takes the pointers of the
\* next one away, which then serves nobody: the promise ends there.
Serving == {t \in Threads : phase[t] = "loop" /\ ~abandoned}

\* The messages of a queue that are still dealt with as requests: a stop drops
\* what was posted after it.
Heeded(q) ==
    IF \E i \in 1..Len(q) : q[i] = "stop"
    THEN SubSeq(q, 1, (CHOOSE i \in 1..Len(q) : q[i] = "stop") - 1)
    ELSE q

Alive    == Serving # {}
Requests == IF Alive THEN Heeded(inbox[CHOOSE t \in Serving : TRUE]) ELSE <<>>
OnScreen == visible /\ ~abandoned

Door == INSTANCE SettingsDoor WITH
    alive <- Alive, requests <- Requests, visible <- OnScreen

\* The runtime and its loader keep the promise of SettingsDoor: each request that
\* was queued is dealt with, in order and once, unless the thread ends.
DoorKept == Door!LiveDoorSpec
=============================================================================
