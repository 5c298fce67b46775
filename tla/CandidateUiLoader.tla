------------------------- MODULE CandidateUiLoader --------------------------
(***************************************************************************)
(* The service's side of the candidate UI DLL                              *)
(* (src/service/candidate_ui_loader.cpp).  present() loads the DLL and     *)
(* starts its thread on first use, hide() never does, and the destructor   *)
(* unloads the DLL unless its thread could not be stopped.                 *)
(*                                                                         *)
(* The loader's mutex is held from the begin of an operation to its end,   *)
(* across the calls into the DLL: that is "op".  CandidateRuntime supplies *)
(* the calls and the UI threads, CandidateService the callers.             *)
(***************************************************************************)
EXTENDS CandidateRuntime

VARIABLES
    module,    \* module_: the DLL and, at the end, what became of it
    started,   \* started_
    op,        \* the operation that holds mutex_, by the DLL call it is in
    abandoned  \* ghost: start_() failed but left a thread behind

loaderVars == <<module, started, op, abandoned>>
uiVars     == <<vars, loaderVars>>

LoaderTypeOK ==
    /\ module \in {"none", "loaded", "freed", "kept"}
    /\ {started, abandoned} \subseteq BOOLEAN
    /\ op \in {"idle", "start", "present", "hide", "stop", "gone"}
    /\ op \in {"idle", "gone"} => call = "idle"
    /\ started => module # "none"

LoaderInit ==
    /\ Init
    /\ module = "none" /\ started = FALSE /\ op = "idle" /\ abandoned = FALSE

\* The mutex is free and no call into the DLL is under way.
Unlocked == op = "idle" /\ call = "idle"

-----------------------------------------------------------------------------
(* present() *)

\* LoadLibraryExW failed, or an export is missing and the DLL was freed again.
PresentFailsToLoad ==
    /\ Unlocked
    /\ module = "none"
    /\ UNCHANGED uiVars

\* First use: the DLL is loaded if need be, and its thread is started.
PresentStarts ==
    /\ Unlocked
    /\ module \in {"none", "loaded"} /\ ~started
    /\ module' = "loaded"
    /\ op' = "start"
    /\ StartAgain \/ StartFails \/ \E t \in Threads : StartThread(t)
    /\ UNCHANGED <<started, abandoned>>

\* Mutant: the failure path keeps the mutex.
PresentGivesUpLocked ==
    /\ op = "start" /\ call = "idle" /\ result = "error"
    /\ UNCHANGED uiVars

\* start_() failed: nothing is presented and started_ stays false.
PresentGivesUp ==
    /\ op = "start" /\ call = "idle" /\ result = "error"
    /\ op' = "idle"
    /\ abandoned' = \/ abandoned \/ thread # NoThread
                    \/ \E t \in Threads : phase[t] \notin {"none", "exited"}
    /\ UNCHANGED <<vars, module, started>>

\* present_(): the snapshot's arguments were validated by the pipe server, so
\* the DLL can only refuse it for lack of memory.
CallsPresent == PresentStore \/ ("memory" \in Faults /\ PresentRejected)

\* Mutant: the result of start_() is not looked at.
PresentUnstarted ==
    /\ op = "start" /\ call = "idle"
    /\ started' = TRUE
    /\ op' = "present"
    /\ CallsPresent
    /\ UNCHANGED <<module, abandoned>>

PresentAfterStart ==
    /\ op = "start" /\ call = "idle" /\ result = "ok"
    /\ started' = TRUE
    /\ op' = "present"
    /\ CallsPresent
    /\ UNCHANGED <<module, abandoned>>

PresentStarted ==
    /\ Unlocked
    /\ started
    /\ op' = "present"
    /\ CallsPresent
    /\ UNCHANGED <<module, started, abandoned>>

LoaderPresent == PresentFailsToLoad \/ PresentStarts \/ PresentStarted

-----------------------------------------------------------------------------
(* hide() *)

LoaderHide ==
    /\ Unlocked
    /\ IF started THEN HideReset /\ op' = "hide"
       ELSE UNCHANGED <<vars, op>>
    /\ UNCHANGED <<module, started, abandoned>>

\* present_() or hide_() came back: the mutex is released.
LoaderReturns ==
    /\ op \in {"present", "hide"} /\ call = "idle"
    /\ op' = "idle"
    /\ UNCHANGED <<vars, module, started, abandoned>>

-----------------------------------------------------------------------------
(* ~CandidateUiLoader() *)

\* Without a started thread the DLL is freed, or there is none to free.
DestroyAtOnce ==
    /\ Unlocked
    /\ ~started
    /\ module' = IF module = "loaded" THEN "freed" ELSE module
    /\ op' = "gone"
    /\ UNCHANGED <<vars, started, abandoned>>

DestroyStops ==
    /\ Unlocked
    /\ started
    /\ op' = "stop"
    /\ StopNothing \/ StopReset
    /\ UNCHANGED <<module, started, abandoned>>

\* Mutant: the DLL is freed whatever stop_() returned.
DestroyFrees ==
    /\ op = "stop" /\ call = "idle"
    /\ module' = "freed"
    /\ op' = "gone"
    /\ UNCHANGED <<vars, started, abandoned>>

\* The DLL is freed only if stop_() returned zero.
DestroyEnds ==
    /\ op = "stop" /\ call = "idle"
    /\ module' = IF result = "ok" THEN "freed" ELSE "kept"
    /\ op' = "gone"
    /\ UNCHANGED <<vars, started, abandoned>>

LoaderDestroy == DestroyAtOnce \/ DestroyStops

-----------------------------------------------------------------------------
(* Properties *)

\* The code of the DLL is never unmapped under a thread that still runs it:
\* the destructor frees the module only when no UI thread is alive, although
\* it asks stop_() only if started_ is set.  Only a thread that start() gave up
\* on escapes it.
UnloadSafe ==
    module = "freed" /\ ~abandoned => \A t \in Threads : phase[t] \in {"none", "exited"}

\* After a successful start the thread stays reachable for as long as the
\* loader uses it, so started_ never has to be taken back.
StartedIsReachable ==
    started /\ ~abandoned /\ op \in {"idle", "present", "hide"} =>
        thread # NoThread /\ commandWindow = thread /\ phase[thread] = "loop"
=============================================================================
