-------------------------- MODULE CandidateRuntime --------------------------
(***************************************************************************)
(* The candidate UI runtime of the DLL (src/candidate/candidate_runtime.cpp)*)
(*                                                                         *)
(* Two kinds of thread take part.  A caller (the service, one call at a    *)
(* time: CandidateUiLoader::mutex_) uses start, present, hide and stop.    *)
(* A UI thread owns the popup and a message-only command window; the       *)
(* caller hands work over by posting to that window.  A presentation is    *)
(* NOT carried by its message: it goes into the single slot                *)
(* pending_presentation_, and the message only says "look at the slot".    *)
(*                                                                         *)
(* Presentations are numbered in the order they are submitted.             *)
(***************************************************************************)
EXTENDS Naturals, Sequences

CONSTANTS
    Threads,           \* the UI threads that may ever be created
    NoThread,          \* the null handle / the null window
    MaxPresentations,  \* bound: presentations submitted in a behaviour
    QueueLimit,        \* posted messages the command window's queue holds
    Faults             \* rare faults of Windows that this instance admits

ASSUME NoThreadAssumption == NoThread \notin Threads
ASSUME BoundsAssumption == MaxPresentations \in Nat /\ QueueLimit \in Nat

\* "wait": the wait of start() on its ready event fails at once.
\* "linger": a thread that failed to start is still running its cleanup when
\* the ten seconds start() waits for it are over.
\* "memory": a well-formed snapshot cannot be copied for lack of memory.
ASSUME FaultsAssumption == Faults \subseteq {"wait", "linger", "memory"}

VARIABLES
    thread,           \* thread_
    pending,          \* pending_presentation_, 0 when reset
    commandWindow,    \* command_window_, named by the thread that owns it
    candidateWindow,  \* candidate_window_, named the same way
    startResult,      \* start_result_
    ready,            \* ready_event_ is signalled
    phase,            \* where each UI thread is in thread_main
    inbox,            \* posted messages of each thread's command window
    created,          \* the popup has a window (Window::hwnd_)
    shown,            \* the presentation on the screen, 0 when not visible
    call,             \* where the caller is inside the API
    result,           \* what the last call returned
    submitted,        \* ghost: presentations stored in the slot so far
    last,             \* ghost: the last command that changed the slot
    refused,          \* ghost: the last command's message was not queued
    lingered          \* ghost: a thread was left to itself while it ran

callerVars == <<call, result, submitted, last, refused, lingered>>
popupVars  == <<created, shown>>
lifeVars   == <<thread, commandWindow, candidateWindow, startResult, ready, phase>>
vars == <<thread, pending, commandWindow, candidateWindow, startResult, ready,
          phase, inbox, created, shown, call, result, submitted, last, refused,
          lingered>>

Numbers  == 0..MaxPresentations
Messages == {"present", "hide", "stop"}
Phases   == {"none", "starting", "loop", "quitting", "cleanup", "exited"}
Calls    == {"idle", "start_wait", "start_join", "present_post", "hide_post",
             "stop_post", "stop_wait"}
Waits    == {"start_wait", "start_join", "stop_post", "stop_wait"}

\* A call that waits for a thread, or is about to, has its handle.
TypeOK ==
    /\ thread \in Threads \cup {NoThread}
    /\ pending \in Numbers
    /\ commandWindow \in Threads \cup {NoThread}
    /\ candidateWindow \in Threads \cup {NoThread}
    /\ startResult \in {"ok", "error"}
    /\ ready \in BOOLEAN
    /\ phase \in [Threads -> Phases]
    /\ inbox \in [Threads -> Seq(Messages)]
    /\ created \in BOOLEAN
    /\ shown \in Numbers
    /\ call \in Calls
    /\ result \in {"ok", "error"}
    /\ submitted \in Numbers
    /\ last \in {"none", "present", "hide", "stop"}
    /\ refused \in BOOLEAN
    /\ lingered \in BOOLEAN
    /\ call \in Waits => thread # NoThread

Init ==
    /\ thread = NoThread
    /\ pending = 0
    /\ commandWindow = NoThread
    /\ candidateWindow = NoThread
    /\ startResult = "error"
    /\ ready = FALSE
    /\ phase = [t \in Threads |-> "none"]
    /\ inbox = [t \in Threads |-> <<>>]
    /\ created = FALSE
    /\ shown = 0
    /\ call = "idle"
    /\ result = "ok"
    /\ submitted = 0
    /\ last = "none"
    /\ refused = FALSE
    /\ lingered = FALSE

-----------------------------------------------------------------------------
(* start() *)

Return(r) == call' = "idle" /\ result' = r

\* thread_ is already there: nothing to do, even if that thread has ended.
StartAgain ==
    /\ call = "idle"
    /\ thread # NoThread
    /\ Return("ok")
    /\ UNCHANGED <<lifeVars, pending, inbox, popupVars, submitted, last, refused, lingered>>

\* CreateEventW or CreateThread failed: every field is back at its old value.
StartFails ==
    /\ call = "idle"
    /\ thread = NoThread
    /\ Return("error")
    /\ startResult' \in {startResult, "error"}
    /\ UNCHANGED <<thread, commandWindow, candidateWindow, ready, phase, pending,
                   inbox, popupVars, submitted, last, refused, lingered>>

\* The thread is created and the caller waits for its ready event.
StartThread(t) ==
    /\ call = "idle"
    /\ thread = NoThread
    /\ phase[t] = "none"
    /\ thread' = t
    /\ phase' = [phase EXCEPT ![t] = "starting"]
    /\ startResult' = "error"
    /\ ready' = FALSE
    /\ call' = "start_wait"
    /\ UNCHANGED <<commandWindow, candidateWindow, pending, inbox, popupVars,
                   result, submitted, last, refused, lingered>>

\* The event is signalled.  A failed start goes on to wait for the thread.
StartReady ==
    /\ call = "start_wait"
    /\ ready
    /\ IF startResult = "ok" THEN Return("ok")
       ELSE call' = "start_join" /\ UNCHANGED result
    /\ UNCHANGED <<lifeVars, pending, inbox, popupVars, submitted, last, refused, lingered>>

\* The wait itself failed: start() gives up but thread_ stays set.
StartWaitFails ==
    /\ "wait" \in Faults
    /\ call = "start_wait"
    /\ Return("error")
    /\ UNCHANGED <<lifeVars, pending, inbox, popupVars, submitted, last, refused, lingered>>

\* The wait on the failed thread is over.  Its result is not looked at: the
\* handle is dropped whether the thread has ended or ten seconds have passed.
StartJoin ==
    /\ call = "start_join"
    /\ phase[thread] = "exited" \/ "linger" \in Faults
    /\ lingered' = (lingered \/ phase[thread] # "exited")
    /\ thread' = NoThread
    /\ Return("error")
    /\ UNCHANGED <<commandWindow, candidateWindow, startResult, ready, phase,
                   pending, inbox, popupVars, submitted, last, refused>>

-----------------------------------------------------------------------------
(* post() *)

\* The thread's command window exists from the start of its message loop to
\* the DestroyWindow of its stop message.
CanPost ==
    /\ commandWindow # NoThread
    /\ phase[commandWindow] = "loop"
    /\ Len(inbox[commandWindow]) < QueueLimit

Post(m) ==
    IF CanPost
    THEN /\ inbox' = [inbox EXCEPT ![commandWindow] = Append(@, m)]
         /\ refused' = FALSE
    ELSE refused' = TRUE /\ UNCHANGED inbox

-----------------------------------------------------------------------------
(* present() *)

\* copy_presentation refuses the snapshot before anything is stored.
PresentRejected ==
    /\ call = "idle"
    /\ Return("error")
    /\ UNCHANGED <<lifeVars, pending, inbox, popupVars, submitted, last, refused, lingered>>

PresentStore ==
    /\ call = "idle"
    /\ submitted < MaxPresentations
    /\ submitted' = submitted + 1
    /\ pending' = submitted'
    /\ last' = "present"
    /\ call' = "present_post"
    /\ UNCHANGED <<lifeVars, inbox, popupVars, result, refused, lingered>>

\* A refused PostMessage leaves its error code.  Without a command window
\* nothing was called, and GetLastError() is whatever it was, zero included.
PresentPost ==
    /\ call = "present_post"
    /\ Post("present")
    /\ call' = "idle"
    /\ \/ CanPost /\ result' = "ok"
       \/ ~CanPost /\ result' = "error"
       \/ commandWindow = NoThread /\ result' = "ok"
    /\ UNCHANGED <<lifeVars, pending, popupVars, submitted, last, lingered>>

-----------------------------------------------------------------------------
(* hide() *)

\* Mutant: the slot is not reset.
HideKeepsSlot ==
    /\ call = "idle"
    /\ last' = "hide"
    /\ call' = "hide_post"
    /\ UNCHANGED <<lifeVars, pending, inbox, popupVars, result, submitted, refused, lingered>>

HideReset ==
    /\ call = "idle"
    /\ pending' = 0
    /\ last' = "hide"
    /\ call' = "hide_post"
    /\ UNCHANGED <<lifeVars, inbox, popupVars, result, submitted, refused, lingered>>

\* hide() returns nothing and ignores what post() said.
HidePost ==
    /\ call = "hide_post"
    /\ Post("hide")
    /\ Return("ok")
    /\ UNCHANGED <<lifeVars, pending, popupVars, submitted, last, lingered>>

-----------------------------------------------------------------------------
(* stop() *)

StopNothing ==
    /\ call = "idle"
    /\ thread = NoThread
    /\ Return("ok")
    /\ UNCHANGED <<lifeVars, pending, inbox, popupVars, submitted, last, refused, lingered>>

\* Mutant: stop() goes on without a thread.
StopResetUnguarded ==
    /\ call = "idle"
    /\ pending' = 0
    /\ last' = "stop"
    /\ call' = "stop_post"
    /\ UNCHANGED <<lifeVars, inbox, popupVars, result, submitted, refused, lingered>>

StopReset ==
    /\ call = "idle"
    /\ thread # NoThread
    /\ pending' = 0
    /\ last' = "stop"
    /\ call' = "stop_post"
    /\ UNCHANGED <<lifeVars, inbox, popupVars, result, submitted, refused, lingered>>

StopPost ==
    /\ call = "stop_post"
    /\ Post("stop")
    /\ call' = "stop_wait"
    /\ UNCHANGED <<lifeVars, pending, popupVars, result, submitted, last, lingered>>

StopJoined ==
    /\ call = "stop_wait"
    /\ phase[thread] = "exited"
    /\ thread' = NoThread
    /\ Return("ok")
    /\ UNCHANGED <<commandWindow, candidateWindow, startResult, ready, phase,
                   pending, inbox, popupVars, submitted, last, refused, lingered>>

\* Mutant: the handle is dropped on a time-out too.
StopForgetsThread ==
    /\ call = "stop_wait"
    /\ thread' = NoThread
    /\ Return("error")
    /\ UNCHANGED <<commandWindow, candidateWindow, startResult, ready, phase,
                   pending, inbox, popupVars, submitted, last, refused, lingered>>

\* Ten seconds have passed (or the wait failed): thread_ is kept.
StopTimesOut ==
    /\ call = "stop_wait"
    /\ Return("error")
    /\ UNCHANGED <<lifeVars, pending, inbox, popupVars, submitted, last, refused, lingered>>

-----------------------------------------------------------------------------
(* thread_main() *)

\* Mutant: the caller is woken although the command window was not published.
ThreadStartedUnpublished(t) ==
    /\ phase[t] = "starting"
    /\ candidateWindow' = t
    /\ startResult' = "ok"
    /\ ready' = TRUE
    /\ phase' = [phase EXCEPT ![t] = "loop"]
    /\ UNCHANGED <<thread, commandWindow, pending, inbox, popupVars, callerVars>>

ThreadStarted(t) ==
    /\ phase[t] = "starting"
    /\ candidateWindow' = t
    /\ commandWindow' = t
    /\ startResult' = "ok"
    /\ ready' = TRUE
    /\ phase' = [phase EXCEPT ![t] = "loop"]
    /\ UNCHANGED <<thread, pending, inbox, popupVars, callerVars>>

\* Mutant: a failure path that does not signal the event.
ThreadFailedSilently(t) ==
    /\ phase[t] = "starting"
    /\ candidateWindow' \in {candidateWindow, t}
    /\ startResult' = "error"
    /\ phase' = [phase EXCEPT ![t] = "cleanup"]
    /\ UNCHANGED <<thread, commandWindow, ready, pending, inbox, popupVars, callerVars>>

\* Apartment, window class or command window failed, the last one after
\* candidate_window_ was set.  The caller is woken BEFORE the thread's end.
ThreadFailed(t) ==
    /\ phase[t] = "starting"
    /\ candidateWindow' \in {candidateWindow, t}
    /\ startResult' = "error"
    /\ ready' = TRUE
    /\ phase' = [phase EXCEPT ![t] = "cleanup"]
    /\ UNCHANGED <<thread, commandWindow, pending, inbox, popupVars, callerVars>>

\* WM_QUIT ended the loop: the popup is destroyed and both pointers cleared.
ThreadQuits(t) ==
    /\ phase[t] = "quitting"
    /\ created' = FALSE
    /\ shown' = 0
    /\ candidateWindow' = NoThread
    /\ commandWindow' = NoThread
    /\ phase' = [phase EXCEPT ![t] = "cleanup"]
    /\ UNCHANGED <<thread, pending, startResult, ready, inbox, callerVars>>

\* Both pointers are cleared once more on the way out, on every path.
ThreadExits(t) ==
    /\ phase[t] = "cleanup"
    /\ candidateWindow' = NoThread
    /\ commandWindow' = NoThread
    /\ phase' = [phase EXCEPT ![t] = "exited"]
    /\ UNCHANGED <<thread, pending, startResult, ready, inbox, popupVars, callerVars>>

-----------------------------------------------------------------------------
(* command_window_proc(), one posted message per step *)

Receives(t, m) ==
    /\ phase[t] = "loop"
    /\ inbox[t] # <<>>
    /\ Head(inbox[t]) = m

Consume(t) == inbox' = [inbox EXCEPT ![t] = Tail(@)]

\* present_on_thread: the slot is swapped out; an empty slot ends the step, a
\* missing CandidateWindow loses the presentation that was taken.  Creating
\* the popup may fail, and then nothing is shown.
HandlePresent(t) ==
    /\ Receives(t, "present")
    /\ Consume(t)
    /\ pending' = 0
    /\ \/ pending # 0 /\ candidateWindow # NoThread /\ created' = TRUE /\ shown' = pending
       \/ pending # 0 /\ candidateWindow # NoThread /\ ~created /\ UNCHANGED popupVars
       \/ (pending = 0 \/ candidateWindow = NoThread) /\ UNCHANGED popupVars
    /\ UNCHANGED <<lifeVars, callerVars>>

\* Mutant: the early return of an empty slot, as in HandlePresent.
HandleHideUnlessEmpty(t) ==
    /\ Receives(t, "hide")
    /\ Consume(t)
    /\ shown' = IF candidateWindow # NoThread /\ pending # 0 THEN 0 ELSE shown
    /\ UNCHANGED <<lifeVars, pending, created, callerVars>>

HandleHide(t) ==
    /\ Receives(t, "hide")
    /\ Consume(t)
    /\ shown' = IF candidateWindow # NoThread THEN 0 ELSE shown
    /\ UNCHANGED <<lifeVars, pending, created, callerVars>>

\* The command window is destroyed, and its queue with it; WM_QUIT is posted.
HandleStop(t) ==
    /\ Receives(t, "stop")
    /\ inbox' = [inbox EXCEPT ![t] = <<>>]
    /\ phase' = [phase EXCEPT ![t] = "quitting"]
    /\ IF candidateWindow # NoThread THEN created' = FALSE /\ shown' = 0
       ELSE UNCHANGED popupVars
    /\ UNCHANGED <<thread, commandWindow, candidateWindow, startResult, ready,
                   pending, callerVars>>

\* The popup is owned by a window of the application being typed in; when that
\* window goes, Windows destroys the popup too (WM_NCDESTROY clears hwnd_).
OwnerDestroyed ==
    /\ created
    /\ created' = FALSE
    /\ shown' = 0
    /\ UNCHANGED <<lifeVars, pending, inbox, callerVars>>

-----------------------------------------------------------------------------
CallBegins ==
    \/ StartAgain \/ StartFails \/ \E t \in Threads : StartThread(t)
    \/ PresentRejected \/ PresentStore
    \/ HideReset
    \/ StopNothing \/ StopReset

CallContinues ==
    \/ StartReady \/ StartWaitFails \/ StartJoin
    \/ PresentPost
    \/ HidePost
    \/ StopPost \/ StopJoined \/ StopTimesOut

UiThread(t) ==
    \/ ThreadStarted(t) \/ ThreadFailed(t) \/ ThreadQuits(t) \/ ThreadExits(t)
    \/ HandlePresent(t) \/ HandleHide(t) \/ HandleStop(t)

Next == CallBegins \/ CallContinues \/ OwnerDestroyed \/ \E t \in Threads : UiThread(t)

Spec == Init /\ [][Next]_vars

\* The steps that bring a call to its end.  StartWaitFails is not one of them:
\* no wait has to fail, so start() must come back by its event.
CallProgress ==
    \/ StartReady \/ StartJoin
    \/ PresentPost
    \/ HidePost
    \/ StopPost \/ StopJoined \/ StopTimesOut

\* The scheduler runs every thread that can run; nothing forces the
\* application to make another call.
Fairness == WF_vars(CallProgress) /\ \A t \in Threads : WF_vars(UiThread(t))

FairSpec == Spec /\ Fairness

-----------------------------------------------------------------------------
(* Properties *)

\* The presentation the last command asked for, 0 when it asked for none.
Wanted == IF last = "present" THEN submitted ELSE 0

\* No call is under way and no UI thread has work left.
Quiet ==
    /\ call = "idle"
    /\ \A t \in Threads : phase[t] = "loop" => inbox[t] = <<>>

\* Once the queue is drained the popup is not a stale one: it shows the last
\* presentation, or nothing, and nothing at all when hide() or stop() was the
\* last call.  The slot is overwritten and reset at call time but hides are
\* applied at delivery time, so this rests on the order of slot and queue.
NoStalePopup == Quiet /\ ~refused /\ ~lingered => shown \in {0, Wanted}

\* The popup only ever changes to the newest presentation or to nothing, even
\* when messages are refused: a swapped-out slot is never an older one.
Board == INSTANCE CandidateBoard WITH wanted <- Wanted, visible <- shown
BoardSpec == Board!Spec

\* A UI thread in its message loop can be reached: both pointers name it, and
\* thread_ is its handle, so stop() posts to it and waits for it.
LoopIsReachable ==
    ~lingered => \A t \in Threads : phase[t] = "loop" =>
        thread = t /\ commandWindow = t /\ candidateWindow = t

\* stop() returns zero when thread_ is null: then no UI thread is alive.  This
\* is also what lets start() create a thread without getting two of them.
StopJoins ==
    thread = NoThread /\ ~lingered => \A t \in Threads : phase[t] \in {"none", "exited"}

\* "Stops and joins the dedicated UI thread" (candidate_ui_api.h:56), said of
\* the calls themselves: a stop() that returns zero leaves no thread running.
StopReturnsJoined ==
    [][StopNothing \/ StopJoined =>
          \A t \in Threads : phase[t] \in {"none", "exited"}]_vars

\* Every call comes back: start() waits without a time limit for an event that
\* the new thread sets on its success path and on its failure paths.
CallsReturn == call # "idle" ~> call = "idle"

\* "Copies a complete presentation snapshot and queues it to the candidate UI
\* thread" (candidate_ui_api.h:48): when everything queued was delivered, a
\* popup whose last command is present() shows that presentation.
LastPresentationShown ==
    Quiet /\ ~refused /\ last = "present" /\ created => shown = submitted
=============================================================================
