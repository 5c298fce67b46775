----------------------------- MODULE UpdateCheck ----------------------------
(***************************************************************************)
(* The update check of the settings window (src/settings/update_checker.cpp*)
(* and the update half of src/settings/settings_window.cpp).               *)
(*                                                                         *)
(* The UI thread starts a check when the window is shown or its button is  *)
(* clicked.  A worker thread asks the network, allocates a result and hands*)
(* it over by posting it to the window under UpdateNotificationTarget's    *)
(* mutex; destroying the window clears that target first, so that no result*)
(* is posted to a window that is going away.                               *)
(*                                                                         *)
(* The actions say nothing of who calls them: SettingsWindow has the user, *)
(* SettingsRuntime the thread and its other messages.                      *)
(***************************************************************************)
EXTENDS Naturals, Sequences

CONSTANTS
    InstalledBuilds,              \* build numbers this program may have, 0 at home
    CurrentCommit,                \* the commit it was built from
    Manifests,                    \* what latest.json may say: [build, commit]
    MaxChecks,                    \* bound: workers started in a behaviour
    RefusePosts                   \* may PostMessageW find the queue full?

ASSUME IdentityAssumption == InstalledBuilds \subseteq Nat
ASSUME ManifestsAssumption == \A m \in Manifests : m.build \in Nat
ASSUME ChecksAssumption == MaxChecks \in Nat /\ RefusePosts \in BOOLEAN

VARIABLES
    installed,   \* current_build: compiled in, it never changes
    ui,          \* where the UI thread is with the window: none yet, in its
                 \* messages, inside show(), inside a join, or destroying it
    targetOpen,  \* update_target_->window is set
    checking,    \* checking_
    worker,      \* worker_: "none" is not joinable, "exited" has ended
    held,        \* the result the worker owns
    queue,       \* results posted to the window, owned by their messages
    button,      \* update_button_ is enabled
    status,      \* what update_status_ says
    download,    \* update_download_ is visible, with the build it offers
    checks,      \* workers started so far
    latest,      \* ghost: the result of the last check that ended
    lost         \* ghost: that result was not queued

uiVars     == <<button, status, download>>
workerVars == <<checking, worker, held, checks, latest, lost>>
vars == <<installed, ui, targetOpen, checking, worker, held, queue, button,
          status, download, checks, latest, lost>>

Verdicts == {"update_available", "up_to_date", "local_newer",
             "development_build", "failed"}
Builds   == {m.build : m \in Manifests} \cup {0}
Results  == [status : Verdicts, build : Builds]
Failed   == [status |-> "failed", build |-> 0]
Offering == {"update_available", "development_build"}

CheckTypeOK ==
    /\ installed \in InstalledBuilds /\ lost \in BOOLEAN
    /\ ui \in {"closed", "showing", "loop", "joining", "closing", "discarded",
              "leaving", "gone"}
    /\ targetOpen \in BOOLEAN /\ checking \in BOOLEAN /\ button \in BOOLEAN
    /\ worker \in {"none", "running", "completing", "storing", "exiting", "exited"}
    /\ held \in Results /\ latest \in Results
    /\ queue \in Seq(Results)
    /\ status \in Verdicts \cup {"none", "checking", "busy"}
    /\ download \in Builds
    /\ checks \in 0..MaxChecks
    /\ checking <=> ui = "joining" \/ worker \in {"running", "completing", "storing"}

\* A SettingsWindow without a window.
CheckInit ==
    /\ installed \in InstalledBuilds
    /\ ui = "closed"
    /\ targetOpen = FALSE
    /\ checking = FALSE
    /\ worker = "none"
    /\ held = Failed
    /\ queue = <<>>
    /\ button = TRUE
    /\ status = "none"
    /\ download = 0
    /\ checks = 0
    /\ latest = Failed
    /\ lost = FALSE

-----------------------------------------------------------------------------
(* perform_check() *)

\* Mutant: the two comparisons are swapped.
VerdictSwapped(m) ==
    CASE m.build = 0 -> "failed"
      [] 0 < installed /\ m.build < installed -> "update_available"
      [] 0 < m.build /\ installed < m.build -> "local_newer"
      [] OTHER -> IF m.commit = CurrentCommit THEN "up_to_date" ELSE "failed"

\* How this build compares with the manifest.
Verdict(m) ==
    CASE m.build = 0 -> "failed"
      [] installed = 0 /\ m.build # 0 ->
           IF m.commit = CurrentCommit THEN "up_to_date" ELSE "development_build"
      [] 0 < installed /\ installed < m.build -> "update_available"
      [] 0 < m.build /\ m.build < installed -> "local_newer"
      [] OTHER -> IF m.commit = CurrentCommit THEN "up_to_date" ELSE "failed"

ResultOf(m) == LET v == Verdict(m)
               IN  IF v = "failed" THEN Failed ELSE [status |-> v, build |-> m.build]

-----------------------------------------------------------------------------
(* The UI thread: create(), begin_update_check() and check_async() *)

\* create() has made the window, its target and its page; show() is next.
OpenWindow ==
    /\ ui = "closed"
    /\ ui' = "showing"
    /\ targetOpen' = TRUE
    /\ button' = TRUE /\ status' = "none" /\ download' = 0
    /\ UNCHANGED <<installed, queue, workerVars>>

\* show() of a window that is there.
ReopenWindow ==
    /\ ui = "loop"
    /\ ui' = "showing"
    /\ UNCHANGED <<installed, targetOpen, queue, workerVars, uiVars>>

\* show(), or a click on the button, asks for a check.  One that is under way
\* turns it down; the button has been disabled all the same.
TurnedDown ==
    /\ ui \in {"showing", "loop"}
    /\ checking
    /\ ui' = "loop"
    /\ button' = FALSE /\ download' = 0
    /\ status' = "busy"
    /\ UNCHANGED <<installed, targetOpen, queue, workerVars>>

BeginCheck ==
    /\ ui \in {"showing", "loop"}
    /\ ~checking
    /\ button' = FALSE /\ download' = 0
    /\ status' = "checking"
    /\ checking' = TRUE
    /\ ui' = "joining"
    /\ UNCHANGED <<installed, targetOpen, queue, worker, held, checks, latest,
                   lost>>

\* The previous worker, if any, has been joined; the new one is created.
StartWorker ==
    /\ ui = "joining"
    /\ worker \in {"none", "exited"}
    /\ worker' = "running"
    /\ checks' = checks + 1
    /\ ui' = "loop"
    /\ UNCHANGED <<installed, targetOpen, queue, checking, held, latest, lost,
                   uiVars>>

\* Mutant: the button stays disabled.
ApplyWithoutButton ==
    /\ ui = "loop"
    /\ queue # <<>>
    /\ queue' = Tail(queue)
    /\ LET r == Head(queue)
       IN  /\ status' = r.status
           /\ download' = IF r.status \in Offering THEN r.build ELSE 0
    /\ UNCHANGED <<installed, ui, targetOpen, button, workerVars>>

\* apply_update_result(): the message owns the result, and frees it.
ApplyResult ==
    /\ ui = "loop"
    /\ queue # <<>>
    /\ queue' = Tail(queue)
    /\ button' = TRUE
    /\ LET r == Head(queue)
       IN  /\ status' = r.status
           /\ download' = IF r.status \in Offering THEN r.build ELSE 0
    /\ UNCHANGED <<installed, ui, targetOpen, workerVars>>

-----------------------------------------------------------------------------
(* The worker *)

\* Mutant: checking_ is reset before the completion runs.
EndsIdle(r) ==
    /\ worker = "running"
    /\ worker' = "completing"
    /\ held' = r
    /\ latest' = r
    /\ checking' = FALSE
    /\ UNCHANGED <<installed, ui, targetOpen, queue, checks, lost, uiVars>>

Ends(r) ==
    /\ worker = "running"
    /\ worker' = "completing"
    /\ held' = r
    /\ latest' = r
    /\ UNCHANGED <<installed, ui, targetOpen, queue, checking, checks, lost,
                   uiVars>>

\* The manifest arrived; or something on the way to it threw.
Answered == \E m \in Manifests : Ends(ResultOf(m))
Broken   == Ends(Failed)

\* Mutant: the time-out is armed for the first check only.
TimedOutOnce == checks = 1 /\ Ends(Failed)

\* Two seconds without an answer: the operation is cancelled.
TimedOut == Ends(Failed)

\* The completion posts the result under the target's mutex.  It is freed here
\* when there is no window any more, or when the message was not queued.
Complete ==
    /\ worker = "completing"
    /\ worker' = "storing"
    /\ \/ targetOpen /\ queue' = Append(queue, held) /\ lost' = FALSE
       \/ (~targetOpen \/ RefusePosts) /\ UNCHANGED queue /\ lost' = TRUE
    /\ UNCHANGED <<installed, ui, targetOpen, checking, held, checks, latest,
                   uiVars>>

\* Mutant: checking_ is never reset.
StoreNothing ==
    /\ worker = "storing"
    /\ worker' = "exiting"
    /\ UNCHANGED <<installed, ui, targetOpen, queue, checking, held, checks,
                   latest, lost, uiVars>>

StoreIdle ==
    /\ worker = "storing"
    /\ worker' = "exiting"
    /\ checking' = FALSE
    /\ UNCHANGED <<installed, ui, targetOpen, queue, held, checks, latest, lost,
                   uiVars>>

Exit ==
    /\ worker = "exiting"
    /\ worker' = "exited"
    /\ UNCHANGED <<installed, ui, targetOpen, queue, checking, held, checks,
                   latest, lost, uiVars>>

-----------------------------------------------------------------------------
(* The UI thread: destroy(), WM_NCDESTROY and ~UpdateChecker() *)

\* Mutant: the target keeps its window.
DeactivateNothing == UNCHANGED targetOpen

Deactivate == targetOpen' = FALSE

\* destroy() of a window, or of none.
CloseWindow ==
    /\ ui \in {"closed", "loop"}
    /\ Deactivate
    /\ ui' = "closing"
    /\ UNCHANGED <<installed, queue, workerVars, uiVars>>

DiscardPending ==
    /\ ui = "closing"
    /\ queue' = <<>>
    /\ ui' = "discarded"
    /\ UNCHANGED <<installed, targetOpen, workerVars, uiVars>>

\* DestroyWindow: WM_NCDESTROY deactivates and discards once more.
DestroyWindow ==
    /\ ui = "discarded"
    /\ Deactivate
    /\ queue' = <<>>
    /\ ui' = "leaving"
    /\ UNCHANGED <<installed, workerVars, uiVars>>

JoinWorker ==
    /\ ui = "leaving"
    /\ worker \in {"none", "exited"}
    /\ ui' = "gone"
    /\ UNCHANGED <<installed, targetOpen, queue, workerVars, uiVars>>

-----------------------------------------------------------------------------
(* Properties *)

\* "... so a slow GitHub response never blocks the UI thread" (README.md:24):
\* when the UI thread joins the previous worker to start a new check, that
\* worker is past the network and past its completion.
JoinIsShort == ui = "joining" => worker \in {"none", "exiting", "exited"}

\* A result is owned by the worker, by a queued message or by the window, and
\* none is left in the queue of a window that is gone.
NothingLeaks == ui \in {"leaving", "gone"} => queue = <<>>

\* When no check is under way and every result was applied, the window shows
\* the verdict of the last check with its button enabled, and offers exactly
\* the build of that check; unless the last request was turned down.
QuietShowsLastVerdict ==
    /\ ui = "loop" /\ worker = "exited" /\ queue = <<>> /\ ~lost
    => \/ status = "busy"
       \/ /\ status = latest.status /\ button
          /\ download = IF status \in Offering THEN latest.build ELSE 0

\* A release build never offers a build that is not newer than itself, also
\* while results of an earlier check are still on their way.
OffersOnlyNewer == download # 0 /\ installed # 0 => installed < download

\* Closing ends: the destructor's join is bounded by the two-second timeout,
\* although the network may never answer.
CloseEnds == ui = "closing" ~> ui = "gone"

\* "Whenever the settings window opens, it automatically compares its embedded
\* build identity with the rolling release's latest.json manifest"
\* (README.md:20): a request ends in a verdict, which enables the button again.
RequestIsAnswered == ~button ~> (button \/ ui \in {"closing", "leaving", "gone"})
=============================================================================
