# Verification of the IME Windows service

TLA+ models of the Llavon IME Windows service, their TLC configurations, and
TLAPS proofs about them. The modules follow the C++ under `src/src/`; source
paths below are relative to it. `PROJECT.json` maps every definition to the
lines it stands for.

## The system

The service is one process per user. `main.cpp` owns a notification-area icon
and pumps its messages; a second thread, the *io thread*, runs an asio
`io_context` with two pipe servers; each of two DLLs has a UI thread of its own.

| Component | Source | State | Operations |
|---|---|---|---|
| Candidate UI runtime | `candidate/candidate_runtime.cpp`, `candidate_ui_api.h` | `thread_`, `pending_presentation_` (one slot), `command_window_`, `candidate_window_`, `start_result_`, `ready_event_` | `start`, `present`, `hide`, `stop`; `thread_main`, `command_window_proc` |
| Candidate window | `candidate/candidate_window.hpp`, `window.hpp` | candidates, selection, columns, number column, native window, XAML island, `current_dpi_` | the setters of a presentation, `show_at`, `hide`, messages |
| Candidate UI loader | `service/candidate_ui_loader.cpp` | `module_`, `started_`, `mutex_` | `present`, `hide`, `load`, `start`, destructor |
| Candidate pipe server | `service/candidate_pipe_server.hpp`, `candidate_pipe_protocol.hpp` | `next_client_id_`, `active_client_id_`, one coroutine per client | `listen`, `handle_client`, `hide_if_active` |
| Prediction pipe server | `service/prediction_pipe_server.hpp` | `g_input_mode`, one coroutine and engine session per client | `listener`, `handle_client` with four commands |
| Update check | `settings/update_checker.cpp`, the update half of `settings_window.cpp` | `checking_`, `worker_`, the notification target, the button and the texts | `check_async`, the worker, `apply_update_result`, closing |
| Settings window | the rest of `settings/settings_window.cpp` | the native window, `dark_theme_`, `update_status_tone_`, what is painted | `create`, `show`, `hide`, `destroy`, theme and close messages |
| Settings UI runtime | `settings/settings_runtime.cpp`, `settings_ui_api.h` | `thread_`, `command_window_`, `settings_window_`, `start_result_`, `ready_event_` | `start`, `show`, `hide`, `stop`; `thread_main`, `command_window_proc` |
| Settings UI loader | `service/settings_ui_loader.cpp` | `module_`, `started_` | `show`, `load`, destructor |
| Notification-area icon | `service/tray_icon.cpp` | `window_`, `icon_added_`, `notification_window_`, the retry timer | `create`, the window's messages, opening the settings, the message loops of the menu and of error boxes |
| Service process | `main.cpp` | main thread, server thread | start, notify, quit, join, destroy |
| Page layout, configuration, logging, build, ime-core | rest | | |

How they interact:

- **Client to screen.** A client writes a frame to the candidate pipe. The io
  thread's coroutine for it reads the frame, may become the owner of the popup,
  and calls the loader; the loader, under its mutex, loads the DLL, starts its
  thread and calls `present` or `hide`. `present` stores the snapshot in a
  *single slot* and posts a message that only says "look at the slot"; `hide`
  empties the slot at once but hides when its message is delivered. Slot and
  queue are written and read in different orders: that is where the candidate
  path can go wrong.
- **UI thread to caller.** `start()` waits, without a limit, for an event that
  the new thread sets; `stop()` posts a message and waits ten seconds.
- **Windows to popup.** The popup is owned by a window of the application that
  is typed into and dies with it, in the middle of anything.
- **Worker to settings window.** A check's result is allocated by the worker,
  handed over in a posted message and freed by the window; the window can be
  closed at any moment, and a new check joins the old worker.
- **Tray to settings.** The main thread loads the settings DLL and calls `show`,
  which posts a message that is the whole of the request. The UI thread opens the
  window; if it cannot, it says so in a message box, inside which it takes the
  next requests. XAML may throw out of its outer message loop, which ends it.
- **Explorer to icon.** `Shell_NotifyIcon` fails or times out while there is no
  taskbar; a taskbar that dies takes the icon along, silently.

What makes each part correct: the popup is never a stale one, calls come back
and no UI thread is lost (runtime); the surface is the last presentation, all of
it, on the work area (window); the DLL is not unloaded under its thread (loader);
the popup belongs to a connected client and goes with it (pipe server); answers
stay paired with requests (prediction); results are not leaked and the window
can always be closed (update check); a text has the colour of what it says
(settings window); requests are dealt with in order and a thread leaves nothing
behind (settings runtime); the icon comes back and its retries end, the end of the
server is noticed in whatever message loop the main thread is, and the process
ends (tray, process). `PROJECT.json` lists the hazards behind these, each at its
line.

## Modules

| Module | Models | Extends |
|---|---|---|
| `CandidateBoard` | abstract: what the candidate UI promises | |
| `CandidateRuntime` | the DLL's API calls and its UI threads | implements `CandidateBoard` |
| `CandidateUiLoader` | the loader, with the runtime inside its calls | `CandidateRuntime` |
| `CandidatePipeServer` | the listener and the handlers | |
| `CandidateService` | pipe server + loader + runtime, end to end | both of these |
| `PopupLayout` | pure operators: header checks, sizes, columns, placement | |
| `CandidatePopup` | the window, its island and its surface | `PopupLayout` |
| `PredictionPipe` | the prediction pipe and the shared input mode | |
| `UpdateCheck` | the worker, the hand-over and the window's side of it | |
| `SettingsWindow` | the window's life, its theme and its colours, with the check | `UpdateCheck` |
| `SettingsDoor` | abstract: what the settings UI promises | |
| `SettingsRuntime` | the DLL's API calls and its UI threads, with the window | `SettingsWindow` |
| `SettingsUiLoader` | the loader, end to end | `SettingsRuntime`; implements `SettingsDoor` |
| `TrayIcon` | the icon's window against Explorer | |
| `ServiceProcess` | main thread and server thread | `TrayIcon` |
| `CandidateRuntimeProofs`, `CandidateRuntimeSafetyProofs`, `CandidateServiceProofs`, `CandidatePopupProofs`, `PredictionPipeProofs`, `SettingsWindowProofs`, `SettingsUiProofs`, `ServiceProcessProofs` | theorems | the module they are about |
| `MC*` | small instances for TLC | |

How state and actions correspond to the code:

- **CandidateRuntime.** A call of the API is taken apart where another thread
  can see the difference: `PresentStore` is the slot under its mutex,
  `PresentPost` the `PostMessage` after it; `StartThread`, `StartReady` and
  `StartJoin` are the creation and the two waits. A UI thread's `phase` says
  where `thread_main` is; `HandlePresent`, `HandleHide` and `HandleStop` are one
  delivered message each. Presentations are numbers in the order of submission.
  `last`, `submitted`, `refused` and `lingered` are ghosts: the last command,
  the number of presentations, whether the last message was refused, and whether
  `start()` ever abandoned a thread that was still running.
- **CandidateUiLoader.** `mutex_` is held from an action that sets `op` to the
  one that resets it; the steps of the DLL call in between are
  `CandidateRuntime`'s own actions. `abandoned` is a ghost: `start_()` failed but
  left a thread behind.
- **CandidatePipeServer / CandidateService.** A frame is one element of a pipe.
  The io thread makes the loader's calls itself, so while `Unlocked` is false no
  coroutine moves; clients and UI threads do. `author` records who submitted
  each presentation.
- **CandidatePopup.** One action is one message of the UI thread. `Present` is
  the sequence of setters in `present_on_thread`, three of which render; an
  exception thrown by XAML is swallowed by `render` and leaves the surface
  before it (`RenderLast`). A list stands for its texts, its length is kept.
- **PredictionPipe.** A request is one element of a pipe; an engine call takes
  the io thread from `Begin...` to `End...`, and a write waits for room. Requests
  may be cut off, empty, unknown, or carry a length too large to allocate
  (`"huge"`): lengths come from the wire and are not checked, and the exception
  ends the handler.
- **UpdateCheck.** The worker's stages are those between which the UI thread
  can act: on the network, completing (posting under the target's mutex),
  storing `checking_ = false`, exiting, exited. The network answers, breaks or
  is timed out.
- **SettingsWindow.** `ui` says where the UI thread is with the window. A message
  that begins a check is cut at the join of the previous worker; all others are
  one step. `SetTone` and `update_theme` paint; `statusPaint` and `pagePaint` are
  what was painted last.
- **SettingsRuntime / SettingsUiLoader.** As for the candidate runtime, but a
  message carries all of the request and there is no slot. `boxes` counts message
  boxes above one another; `ui`, `queue` and `worker` are the window's. `crashed`
  and `abandoned` are ghosts: an exception ended a loop, `start()` gave up on a
  thread.
- **TrayIcon / ServiceProcess.** An action is one message. `modal` holds the
  message loops inside messages, the innermost last: the menu's and those of error
  boxes, which go on dispatching to the same window. `WM_QUIT` ends them all and
  is seen by the outer loop after them. What opening the settings does in their
  DLL is `SettingsUiLoader`; here it succeeds or ends in a box.

Each module also holds, next to the definition it varies, a few operators marked
*Mutant*. They are plausible bugs (a dropped guard, a missing reset, an
off-by-one) that nothing uses; substituting one for the definition it belongs to
makes the property named in `PROJECT.json` fail, which shows that the property
can tell the difference.

## Runs

| Run | Instance | Shows |
|---|---|---|
| `Runtime` | 2 UI threads one after the other, 3 presentations, queue of 3, failing wait, lingering thread; 90,000 states | `NoStalePopup`, `LoopIsReachable`, `StopJoins`, `CallsReturn`; implements `CandidateBoard` |
| `RuntimeLost` | 2 presentations, no faults | violation, finding 1 |
| `RuntimeLingering` | lingering thread | violation, finding 2 |
| `ServiceSafety` | clients with 3 and 2 frames, 2 UI threads, failing wait, lingering thread, no memory; 3 million states | `UnloadSafe`, `StartedIsReachable`, `ScreenBelongsToOwner`, `OnlyAuthorHides` |
| `ServiceLiveness` | 2 clients with 2 frames each, no faults; 113,000 states | `LiveBoard`, `PopupGoesWithClients`, `FramesAreServed` |
| `Update` | 3 checks, builds 0 and 2 against manifests 0 to 3, both themes, refused posts; 79,000 states | `ColoursTell`, `JoinIsShort`, `NothingLeaks`, `QuietShowsLastVerdict`, `OffersOnlyNewer`, `CloseEnds` |
| `UpdateTurnedDown` | 2 checks | violation, finding 3 |
| `Settings` | 2 UI threads, 2 requests, 3 checks, queue of 2, all four faults; 134,000 states | `SettingsUnloadSafe`, `NothingOutlivesThread`, `StartedServes`, `StopEnds`, `StartReturns`; implements `SettingsDoor` (`DoorKept`) |
| `SettingsLost` | the island's fault only | violation, finding 4 |
| `Process` | Explorer restarts 3 times, loops 3 deep; 47,000 states | `StopIsNoticed`, `IconComesBack`, `ProcessEnds` |
| `Prediction` | a client with 2 requests and one with 1, of every kind, pipes that hold one answer; 87,000 states | `AnswersMatchRequests`, `ModeAnswersAreExact`, `RequestsAreAnswered`, `SessionsEnd` |
| `Popup` | lists of 1, 9 and 20 in 1 and 3 columns, 2 DPIs, 4 text rectangles; 12,000 states | `SurfaceIsWanted`, `SelectionIsInList`, `EverythingIsDrawn`, `WellPlaced` |

Each passing run with a module of its own also checks that module's types
(`TypeOK`, `SettingsTypeOK`). They say a little more than types: a call that waits
for a UI thread or posts `stop` to it has its handle, the popup has a picture only in
an island and an island only in a window, a prediction handler in an engine call has
a session, the tray's notification handle and timer go with its window.

Why the bounds are enough. *Two UI threads*: a runtime has at most one that is
alive and one left over from a failed start; the second exists to see the first
one's leftovers. *Three presentations*: one on the screen, one in the slot, one
that replaces it while a message of an older one is still queued; the theorems
below hold for any number. *Queue limit*: 3 (`Runtime`) and 2 (`Settings`) make a
refused message reachable (Windows' own limit is 10,000); the service runs have
room for every message their clients can cause, so that the ghost `refused` stays
false there. *Two clients*: ownership is a relation between an owner and somebody
else; ids are never reused. *Three frames*: present, lose the popup, hide. *Three
checks*: one applied, one in hand-over, one requested. *Two settings requests*: a
failed opening with its box, and the next request inside that box's loop; a click
makes the third check. `Settings` has one theme and one verdict, because `Update`
has them all. *Three restarts of Explorer*: an icon that was added, lost, re-added
by timer, lost again. *Three loops*: a menu with a box above and one below it. *Two
requests of one prediction client*: pairs can slip by one; the other client only
disturbs it. *Lists*: 9 and 20 are the page size and more than two pages; 1 forces
every clamp. Symmetry is used only in `ServiceSafety`, which has no liveness; its
action property is symmetric in the threads too.

Deadlock is checked in `Runtime` and `Popup`, whose callers may always go on.
Elsewhere the system stops when the bounded peers, checks, requests or restarts
are used up or the process has ended, and the configurations say
`CHECK_DEADLOCK FALSE`.

### Fairness

Weak fairness stands for "Windows schedules every thread that can run": the UI
threads (they block only in their own queue), the continuation of a call in
progress, the stages of the update worker, the main thread's pump.

- No caller has to call, no client to write, read or close, no network to answer,
  no user to click, close a window or dismiss a box, and Explorer need not come
  back.
- `StartWaitFails` and `StopTimesOut` are not among the steps that end a call:
  `CallsReturn` and `StartReturns` do not lean on a wait that fails.
- `TimedOut` in `UpdateCheck` is fair: the code cancels the request after two
  seconds itself. `CloseEnds` and `StopEnds` rest on it.
- Menus and message boxes end by themselves only once `WM_QUIT` was posted, which
  every Windows message loop passes on; before that they are the user's.
- The handlers of `PredictionPipe` share one thread, so each is disabled again
  and again by the others' engine calls. They get strong fairness, which
  `io_context` justifies by running its handlers in the order they became ready,
  and a prediction is assumed to return.
- `IconComesBack` leaves out Explorer: it says that the icon is on the taskbar
  again and again with no timer running, or there is no taskbar to put it on. One
  timer never ends in the code: an icon that a retry added after Explorer came back
  and before its broadcast is forgotten at the broadcast (`tray_icon.cpp:95`), and the
  taskbar refuses to take it a second time. `IconSettled` excepts that timer.
- `FramesAreServed` says two things of a client: what is in its pipe is read or
  dropped, and once it has closed its end its session is done.

## Findings

1. `RuntimeLost`: *a presentation that was accepted may never be shown.* Present
   A, hide, present B while the UI thread lags: A's message takes B out of the
   slot and shows it, the hide takes it down, and B's message finds the slot
   empty. `candidate_ui_api.h:48` promises that a snapshot is "queued".
2. `RuntimeLingering`: *`stop()` may return zero with a thread still running.*
   `start()` drops the handle of a thread that failed after a wait whose result
   it does not look at. The same thread then clears the pointers of its
   successor, and `~CandidateUiLoader` unloads the DLL under it, because
   `started_` is false. `NoStalePopup`, `LoopIsReachable` and `StopJoins`
   therefore except what follows after it (`lingered`), and the properties of both
   loaders what follows `abandoned`: the settings runtime does the same. A wait of `start()` that
   fails leaves a thread to the destructor in the same way.
3. `UpdateTurnedDown`: *the update button can stay disabled.* A request between
   the post of a result and the store of `checking_ = false` is turned down after
   the button was disabled, and no result is on its way that would enable it.
4. `SettingsLost`: *the settings can be lost for the rest of the process.* A
   failing `PreTranslateMessage` of the XAML island throws out of the settings
   thread's message loop. `thread_` and the loader's `started_` stay set, so every
   later `show()` finds no command window, posts nothing and reports success.
   `README.md:13` says that calls are queued. `StartedServes` excepts what follows
   `crashed`, `SettingsDoor` has it as `Shuts`.

## Proofs

All theorems are for every value of the constants: any set of threads and
clients, any bound on presentations, frames, checks, requests, restarts and
message loops, any queue limit, any set of faults; any work area, DPI, text
rectangle and presentation. They use the named assumptions of the modules, which
TLC evaluates in the runs (`NoThreadAssumption`, `BoundsAssumption`,
`ClientsAssumption`, `LimitsAssumption`, `OfferedAssumption`, `ManifestsAssumption`,
`ChecksAssumption`, `TrayBoundsAssumption`, `DpisAssumption`, `AreaAssumption`,
`AnchorsAssumption`, `PresentationsAssumption`, ...).

**CandidateRuntimeProofs.** `TypeCorrect`, which includes that no call waits for a
thread whose handle was given away, and `RuntimeImplementsBoard`: the
runtime implements `CandidateBoard` with `wanted <- Wanted`, `visible <- shown`.
The refinement needs one more invariant, `SlotInv`: the slot is empty or holds
what the last command asked for. Nothing older can be taken out of it.

**CandidateRuntimeSafetyProofs.** `NoStalePopupCorrect`, `LoopIsReachableCorrect`
and `StopJoinsCorrect`. None of the three is inductive:

- `LifeInv` says that `thread_` names the one thread alive, that in its loop both
  pointers name it, and that only a thread in its loop has a popup. Without it a
  UI thread's step could clear another's pointers.
- `DeliveryInv` says which message is still on its way when the popup is not what
  was asked for: a present message and a full slot, or, after a withdrawal, a
  hide or a stop. Between slot and post (`present_post`) there is no message yet;
  there the slot is still full or an older message has shown it already.

`SafetyInv == TypeOK /\ SlotInv /\ (lingered \/ (LifeInv /\ DeliveryInv))` is
inductive, because `lingered` is never taken back.

**CandidateServiceProofs.** `ServiceImplementsRuntime`: every step of pipe server
and loader is a step of `CandidateRuntime` or a stutter on it, so that the
theorems above hold of the whole service. `OwnerIsConnectedCorrect`: the popup's
owner always has an open session; `OnlyAuthorHidesCorrect` needs it, and that
whoever owns the popup submitted the last presentation, unless it was not heard.
`StartedIsReachableCorrect` and `UnloadSafeCorrect` need to know more than `LifeInv`:
between the moment `start()` gives a failed thread up and the return of the loader,
a thread may be on its way out that `thread_` no longer names (`Stray`); nothing else
can run then. `ReachInv` joins this with what the loader's `op` says about the call
it is in (`OpInv`), where stop messages can come from (`QueueInv`), what the event
says (`WakeInv`) and what `started_` and a returned zero say (`HandleInv`).
`ServiceImplementsBoard` follows: what the clients get to see is a behaviour of
`CandidateBoard`. `ScreenBelongsToOwnerCorrect` joins the two halves in `ScreenInv`:
`DeliveryInv` carries over to the loader's calls (`DeliveryOfLoader`), so that a
quiet popup is the last presentation, and `OwnerInv` says that a presentation which
is still wanted went through a started loader and has an owner since.

**CandidatePopupProofs.** `PopupTypeCorrect`: handle, island and picture go together
(`WindowInv`, `SurfaceInv`, `RenderingsNeedIsland`). `SurfaceIsWantedCorrect`: whatever was shown before,
the setters' clamps leave an accepted presentation alone (`SettersSetAll`), and
the last of a message's renderings draws it. `WellPlacedCorrect`: the flip above
the text and the clamps of `show_at` put the popup on the work area if it fits
there, and off the text (`PlaceIsGood`, `SizeIsNat`). `EverythingIsDrawnCorrect`
assumes what the pipe server sees to (`ServerFilters`) and rests on
`ValidIsDrawn`: `valid_presentation_header` implies that the columns have room.
`ValidIsAccepted`: what the pipe server lets through the DLL does not refuse.
`SelectionIsInListCorrect` speaks of every rendering in between too: whichever of
them XAML threw in, the surface it leaves has its selection in its list (`InList`).

**PredictionPipeProofs.** `PredictionTypeCorrect`. `AnswersMatchRequestsCorrect` is
a matter of counting: `Taken(c)` requests have left the pipe of a client, what is
left in it are the later ones (`PipeInv`), a handler that is busy is busy with
request `Taken(c)`, and all before it have their answers (`TurnInv`).
`ModeAnswersAreExactCorrect`: each answer about the mode carries the number of
toggles made when it was computed, and these stamps do not go back (`StampInv`).

**SettingsWindowProofs.** `JoinIsShortCorrect`, `NothingLeaksCorrect`,
`OffersOnlyNewerCorrect`, `ColoursTellCorrect`, `WindowTypeCorrect`. That an older
build is never offered holds of every result on its way, the worker's and the
queued ones (`OfferInv`); that colours tell needs the tone that is kept for the
next change of the theme (`PaintInv`). `QuietShowsLastVerdictCorrect` follows the
last verdict on its way (`VerdictInv`): with the worker, then at the end of the
queue, where no older one can overtake it, then on the page, unless a check that
was turned down made the page busy again (finding 3).

**SettingsUiProofs.** `NothingOutlivesThreadCorrect` has no exceptions: `PlaceInv`
ties the stages of the window's end to those of the thread's, the exception's
included. `SettingsUnloadSafeCorrect` and `StartedServesCorrect` are argued as for the
candidate loader, with `ReachInv == abandoned \/ LoaderLife`; here an exception may
have ended the thread that `thread_` names (`Serves`). `WindowKeepsItsPromises`
carries the window's five invariants over to the composition: a step of the
composition that touches the window is one of the window's own actions
(`WindowsOwnSteps`), which keep its invariant (`WindowKept`), or the beginning of a
new one (`FreshHolds`). `SettingsTypeCorrect` needs an account of the requests:
each leads to one message box and to one check at most (`RoomInv`), counted from the
part of the queue before a stop (`Heeded`). `BoundsAssumption` therefore asks for
`MaxRequests <= MaxChecks`: both bound the model, and every show begins a check.
`SettingsImplementsDoor` proves the safety half of `DoorKept`, step by step: a handled
message is the oldest request (`Received`), a stop drops what is behind it, and
nothing is asked before the first start has succeeded (`MailInv`, `UnshownInv`).
The door does not say that a request is queued at all;
`ShowIsQueuedInRoomCorrect` does: after `start()` has succeeded only a full queue, a
crash or a thread that was given up on keeps a show out.

**ServiceProcessProofs.** `StopIsNoticedCorrect`: `NoticeInv` follows the server's end
through its three steps. While it has the handle of a window that is not alive any more
`WM_QUIT` was posted already; afterwards the notice is in the queue of the living
window, where only its own handler takes it out (`NoticeStays`), or `WM_QUIT` was
posted. `RetryArmedCorrect` (an icon that could not be added is being retried as
long as the tray lives) needs `WindowInv`: the icon that `main()` removes at its end has
no living window any more. `ProcessTypeCorrect`.

**Only model-checked.** All liveness (`CallsReturn`, `LiveBoard`, the fairness half
of `DoorKept`, `FramesAreServed`, `PopupGoesWithClients`, `CloseEnds`, `StopEnds`,
`StartReturns`, `RequestsAreAnswered`, `SessionsEnd`, `IconComesBack`,
`ProcessEnds`): fairness and `ENABLED` are out of the prover's reach. Every
invariant of the passing runs has a theorem.

**Modelled, and promised by nothing.** What the code does here is in the models, but no
property could hold of it:

- A thread that `start()` gave up on clears the pointers of its successor
  (`candidate_runtime.cpp:227`, `settings_runtime.cpp:158`): excepted by `lingered` and
  `abandoned`, see finding 2 for its cause.
- An island that could not be made is not tried again (`candidate_window.hpp:324`).
- A DPI change moves the popup to where Windows suggests, which may be off the work
  area until the next presentation (`candidate_window.hpp:416`).
- A padding that is cut off is taken for an empty one
  (`prediction_pipe_server.hpp:170`), which costs a prediction nobody reads.

## Not modelled

- The XAML trees, palettes and regions of both windows, the size of the settings
  island, its answer to a DPI change, and `UwpXamlPopupHost`, which nothing
  enables: drawing, no state that anything else reads back.
- `GetMonitorInfo` failing in `show_at`, and the owner handle of the popup (only
  that the owner may take the popup along).
- Bytes inside a frame. 32-bit overflow of the anchors
  (`candidate_window.hpp:194`): the popup's arithmetic is unbounded here, and at the
  real width TLC cannot enumerate it.
- A wait that fails again and again in `listen` (`candidate_pipe_server.hpp:81`):
  every such round leaves the state as it was.
- Exhaustion of threads in `check_async` (`update_checker.cpp:166`), which ends the
  process, because `show()` is `noexcept`; of memory except where a fault or a
  `"huge"` length names it.
- The command line, environment, paths, priority, logging, resources and build.
- `ime-core` is a submodule and not part of the repository: engine calls are steps
  that hold the io thread and may throw.

## Plan

Done: the candidate path (runtime, loader, pipe server, composition), the popup,
the prediction pipe, the update check, the settings window, their runtime and
loader, the tray and the process; proofs of every invariant of the runs and of the safety
halves of both abstract specifications.

Next, in this order:

1. The two pipes on one io thread: a prediction that delays a hide.
2. Frames byte by byte where a cut one matters; a DPI change in the middle of a
   presentation; the popup's failing creation in `CandidateRuntime` and
   `CandidatePopup` shown to be the same step by a refinement.
