--------------------------- MODULE SettingsWindow ---------------------------
(***************************************************************************)
(* The settings window (src/settings/settings_window.cpp): its life, from  *)
(* create() to destroy(), when it is on the screen, the theme it is painted*)
(* for, and the update check that every show() begins.                     *)
(*                                                                         *)
(* Every action is one message of the UI thread, or a part of one: a       *)
(* message that begins a check is interrupted by the join of the previous  *)
(* worker.  The specification at the end leaves the messages to a user; in *)
(* SettingsRuntime they come through the UI thread's message loop.         *)
(***************************************************************************)
EXTENDS UpdateCheck

CONSTANT Themes  \* what the theme lookup may answer: dark, or not

ASSUME ThemesAssumption == Themes \subseteq BOOLEAN

VARIABLES
    visible,      \* the window is on the screen
    dark,         \* dark_theme_
    tone,         \* update_status_tone_
    pagePaint,    \* the theme that frame, page, note and link are painted for
    statusPaint   \* theme and tone that the status text is painted in

checkVars  == <<installed, ui, targetOpen, checking, worker, held, queue,
                button, status, download, checks, latest, lost>>
paintVars  == <<dark, tone, pagePaint, statusPaint>>
windowVars == <<checkVars, visible, paintVars>>

Tones == {"secondary", "update_available", "success", "information", "error"}
Paint == [dark : BOOLEAN, tone : Tones]

WindowTypeOK ==
    /\ CheckTypeOK
    /\ visible \in BOOLEAN /\ dark \in BOOLEAN /\ pagePaint \in BOOLEAN
    /\ tone \in Tones /\ statusPaint \in Paint
    /\ ui \in {"closed", "gone"} => ~visible

WindowInit ==
    /\ CheckInit
    /\ visible = FALSE /\ dark = FALSE /\ pagePaint = FALSE
    /\ tone = "secondary"
    /\ statusPaint = [dark |-> FALSE, tone |-> "secondary"]

-----------------------------------------------------------------------------
(* update_theme() and set_update_status_tone() *)

\* The tone of each text of apply_update_result() and begin_update_check().
ToneOf(s) ==
    CASE s = "update_available" -> "update_available"
      [] s = "up_to_date" -> "success"
      [] s = "local_newer" -> "information"
      [] s = "failed" -> "error"
      [] OTHER -> "secondary"

\* Mutant: the text is painted but the tone is not kept.
PaintOnly(t) ==
    /\ statusPaint' = [dark |-> dark, tone |-> t]
    /\ UNCHANGED <<dark, tone, pagePaint>>

\* set_update_status_tone(): kept for the next change of the theme.
SetTone(t) ==
    /\ tone' = t
    /\ statusPaint' = [dark |-> dark, tone |-> t]
    /\ UNCHANGED <<dark, pagePaint>>

\* The theme is looked up, or kept where that fails, and everything is painted.
UpdateTheme(d) ==
    /\ dark' = d
    /\ pagePaint' = d
    /\ statusPaint' = [dark |-> d, tone |-> tone]
    /\ UNCHANGED tone

-----------------------------------------------------------------------------
(* create(), show() and hide() *)

\* show() where there is no window: create() makes it, painted for the theme.
CreateAndShow ==
    /\ OpenWindow
    /\ visible' = TRUE
    /\ \E d \in Themes \cup {dark} : UpdateTheme(d)

\* create() could not make the window, or its XAML failed and destroy() took
\* the window back: SettingsWindow is as before.
CreateFails == ui = "closed" /\ UNCHANGED windowVars

ShowAgain ==
    /\ ReopenWindow
    /\ visible' = TRUE
    /\ UNCHANGED paintVars

\* hide(), which is also what WM_CLOSE does.
HideWindow ==
    /\ ui = "loop" /\ visible
    /\ visible' = FALSE
    /\ UNCHANGED <<checkVars, paintVars>>

-----------------------------------------------------------------------------
(* The window's other messages *)

\* begin_update_check(), called by show() or by the button.
BeginsCheck ==
    /\ ui = "showing" \/ visible
    /\ TurnedDown \/ BeginCheck
    /\ SetTone("secondary")
    /\ UNCHANGED visible

\* The join in check_async() is over.
StartsWorker == StartWorker /\ UNCHANGED <<visible, paintVars>>

AppliesResult ==
    /\ ApplyResult
    /\ SetTone(ToneOf(status'))
    /\ UNCHANGED visible

\* WM_SETTINGCHANGE, WM_THEMECHANGED or WM_SYSCOLORCHANGE.
ThemeMessage ==
    /\ ui = "loop"
    /\ \E d \in Themes \cup {dark} : UpdateTheme(d)
    /\ UNCHANGED <<checkVars, visible>>

-----------------------------------------------------------------------------
(* destroy() and ~SettingsWindow() *)

BeginsDestroy == CloseWindow /\ UNCHANGED <<visible, paintVars>>

GoesOnDestroying ==
    \/ DiscardPending /\ UNCHANGED <<visible, paintVars>>
    \/ DestroyWindow /\ visible' = FALSE /\ UNCHANGED paintVars

JoinsWorker == JoinWorker /\ UNCHANGED <<visible, paintVars>>

-----------------------------------------------------------------------------
WorkerThread ==
    /\ Answered \/ Broken \/ TimedOut \/ Complete \/ StoreIdle \/ Exit
    /\ UNCHANGED <<visible, paintVars>>

\* A user opens the window, clicks its button, closes it; the program ends.
Opens  == checks < MaxChecks /\ (CreateAndShow \/ ShowAgain)
Clicks == ui = "loop" /\ checks < MaxChecks /\ BeginsCheck

WindowNext ==
    \/ Opens \/ Clicks \/ HideWindow \/ ThemeMessage
    \/ ui = "showing" /\ BeginsCheck
    \/ StartsWorker \/ AppliesResult \/ WorkerThread
    \/ BeginsDestroy \/ GoesOnDestroying \/ JoinsWorker

WindowSpec == WindowInit /\ [][WindowNext]_windowVars

\* A worker's steps.  Threads run and the timer of the request fires, but the
\* network owes no answer.
WorkerFairness ==
    /\ WF_windowVars(TimedOut /\ UNCHANGED <<visible, paintVars>>)
    /\ WF_windowVars((Complete \/ StoreIdle \/ Exit) /\ UNCHANGED <<visible, paintVars>>)

\* The user neither opens, clicks nor closes anything of need.
FairWindowSpec ==
    /\ WindowSpec
    /\ WorkerFairness
    /\ WF_windowVars(ui = "showing" /\ BeginsCheck)
    /\ WF_windowVars(StartsWorker) /\ WF_windowVars(AppliesResult)
    /\ WF_windowVars(GoesOnDestroying \/ JoinsWorker)

-----------------------------------------------------------------------------
(* Properties *)

\* Colour and text agree: the status is always painted in the tone of the
\* verdict it tells, for the theme that the rest of the page is painted for,
\* however themes, requests and results follow one another.
ColoursTell ==
    ui \in {"showing", "loop", "joining"} =>
        /\ statusPaint = [dark |-> dark, tone |-> ToneOf(status)]
        /\ pagePaint = dark
=============================================================================
