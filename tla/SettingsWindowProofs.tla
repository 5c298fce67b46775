------------------------ MODULE SettingsWindowProofs ------------------------
(***************************************************************************)
(* Proofs about the settings window and its update check, for every set of *)
(* manifests and builds and any number of checks.                          *)
(*                                                                         *)
(*   WindowTypeCorrect       types, and when checking_ is set              *)
(*   JoinIsShortCorrect      a new check never waits for the network       *)
(*   NothingLeaksCorrect     no result is left to a window that is gone    *)
(*   OffersOnlyNewerCorrect  a build is never offered an older one         *)
(*   ColoursTellCorrect      the status is painted as what it says         *)
(*   QuietShowsLastVerdictCorrect                                          *)
(*                           the last verdict ends up on the page          *)
(***************************************************************************)
EXTENDS SettingsWindow, TLAPS

\* What the bounds and a result are, for the arithmetic.
LEMMA CheckFacts ==
    /\ MaxChecks \in Nat /\ Builds \subseteq Nat /\ 0 \in Builds
    /\ Failed \in Results
    /\ \A m \in Manifests : m.build \in Builds
  BY ManifestsAssumption, ChecksAssumption DEF Builds, Results, Failed, Verdicts

\* A build is offered only to an older one, or to one built at home.
Newer(r) == r.status \in Offering /\ installed # 0 => installed < r.build

\* The comparison with a manifest yields a result, and offers newer builds only.
LEMMA ResultFacts ==
    ASSUME installed \in Nat, NEW m \in Manifests
    PROVE  ResultOf(m) \in Results /\ Newer(ResultOf(m))
<1>1. m.build \in Builds /\ m.build \in Nat
  BY CheckFacts
<1>2. Verdict(m) \in Verdicts
  BY DEF Verdict, Verdicts
<1>3. Verdict(m) \in Offering /\ installed # 0 => installed < m.build
  BY <1>1 DEF Verdict, Offering
<1>4. CASE Verdict(m) = "failed"
  BY <1>4, CheckFacts DEF ResultOf, Failed, Newer, Offering
<1>5. CASE Verdict(m) # "failed"
  <2>1. ResultOf(m) = [status |-> Verdict(m), build |-> m.build]
    BY <1>5 DEF ResultOf
  <2> QED
    BY <1>1, <1>2, <1>3, <2>1 DEF Results, Newer
<1> QED
  BY <1>4, <1>5

-----------------------------------------------------------------------------
(* The inductive invariant *)

\* A window is about to begin a check only within the bound, and one that is
\* being destroyed gets no more results and is off the screen at the end.
LifeInv ==
    /\ ui \in {"showing", "joining"} => checks < MaxChecks
    /\ ui \notin {"showing", "loop", "joining"} => ~targetOpen
    /\ ui = "leaving" => ~visible

OfferInv ==
    /\ Newer(held)
    /\ \A i \in 1..Len(queue) : Newer(queue[i])
    /\ OffersOnlyNewer

\* The tone that is kept for the next change of the theme is that of the text.
PaintInv ==
    /\ ui = "closed" => tone = "secondary"
    /\ ui \in {"showing", "loop", "joining"} => tone = ToneOf(status)
    /\ ColoursTell

\* The result of the last check has been handed to the window.
Told == worker \in {"storing", "exiting", "exited"} /\ ~lost

\* The page says what the last check found, or that a request was turned down.
ShowsLatest ==
    \/ status = "busy"
    \/ /\ status = latest.status /\ button
       /\ download = IF status \in Offering THEN latest.build ELSE 0

\* Where the verdict of the last check is: with its worker, at the end of the
\* window's queue, or on the page.
VerdictInv ==
    /\ worker = "completing" => held = latest
    /\ Told /\ queue # <<>> => queue[Len(queue)] = latest
    /\ Told /\ queue = <<>> /\ ui = "loop" => ShowsLatest

WindowInv ==
    /\ WindowTypeOK /\ JoinIsShort /\ NothingLeaks /\ LifeInv
    /\ OfferInv /\ PaintInv /\ VerdictInv

\* A window that was just created satisfies the invariant.
LEMMA WindowInitHolds == WindowInit => WindowInv
<1> SUFFICES ASSUME WindowInit
             PROVE  WindowInv
  OBVIOUS
<1> USE DEF WindowInit, CheckInit
<1>1. WindowTypeOK
  <2>1. CheckTypeOK
    <3>1. queue \in Seq(Results)
      OBVIOUS
    <3>2. ui # "joining" /\ worker = "none" /\ checking = FALSE
      OBVIOUS
    <3>3. checking <=> ui = "joining" \/ worker \in {"running", "completing", "storing"}
      BY <3>2
    <3>4. checks \in 0..MaxChecks
      BY CheckFacts
    <3>5. download \in Builds /\ held \in Results /\ latest \in Results
      BY CheckFacts
    <3>6. status \in Verdicts \cup {"none", "checking", "busy"}
      OBVIOUS
    <3> QED
      BY <3>1, <3>2, <3>3, <3>4, <3>5, <3>6 DEF CheckTypeOK
  <2> QED
    BY <2>1 DEF WindowTypeOK, Tones, Paint
<1>2. JoinIsShort /\ NothingLeaks /\ LifeInv
  BY DEF JoinIsShort, NothingLeaks, LifeInv
<1>3. OfferInv
  BY DEF OfferInv, Newer, OffersOnlyNewer, Offering, Failed
<1>4. PaintInv
  BY DEF PaintInv, ColoursTell
<1>5. VerdictInv
  BY DEF VerdictInv, Told
<1> QED
  BY <1>1, <1>2, <1>3, <1>4, <1>5 DEF WindowInv

\* What a step of the window can be.
CheckEnds == Answered \/ Broken \/ TimedOut
WorkerEnds == Complete \/ StoreIdle \/ Exit
Paints == \/ \E d \in BOOLEAN : UpdateTheme(d)
          \/ SetTone(ToneOf(status'))
          \/ UNCHANGED paintVars

\* The update check's part of a step, and the rest of it.
CheckStep ==
    \/ checks < MaxChecks /\ (OpenWindow \/ ReopenWindow)
    \/ (ui = "showing" \/ checks < MaxChecks) /\ (TurnedDown \/ BeginCheck)
    \/ StartWorker \/ ApplyResult \/ CheckEnds \/ WorkerEnds
    \/ CloseWindow \/ DiscardPending \/ DestroyWindow \/ JoinWorker
    \/ UNCHANGED checkVars

\* Every text that goes with a tone goes with the right one.
LEMMA ToneFacts ==
    /\ \A s : ToneOf(s) \in Tones
    /\ \A s \in {"none", "checking", "busy"} : ToneOf(s) = "secondary"
  BY DEF ToneOf, Tones

\* Each step of the window is one of the check and one of the painting.
LEMMA WindowSteps ==
    ASSUME WindowTypeOK, [WindowNext]_windowVars
    PROVE  CheckStep /\ Paints
<1> USE DEF CheckStep, Paints, CheckEnds, WorkerEnds
<1>1. CASE Opens
  <2>1. Themes \cup {dark} \subseteq BOOLEAN
    BY ThemesAssumption DEF WindowTypeOK
  <2> QED
    BY <1>1, <2>1 DEF Opens, CreateAndShow, ShowAgain
<1>2. CASE Clicks \/ (ui = "showing" /\ BeginsCheck)
  <2>1. SetTone("secondary") /\ status' \in {"checking", "busy"}
    BY <1>2 DEF Clicks, BeginsCheck, TurnedDown, BeginCheck
  <2>2. SetTone(ToneOf(status'))
    BY <2>1, ToneFacts
  <2> QED
    BY <1>2, <2>2 DEF Clicks, BeginsCheck
<1>3. CASE HideWindow
  BY <1>3 DEF HideWindow
<1>4. CASE ThemeMessage
  <2>1. Themes \cup {dark} \subseteq BOOLEAN
    BY ThemesAssumption DEF WindowTypeOK
  <2> QED
    BY <1>4, <2>1 DEF ThemeMessage
<1>5. CASE StartsWorker \/ WorkerThread \/ JoinsWorker
  BY <1>5 DEF StartsWorker, WorkerThread, JoinsWorker
<1>6. CASE AppliesResult
  BY <1>6 DEF AppliesResult
<1>7. CASE BeginsDestroy \/ GoesOnDestroying
  BY <1>7 DEF BeginsDestroy, GoesOnDestroying
<1>8. CASE UNCHANGED windowVars
  BY <1>8 DEF windowVars
<1> QED
  BY <1>1, <1>2, <1>3, <1>4, <1>5, <1>6, <1>7, <1>8 DEF WindowNext

-----------------------------------------------------------------------------
(* Its parts, step by step *)

\* checking_ and the joins agree, and a new worker is within the bound.
LEMMA CheckHolds ==
    ASSUME CheckTypeOK, JoinIsShort, NothingLeaks, OfferInv, CheckStep,
           ui \in {"showing", "joining"} => checks < MaxChecks,
           ui \notin {"showing", "loop", "joining"} => ~targetOpen
    PROVE  /\ CheckTypeOK' /\ JoinIsShort' /\ NothingLeaks' /\ OfferInv'
           /\ (ui \in {"showing", "joining"} => checks < MaxChecks)'
           /\ (ui \notin {"showing", "loop", "joining"} => ~targetOpen)'
<1> DEFINE Bound == ui \in {"showing", "joining"} => checks < MaxChecks
           Open  == ui \notin {"showing", "loop", "joining"} => ~targetOpen
<1> USE DEF JoinIsShort, NothingLeaks
<1>1. CASE OpenWindow /\ checks < MaxChecks
  <2>1. OfferInv'
    BY <1>1 DEF OpenWindow, workerVars, OfferInv, Newer, OffersOnlyNewer
  <2>2. CheckTypeOK'
    BY <1>1, CheckFacts DEF OpenWindow, workerVars, CheckTypeOK
  <2> QED
    BY <1>1, <2>1, <2>2 DEF OpenWindow, workerVars
<1>2. CASE ReopenWindow /\ checks < MaxChecks
  BY <1>2 DEF ReopenWindow, workerVars, uiVars, OfferInv, Newer, OffersOnlyNewer, CheckTypeOK
<1>3. CASE TurnedDown
  <2>1. OfferInv'
    BY <1>3 DEF TurnedDown, workerVars, OfferInv, Newer, OffersOnlyNewer
  <2>2. CheckTypeOK'
    BY <1>3, CheckFacts DEF TurnedDown, workerVars, CheckTypeOK
  <2> QED
    BY <1>3, <2>1, <2>2 DEF TurnedDown, workerVars
<1>4. CASE BeginCheck /\ (ui = "showing" \/ checks < MaxChecks)
  <2>1. OfferInv'
    BY <1>4 DEF BeginCheck, OfferInv, Newer, OffersOnlyNewer
  <2>2. CheckTypeOK'
    BY <1>4, CheckFacts DEF BeginCheck, CheckTypeOK
  <2> QED
    BY <1>4, <2>1, <2>2 DEF BeginCheck, CheckTypeOK
<1>5. CASE StartWorker
  <2>1. OfferInv'
    BY <1>5 DEF StartWorker, uiVars, OfferInv, Newer, OffersOnlyNewer
  <2>2. CheckTypeOK'
    BY <1>5, CheckFacts DEF StartWorker, uiVars, CheckTypeOK
  <2> QED
    BY <1>5, <2>1, <2>2 DEF StartWorker
<1>6. CASE ApplyResult
  <2>1. /\ queue \in Seq(Results) /\ queue # <<>> /\ queue' = Tail(queue)
        /\ status' = Head(queue).status
        /\ download' = IF Head(queue).status \in Offering THEN Head(queue).build ELSE 0
        /\ UNCHANGED <<installed, ui, targetOpen, workerVars>> /\ button' = TRUE
    BY <1>6 DEF ApplyResult, CheckTypeOK
  <2>2. Head(queue) \in Results /\ Head(queue) = queue[1] /\ 1 \in 1..Len(queue)
    BY <2>1
  <2>3. status' \in Verdicts /\ download' \in Builds /\ queue' \in Seq(Results)
    BY <2>1, <2>2, CheckFacts DEF Results
  <2>4. CheckTypeOK'
    BY <2>1, <2>3 DEF CheckTypeOK, workerVars
  <2>5. \A i \in 1..Len(queue') : queue'[i] = queue[i + 1] /\ i + 1 \in 1..Len(queue)
    BY <2>1
  <2>6. OfferInv'
    BY <2>1, <2>2, <2>5 DEF OfferInv, Newer, OffersOnlyNewer, workerVars
  <2> QED
    BY <2>1, <2>4, <2>6 DEF workerVars
<1>7. ASSUME NEW r \in Results, Newer(r), Ends(r)
      PROVE  CheckTypeOK' /\ JoinIsShort' /\ NothingLeaks' /\ OfferInv' /\ Bound' /\ Open'
  BY <1>7 DEF Ends, uiVars, OfferInv, Newer, OffersOnlyNewer, CheckTypeOK
<1>8. CASE CheckEnds
  <2>1. \E r \in Results : Newer(r) /\ Ends(r)
    <3>1. installed \in Nat
      BY IdentityAssumption DEF CheckTypeOK
    <3>2. Newer(Failed) /\ Failed \in Results
      BY CheckFacts DEF Newer, Failed, Offering
    <3> QED
      BY <1>8, <3>1, <3>2, ResultFacts DEF CheckEnds, Answered, Broken, TimedOut
  <2> QED
    BY <1>7, <2>1
<1>9. CASE Complete
  <2>1. queue \in Seq(Results) /\ held \in Results
    BY DEF CheckTypeOK
  <2>2. CheckTypeOK'
    <3>1. queue' \in Seq(Results)
      BY <1>9, <2>1 DEF Complete
    <3>2. UNCHANGED <<installed, ui, targetOpen, checking, held, checks, latest, uiVars>>
      BY <1>9 DEF Complete
    <3>3. /\ worker \in {"running", "completing", "storing"}
          /\ worker' \in {"running", "completing", "storing"}
      BY <1>9 DEF Complete
    <3>4. lost' \in BOOLEAN
      BY <1>9 DEF Complete
    <3> QED
      BY <3>1, <3>2, <3>3, <3>4 DEF uiVars, CheckTypeOK
  <2>3. \A i \in 1..Len(queue') : queue'[i] = held \/ (i \in 1..Len(queue) /\ queue'[i] = queue[i])
    BY <1>9, <2>1 DEF Complete
  <2>4. OfferInv'
    BY <1>9, <2>3 DEF Complete, uiVars, OfferInv, Newer, OffersOnlyNewer
  <2> QED
    BY <1>9, <2>2, <2>4 DEF Complete
<1>10. CASE StoreIdle
  <2>1. OfferInv'
    BY <1>10 DEF StoreIdle, uiVars, OfferInv, Newer, OffersOnlyNewer
  <2>2. CheckTypeOK'
    BY <1>10 DEF StoreIdle, uiVars, CheckTypeOK
  <2> QED
    BY <1>10, <2>1, <2>2 DEF StoreIdle
<1>11. CASE Exit
  <2>1. OfferInv'
    BY <1>11 DEF Exit, uiVars, OfferInv, Newer, OffersOnlyNewer
  <2>2. CheckTypeOK'
    BY <1>11 DEF Exit, uiVars, CheckTypeOK
  <2> QED
    BY <1>11, <2>1, <2>2 DEF Exit
<1>12. CASE CloseWindow \/ JoinWorker
  <2>1. OfferInv'
    BY <1>12 DEF CloseWindow, JoinWorker, uiVars, workerVars, OfferInv, Newer,
          OffersOnlyNewer
  <2>2. CASE CloseWindow
    <3>1. CheckTypeOK'
      BY <2>2 DEF CloseWindow, Deactivate, uiVars, workerVars, CheckTypeOK
    <3> QED
      BY <2>1, <2>2, <3>1 DEF CloseWindow, Deactivate
  <2>3. CASE JoinWorker
    <3>1. CheckTypeOK'
      BY <2>3 DEF JoinWorker, uiVars, workerVars, CheckTypeOK
    <3> QED
      BY <2>1, <2>3, <3>1 DEF JoinWorker
  <2> QED
    BY <1>12, <2>2, <2>3
<1>13. CASE DiscardPending \/ DestroyWindow
  <2>1. OfferInv'
    BY <1>13 DEF DiscardPending, DestroyWindow, uiVars, workerVars, OfferInv, Newer,
          OffersOnlyNewer
  <2>2. CheckTypeOK'
    <3>1. queue' = <<>> /\ targetOpen' \in BOOLEAN
      BY <1>13 DEF DiscardPending, DestroyWindow, Deactivate, CheckTypeOK
    <3>2. ui \in {"closing", "discarded"} /\ ui' \in {"discarded", "leaving"}
      BY <1>13 DEF DiscardPending, DestroyWindow
    <3>3. UNCHANGED <<installed, workerVars, uiVars>>
      BY <1>13 DEF DiscardPending, DestroyWindow
    <3> QED
      BY <3>1, <3>2, <3>3 DEF uiVars, workerVars, CheckTypeOK
  <2> QED
    BY <1>13, <2>1, <2>2 DEF DiscardPending, DestroyWindow, Deactivate, workerVars
<1>14. CASE UNCHANGED checkVars
  BY <1>14 DEF checkVars, OfferInv, Newer, OffersOnlyNewer, CheckTypeOK
<1> QED
  BY <1>1, <1>2, <1>3, <1>4, <1>5, <1>6, <1>8, <1>9, <1>10, <1>11, <1>12, <1>13,
     <1>14 DEF CheckStep, WorkerEnds

\* The verdict moves on from the worker to the queue, and from there to the page.
LEMMA VerdictHolds ==
    ASSUME CheckTypeOK, VerdictInv, CheckStep
    PROVE  VerdictInv'
<1> USE DEF VerdictInv, Told
<1>1. CASE OpenWindow \/ ReopenWindow
  BY <1>1 DEF OpenWindow, ReopenWindow, workerVars
<1>2. CASE TurnedDown \/ BeginCheck
  BY <1>2 DEF TurnedDown, BeginCheck, workerVars, ShowsLatest
<1>3. CASE StartWorker \/ CheckEnds
  BY <1>3 DEF StartWorker, CheckEnds, Answered, Broken, TimedOut, Ends
<1>4. CASE ApplyResult
  <2>1. /\ queue \in Seq(Results) /\ queue # <<>> /\ queue' = Tail(queue)
        /\ UNCHANGED workerVars /\ button'
        /\ status' = Head(queue).status
        /\ download' = IF Head(queue).status \in Offering THEN Head(queue).build ELSE 0
    BY <1>4 DEF ApplyResult, CheckTypeOK
  <2>2. CASE queue' # <<>>
    <3>1. Len(queue') \in Nat /\ Len(queue') = Len(queue) - 1 /\ Len(queue') # 0
      BY <2>1, <2>2
    <3>2. queue'[Len(queue')] = queue[Len(queue)]
      BY <2>1, <3>1
    <3> QED
      BY <2>1, <2>2, <3>2 DEF workerVars
  <2>3. CASE queue' = <<>>
    <3>1. Len(queue) \in Nat /\ Len(queue) # 0 /\ Len(queue') = Len(queue) - 1
      BY <2>1
    <3>2. Len(queue') = 0
      BY <2>3
    <3>3. Head(queue) = queue[Len(queue)]
      BY <2>1, <3>1, <3>2
    <3> QED
      BY <2>1, <2>3, <3>3 DEF workerVars, ShowsLatest
  <2> QED
    BY <2>2, <2>3
<1>5. CASE Complete
  <2>1. queue \in Seq(Results) /\ held = latest /\ latest' = latest /\ worker' = "storing"
    BY <1>5 DEF Complete, CheckTypeOK
  <2>2. CASE queue' = Append(queue, held) /\ lost' = FALSE
    <3>1. queue' # <<>> /\ queue'[Len(queue')] = held
      BY <2>1, <2>2
    <3> QED
      BY <2>1, <3>1
  <2> QED
    BY <1>5, <2>1, <2>2 DEF Complete
<1>6. CASE StoreIdle \/ Exit
  BY <1>6 DEF StoreIdle, Exit, uiVars, ShowsLatest
<1>7. CASE CloseWindow \/ DiscardPending \/ DestroyWindow \/ JoinWorker
  BY <1>7 DEF CloseWindow, DiscardPending, DestroyWindow, JoinWorker, workerVars
<1>8. CASE UNCHANGED checkVars
  BY <1>8 DEF checkVars, ShowsLatest
<1> QED
  BY <1>1, <1>2, <1>3, <1>4, <1>5, <1>6, <1>7, <1>8 DEF CheckStep, WorkerEnds

\* The window is off the screen when there is none, and the paint is typed.
LEMMA ScreenHolds ==
    ASSUME WindowTypeOK, CheckTypeOK', LifeInv, Paints, [WindowNext]_windowVars
    PROVE  WindowTypeOK' /\ (ui = "leaving" => ~visible)'
<1>1. /\ dark' \in BOOLEAN /\ pagePaint' \in BOOLEAN
      /\ tone' \in Tones /\ statusPaint' \in Paint
  BY ToneFacts DEF WindowTypeOK, Paints, UpdateTheme, SetTone, paintVars, Paint
<1>2. visible' \in BOOLEAN /\ (ui' \in {"closed", "gone", "leaving"} => ~visible')
  <2> USE DEF WindowTypeOK, LifeInv
  <2>1. CASE Opens
    BY <2>1 DEF Opens, CreateAndShow, ShowAgain, OpenWindow, ReopenWindow
  <2>2. CASE Clicks \/ (ui = "showing" /\ BeginsCheck)
    BY <2>2 DEF Clicks, BeginsCheck, TurnedDown, BeginCheck
  <2>3. CASE HideWindow \/ ThemeMessage
    BY <2>3 DEF HideWindow, ThemeMessage, checkVars
  <2>4. CASE StartsWorker \/ AppliesResult
    BY <2>4 DEF StartsWorker, StartWorker, AppliesResult, ApplyResult
  <2>5. CASE WorkerThread
    BY <2>5 DEF WorkerThread, Answered, Broken, TimedOut, Ends, Complete, StoreIdle, Exit
  <2>6. CASE BeginsDestroy \/ JoinsWorker
    BY <2>6 DEF BeginsDestroy, CloseWindow, JoinsWorker, JoinWorker
  <2>7. CASE GoesOnDestroying
    BY <2>7 DEF GoesOnDestroying, DiscardPending, DestroyWindow
  <2>8. CASE UNCHANGED windowVars
    BY <2>8 DEF windowVars, checkVars
  <2> QED
    BY <2>1, <2>2, <2>3, <2>4, <2>5, <2>6, <2>7, <2>8 DEF WindowNext
<1> QED
  BY <1>1, <1>2 DEF WindowTypeOK

\* The text and its tone change together, and both are painted when one of them
\* or the theme changes.
LEMMA PaintHolds ==
    ASSUME PaintInv, [WindowNext]_windowVars
    PROVE  PaintInv'
<1> USE DEF PaintInv, ColoursTell
<1>1. CASE Opens
  BY <1>1, ToneFacts DEF Opens, CreateAndShow, ShowAgain, OpenWindow, ReopenWindow,
        UpdateTheme, uiVars, paintVars
<1>2. CASE Clicks \/ (ui = "showing" /\ BeginsCheck)
  BY <1>2, ToneFacts DEF Clicks, BeginsCheck, TurnedDown, BeginCheck, SetTone
<1>3. CASE HideWindow
  BY <1>3 DEF HideWindow, checkVars, paintVars
<1>4. CASE ThemeMessage
  BY <1>4 DEF ThemeMessage, UpdateTheme, checkVars
<1>5. CASE StartsWorker
  BY <1>5 DEF StartsWorker, StartWorker, uiVars, paintVars
<1>6. CASE AppliesResult
  BY <1>6 DEF AppliesResult, ApplyResult, SetTone
<1>7. CASE WorkerThread
  BY <1>7 DEF WorkerThread, Answered, Broken, TimedOut, Ends, Complete, StoreIdle, Exit,
        uiVars, paintVars
<1>8. CASE BeginsDestroy \/ GoesOnDestroying \/ JoinsWorker
  BY <1>8 DEF BeginsDestroy, CloseWindow, GoesOnDestroying, DiscardPending,
        DestroyWindow, JoinsWorker, JoinWorker
<1>9. CASE UNCHANGED windowVars
  BY <1>9 DEF windowVars, checkVars, paintVars
<1> QED
  BY <1>1, <1>2, <1>3, <1>4, <1>5, <1>6, <1>7, <1>8, <1>9 DEF WindowNext

\* Every step of the window keeps its invariant.
LEMMA WindowKept ==
    ASSUME WindowInv, [WindowNext]_windowVars
    PROVE  WindowInv'
<1>1. CheckStep /\ Paints
  BY WindowSteps DEF WindowInv
<1>2. /\ CheckTypeOK' /\ JoinIsShort' /\ NothingLeaks' /\ OfferInv'
      /\ (ui \in {"showing", "joining"} => checks < MaxChecks)'
      /\ (ui \notin {"showing", "loop", "joining"} => ~targetOpen)'
  BY <1>1, CheckHolds DEF WindowInv, WindowTypeOK, LifeInv
<1>3. WindowTypeOK' /\ (ui = "leaving" => ~visible)'
  BY <1>1, <1>2, ScreenHolds DEF WindowInv
<1>4. PaintInv'
  BY PaintHolds DEF WindowInv
<1>5. VerdictInv'
  BY <1>1, VerdictHolds DEF WindowInv, WindowTypeOK
<1> QED
  BY <1>2, <1>3, <1>4, <1>5 DEF WindowInv, LifeInv

\* The invariant of the window holds in every behaviour.
LEMMA WindowInvariant == WindowSpec => []WindowInv
  BY WindowInitHolds, WindowKept, PTL DEF WindowSpec

-----------------------------------------------------------------------------
(* The theorems *)

\* Every variable of the window keeps its type, and checking_ is set exactly
\* while a check can still end in a result.
THEOREM WindowTypeCorrect == WindowSpec => []WindowTypeOK
<1>1. WindowInv => WindowTypeOK
  BY DEF WindowInv
<1> QED
  BY <1>1, WindowInvariant, PTL

\* The UI thread joins only a worker that is past the network.
THEOREM JoinIsShortCorrect == WindowSpec => []JoinIsShort
<1>1. WindowInv => JoinIsShort
  BY DEF WindowInv
<1> QED
  BY <1>1, WindowInvariant, PTL

\* No result stays behind in the queue of a window that is gone.
THEOREM NothingLeaksCorrect == WindowSpec => []NothingLeaks
<1>1. WindowInv => NothingLeaks
  BY DEF WindowInv
<1> QED
  BY <1>1, WindowInvariant, PTL

\* A release build never offers an older build, whatever the manifests say and
\* however late a result comes.
THEOREM OffersOnlyNewerCorrect == WindowSpec => []OffersOnlyNewer
<1>1. WindowInv => OffersOnlyNewer
  BY DEF WindowInv, OfferInv
<1> QED
  BY <1>1, WindowInvariant, PTL

\* The status text is painted in the tone of what it says, for the theme of the
\* page, in every order of theme changes, requests and results.
THEOREM ColoursTellCorrect == WindowSpec => []ColoursTell
<1>1. WindowInv => ColoursTell
  BY DEF WindowInv, PaintInv
<1> QED
  BY <1>1, WindowInvariant, PTL

\* Once no check is under way and every message was handled, the page says what
\* the last check found, however requests, results and restarts of the check
\* were ordered: an older result never stays on top of a newer one.
THEOREM QuietShowsLastVerdictCorrect == WindowSpec => []QuietShowsLastVerdict
<1>1. WindowInv => QuietShowsLastVerdict
  BY DEF WindowInv, VerdictInv, Told, ShowsLatest, QuietShowsLastVerdict
<1> QED
  BY <1>1, WindowInvariant, PTL
=============================================================================
