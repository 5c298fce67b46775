-------------------------- MODULE SettingsUiProofs --------------------------
(***************************************************************************)
(* Proofs about the settings UI behind its loader, for any number of       *)
(* threads and requests and whatever faults are admitted.                  *)
(*                                                                         *)
(*   NothingOutlivesThreadCorrect  a thread takes window and worker along  *)
(*   SettingsUnloadSafeCorrect     no thread is left in an unmapped DLL    *)
(*   StartedServesCorrect          a started thread stays within reach     *)
(*   SettingsTypeCorrect           types, and how many boxes and checks    *)
(*   WindowKeepsItsPromises        what the window promises on its own     *)
(*   SettingsImplementsDoor        requests are dealt with in order, once  *)
(*   ShowIsQueuedInRoomCorrect     only a full queue loses a request       *)
(*                                                                         *)
(* NothingOutlivesThreadCorrect, SettingsTypeCorrect and                   *)
(* WindowKeepsItsPromises hold whatever start() gives up on; the others    *)
(* hold until it leaves a thread to itself.                                *)
(***************************************************************************)
EXTENDS SettingsUiLoader, SettingsWindowProofs, TLAPS

Live == {"loop", "quitting", "unwinding", "destructing"}
Busy == Live \cup {"starting", "cleanup"}

\* The types that the arguments below need.
Typed ==
    /\ thread \in Threads \cup {NoThread}
    /\ phase \in [Threads -> Phases] /\ inbox \in [Threads -> Seq(Messages)]
    /\ startResult \in {"ok", "error"} /\ result \in {"ok", "error"}
    /\ op \in {"idle", "start", "stop", "gone"}
    /\ call \in {"idle", "start_wait", "start_join", "stop_wait"}

\* Every operation of the loader makes its own call of the DLL only.
OpInv ==
    /\ op \in {"idle", "gone"} => call = "idle"
    /\ op = "start" => call # "stop_wait" /\ ~started /\ module = "loaded"
    /\ op = "stop" => call \in {"idle", "stop_wait"} /\ started
    /\ module = "freed" => op = "gone"

-----------------------------------------------------------------------------
(* What a step can be *)

\* The calls into the DLL, and what the loader does between them.
Calls ==
    \/ ShowStarts \/ ShowStarted \/ HideExported
    \/ ShowAfterStart \/ DestroyStops
    \/ (CallReturns \/ StartWaitFails \/ StopTimesOut) /\ UNCHANGED loaderVars

Between == ShowGivesUp \/ DestroyAtOnce \/ DestroyEnds

UiStep(t) == UiThread(t) /\ UNCHANGED loaderVars

\* A step of the settings composition is one of these, or changes nothing.
LEMMA Steps ==
    [SettingsNext]_settingsVars =>
        \/ Calls \/ Between \/ CheckWorker \/ UNCHANGED settingsVars
        \/ \E t \in Threads : UiStep(t)
  BY DEF SettingsNext, MainThread, MainReturns, MainGivesUp, LoaderReturns, Calls,
     Between, UiStep, UiThread, Ui, User

\* The caller starts threads and posts messages; the window is not its own.
LEMMA CallsLeaveWindow ==
    ASSUME Calls \/ Between
    PROVE  /\ UNCHANGED <<windowVars, boxes, crashed>>
           /\ phase' = phase \/ \E t \in Threads : StartThread(t)
<1>1. CASE Between
  BY <1>1 DEF Between, ShowGivesUp, DestroyAtOnce, DestroyEnds, runtimeVars, lifeVars
<1>2. CASE ShowStarts
  BY <1>2 DEF ShowStarts, StartAgain, StartFails, StartThread, StartUnchanged, lifeVars
<1>3. CASE ShowStarted \/ HideExported \/ ShowAfterStart
  BY <1>3 DEF ShowStarted, HideExported, ShowAfterStart, Show, Hide, Request, lifeVars
<1>4. CASE DestroyStops
  BY <1>4 DEF DestroyStops, Stop, StopNothing, StopPost, lifeVars
<1>5. CASE CallReturns \/ StartWaitFails \/ StopTimesOut
  BY <1>5 DEF CallReturns, StartReady, StartJoin, StopJoined, StartWaitFails,
        StopTimesOut, StartUnchanged, lifeVars
<1> QED
  BY <1>1, <1>2, <1>3, <1>4, <1>5 DEF Calls

\* Where a UI thread goes from where it is.
Onward(p) ==
    CASE p = "starting" -> {"loop", "cleanup"}
      [] p = "loop" -> {"quitting", "unwinding"}
      [] p = "quitting" -> {"destructing"}
      [] p \in {"unwinding", "destructing"} -> {"cleanup"}
      [] p = "cleanup" -> {"exited"}
      [] OTHER -> {}

\* A UI thread makes no call and moves on its own way only.
LEMMA UiMoves ==
    ASSUME Typed, NEW t \in Threads, UiStep(t)
    PROVE  /\ UNCHANGED <<thread, call, result, loaderVars>>
           /\ \A u \in Threads \ {t} : phase'[u] = phase[u]
           /\ phase[t] \in Busy
           /\ phase'[t] \in Onward(phase[t]) \/ (phase' = phase /\ phase[t] \in Live)
<1> USE DEF Typed, UiStep, Onward, Live, Busy
<1>1. CASE ThreadStarted(t) \/ ThreadFailed(t)
  BY <1>1 DEF ThreadStarted, ThreadFailed, GoesTo, UiUnchanged, callVars
<1>2. CASE ThreadQuits(t) \/ Destructs(t) \/ ThreadExits(t)
  BY <1>2 DEF ThreadQuits, Destructs, ThreadExits, GoesTo, UiUnchanged, callVars
<1>3. CASE HandleShow(t) \/ HandleHide(t) \/ HandleStop(t)
  BY <1>3 DEF HandleShow, HandleHide, HandleStop, Receives, GoesTo, UiUnchanged, callVars
<1>4. CASE HandlerGoesOn(t)
  BY <1>4 DEF HandlerGoesOn, callVars, lifeVars
<1>5. CASE WindowMessage(t) \/ IslandThrows(t)
  BY <1>5 DEF WindowMessage, IslandThrows, GoesTo, UiUnchanged, callVars, lifeVars
<1>6. CASE phase[t] \in {"loop", "quitting"} /\ BoxEnds(t)
  BY <1>6 DEF BoxEnds, callVars, lifeVars
<1> QED
  BY <1>1, <1>2, <1>3, <1>4, <1>5, <1>6 DEF UiThread, UiSteps, UserSteps

-----------------------------------------------------------------------------
(* Types, operations and queues *)

\* A posted message leaves the queues in their type.
LEMMA PostTyped ==
    ASSUME Typed, NEW m \in Messages, Post(m)
    PROVE  inbox' \in [Threads -> Seq(Messages)]
<1>1. CASE ~CanPost
  BY <1>1 DEF Post, Typed
<1>2. CASE CanPost
  <2>1. commandWindow \in Threads \/ inbox' = inbox
    BY <1>2 DEF Post, Typed
  <2>2. CASE commandWindow \in Threads
    <3>1. Append(inbox[commandWindow], m) \in Seq(Messages)
      BY <2>2 DEF Typed
    <3> QED
      BY <1>2, <3>1 DEF Post, Typed
  <2> QED
    BY <2>1, <2>2 DEF Typed
<1> QED
  BY <1>1, <1>2

\* Every step keeps the fields of the loader and of the runtime in their types.
LEMMA TypesHold == Typed /\ [SettingsNext]_settingsVars => Typed'
<1> SUFFICES ASSUME Typed, [SettingsNext]_settingsVars
             PROVE  Typed'
  OBVIOUS
<1>1. ASSUME NEW m \in Messages, Request(m), op' \in {op, "idle"}
      PROVE  Typed'
  BY <1>1, PostTyped DEF Typed, Request, lifeVars
<1>2. CASE ShowStarts
  BY <1>2 DEF Typed, ShowStarts, StartAgain, StartFails, StartThread, StartUnchanged,
        Return, GoesTo, Phases, lifeVars
<1>3. CASE ShowStarted \/ HideExported \/ ShowAfterStart
  BY <1>1, <1>3 DEF ShowStarted, HideExported, ShowAfterStart, Show, Hide, Messages, loaderVars
<1>4. CASE DestroyStops
  <2>1. "stop" \in Messages
    BY DEF Messages
  <2> QED
    BY <1>4, <2>1, PostTyped DEF Typed, DestroyStops, Stop, StopNothing, StopPost, Return,
       lifeVars
<1>5. CASE (CallReturns \/ StartWaitFails \/ StopTimesOut) /\ UNCHANGED loaderVars
  BY <1>5 DEF Typed, CallReturns, StartReady, StartJoin, StopJoined, StartWaitFails,
        StopTimesOut, StartUnchanged, Return, lifeVars, loaderVars
<1>6. CASE Between
  BY <1>6 DEF Typed, Between, ShowGivesUp, DestroyAtOnce, DestroyEnds, runtimeVars,
        lifeVars, callVars
<1>7. CASE CheckWorker
  BY <1>7 DEF Typed, CheckWorker, Worker, lifeVars, callVars, loaderVars
<1>8. ASSUME NEW t \in Threads, UiStep(t)
      PROVE  Typed'
  <2>1. /\ UNCHANGED <<thread, call, result, op>>
        /\ phase' = phase \/ (phase' = [phase EXCEPT ![t] = phase'[t]] /\ phase'[t] \in Phases)
    <3>1. phase' = phase \/ \E p \in Phases : phase' = [phase EXCEPT ![t] = p]
      BY <1>8 DEF UiStep, UiThread, UiSteps, UserSteps, ThreadStarted, ThreadFailed,
            ThreadQuits, Destructs, ThreadExits, HandleShow, HandleHide, HandleStop,
            HandlerGoesOn, WindowMessage, IslandThrows, BoxEnds, GoesTo, Phases, lifeVars
    <3> QED
      BY <1>8, <3>1, UiMoves DEF Typed, loaderVars
  <2>2. startResult' \in {"ok", "error"}
    BY <1>8 DEF Typed, UiStep, UiThread, UiSteps, UserSteps, ThreadStarted, ThreadFailed,
          ThreadQuits, Destructs, ThreadExits, HandleShow, HandleHide, HandleStop,
          HandlerGoesOn, WindowMessage, IslandThrows, BoxEnds, lifeVars
  <2>3. inbox' = inbox \/ inbox' = [inbox EXCEPT ![t] = <<>>] \/ (inbox[t] # <<>> /\ Consumes(t))
    BY <1>8 DEF UiStep, UiThread, UiSteps, UserSteps, ThreadStarted, ThreadFailed,
          ThreadQuits, Destructs, ThreadExits, HandleShow, HandleHide, HandleStop, Receives,
          HandlerGoesOn, WindowMessage, IslandThrows, BoxEnds
  <2>4. inbox[t] # <<>> => Tail(inbox[t]) \in Seq(Messages)
    BY DEF Typed
  <2>5. inbox' \in [Threads -> Seq(Messages)]
    <3>1. inbox[t] # <<>> /\ Consumes(t) => inbox' \in [Threads -> Seq(Messages)]
      BY <2>4 DEF Typed, Consumes
    <3>2. inbox' = [inbox EXCEPT ![t] = <<>>] => inbox' \in [Threads -> Seq(Messages)]
      BY DEF Typed
    <3> QED
      BY <2>3, <3>1, <3>2 DEF Typed
  <2> QED
    BY <2>1, <2>2, <2>5 DEF Typed
<1>9. CASE UNCHANGED settingsVars
  BY <1>9 DEF Typed, settingsVars, runtimeVars, lifeVars, callVars, loaderVars
<1> QED
  BY <1>2, <1>3, <1>4, <1>5, <1>6, <1>7, <1>8, <1>9, Steps DEF Calls

\* Which call of the DLL the loader is inside of is kept by every step.
LEMMA OpHolds == Typed /\ OpInv /\ [SettingsNext]_settingsVars => OpInv'
<1> SUFFICES ASSUME Typed, OpInv, [SettingsNext]_settingsVars
             PROVE  OpInv'
  OBVIOUS
<1> USE DEF OpInv
<1>1. CASE ShowStarts
  BY <1>1 DEF ShowStarts, StartAgain, StartFails, StartThread, Return, Free
<1>2. CASE ShowStarted \/ HideExported \/ ShowAfterStart
  BY <1>2 DEF ShowStarted, HideExported, ShowAfterStart, Show, Hide, Request, Free, loaderVars
<1>3. CASE DestroyStops
  BY <1>3 DEF DestroyStops, Stop, StopNothing, StopPost, Return, Free
<1>4. CASE (CallReturns \/ StartWaitFails \/ StopTimesOut) /\ UNCHANGED loaderVars
  BY <1>4 DEF CallReturns, StartReady, StartJoin, StopJoined, StartWaitFails,
        StopTimesOut, Return, loaderVars
<1>5. CASE Between
  BY <1>5 DEF Between, ShowGivesUp, DestroyAtOnce, DestroyEnds, runtimeVars, callVars, Free
<1>6. CASE CheckWorker \/ UNCHANGED settingsVars
  BY <1>6 DEF CheckWorker, Worker, callVars, loaderVars, settingsVars, runtimeVars
<1>7. ASSUME NEW t \in Threads, UiStep(t)
      PROVE  OpInv'
  BY <1>7, UiMoves DEF loaderVars
<1> QED
  BY <1>1, <1>2, <1>3, <1>4, <1>5, <1>6, <1>7, Steps DEF Calls

Contains(q, m) == \E i \in 1..Len(q) : q[i] = m

\* Only the destructor asks a thread to stop.
QueueInv == op \notin {"stop", "gone"} => \A t \in Threads : ~Contains(inbox[t], "stop")

\* A post keeps what is known of the messages in the queues.
LEMMA QueuePosted ==
    ASSUME NEW q \in Seq(Messages), NEW m \in Messages, NEW k
    PROVE  /\ Contains(Append(q, m), k) => m = k \/ Contains(q, k)
           /\ q # <<>> /\ Contains(Tail(q), k) => Contains(q, k)
           /\ q # <<>> => Contains(q, Head(q))
<1>1. ASSUME Contains(Append(q, m), k)
      PROVE  m = k \/ Contains(q, k)
  <2>1. PICK i \in 1..Len(Append(q, m)) : Append(q, m)[i] = k
    BY <1>1 DEF Contains
  <2>2. CASE i = Len(q) + 1
    BY <2>1, <2>2
  <2>3. CASE i \in 1..Len(q)
    BY <2>1, <2>3 DEF Contains
  <2> QED
    BY <2>1, <2>2, <2>3
<1>2. ASSUME q # <<>>, Contains(Tail(q), k)
      PROVE  Contains(q, k)
  <2>1. PICK i \in 1..Len(Tail(q)) : Tail(q)[i] = k
    BY <1>2 DEF Contains
  <2>2. i + 1 \in 1..Len(q) /\ q[i + 1] = k
    BY <1>2, <2>1
  <2> QED
    BY <2>2 DEF Contains
<1>3. q # <<>> => Contains(q, Head(q))
  BY DEF Contains
<1> QED
  BY <1>1, <1>2, <1>3

\* Every step keeps what is known of the messages in the queues.
LEMMA QueueHolds == Typed /\ QueueInv /\ [SettingsNext]_settingsVars => QueueInv'
<1> SUFFICES ASSUME Typed, QueueInv, [SettingsNext]_settingsVars,
                    op' \notin {"stop", "gone"}, NEW u \in Threads
             PROVE  ~Contains(inbox'[u], "stop")
  BY DEF QueueInv
<1>1. CASE op \in {"stop", "gone"}
  <2>1. op' \in {"stop", "gone"}
    BY <1>1, Steps, UiMoves DEF Calls, ShowStarts, ShowStarted, HideExported, ShowAfterStart,
       DestroyStops, Between, ShowGivesUp, DestroyAtOnce, DestroyEnds, CheckWorker, Free,
       loaderVars, settingsVars
  <2> QED
    BY <2>1
<1>2. CASE op \notin {"stop", "gone"}
  <2>1. ~Contains(inbox[u], "stop") /\ inbox[u] \in Seq(Messages)
    BY <1>2 DEF QueueInv, Typed
  <2>2. ASSUME NEW m \in {"show", "hide"}, Post(m)
        PROVE  ~Contains(inbox'[u], "stop")
    <3>1. m \in Messages /\ m # "stop"
      BY DEF Messages
    <3>2. inbox'[u] = inbox[u] \/ inbox'[u] = Append(inbox[u], m)
      BY <2>2 DEF Post, Typed
    <3>3. ~Contains(Append(inbox[u], m), "stop")
      BY <2>1, <3>1, QueuePosted
    <3> QED
      BY <2>1, <3>2, <3>3
  <2>3. CASE ShowStarted \/ HideExported \/ ShowAfterStart
    BY <2>2, <2>3 DEF ShowStarted, HideExported, ShowAfterStart, Show, Hide, Request
  <2>4. CASE ShowStarts \/ Between
            \/ ((CallReturns \/ StartWaitFails \/ StopTimesOut) /\ UNCHANGED loaderVars)
    <3>1. inbox' = inbox
      BY <2>4 DEF ShowStarts, StartAgain, StartFails, StartThread, Between, ShowGivesUp,
            DestroyAtOnce, DestroyEnds, CallReturns, StartReady, StartJoin, StopJoined,
            StartWaitFails, StopTimesOut, StartUnchanged, runtimeVars
    <3> QED
      BY <2>1, <3>1
  <2>5. CASE CheckWorker \/ UNCHANGED settingsVars
    BY <2>1, <2>5 DEF CheckWorker, Worker, settingsVars, runtimeVars
  <2>6. ASSUME NEW t \in Threads, UiStep(t)
        PROVE  ~Contains(inbox'[u], "stop")
    <3>1. \/ inbox'[u] = inbox[u] \/ inbox'[u] = <<>>
          \/ inbox[u] # <<>> /\ inbox'[u] = Tail(inbox[u])
      BY <2>6 DEF Typed, UiStep, UiThread, UiSteps, UserSteps, ThreadStarted, ThreadFailed,
            ThreadQuits, Destructs, ThreadExits, HandleShow, HandleHide, HandleStop, Receives,
            Consumes, HandlerGoesOn, WindowMessage, IslandThrows, BoxEnds
    <3>2. inbox[u] # <<>> => ~Contains(Tail(inbox[u]), "stop")
      <4>1. "stop" \in Messages
        BY DEF Messages
      <4> QED
        BY <2>1, <4>1, QueuePosted
    <3>3. ~Contains(<<>>, "stop")
      BY DEF Contains
    <3> QED
      BY <2>1, <3>1, <3>2, <3>3
  <2>7. ~DestroyStops
    BY DEF DestroyStops
  <2> QED
    BY <2>3, <2>4, <2>5, <2>6, <2>7, Steps DEF Calls
<1> QED
  BY <1>1, <1>2

-----------------------------------------------------------------------------
(* The one thread that has the window *)

\* Whoever is starting or has a window is thread_, whatever was given up on.
OneInv ==
    /\ \A t \in Threads : phase[t] \in Live \cup {"starting"} => thread = t
    /\ call # "idle" => thread # NoThread

\* The ready event says whether the new thread is in its loop or on its way out;
\* only an exception can have taken it out of the loop already.
WakeInv ==
    /\ call = "start_wait" /\ ready =>
          IF startResult = "ok" THEN phase[thread] = "loop" \/ crashed
          ELSE phase[thread] \in {"cleanup", "exited"}
    /\ call = "start_join" => phase[thread] \in {"cleanup", "exited"}

\* Every step keeps at most one thread in use.
LEMMA OneHolds ==
    ASSUME Typed, OneInv, WakeInv, [SettingsNext]_settingsVars
    PROVE  OneInv'
<1> USE DEF OneInv
<1>1. CASE ShowStarts
  <2>1. CASE StartAgain \/ StartFails
    BY <2>1 DEF StartAgain, StartFails, Return, lifeVars
  <2>2. ASSUME NEW t \in Threads, StartThread(t)
        PROVE  OneInv'
    <3>1. thread' = t /\ t # NoThread
      BY <2>2, NoThreadAssumption DEF StartThread
    <3>2. \A u \in Threads \ {t} : phase'[u] = phase[u] /\ phase[u] \notin Live \cup {"starting"}
      BY <2>2, NoThreadAssumption DEF Typed, StartThread, GoesTo
    <3> QED
      BY <3>1, <3>2
  <2> QED
    BY <1>1, <2>1, <2>2 DEF ShowStarts
<1>2. CASE ShowStarted \/ HideExported \/ ShowAfterStart
  BY <1>2 DEF ShowStarted, HideExported, ShowAfterStart, Show, Hide, Request, lifeVars
<1>3. CASE DestroyStops
  BY <1>3 DEF DestroyStops, Stop, StopNothing, StopPost, Return, lifeVars
<1>4. CASE StartReady \/ StartWaitFails \/ StopTimesOut
  BY <1>4 DEF StartReady, StartWaitFails, StopTimesOut, Return, lifeVars
<1>5. CASE StartJoin \/ StopJoined
  <2>1. phase' = phase /\ call' = "idle" /\ thread' = NoThread
    BY <1>5 DEF StartJoin, StopJoined, Return
  <2>2. phase[thread] \notin Live \cup {"starting"}
    BY <1>5 DEF StartJoin, StopJoined, WakeInv, Live
  <2> QED
    BY <2>1, <2>2
<1>6. CASE Between
  BY <1>6 DEF Between, ShowGivesUp, DestroyAtOnce, DestroyEnds, runtimeVars, lifeVars, callVars
<1>7. CASE CheckWorker \/ UNCHANGED settingsVars
  BY <1>7 DEF CheckWorker, Worker, lifeVars, callVars, settingsVars, runtimeVars
<1>8. ASSUME NEW t \in Threads, UiStep(t)
      PROVE  OneInv'
  <2>1. phase'[t] \in Live \cup {"starting"} => phase[t] \in Live \cup {"starting"}
    BY <1>8, UiMoves DEF Onward, Live, Busy
  <2> QED
    BY <1>8, <2>1, UiMoves
<1> QED
  BY <1>1, <1>2, <1>3, <1>4, <1>5, <1>6, <1>7, <1>8, Steps DEF Calls, CallReturns

\* Every step keeps the stop message on its way while a caller waits for the thread.
LEMMA WakeHolds ==
    ASSUME Typed, OneInv, WakeInv, OpInv, QueueInv, [SettingsNext]_settingsVars
    PROVE  WakeInv'
<1> USE DEF WakeInv
<1>1. CASE Calls \/ Between
  <2>1. CASE StartReady
    BY <2>1 DEF StartReady, Return, StartUnchanged, lifeVars
  <2>2. CASE ~StartReady
    <3>1. call' = "start_wait" => (call = "start_wait" /\ UNCHANGED lifeVars) \/ ~ready'
      BY <1>1, <2>2 DEF Calls, Between, ShowGivesUp, DestroyAtOnce, DestroyEnds, ShowStarts,
            StartAgain, StartFails, StartThread, ShowStarted, HideExported, ShowAfterStart,
            Show, Hide, Request, DestroyStops, Stop, StopNothing, StopPost, CallReturns,
            StartJoin, StopJoined, StartWaitFails, StopTimesOut, Return, runtimeVars, callVars
    <3>2. call' = "start_join" => call = "start_join" /\ UNCHANGED lifeVars
      BY <1>1, <2>2 DEF Calls, Between, ShowGivesUp, DestroyAtOnce, DestroyEnds, ShowStarts,
            StartAgain, StartFails, StartThread, ShowStarted, HideExported, ShowAfterStart,
            Show, Hide, Request, DestroyStops, Stop, StopNothing, StopPost, CallReturns,
            StartJoin, StopJoined, StartWaitFails, StopTimesOut, Return, runtimeVars, callVars
    <3>3. crashed' = crashed
      BY <1>1, CallsLeaveWindow
    <3> QED
      BY <3>1, <3>2, <3>3 DEF lifeVars
  <2> QED
    BY <2>1, <2>2
<1>2. CASE CheckWorker \/ UNCHANGED settingsVars
  BY <1>2 DEF CheckWorker, Worker, lifeVars, callVars, settingsVars, runtimeVars
<1>3. ASSUME NEW t \in Threads, UiStep(t)
      PROVE  WakeInv'
  <2>1. UNCHANGED <<thread, call>>
    BY <1>3, UiMoves
  <2>2. CASE thread # t
    <3>1. /\ phase[t] = "cleanup" /\ ready' = ready /\ startResult' = startResult
          /\ crashed' = crashed
      <4>1. phase[t] = "cleanup"
        BY <1>3, <2>2, UiMoves DEF OneInv, Busy, Live
      <4> QED
        BY <1>3, <4>1 DEF UiStep, UiThread, UiSteps, UserSteps, ThreadStarted, ThreadFailed,
              ThreadQuits, Destructs, ThreadExits, HandleShow, HandleHide, HandleStop,
              Receives, HandlerGoesOn, WindowMessage, IslandThrows
    <3>2. call # "idle" => phase'[thread] = phase[thread]
      BY <1>3, <2>2, UiMoves DEF OneInv, Typed
    <3> QED
      BY <2>1, <3>1, <3>2
  <2>3. CASE thread = t /\ call = "start_wait" /\ ready'
    <3>1. op = "start"
      BY <2>3 DEF OpInv, Typed
    <3>2. CASE ThreadStarted(t) \/ ThreadFailed(t)
      BY <2>1, <2>3, <3>2 DEF Typed, ThreadStarted, ThreadFailed, GoesTo
    <3>3. CASE Destructs(t)
      <4>1. phase[t] \in {"destructing", "unwinding"} /\ phase'[t] = "cleanup"
        BY <3>3 DEF Typed, Destructs, GoesTo
      <4>2. ready' = ready /\ crashed' = crashed
        BY <3>3 DEF Destructs
      <4>3. startResult = "ok" /\ crashed
        BY <2>3, <4>1, <4>2
      <4> QED
        BY <2>1, <2>3, <4>1, <4>2, <4>3
    <3>4. CASE IslandThrows(t)
      BY <2>1, <2>3, <3>4 DEF IslandThrows
    <3>5. ~HandleStop(t)
      <4>1. inbox[t] \in Seq(Messages) /\ "stop" \in Messages
        BY DEF Typed, Messages
      <4> QED
        BY <3>1, <4>1, QueuePosted DEF HandleStop, Receives, QueueInv
    <3>6. CASE ThreadQuits(t) \/ ThreadExits(t)
      <4>1. UNCHANGED <<ready, startResult, crashed>>
        BY <3>6 DEF ThreadQuits, ThreadExits
      <4>2. phase[t] \in {"quitting", "cleanup"} /\ phase'[t] \in {"destructing", "exited"}
        BY <3>6 DEF Typed, ThreadQuits, ThreadExits, GoesTo
      <4>3. phase[t] = "cleanup" => phase'[t] = "exited"
        BY <3>6 DEF Typed, ThreadQuits, ThreadExits, GoesTo
      <4> QED
        BY <2>1, <2>3, <4>1, <4>2, <4>3
    <3>7. CASE HandleShow(t) \/ HandleHide(t) \/ HandlerGoesOn(t) \/ WindowMessage(t)
               \/ BoxEnds(t)
      <4>1. UNCHANGED <<ready, startResult, crashed, phase>>
        BY <3>7 DEF HandleShow, HandleHide, Receives, HandlerGoesOn, WindowMessage,
              BoxEnds, lifeVars
      <4> QED
        BY <2>1, <2>3, <4>1
    <3> QED
      BY <1>3, <3>2, <3>3, <3>4, <3>5, <3>6, <3>7 DEF UiStep, UiThread, UiSteps, UserSteps
  <2>4. CASE thread = t /\ call = "start_join"
    <3>1. phase[t] \in {"cleanup", "exited"}
      BY <2>4
    <3>2. phase'[t] \in {"cleanup", "exited"}
      BY <1>3, <3>1, UiMoves DEF Onward, Busy, Live
    <3> QED
      BY <2>1, <2>4, <3>2
  <2> QED
    BY <2>1, <2>2, <2>3, <2>4
<1> QED
  BY <1>1, <1>2, <1>3, Steps

-----------------------------------------------------------------------------
(* The window *)

\* What is left of the window and its check in each part of its life.
RemainsInv ==
    /\ ui \in {"closed", "showing", "loop", "joining", "closing", "discarded", "leaving", "gone"}
    /\ ui \in {"closed", "closing", "discarded", "leaving", "gone"} => ~targetOpen
    /\ ui \in {"closed", "leaving", "gone"} => queue = <<>> /\ ~visible
    /\ ui = "closed" => worker = "none"
    /\ ui = "gone" => worker \in {"none", "exited"}

\* The window's life and its thread's go together, and so do message boxes.
PlaceInv ==
    /\ (\A t \in Threads : phase[t] \notin Live) => ui \in {"closed", "gone"} /\ boxes = 0
    /\ \A t \in Threads :
          /\ phase[t] = "loop" => ui \in {"closed", "showing", "loop", "joining"}
          /\ phase[t] \in {"quitting", "unwinding"} => ui \in {"closing", "discarded", "leaving"}
          /\ phase[t] = "destructing" => ui = "leaving"
          /\ phase[t] \in {"unwinding", "destructing"} => boxes = 0

\* The worker does not touch the window itself, and posts only to one that is open.
LEMMA WindowOfWorker ==
    ASSUME RemainsInv, WorkerThread
    PROVE  RemainsInv' /\ ui' = ui
<1> USE DEF RemainsInv
<1>1. CASE Answered \/ Broken \/ TimedOut
  BY <1>1 DEF WorkerThread, Answered, Broken, TimedOut, Ends
<1>2. CASE Complete
  BY <1>2 DEF WorkerThread, Complete
<1>3. CASE StoreIdle \/ Exit
  BY <1>3 DEF WorkerThread, StoreIdle, Exit
<1> QED
  BY <1>1, <1>2, <1>3 DEF WorkerThread

\* The messages of the window, as long as its thread is in the message loop.
LEMMA WindowOfMessages ==
    ASSUME RemainsInv,
           \/ CreateAndShow \/ ShowAgain \/ BeginsCheck \/ StartsWorker
           \/ AppliesResult \/ HideWindow \/ ThemeMessage
    PROVE  RemainsInv' /\ ui' \in {"showing", "loop", "joining"}
<1> USE DEF RemainsInv
<1>1. CASE CreateAndShow \/ ShowAgain
  BY <1>1 DEF CreateAndShow, ShowAgain, OpenWindow, ReopenWindow, workerVars
<1>2. CASE BeginsCheck
  BY <1>2 DEF BeginsCheck, TurnedDown, BeginCheck
<1>3. CASE StartsWorker
  BY <1>3 DEF StartsWorker, StartWorker
<1>4. CASE AppliesResult
  BY <1>4 DEF AppliesResult, ApplyResult
<1>5. CASE HideWindow \/ ThemeMessage
  BY <1>5 DEF HideWindow, ThemeMessage, checkVars
<1> QED
  BY <1>1, <1>2, <1>3, <1>4, <1>5

\* The window is taken away in steps, and the worker is joined at the end.
LEMMA WindowOfEnds ==
    ASSUME RemainsInv, BeginsDestroy \/ GoesOnDestroying \/ JoinsWorker
    PROVE  /\ RemainsInv'
           /\ BeginsDestroy => ui' = "closing"
           /\ GoesOnDestroying => ui # "leaving" /\ ui' \in {"discarded", "leaving"}
           /\ JoinsWorker => ui' = "gone"
<1> USE DEF RemainsInv
<1>1. CASE BeginsDestroy
  BY <1>1 DEF BeginsDestroy, CloseWindow, Deactivate, GoesOnDestroying, DiscardPending,
        DestroyWindow, JoinsWorker, JoinWorker, workerVars
<1>2. CASE GoesOnDestroying
  <2>1. CASE DiscardPending
    BY <1>2, <2>1 DEF BeginsDestroy, CloseWindow, GoesOnDestroying, DiscardPending,
          DestroyWindow, JoinsWorker, JoinWorker, workerVars
  <2>2. CASE DestroyWindow
    BY <1>2, <2>2 DEF BeginsDestroy, CloseWindow, GoesOnDestroying, DiscardPending,
          DestroyWindow, Deactivate, JoinsWorker, JoinWorker, workerVars
  <2> QED
    BY <1>2, <2>1, <2>2 DEF GoesOnDestroying
<1>3. CASE JoinsWorker
  BY <1>3 DEF BeginsDestroy, CloseWindow, GoesOnDestroying, DiscardPending,
        DestroyWindow, JoinsWorker, JoinWorker, workerVars
<1> QED
  BY <1>1, <1>2, <1>3

\* A step of the thread that has the window, or is getting it.
LEMMA WindowOfThread ==
    ASSUME Typed, OneInv, RemainsInv, PlaceInv, NEW t \in Threads, UiStep(t),
           phase[t] # "cleanup"
    PROVE  RemainsInv' /\ PlaceInv'
<1>1. \A u \in Threads \ {t} : phase[u] \notin Live /\ phase'[u] = phase[u]
  BY UiMoves DEF OneInv, Busy
<1>2. phase[t] \in Live \/ (ui \in {"closed", "gone"} /\ boxes = 0)
  BY <1>1 DEF PlaceInv
<1>3. ASSUME RemainsInv',
             phase'[t] = "loop" => ui' \in {"closed", "showing", "loop", "joining"},
             phase'[t] \in {"quitting", "unwinding"} => ui' \in {"closing", "discarded", "leaving"},
             phase'[t] = "destructing" => ui' = "leaving",
             phase'[t] \in {"unwinding", "destructing"} => boxes' = 0,
             phase'[t] \in Live \/ (ui' \in {"closed", "gone"} /\ boxes' = 0)
      PROVE  RemainsInv' /\ PlaceInv'
  BY <1>1, <1>3 DEF PlaceInv, Live
<1>4. CASE ThreadStarted(t)
  <2>1. phase[t] = "starting" /\ phase'[t] = "loop" /\ FreshWindow /\ boxes' = boxes
    BY <1>4 DEF Typed, ThreadStarted, GoesTo
  <2>2. RemainsInv' /\ ui' = "closed"
    BY <2>1 DEF FreshWindow, RemainsInv
  <2> QED
    BY <1>3, <2>1, <2>2 DEF Live
<1>5. CASE ThreadFailed(t)
  <2>1. phase[t] = "starting" /\ phase'[t] = "cleanup" /\ UNCHANGED <<windowVars, boxes>>
    BY <1>5 DEF Typed, ThreadFailed, GoesTo
  <2>2. RemainsInv' /\ ui' = ui
    BY <2>1 DEF RemainsInv, windowVars, checkVars
  <2> QED
    BY <1>2, <1>3, <2>1, <2>2 DEF Live
<1>6. CASE ThreadQuits(t)
  <2>1. /\ phase[t] = "quitting" /\ phase'[t] = "destructing" /\ ui = "leaving" /\ boxes = 0
        /\ UNCHANGED <<windowVars, boxes>>
    BY <1>6 DEF Typed, ThreadQuits, GoesTo
  <2>2. RemainsInv' /\ ui' = ui
    BY <2>1 DEF RemainsInv, windowVars, checkVars
  <2> QED
    BY <1>3, <2>1, <2>2 DEF Live
<1>7. CASE Destructs(t)
  <2>1. /\ phase[t] \in {"destructing", "unwinding"} /\ phase'[t] = "cleanup"
        /\ JoinsWorker /\ boxes' = boxes
    BY <1>7 DEF Typed, Destructs, GoesTo
  <2>2. RemainsInv' /\ ui' = "gone"
    BY <2>1, WindowOfEnds
  <2>3. boxes = 0
    BY <2>1 DEF PlaceInv
  <2> QED
    BY <1>3, <2>1, <2>2, <2>3
<1>8. CASE HandleShow(t) \/ HandleHide(t)
  <2>1. phase[t] = "loop" /\ phase'[t] = "loop"
    BY <1>8 DEF HandleShow, HandleHide, Receives, lifeVars
  <2>2. \/ CreateAndShow \/ ShowAgain \/ HideWindow
        \/ UNCHANGED windowVars
    BY <1>8 DEF HandleShow, HandleHide, CreateFails
  <2>3. RemainsInv' /\ ui' \in {"closed", "showing", "loop", "joining"}
    <3>1. ui \in {"closed", "showing", "loop", "joining"}
      BY <2>1 DEF PlaceInv
    <3>2. UNCHANGED windowVars => RemainsInv' /\ ui' = ui
      BY DEF RemainsInv, windowVars, checkVars
    <3> QED
      BY <2>2, <3>1, <3>2, WindowOfMessages
  <2> QED
    BY <1>3, <2>1, <2>3 DEF Live
<1>9. CASE HandleStop(t)
  <2>1. phase'[t] = "quitting" /\ BeginsDestroy
    BY <1>9 DEF Typed, HandleStop, GoesTo
  <2>2. RemainsInv' /\ ui' = "closing"
    BY <2>1, WindowOfEnds
  <2> QED
    BY <1>3, <2>1, <2>2 DEF Live
<1>10. CASE HandlerGoesOn(t)
  <2>1. phase[t] \in {"loop", "quitting", "unwinding"} /\ phase' = phase /\ boxes' = boxes
    BY <1>10 DEF HandlerGoesOn, lifeVars
  <2>2. CASE GoesOnDestroying
    <3>1. RemainsInv' /\ ui' \in {"discarded", "leaving"} /\ ui \in {"closing", "discarded"}
      BY <2>2, WindowOfEnds DEF GoesOnDestroying, DiscardPending, DestroyWindow
    <3>2. phase[t] # "loop"
      BY <3>1 DEF PlaceInv
    <3> QED
      BY <1>3, <2>1, <3>1, <3>2 DEF PlaceInv, Live
  <2>3. CASE ui \in {"showing", "joining"} /\ (BeginsCheck \/ StartsWorker)
    <3>1. RemainsInv' /\ ui' \in {"showing", "loop", "joining"}
      BY <2>3, WindowOfMessages
    <3>2. phase[t] = "loop"
      BY <2>1, <2>3 DEF PlaceInv
    <3> QED
      BY <1>3, <2>1, <3>1, <3>2 DEF Live
  <2> QED
    BY <1>10, <2>2, <2>3 DEF HandlerGoesOn, StartsWorker, StartWorker
<1>11. CASE WindowMessage(t)
  <2>1. phase[t] = "loop" /\ phase' = phase
    BY <1>11 DEF WindowMessage, lifeVars
  <2>2. AppliesResult \/ HideWindow \/ ThemeMessage \/ BeginsCheck
    BY <1>11 DEF WindowMessage
  <2> QED
    BY <1>3, <2>1, <2>2, WindowOfMessages DEF Live
<1>12. CASE IslandThrows(t)
  <2>1. phase'[t] = "unwinding" /\ BeginsDestroy /\ boxes' = 0
    BY <1>12 DEF Typed, IslandThrows, GoesTo
  <2>2. RemainsInv' /\ ui' = "closing"
    BY <2>1, WindowOfEnds
  <2> QED
    BY <1>3, <2>1, <2>2 DEF Live
<1>13. CASE phase[t] \in {"loop", "quitting"} /\ BoxEnds(t)
  <2>1. phase' = phase /\ UNCHANGED windowVars
    BY <1>13 DEF BoxEnds, lifeVars
  <2>2. RemainsInv' /\ ui' = ui
    BY <2>1 DEF RemainsInv, windowVars, checkVars
  <2> QED
    BY <1>3, <1>13, <2>1, <2>2 DEF PlaceInv, Live
<1>14. ~ThreadExits(t)
  BY DEF ThreadExits
<1> QED
  BY <1>4, <1>5, <1>6, <1>7, <1>8, <1>9, <1>10, <1>11, <1>12, <1>13, <1>14
     DEF UiStep, UiThread, UiSteps, UserSteps

\* Every step keeps the window with the thread that created it.
LEMMA WindowHolds ==
    ASSUME Typed, OneInv, RemainsInv, PlaceInv, [SettingsNext]_settingsVars
    PROVE  RemainsInv' /\ PlaceInv'
<1>1. UNCHANGED windowVars => RemainsInv' /\ ui' = ui
  BY DEF RemainsInv, windowVars, checkVars
<1>2. ASSUME RemainsInv', ui' = ui, boxes' = boxes,
             \A t \in Threads : phase'[t] = phase[t] \/ (phase[t] \notin Live /\ phase'[t] \notin Live)
      PROVE  RemainsInv' /\ PlaceInv'
  BY <1>2 DEF PlaceInv, Live
<1>3. CASE Calls \/ Between
  <2>1. UNCHANGED <<windowVars, boxes>>
    BY <1>3, CallsLeaveWindow
  <2>2. \A t \in Threads : phase'[t] = phase[t] \/ (phase[t] \notin Live /\ phase'[t] \notin Live)
    BY <1>3, CallsLeaveWindow DEF Typed, StartThread, GoesTo, Live
  <2> QED
    BY <1>1, <1>2, <2>1, <2>2
<1>4. CASE CheckWorker
  <2>1. RemainsInv' /\ ui' = ui
    BY <1>4, WindowOfWorker DEF CheckWorker, Worker
  <2> QED
    BY <1>2, <1>4, <2>1 DEF CheckWorker, Worker, lifeVars
<1>5. CASE UNCHANGED settingsVars
  BY <1>1, <1>2, <1>5 DEF settingsVars, runtimeVars, lifeVars
<1>6. ASSUME NEW t \in Threads, UiStep(t), phase[t] = "cleanup"
      PROVE  RemainsInv' /\ PlaceInv'
  <2>1. ThreadExits(t)
    BY <1>6 DEF UiStep, UiThread, UiSteps, UserSteps, ThreadStarted, ThreadFailed,
          ThreadQuits, Destructs, HandleShow, HandleHide, HandleStop, Receives,
          HandlerGoesOn, WindowMessage, IslandThrows
  <2>2. \A u \in Threads : phase'[u] = phase[u] \/ (phase[u] \notin Live /\ phase'[u] \notin Live)
    BY <2>1 DEF Typed, ThreadExits, GoesTo, Live
  <2>3. UNCHANGED <<windowVars, boxes>>
    BY <2>1 DEF ThreadExits
  <2> QED
    BY <1>1, <1>2, <2>2, <2>3
<1> QED
  BY <1>3, <1>4, <1>5, <1>6, WindowOfThread, Steps

\* A UI thread is alone with the window for its whole life.
ThreadInv == Typed /\ OpInv /\ QueueInv /\ OneInv /\ WakeInv /\ RemainsInv /\ PlaceInv

\* The invariant of the threads holds in every behaviour.
LEMMA ThreadInvariant == SettingsSpec => []ThreadInv
<1>1. SettingsInit => ThreadInv
  <2> SUFFICES ASSUME SettingsInit
               PROVE  ThreadInv
    OBVIOUS
  <2> USE DEF SettingsInit, RuntimeInit
  <2>1. Typed
    BY DEF Typed, Phases
  <2>2. OpInv /\ OneInv /\ WakeInv
    BY DEF OpInv, OneInv, WakeInv, Live
  <2>3. QueueInv
    BY DEF QueueInv, Contains
  <2>4. RemainsInv /\ PlaceInv
    BY DEF RemainsInv, PlaceInv, WindowInit, CheckInit
  <2> QED
    BY <2>1, <2>2, <2>3, <2>4 DEF ThreadInv
<1>2. ThreadInv /\ [SettingsNext]_settingsVars => ThreadInv'
  BY TypesHold, OpHolds, QueueHolds, OneHolds, WakeHolds, WindowHolds DEF ThreadInv
<1> QED
  BY <1>1, <1>2, PTL DEF SettingsSpec

\* When no UI thread has a window, there is none, no message box and no worker.
THEOREM NothingOutlivesThreadCorrect == SettingsSpec => []NothingOutlivesThread
<1>1. ThreadInv => NothingOutlivesThread
  BY DEF ThreadInv, RemainsInv, PlaceInv, Live, NothingOutlivesThread
<1> QED
  BY <1>1, ThreadInvariant, PTL

-----------------------------------------------------------------------------
(* The thread the loader counts on *)

\* Between the join that start() gave up and the return of the loader: the thread
\* that failed may still be on its way out, and there is no other.
Stray ==
    /\ op = "start" /\ call = "idle" /\ result = "error" /\ thread = NoThread
    /\ \A t \in Threads : phase[t] \in {"none", "cleanup", "exited"}

Alone == \A t \in Threads : phase[t] \in Busy => thread = t

PointInv == \A t \in Threads : phase[t] = "loop" => commandWindow = t /\ settingsWindow = t

Serves == thread # NoThread /\ (phase[thread] = "loop" \/ crashed)

\* started_, and what start_() and stop_() return, tell where the thread is.
HandleInv ==
    /\ op = "idle" => IF started THEN Serves ELSE thread = NoThread
    /\ op = "start" /\ call = "idle" /\ result = "ok" => Serves
    /\ op = "stop" /\ call = "idle" /\ result = "ok" => thread = NoThread
    /\ module = "freed" => thread = NoThread

LoaderLife == (Alone \/ Stray) /\ PointInv /\ HandleInv

\* A call into the DLL, on its way in, out or back.
LEMMA ReachOfCalls ==
    ASSUME ThreadInv, LoaderLife, Calls
    PROVE  LoaderLife'
<1> USE DEF ThreadInv, OpInv
<1>1. CASE ShowStarts
  <2>1. thread = NoThread /\ op' = "start" /\ module' = "loaded" /\ Alone
    BY <1>1 DEF ShowStarts, Free, LoaderLife, HandleInv, Stray
  <2>2. CASE StartFails
    <3>1. UNCHANGED <<thread, phase, commandWindow, settingsWindow>> /\ result' = "error"
      BY <2>2 DEF StartFails, Return
    <3> QED
      BY <2>1, <3>1 DEF LoaderLife, Alone, PointInv, HandleInv
  <2>3. ASSUME NEW t \in Threads, StartThread(t)
        PROVE  LoaderLife'
    <3>1. /\ thread' = t /\ call' = "start_wait" /\ phase'[t] = "starting"
          /\ \A u \in Threads \ {t} : phase'[u] = phase[u] /\ phase[u] \notin Busy
      BY <2>1, <2>3, NoThreadAssumption DEF Typed, StartThread, GoesTo, Alone
    <3> QED
      BY <2>1, <3>1 DEF LoaderLife, Alone, PointInv, HandleInv, Busy, Live
  <2> QED
    BY <1>1, <2>1, <2>2, <2>3 DEF ShowStarts, StartAgain
<1>2. CASE ShowStarted \/ HideExported \/ ShowAfterStart
  <2>1. UNCHANGED <<lifeVars, call, result, crashed>>
    BY <1>2 DEF ShowStarted, HideExported, ShowAfterStart, Show, Hide, Request
  <2>2. CASE ShowAfterStart
    BY <2>1, <2>2 DEF ShowAfterStart, LoaderLife, Alone, Stray, PointInv, HandleInv, Serves,
          lifeVars
  <2>3. CASE ShowStarted \/ HideExported
    BY <2>1, <2>3 DEF ShowStarted, HideExported, LoaderLife, Alone, Stray, PointInv,
          HandleInv, Serves, lifeVars, loaderVars
  <2> QED
    BY <1>2, <2>2, <2>3
<1>3. CASE DestroyStops
  <2>1. Alone /\ UNCHANGED lifeVars /\ op' = "stop" /\ module' = module
    BY <1>3 DEF DestroyStops, Free, Stop, StopNothing, StopPost, LoaderLife, Stray
  <2>2. call' = "idle" => thread = NoThread
    BY <1>3 DEF DestroyStops, Stop, StopNothing, StopPost
  <2> QED
    BY <1>3, <2>1, <2>2 DEF DestroyStops, Free, LoaderLife, Alone, PointInv, HandleInv, lifeVars
<1>4. CASE (StartReady \/ StartWaitFails \/ StopTimesOut) /\ UNCHANGED loaderVars
  <2>1. Alone /\ UNCHANGED lifeVars
    BY <1>4 DEF StartReady, StartWaitFails, StopTimesOut, LoaderLife, Stray
  <2>2. CASE StartReady
    <3>1. startResult = "ok" => Serves
      BY <2>2 DEF StartReady, WakeInv, OneInv, Serves
    <3>2. startResult # "ok" => call' = "start_join"
      BY <2>2 DEF StartReady
    <3>3. crashed' = crashed
      BY <2>2 DEF StartReady, StartUnchanged
    <3> QED
      BY <1>4, <2>1, <2>2, <3>1, <3>2, <3>3 DEF StartReady, Typed, LoaderLife, Alone,
         PointInv, HandleInv, Serves, lifeVars, loaderVars
  <2>3. CASE StartWaitFails \/ StopTimesOut
    BY <1>4, <2>1, <2>3 DEF StartWaitFails, StopTimesOut, Return, Typed, LoaderLife, Alone,
       PointInv, HandleInv, lifeVars, loaderVars
  <2> QED
    BY <1>4, <2>2, <2>3
<1>5. CASE StartJoin /\ UNCHANGED loaderVars
  <2>1. Alone /\ phase[thread] \in {"cleanup", "exited"} /\ op = "start"
    BY <1>5 DEF StartJoin, LoaderLife, Stray, WakeInv, Typed
  <2>2. \A t \in Threads : phase[t] \in {"none", "cleanup", "exited"}
    BY <2>1 DEF Typed, Phases, Alone, Busy, Live
  <2> QED
    BY <1>5, <2>1, <2>2 DEF StartJoin, Return, LoaderLife, Stray, PointInv, HandleInv, loaderVars
<1>6. CASE StopJoined /\ UNCHANGED loaderVars
  <2>1. Alone /\ phase[thread] = "exited" /\ op = "stop"
    BY <1>6 DEF StopJoined, LoaderLife, Stray, Typed
  <2>2. \A t \in Threads : phase[t] \notin Busy
    BY <2>1 DEF Alone, Busy, Live
  <2> QED
    BY <1>6, <2>1, <2>2 DEF StopJoined, Return, LoaderLife, Alone, PointInv, HandleInv, loaderVars,
       Busy, Live
<1> QED
  BY <1>1, <1>2, <1>3, <1>4, <1>5, <1>6 DEF Calls, CallReturns

\* What the loader does after a call touches no thread.
LEMMA ReachOfReturns ==
    ASSUME ThreadInv, LoaderLife, Between
    PROVE  abandoned' \/ LoaderLife'
<1> USE DEF ThreadInv, OpInv
<1>1. UNCHANGED <<thread, phase, commandWindow, settingsWindow, call, result, crashed>>
  BY DEF Between, ShowGivesUp, DestroyAtOnce, DestroyEnds, runtimeVars, lifeVars, callVars
<1>2. PointInv'
  BY <1>1 DEF LoaderLife, PointInv
<1>3. CASE ShowGivesUp /\ ~abandoned'
  <2>1. thread = NoThread /\ \A t \in Threads : phase[t] \in {"none", "exited"}
    BY <1>3 DEF ShowGivesUp
  <2>2. Alone'
    BY <1>1, <2>1 DEF Alone, Busy, Live
  <2>3. HandleInv'
    BY <1>1, <1>3, <2>1 DEF ShowGivesUp, HandleInv, LoaderLife
  <2> QED
    BY <1>2, <2>2, <2>3 DEF LoaderLife
<1>4. CASE DestroyAtOnce \/ DestroyEnds
  <2>1. Alone'
    BY <1>1, <1>4 DEF DestroyAtOnce, DestroyEnds, Free, LoaderLife, Stray, Alone
  <2>2. HandleInv'
    BY <1>1, <1>4 DEF DestroyAtOnce, DestroyEnds, Free, LoaderLife, HandleInv
  <2> QED
    BY <1>2, <2>1, <2>2 DEF LoaderLife
<1> QED
  BY <1>3, <1>4 DEF Between

\* A thread that was given up on ends; the one the loader counts on stays in its
\* loop until the destructor asks it to stop, or an exception takes it out.
LEMMA ReachOfThreads ==
    ASSUME ThreadInv, LoaderLife, NEW t \in Threads, UiStep(t)
    PROVE  LoaderLife'
<1>1. /\ UNCHANGED <<thread, call, result, loaderVars>>
      /\ \A u \in Threads \ {t} : phase'[u] = phase[u]
      /\ phase[t] \in Busy
      /\ phase'[t] \in Onward(phase[t]) \/ (phase' = phase /\ phase[t] \in Live)
  BY UiMoves DEF ThreadInv
<1>2. crashed => crashed'
  BY DEF UiStep, UiThread, UiSteps, UserSteps, ThreadStarted, ThreadFailed, ThreadQuits,
        Destructs, ThreadExits, HandleShow, HandleHide, HandleStop, Receives, HandlerGoesOn,
        WindowMessage, IslandThrows, BoxEnds
<1>3. CASE Stray
  <2>1. phase[t] = "cleanup" /\ phase'[t] = "exited"
    BY <1>1, <1>3 DEF Stray, Busy, Live, Onward
  <2>2. Stray'
    BY <1>1, <1>3, <2>1 DEF Stray, loaderVars
  <2>3. PointInv'
    BY <2>2 DEF Stray, PointInv
  <2>4. HandleInv'
    BY <1>1, <1>3 DEF Stray, HandleInv, LoaderLife, ThreadInv, OpInv, loaderVars
  <2> QED
    BY <2>2, <2>3, <2>4 DEF LoaderLife
<1>4. CASE Alone
  <2>1. thread = t /\ \A u \in Threads \ {t} : phase[u] \notin Busy
    BY <1>1, <1>4 DEF Alone
  <2>2. Alone'
    BY <1>1, <2>1 DEF Alone
  <2>3. PointInv'
    <3>1. ASSUME phase'[t] = "loop"
          PROVE  commandWindow' = t /\ settingsWindow' = t
      <4>1. CASE ThreadStarted(t)
        BY <4>1 DEF ThreadStarted
      <4>2. CASE ~ThreadStarted(t)
        <5>1. phase[t] = "loop"
          <6>1. phase[t] # "starting" => phase[t] = "loop"
            BY <1>1, <3>1 DEF Onward, Live, Busy
          <6>2. CASE phase[t] = "starting"
            BY <3>1, <4>2, <6>2 DEF UiStep, UiThread, UiSteps, UserSteps, ThreadFailed,
                  ThreadQuits, Destructs, ThreadExits, HandleShow, HandleHide, HandleStop,
                  Receives, HandlerGoesOn, WindowMessage, IslandThrows, GoesTo, ThreadInv, Typed
          <6> QED
            BY <6>1, <6>2
        <5>2. UNCHANGED <<commandWindow, settingsWindow>>
          BY <4>2, <5>1 DEF UiStep, UiThread, UiSteps, UserSteps, ThreadFailed,
                ThreadQuits, Destructs, ThreadExits, HandleShow, HandleHide, HandleStop,
                HandlerGoesOn, WindowMessage, IslandThrows, BoxEnds, lifeVars
        <5> QED
          BY <5>1, <5>2 DEF LoaderLife, PointInv
      <4> QED
        BY <4>1, <4>2
    <3> QED
      BY <1>1, <2>1, <3>1 DEF PointInv, Busy, Live
  <2>4. op \notin {"stop", "gone"} /\ Serves => Serves'
    <3> SUFFICES ASSUME op \notin {"stop", "gone"}, Serves, ~crashed'
                 PROVE  Serves'
      BY <1>1, <1>2 DEF Serves
    <3>1. phase[t] = "loop"
      BY <1>2, <2>1 DEF Serves
    <3>2. ~HandleStop(t)
      <4>1. inbox[t] \in Seq(Messages) /\ "stop" \in Messages
        BY DEF ThreadInv, Typed, Messages
      <4> QED
        BY <4>1, QueuePosted DEF HandleStop, Receives, ThreadInv, QueueInv
    <3>3. ~IslandThrows(t)
      BY DEF IslandThrows
    <3>4. phase' = phase
      BY <3>1, <3>2, <3>3 DEF UiStep, UiThread, UiSteps, UserSteps, ThreadStarted,
            ThreadFailed, ThreadQuits, Destructs, ThreadExits, HandleShow, HandleHide,
            HandlerGoesOn, WindowMessage, BoxEnds, lifeVars
    <3> QED
      BY <1>1, <2>1, <3>1, <3>4 DEF Serves
  <2>5. HandleInv'
    BY <1>1, <2>4 DEF HandleInv, LoaderLife, loaderVars
  <2> QED
    BY <2>2, <2>3, <2>5 DEF LoaderLife
<1> QED
  BY <1>3, <1>4 DEF LoaderLife

\* No start has been given up on yet, or one was and the promise is off.
ReachInv == abandoned \/ LoaderLife

\* The loader and its thread agree in every behaviour.
LEMMA ReachInvariant == SettingsSpec => []ReachInv
<1>1. SettingsInit => ReachInv
  BY DEF SettingsInit, RuntimeInit, ReachInv, LoaderLife, Alone, PointInv, HandleInv, Busy, Live
<1>2. ThreadInv /\ ReachInv /\ [SettingsNext]_settingsVars => ReachInv'
  <2> SUFFICES ASSUME ThreadInv, ReachInv, [SettingsNext]_settingsVars
               PROVE  ReachInv'
    OBVIOUS
  <2>1. abandoned => abandoned'
    BY Steps, UiMoves DEF ThreadInv, Calls, Between, ShowStarts, ShowStarted, HideExported,
       ShowAfterStart, DestroyStops, ShowGivesUp, DestroyAtOnce, DestroyEnds, CheckWorker,
       loaderVars, settingsVars
  <2>2. CASE LoaderLife
    <3>1. CASE CheckWorker \/ UNCHANGED settingsVars
      BY <2>2, <3>1 DEF CheckWorker, Worker, settingsVars, runtimeVars, lifeVars, callVars,
            loaderVars, ReachInv, LoaderLife, Alone, Stray, PointInv, HandleInv, Serves
    <3> QED
      BY <2>2, <3>1, ReachOfCalls, ReachOfReturns, ReachOfThreads, Steps DEF ReachInv
  <2> QED
    BY <2>1, <2>2 DEF ReachInv
<1> QED
  BY <1>1, <1>2, ThreadInvariant, PTL DEF SettingsSpec

-----------------------------------------------------------------------------
(* The theorems on the loader *)

\* The DLL is unmapped only when neither its UI thread nor a worker is alive.
THEOREM SettingsUnloadSafeCorrect == SettingsSpec => []SettingsUnloadSafe
<1>1. ThreadInv /\ ReachInv => SettingsUnloadSafe
  <2> SUFFICES ASSUME ThreadInv, ReachInv, module = "freed", ~abandoned
               PROVE  worker \in {"none", "exited"} /\ \A t \in Threads : Ended(t)
    BY DEF SettingsUnloadSafe
  <2>1. thread = NoThread /\ Alone
    BY DEF ThreadInv, OpInv, ReachInv, LoaderLife, HandleInv, Stray
  <2>2. \A t \in Threads : phase[t] \notin Busy
    BY <2>1, NoThreadAssumption DEF Alone
  <2>3. \A t \in Threads : Ended(t)
    BY <2>2 DEF ThreadInv, Typed, Phases, Busy, Live, Ended
  <2>4. worker \in {"none", "exited"}
    BY <2>2 DEF ThreadInv, PlaceInv, RemainsInv, Busy
  <2> QED
    BY <2>3, <2>4
<1> QED
  BY <1>1, ThreadInvariant, ReachInvariant, PTL

\* A started thread takes the loader's requests, unless its loop has crashed.
THEOREM StartedServesCorrect == SettingsSpec => []StartedServes
<1>1. ThreadInv /\ ReachInv => StartedServes
  <2> SUFFICES ASSUME ThreadInv, ReachInv, started, ~abandoned, ~crashed, op = "idle"
               PROVE  /\ thread # NoThread /\ commandWindow = thread /\ settingsWindow = thread
                      /\ phase[thread] = "loop"
    BY DEF StartedServes
  <2>1. thread # NoThread /\ phase[thread] = "loop" /\ thread \in Threads
    BY DEF ThreadInv, Typed, ReachInv, LoaderLife, HandleInv, Serves
  <2> QED
    BY <2>1 DEF ReachInv, LoaderLife, PointInv
<1> QED
  BY <1>1, ThreadInvariant, ReachInvariant, PTL

-----------------------------------------------------------------------------
(* What a queue still asks for *)

Once(q) == \A i, j \in 1..Len(q) : q[i] = "stop" /\ q[j] = "stop" => i = j

\* The first stop, which is the only one, ends what is heeded.
LEMMA HeededUpToStop ==
    ASSUME NEW q \in Seq(Messages), Once(q), NEW i \in 1..Len(q), q[i] = "stop"
    PROVE  Heeded(q) = SubSeq(q, 1, i - 1)
<1>1. (CHOOSE j \in 1..Len(q) : q[j] = "stop") = i
  BY DEF Once
<1> QED
  BY <1>1 DEF Heeded

\* Without a stop the whole queue is heeded.
LEMMA HeededWithoutStop ==
    ASSUME NEW q, ~Contains(q, "stop")
    PROVE  Heeded(q) = q
  BY DEF Heeded, Contains

\* A stop in a queue that has none adds nothing to it.
LEMMA HeededAfterStop ==
    ASSUME NEW q \in Seq(Messages), ~Contains(q, "stop")
    PROVE  LET p == Append(q, "stop") IN Once(p) /\ Heeded(p) = Heeded(q)
<1> DEFINE p == Append(q, "stop")
<1>1. "stop" \in Messages
  BY DEF Messages
<1>2. p \in Seq(Messages) /\ Len(p) = Len(q) + 1 /\ p[Len(q) + 1] = "stop"
  BY <1>1
<1>3. \A i \in 1..Len(p) : p[i] = "stop" => i = Len(q) + 1
  <2> SUFFICES ASSUME NEW i \in 1..Len(p), p[i] = "stop", i # Len(q) + 1
               PROVE  FALSE
    OBVIOUS
  <2>1. i \in 1..Len(q) /\ p[i] = q[i]
    BY <1>1, <1>2
  <2> QED
    BY <2>1 DEF Contains
<1>4. Once(p)
  BY <1>3 DEF Once
<1>5. Heeded(p) = SubSeq(p, 1, Len(q))
  <2>1. Len(q) + 1 \in 1..Len(p) /\ (Len(q) + 1) - 1 = Len(q)
    BY <1>2
  <2> QED
    BY <1>2, <1>4, <2>1, HeededUpToStop
<1>6. SubSeq(p, 1, Len(q)) = q
  <2>1. \A i \in 1..Len(q) : p[i] = q[i]
    BY <1>1
  <2> QED
    BY <1>2, <2>1
<1> QED
  BY <1>4, <1>5, <1>6, HeededWithoutStop

\* A request behind a stop is not heeded, any other one is.
LEMMA HeededAfterRequest ==
    ASSUME NEW q \in Seq(Messages), Once(q), NEW m \in {"show", "hide"}
    PROVE  LET p == Append(q, m)
           IN  /\ Once(p)
               /\ IF Contains(q, "stop") THEN Heeded(p) = Heeded(q)
                  ELSE Heeded(p) = Append(Heeded(q), m)
<1> DEFINE p == Append(q, m)
<1>1. m \in Messages /\ m # "stop"
  BY DEF Messages
<1>2. p \in Seq(Messages) /\ Len(p) = Len(q) + 1 /\ p[Len(q) + 1] = m
  BY <1>1
<1>3. \A i \in 1..Len(q) : p[i] = q[i]
  BY <1>1
<1>4. \A i \in 1..Len(p) : p[i] = "stop" => i \in 1..Len(q)
  <2> SUFFICES ASSUME NEW i \in 1..Len(p), i \notin 1..Len(q)
               PROVE  p[i] # "stop"
    OBVIOUS
  <2>1. i = Len(q) + 1
    BY <1>2
  <2> QED
    BY <1>1, <1>2, <2>1
<1>5. Once(p)
  BY <1>3, <1>4 DEF Once
<1>6. CASE Contains(q, "stop")
  <2>1. PICK i \in 1..Len(q) : q[i] = "stop"
    BY <1>6 DEF Contains
  <2>2. i \in 1..Len(p) /\ p[i] = "stop"
    BY <1>2, <1>3, <2>1
  <2>3. Heeded(q) = SubSeq(q, 1, i - 1) /\ Heeded(p) = SubSeq(p, 1, i - 1)
    BY <1>2, <1>5, <2>1, <2>2, HeededUpToStop
  <2>4. SubSeq(p, 1, i - 1) = SubSeq(q, 1, i - 1)
    <3>1. \A j \in 1..(i - 1) : p[j] = q[j]
      BY <1>3
    <3> QED
      BY <1>2, <3>1
  <2> QED
    BY <1>5, <1>6, <2>3, <2>4
<1>7. CASE ~Contains(q, "stop")
  <2>1. ~Contains(p, "stop")
    BY <1>3, <1>4, <1>7 DEF Contains
  <2> QED
    BY <1>5, <1>7, <2>1, HeededWithoutStop
<1> QED
  BY <1>6, <1>7

\* The oldest request is the first to be heeded.
LEMMA HeededFromFront ==
    ASSUME NEW q \in Seq(Messages), Once(q), q # <<>>, Head(q) # "stop"
    PROVE  /\ Once(Tail(q))
           /\ Heeded(q) # <<>> /\ Head(Heeded(q)) = Head(q)
           /\ Heeded(Tail(q)) = Tail(Heeded(q))
<1> DEFINE p == Tail(q)
<1>1. /\ p \in Seq(Messages) /\ Len(p) = Len(q) - 1 /\ Len(q) \in Nat \ {0}
      /\ \A i \in 1..Len(p) : p[i] = q[i + 1] /\ i + 1 \in 1..Len(q)
  OBVIOUS
<1>2. Once(p)
  <2> SUFFICES ASSUME NEW i \in 1..Len(p), NEW j \in 1..Len(p), p[i] = "stop", p[j] = "stop"
               PROVE  i = j
    BY DEF Once
  <2>1. i + 1 = j + 1
    BY <1>1 DEF Once
  <2> QED
    BY <2>1
<1>3. CASE Contains(q, "stop")
  <2>1. PICK i \in 1..Len(q) : q[i] = "stop"
    BY <1>3 DEF Contains
  <2>2. i # 1 /\ i - 1 \in 1..Len(p) /\ p[i - 1] = "stop"
    BY <1>1, <2>1
  <2>3. Heeded(q) = SubSeq(q, 1, i - 1) /\ Heeded(p) = SubSeq(p, 1, (i - 1) - 1)
    BY <1>1, <1>2, <2>1, <2>2, HeededUpToStop
  <2>4. SubSeq(q, 1, i - 1) # <<>> /\ Head(SubSeq(q, 1, i - 1)) = Head(q)
    BY <1>1, <2>2
  <2>5. SubSeq(p, 1, (i - 1) - 1) = Tail(SubSeq(q, 1, i - 1))
    BY <1>1, <2>2
  <2> QED
    BY <1>2, <2>3, <2>4, <2>5
<1>4. CASE ~Contains(q, "stop")
  <2>1. ~Contains(p, "stop")
    BY <1>1, <1>4 DEF Contains
  <2> QED
    BY <1>2, <1>4, <2>1, HeededWithoutStop
<1> QED
  BY <1>3, <1>4

\* What is heeded of a queue is a queue.
LEMMA HeededIsQueue ==
    ASSUME NEW q \in Seq(Messages), Once(q)
    PROVE  Heeded(q) \in Seq(Messages)
<1>1. CASE Contains(q, "stop")
  <2>1. PICK i \in 1..Len(q) : q[i] = "stop"
    BY <1>1 DEF Contains
  <2>2. SubSeq(q, 1, i - 1) \in Seq(Messages)
    BY <2>1
  <2> QED
    BY <2>1, <2>2, HeededUpToStop
<1>2. CASE ~Contains(q, "stop")
  BY <1>2, HeededWithoutStop
<1> QED
  BY <1>1, <1>2

\* An empty queue asks for nothing.
LEMMA HeededEmpty == Once(<<>>) /\ Heeded(<<>>) = <<>>
<1>1. ~Contains(<<>>, "stop")
  BY DEF Contains
<1> QED
  BY <1>1, HeededWithoutStop DEF Once

\* What the main thread can do to a queue.
LEMMA QueueOfCalls ==
    ASSUME Typed, Calls \/ Between \/ CheckWorker \/ UNCHANGED settingsVars, NEW u \in Threads
    PROVE  \/ inbox'[u] = inbox[u]
           \/ DestroyStops /\ CanPost /\ u = commandWindow /\ inbox'[u] = Append(inbox[u], "stop")
           \/ \E m \in {"show", "hide"} :
                 Request(m) /\ CanPost /\ u = commandWindow /\ inbox'[u] = Append(inbox[u], m)
<1>1. ASSUME NEW m \in Messages, Post(m)
      PROVE  \/ inbox'[u] = inbox[u]
             \/ CanPost /\ u = commandWindow /\ inbox'[u] = Append(inbox[u], m)
  BY <1>1 DEF Post, Typed
<1>2. {"show", "hide", "stop"} = Messages
  BY DEF Messages
<1>3. CASE ShowStarted \/ HideExported \/ ShowAfterStart
  <2>1. PICK m \in {"show", "hide"} : Request(m)
    BY <1>3 DEF ShowStarted, HideExported, ShowAfterStart, Show, Hide
  <2> QED
    BY <1>1, <1>2, <2>1 DEF Request
<1>4. CASE DestroyStops
  BY <1>1, <1>2, <1>4 DEF DestroyStops, Stop, StopNothing, StopPost
<1>5. CASE ShowStarts \/ Between
          \/ ((CallReturns \/ StartWaitFails \/ StopTimesOut) /\ UNCHANGED loaderVars)
  BY <1>5 DEF ShowStarts, StartAgain, StartFails, StartThread, Between, ShowGivesUp,
        DestroyAtOnce, DestroyEnds, CallReturns, StartReady, StartJoin, StopJoined,
        StartWaitFails, StopTimesOut, StartUnchanged, runtimeVars
<1>6. CASE CheckWorker \/ UNCHANGED settingsVars
  BY <1>6 DEF CheckWorker, Worker, settingsVars, runtimeVars
<1> QED
  BY <1>3, <1>4, <1>5, <1>6 DEF Calls

\* What a step can do to a queue.
LEMMA QueueSteps ==
    ASSUME Typed, [SettingsNext]_settingsVars, NEW u \in Threads
    PROVE  \/ inbox'[u] \in {inbox[u], <<>>}
           \/ inbox[u] # <<>> /\ Head(inbox[u]) # "stop" /\ inbox'[u] = Tail(inbox[u])
           \/ DestroyStops /\ CanPost /\ u = commandWindow /\ inbox'[u] = Append(inbox[u], "stop")
           \/ \E m \in {"show", "hide"} :
                 Request(m) /\ CanPost /\ u = commandWindow /\ inbox'[u] = Append(inbox[u], m)
<1>1. ASSUME NEW t \in Threads, UiStep(t)
      PROVE  \/ inbox'[u] \in {inbox[u], <<>>}
             \/ inbox[u] # <<>> /\ Head(inbox[u]) # "stop" /\ inbox'[u] = Tail(inbox[u])
  BY <1>1 DEF Typed, UiStep, UiThread, UiSteps, UserSteps, ThreadStarted, ThreadFailed,
        ThreadQuits, Destructs, ThreadExits, HandleShow, HandleHide, HandleStop, Receives,
        Consumes, HandlerGoesOn, WindowMessage, IslandThrows, BoxEnds
<1> QED
  BY <1>1, QueueOfCalls, Steps

\* A thread's queue is empty until its loop begins, and gets one stop at most.
MailInv ==
    \A t \in Threads :
        /\ Once(inbox[t])
        /\ phase[t] \in {"none", "starting"} => inbox[t] = <<>>

\* Every step keeps the queues of the threads.
LEMMA MailHolds ==
    ASSUME Typed, QueueInv, MailInv, [SettingsNext]_settingsVars
    PROVE  MailInv'
<1> SUFFICES ASSUME NEW u \in Threads
             PROVE  /\ Once(inbox'[u])
                    /\ phase'[u] \in {"none", "starting"} => inbox'[u] = <<>>
  BY DEF MailInv
<1>1. inbox[u] \in Seq(Messages) /\ Once(inbox[u])
  BY DEF Typed, MailInv
<1>2. phase'[u] \in {"none", "starting"} => phase[u] \in {"none", "starting"}
  <2>1. CASE Calls \/ Between
    BY <2>1, CallsLeaveWindow DEF Typed, StartThread, GoesTo
  <2>2. CASE CheckWorker \/ UNCHANGED settingsVars
    BY <2>2 DEF CheckWorker, Worker, lifeVars, settingsVars, runtimeVars
  <2>3. ASSUME NEW t \in Threads, UiStep(t)
        PROVE  phase'[u] \in {"none", "starting"} => phase[u] \in {"none", "starting"}
    BY <2>3, UiMoves DEF Onward, Busy, Live
  <2> QED
    BY <2>1, <2>2, <2>3, Steps
<1>3. CASE inbox'[u] \in {inbox[u], <<>>}
  BY <1>1, <1>2, <1>3, HeededEmpty DEF MailInv
<1>4. CASE inbox[u] # <<>> /\ Head(inbox[u]) # "stop" /\ inbox'[u] = Tail(inbox[u])
  BY <1>1, <1>2, <1>4, HeededFromFront DEF MailInv
<1>5. CASE CanPost /\ u = commandWindow
  <2>1. phase[u] \notin {"none", "starting"}
    BY <1>5 DEF CanPost
  <2>2. DestroyStops => ~Contains(inbox[u], "stop")
    BY DEF DestroyStops, Free, QueueInv
  <2>3. CASE DestroyStops /\ inbox'[u] = Append(inbox[u], "stop")
    BY <1>1, <1>2, <2>1, <2>2, <2>3, HeededAfterStop
  <2>4. ASSUME NEW m \in {"show", "hide"}, inbox'[u] = Append(inbox[u], m)
        PROVE  Once(inbox'[u])
    BY <1>1, <2>4, HeededAfterRequest
  <2> QED
    BY <1>2, <1>3, <1>4, <2>1, <2>3, <2>4, QueueSteps
<1> QED
  BY <1>3, <1>4, <1>5, QueueSteps

-----------------------------------------------------------------------------
(* The window behind the loader *)

\* Checks begun, and the one that a message in progress is about to begin.
Used == checks + (IF ui \in {"showing", "joining"} THEN 1 ELSE 0)

\* Every request leads to one check and one message box at most, and what the
\* user clicks leaves room for the requests.
RoomInv ==
    /\ boxes \in Nat /\ requested \in 0..MaxRequests
    /\ boxes <= requested /\ Used <= (MaxChecks - MaxRequests) + requested
    /\ \A t \in Threads : phase[t] = "loop" =>
          /\ boxes + Len(Heeded(inbox[t])) <= requested
          /\ Used + Len(Heeded(inbox[t])) <= (MaxChecks - MaxRequests) + requested

\* A message that the window's thread takes is the first one that it heeds.
LEMMA Received ==
    ASSUME Typed, MailInv, NEW t \in Threads, NEW m \in {"show", "hide"},
           Receives(t, m), Consumes(t)
    PROVE  /\ Heeded(inbox[t]) \in Seq(Messages) /\ Heeded(inbox[t]) # <<>>
           /\ Head(Heeded(inbox[t])) = m
           /\ Heeded(inbox'[t]) = Tail(Heeded(inbox[t]))
           /\ Len(Heeded(inbox'[t])) = Len(Heeded(inbox[t])) - 1
           /\ Len(Heeded(inbox[t])) \in Nat \ {0}
<1>1. /\ inbox[t] \in Seq(Messages) /\ Once(inbox[t]) /\ inbox[t] # <<>>
      /\ Head(inbox[t]) = m /\ inbox'[t] = Tail(inbox[t])
  BY DEF Typed, MailInv, Receives, Consumes
<1>2. Heeded(inbox[t]) \in Seq(Messages)
  BY <1>1, HeededIsQueue
<1>3. /\ Heeded(inbox[t]) # <<>> /\ Head(Heeded(inbox[t])) = m
      /\ Heeded(inbox'[t]) = Tail(Heeded(inbox[t]))
  BY <1>1, HeededFromFront
<1> QED
  BY <1>2, <1>3

\* The window is opened, and its check begun, only where a request has room.
LEMMA OpensInRoom ==
    ASSUME Typed, MailInv, RoomInv, checks \in Nat, NEW t \in Threads, HandleShow(t)
    PROVE  checks < MaxChecks
<1>1. phase[t] = "loop" /\ Len(Heeded(inbox[t])) \in Nat \ {0}
  BY Received DEF HandleShow, Receives
<1>2. /\ Used + Len(Heeded(inbox[t])) <= (MaxChecks - MaxRequests) + requested
      /\ requested <= MaxRequests /\ requested \in Nat
  BY <1>1 DEF RoomInv
<1>3. Used \in Nat /\ checks <= Used
  BY DEF Used
<1> QED
  BY <1>1, <1>2, <1>3, CheckFacts, BoundsAssumption

\* To its window, a step of the composition is one of the window's own, or that
\* of a thread that gets a fresh one.
LEMMA WindowsOwnSteps ==
    ASSUME Typed, MailInv, RoomInv, checks \in Nat, [SettingsNext]_settingsVars
    PROVE  [WindowNext]_windowVars \/ FreshWindow
<1>1. CASE Calls \/ Between
  BY <1>1, CallsLeaveWindow
<1>2. CASE CheckWorker
  BY <1>2 DEF CheckWorker, Worker, WindowNext
<1>3. CASE UNCHANGED settingsVars
  BY <1>3 DEF settingsVars, runtimeVars
<1>4. ASSUME NEW t \in Threads, UiStep(t)
      PROVE  [WindowNext]_windowVars \/ FreshWindow
  <2>1. CASE ThreadStarted(t)
    BY <2>1 DEF ThreadStarted
  <2>2. CASE ThreadFailed(t) \/ ThreadQuits(t) \/ ThreadExits(t) \/ BoxEnds(t)
    BY <2>2 DEF ThreadFailed, ThreadQuits, ThreadExits, BoxEnds
  <2>3. CASE Destructs(t) \/ HandleStop(t) \/ IslandThrows(t)
    BY <2>3 DEF Destructs, HandleStop, IslandThrows, WindowNext
  <2>4. CASE HandleShow(t)
    <3>1. CreateAndShow \/ ShowAgain \/ UNCHANGED windowVars
      BY <2>4 DEF HandleShow, CreateFails
    <3>2. checks < MaxChecks
      BY <2>4, OpensInRoom
    <3> QED
      BY <3>1, <3>2 DEF WindowNext, Opens
  <2>5. CASE HandleHide(t)
    BY <2>5 DEF HandleHide, WindowNext
  <2>6. CASE HandlerGoesOn(t)
    BY <2>6 DEF HandlerGoesOn, WindowNext
  <2>7. CASE WindowMessage(t)
    <3>1. checks + MaxRequests < MaxChecks => checks < MaxChecks
      BY CheckFacts, BoundsAssumption
    <3> QED
      BY <2>7, <3>1 DEF WindowMessage, WindowNext, Clicks
  <2> QED
    BY <1>4, <2>1, <2>2, <2>3, <2>4, <2>5, <2>6, <2>7 DEF UiStep, UiThread, UiSteps, UserSteps
<1> QED
  BY <1>1, <1>2, <1>3, <1>4, Steps

\* A fresh window satisfies the invariant of the window, whatever was before it.
LEMMA FreshHolds ==
    ASSUME WindowInv, FreshWindow
    PROVE  WindowInv'
<1>1. WindowTypeOK'
  <2>1. /\ queue' = <<>> /\ queue' \in Seq(Results)
        /\ ui' = "closed" /\ worker' = "none" /\ checking' = FALSE
    BY DEF FreshWindow
  <2>2. /\ held' \in Results /\ latest' \in Results /\ download' \in Builds
    BY CheckFacts DEF FreshWindow
  <2>3. installed' \in InstalledBuilds /\ checks' \in 0..MaxChecks
    BY DEF FreshWindow, WindowInv, WindowTypeOK, CheckTypeOK
  <2>4. CheckTypeOK'
    BY <2>1, <2>2, <2>3 DEF FreshWindow, CheckTypeOK
  <2> QED
    BY <2>4 DEF FreshWindow, WindowTypeOK, Tones, Paint
<1>2. JoinIsShort' /\ NothingLeaks' /\ LifeInv'
  BY DEF FreshWindow, JoinIsShort, NothingLeaks, LifeInv
<1>3. OfferInv'
  BY DEF FreshWindow, OfferInv, Newer, OffersOnlyNewer, Offering, Failed
<1>4. PaintInv'
  BY DEF FreshWindow, PaintInv, ColoursTell
<1>5. VerdictInv'
  BY DEF FreshWindow, VerdictInv, Told
<1> QED
  BY <1>1, <1>2, <1>3, <1>4, <1>5 DEF WindowInv

\* A request takes room, and finds a thread at work if any is.
LEMMA RoomOfCalls ==
    ASSUME Typed, QueueInv, MailInv, RoomInv, checks \in Nat,
           Calls \/ Between \/ CheckWorker \/ UNCHANGED settingsVars
    PROVE  RoomInv'
<1>1. UNCHANGED <<boxes, ui, checks>>
  <2>1. CASE Calls \/ Between
    BY <2>1, CallsLeaveWindow DEF windowVars, checkVars
  <2>2. CASE CheckWorker
    BY <2>2 DEF CheckWorker, Worker, WorkerThread, Answered, Broken, TimedOut, Ends,
          Complete, StoreIdle, Exit
  <2> QED
    BY <2>1, <2>2 DEF settingsVars, runtimeVars, windowVars, checkVars
<1>2. Used' = Used /\ Used \in Nat
  BY <1>1 DEF Used
<1>3. \/ requested' = requested
      \/ \E m \in {"show", "hide"} : Request(m)
  BY DEF Calls, Between, ShowGivesUp, DestroyAtOnce, DestroyEnds, ShowStarts, StartAgain,
     StartFails, StartThread, ShowStarted, HideExported, ShowAfterStart, Show, Hide,
     DestroyStops, Stop, CallReturns, StartReady, StartJoin, StopJoined,
     StartWaitFails, StopTimesOut, StartUnchanged, CheckWorker, Worker, runtimeVars, callVars,
     settingsVars
<1>4. requested' \in requested..MaxRequests /\ requested \in Nat /\ requested' \in Nat
  BY <1>3, BoundsAssumption DEF Request, RoomInv
<1>5. ASSUME NEW u \in Threads, phase'[u] = "loop"
      PROVE  /\ boxes' + Len(Heeded(inbox'[u])) <= requested'
             /\ Used' + Len(Heeded(inbox'[u])) <= (MaxChecks - MaxRequests) + requested'
  <2>1. phase[u] = "loop"
    <3>1. CASE Calls \/ Between
      BY <1>5, <3>1, CallsLeaveWindow DEF Typed, StartThread, GoesTo
    <3> QED
      BY <1>5, <3>1 DEF CheckWorker, Worker, lifeVars, settingsVars, runtimeVars
  <2>2. inbox[u] \in Seq(Messages) /\ Once(inbox[u]) /\ Len(Heeded(inbox[u])) \in Nat
    <3>1. inbox[u] \in Seq(Messages) /\ Once(inbox[u])
      BY DEF Typed, MailInv
    <3> QED
      BY <3>1, HeededIsQueue
  <2>3. \/ Len(Heeded(inbox'[u])) = Len(Heeded(inbox[u]))
        \/ Len(Heeded(inbox'[u])) = Len(Heeded(inbox[u])) + 1 /\ requested' = requested + 1
    <3>1. CASE inbox'[u] = inbox[u]
      BY <3>1
    <3>2. CASE DestroyStops /\ inbox'[u] = Append(inbox[u], "stop")
      <4>1. ~Contains(inbox[u], "stop")
        BY <3>2 DEF DestroyStops, Free, QueueInv
      <4> QED
        BY <2>2, <3>2, <4>1, HeededAfterStop
    <3>3. ASSUME NEW m \in {"show", "hide"}, Request(m), inbox'[u] = Append(inbox[u], m)
          PROVE  \/ Len(Heeded(inbox'[u])) = Len(Heeded(inbox[u]))
                 \/ Len(Heeded(inbox'[u])) = Len(Heeded(inbox[u])) + 1 /\ requested' = requested + 1
      <4>1. Heeded(inbox[u]) \in Seq(Messages) /\ m \in Messages
        BY <2>2, HeededIsQueue DEF Messages
      <4>2. Len(Append(Heeded(inbox[u]), m)) = Len(Heeded(inbox[u])) + 1
        BY <4>1
      <4> QED
        BY <2>2, <3>3, <4>2, HeededAfterRequest DEF Request
    <3> QED
      BY <3>1, <3>2, <3>3, QueueOfCalls
  <2>4. /\ boxes + Len(Heeded(inbox[u])) <= requested
        /\ Used + Len(Heeded(inbox[u])) <= (MaxChecks - MaxRequests) + requested
        /\ boxes <= requested /\ Used <= (MaxChecks - MaxRequests) + requested
    BY <2>1 DEF RoomInv
  <2>5. boxes \in Nat /\ boxes' = boxes /\ MaxChecks - MaxRequests \in Nat
    BY <1>1, CheckFacts, BoundsAssumption DEF RoomInv
  <2> QED
    BY <1>2, <1>4, <2>2, <2>3, <2>4, <2>5
<1>6. boxes' \in Nat /\ boxes' <= requested' /\ Used' <= (MaxChecks - MaxRequests) + requested'
  <2>1. /\ boxes \in Nat /\ boxes <= requested /\ Used <= (MaxChecks - MaxRequests) + requested
        /\ MaxChecks - MaxRequests \in Nat
    BY CheckFacts, BoundsAssumption DEF RoomInv
  <2>2. requested <= requested'
    BY <1>4
  <2> QED
    BY <1>1, <1>2, <1>4, <2>1, <2>2
<1>7. requested' \in 0..MaxRequests
  BY <1>4, BoundsAssumption
<1> QED
  BY <1>5, <1>6, <1>7 DEF RoomInv

\* A message that the thread takes leaves its room to what it leads to.
LEMMA RoomOfThread ==
    ASSUME Typed, OneInv, MailInv, RoomInv, checks \in Nat, NEW t \in Threads, UiStep(t)
    PROVE  RoomInv'
<1>1. /\ requested' = requested /\ requested \in 0..MaxRequests /\ requested \in Nat
      /\ boxes \in Nat /\ boxes <= requested
      /\ Used \in Nat /\ Used <= (MaxChecks - MaxRequests) + requested
      /\ MaxChecks - MaxRequests \in Nat
  <2>1. requested' = requested
    BY DEF UiStep, UiThread, UiSteps, UserSteps, ThreadStarted, ThreadFailed, ThreadQuits,
       Destructs, ThreadExits, HandleShow, HandleHide, HandleStop, Receives, HandlerGoesOn,
       WindowMessage, IslandThrows, BoxEnds, UiUnchanged, callVars
  <2> QED
    BY <2>1, CheckFacts, BoundsAssumption DEF RoomInv, Used
<1> DEFINE Size  == Len(Heeded(inbox[t]))
           Limit == (MaxChecks - MaxRequests) + requested
<1>2. Size \in Nat
  <2>1. inbox[t] \in Seq(Messages) /\ Once(inbox[t])
    BY DEF Typed, MailInv
  <2> QED
    BY <2>1, HeededIsQueue
<1>3. phase[t] = "loop" => boxes + Size <= requested /\ Used + Size <= Limit
  BY DEF RoomInv
<1>4. phase[t] # "cleanup" => \A u \in Threads \ {t} : phase'[u] # "loop"
  <2>1. phase[t] \in Busy /\ \A u \in Threads \ {t} : phase'[u] = phase[u]
    BY UiMoves
  <2> QED
    BY <2>1 DEF OneInv, Live, Busy
<1>5. ASSUME phase[t] # "cleanup", boxes' \in Nat, boxes' <= requested, Used' <= Limit,
             phase'[t] = "loop" => /\ boxes' + Len(Heeded(inbox'[t])) <= requested
                                   /\ Used' + Len(Heeded(inbox'[t])) <= Limit
      PROVE  RoomInv'
  BY <1>1, <1>4, <1>5 DEF RoomInv
<1>6. CASE ThreadStarted(t)
  <2>1. Heeded(inbox'[t]) = <<>>
    BY <1>6, HeededEmpty DEF ThreadStarted, MailInv
  <2>2. boxes' = boxes /\ Used' <= Used /\ Used' \in Nat /\ phase[t] # "cleanup"
    BY <1>6 DEF ThreadStarted, FreshWindow, Used
  <2> QED
    BY <1>1, <1>5, <2>1, <2>2
<1>7. CASE ThreadExits(t)
  <2>1. /\ boxes' = boxes /\ Used' = Used
        /\ \A u \in Threads : phase'[u] = "loop" => phase[u] = "loop" /\ inbox'[u] = inbox[u]
    BY <1>7 DEF ThreadExits, GoesTo, Typed, Used, windowVars, checkVars
  <2> QED
    BY <1>1, <2>1 DEF RoomInv
<1>8. CASE ThreadFailed(t) \/ ThreadQuits(t)
  <2>1. boxes' = boxes /\ Used' = Used /\ phase[t] # "cleanup" /\ phase'[t] # "loop"
    BY <1>8 DEF ThreadFailed, ThreadQuits, GoesTo, Typed, Used, windowVars, checkVars
  <2> QED
    BY <1>1, <1>5, <2>1
<1>9. CASE Destructs(t) \/ HandleStop(t) \/ IslandThrows(t)
  <2>1. boxes' = boxes /\ phase[t] # "cleanup" /\ phase'[t] # "loop"
    BY <1>9 DEF Destructs, HandleStop, Receives, IslandThrows, GoesTo, Typed
  <2>2. Used' <= Used /\ Used' \in Nat
    BY <1>9 DEF Destructs, HandleStop, IslandThrows, JoinsWorker, JoinWorker, BeginsDestroy,
          CloseWindow, workerVars, Used
  <2> QED
    BY <1>1, <1>5, <2>1, <2>2
<1>10. CASE HandleShow(t)
  <2>1. phase[t] = "loop" /\ Len(Heeded(inbox'[t])) = Size - 1 /\ Size \in Nat \ {0}
    BY <1>10, Received DEF HandleShow, Receives
  <2>2. boxes' \in {boxes, boxes + 1} /\ Used' <= Used + 1 /\ Used' \in Nat
    <3>1. boxes' \in {boxes, boxes + 1} /\ (CreateAndShow \/ ShowAgain \/ UNCHANGED windowVars)
      BY <1>10 DEF HandleShow, CreateFails
    <3>2. CASE CreateAndShow \/ ShowAgain
      BY <3>1, <3>2 DEF CreateAndShow, ShowAgain, OpenWindow, ReopenWindow, workerVars, Used
    <3>3. CASE UNCHANGED windowVars
      BY <3>1, <3>3 DEF windowVars, checkVars, Used
    <3> QED
      BY <3>1, <3>2, <3>3
  <2>3. /\ boxes' \in Nat /\ boxes' <= requested /\ Used' <= Limit
        /\ boxes' + (Size - 1) <= requested /\ Used' + (Size - 1) <= Limit
    BY <1>1, <1>3, <2>1, <2>2
  <2> QED
    BY <1>5, <2>1, <2>3
<1>11. CASE HandleHide(t)
  <2>1. phase[t] = "loop" /\ Len(Heeded(inbox'[t])) = Size - 1
    BY <1>11, Received DEF HandleHide, Receives
  <2>2. boxes' = boxes /\ Used' = Used
    BY <1>11 DEF HandleHide, HideWindow, windowVars, checkVars, Used
  <2>3. boxes' + (Size - 1) <= requested /\ Used' + (Size - 1) <= Limit
    BY <1>1, <1>2, <1>3, <2>1, <2>2
  <2> QED
    BY <1>1, <1>5, <2>1, <2>2, <2>3
<1>12. CASE HandlerGoesOn(t)
  <2>1. UNCHANGED <<inbox, boxes, phase>> /\ phase[t] # "cleanup"
    BY <1>12 DEF HandlerGoesOn, lifeVars
  <2>2. Used' <= Used /\ Used' \in Nat
    BY <1>12 DEF HandlerGoesOn, BeginsCheck, TurnedDown, BeginCheck, StartsWorker, StartWorker,
          GoesOnDestroying, DiscardPending, DestroyWindow, workerVars, Used
  <2> QED
    BY <1>1, <1>2, <1>3, <1>5, <2>1, <2>2
<1>13. CASE WindowMessage(t)
  <2>1. UNCHANGED <<inbox, boxes, phase>> /\ phase[t] = "loop" /\ ui = "loop"
    BY <1>13 DEF WindowMessage, lifeVars
  <2>2. CASE AppliesResult \/ HideWindow \/ ThemeMessage
    <3>1. Used' = Used
      BY <2>2 DEF AppliesResult, ApplyResult, HideWindow, ThemeMessage, workerVars,
            checkVars, Used
    <3> QED
      BY <1>1, <1>3, <1>5, <2>1, <3>1
  <2>3. CASE checks + MaxRequests < MaxChecks /\ BeginsCheck
    <3>1. Used' <= checks + 1 /\ Used' \in Nat
      BY <2>1, <2>3 DEF BeginsCheck, TurnedDown, BeginCheck, workerVars, Used
    <3>2. checks + 1 <= MaxChecks - MaxRequests
      BY <2>3, CheckFacts, BoundsAssumption
    <3>3. Used' + Size <= Limit
      BY <1>1, <1>2, <1>3, <2>1, <3>1, <3>2
    <3> QED
      BY <1>1, <1>2, <1>3, <1>5, <2>1, <3>1, <3>3
  <2> QED
    BY <1>13, <2>2, <2>3 DEF WindowMessage
<1>14. CASE BoxEnds(t)
  <2>1. UNCHANGED <<inbox, phase>> /\ boxes' = boxes - 1 /\ boxes > 0 /\ phase[t] # "cleanup"
    BY <1>14 DEF BoxEnds, BoxMayEnd, lifeVars
  <2>2. Used' = Used
    BY <1>14 DEF BoxEnds, windowVars, checkVars, Used
  <2> QED
    BY <1>1, <1>2, <1>3, <1>5, <2>1, <2>2
<1> QED
  BY <1>6, <1>7, <1>8, <1>9, <1>10, <1>11, <1>12, <1>13, <1>14
     DEF UiStep, UiThread, UiSteps, UserSteps

\* The fields that no other argument asks about.
RestTyped ==
    /\ {commandWindow, settingsWindow} \subseteq Threads \cup {NoThread}
    /\ {ready, crashed, started, abandoned} \subseteq BOOLEAN
    /\ module \in {"none", "loaded", "freed", "kept"}
    /\ started => module # "none"

\* Every step keeps the other fields in their types.
LEMMA RestHolds ==
    ASSUME Typed, OpInv, RestTyped, [SettingsNext]_settingsVars
    PROVE  RestTyped'
<1> USE DEF RestTyped
<1>1. CASE ShowStarts
  BY <1>1 DEF ShowStarts, StartAgain, StartFails, StartThread, StartUnchanged, lifeVars
<1>2. CASE ShowStarted \/ HideExported \/ ShowAfterStart
  BY <1>2 DEF OpInv, ShowStarted, HideExported, ShowAfterStart, Show, Hide, Request, lifeVars,
        loaderVars
<1>3. CASE DestroyStops
  BY <1>3 DEF DestroyStops, Stop, StopNothing, StopPost, lifeVars
<1>4. CASE (CallReturns \/ StartWaitFails \/ StopTimesOut) /\ UNCHANGED loaderVars
  BY <1>4 DEF CallReturns, StartReady, StartJoin, StopJoined, StartWaitFails,
        StopTimesOut, StartUnchanged, lifeVars, loaderVars
<1>5. CASE Between
  <2>1. UNCHANGED <<commandWindow, settingsWindow, ready, crashed>>
    BY <1>5 DEF Between, ShowGivesUp, DestroyAtOnce, DestroyEnds, runtimeVars, lifeVars
  <2>2. abandoned' \in BOOLEAN
    BY <1>5 DEF Between, ShowGivesUp, DestroyAtOnce, DestroyEnds
  <2>3. started' = started /\ module' \in {module, "freed", "kept"}
    BY <1>5 DEF Between, ShowGivesUp, DestroyAtOnce, DestroyEnds
  <2> QED
    BY <2>1, <2>2, <2>3
<1>6. CASE CheckWorker \/ UNCHANGED settingsVars
  BY <1>6 DEF CheckWorker, Worker, lifeVars, loaderVars, settingsVars, runtimeVars
<1>7. ASSUME NEW t \in Threads, UiStep(t)
      PROVE  RestTyped'
  BY <1>7 DEF UiStep, UiThread, UiSteps, UserSteps, ThreadStarted, ThreadFailed, ThreadQuits,
        Destructs, ThreadExits, HandleShow, HandleHide, HandleStop, Receives, HandlerGoesOn,
        WindowMessage, IslandThrows, BoxEnds, lifeVars, loaderVars
<1> QED
  BY <1>1, <1>2, <1>3, <1>4, <1>5, <1>6, <1>7, Steps DEF Calls

\* The window keeps its own invariant behind the loader and its message loop.
HouseInv == MailInv /\ RoomInv /\ WindowInv /\ RestTyped

\* The invariant of the whole composition holds in every behaviour.
LEMMA HouseInvariant == SettingsSpec => []HouseInv
<1>1. SettingsInit => HouseInv
  <2> SUFFICES ASSUME SettingsInit
               PROVE  HouseInv
    OBVIOUS
  <2>1. MailInv /\ RestTyped
    <3>1. \A t \in Threads : inbox[t] = <<>>
      BY DEF SettingsInit, RuntimeInit
    <3>2. MailInv
      BY <3>1, HeededEmpty DEF MailInv
    <3> QED
      BY <3>2 DEF SettingsInit, RuntimeInit, RestTyped
  <2>2. WindowInv
    BY WindowInitHolds DEF SettingsInit, RuntimeInit
  <2>3. RoomInv
    <3>1. Used = 0 /\ boxes = 0 /\ requested = 0 /\ \A t \in Threads : phase[t] # "loop"
      BY DEF SettingsInit, RuntimeInit, WindowInit, CheckInit, Used
    <3> QED
      BY <3>1, CheckFacts, BoundsAssumption DEF RoomInv
  <2> QED
    BY <2>1, <2>2, <2>3 DEF HouseInv
<1>2. ThreadInv /\ HouseInv /\ [SettingsNext]_settingsVars => HouseInv'
  <2> SUFFICES ASSUME ThreadInv, HouseInv, [SettingsNext]_settingsVars
               PROVE  HouseInv'
    OBVIOUS
  <2>1. /\ Typed /\ OpInv /\ QueueInv /\ OneInv
        /\ MailInv /\ RoomInv /\ WindowInv /\ RestTyped
    BY DEF ThreadInv, HouseInv
  <2>2. checks \in Nat
    BY <2>1, CheckFacts DEF WindowInv, WindowTypeOK, CheckTypeOK
  <2>3. MailInv' /\ RestTyped'
    BY <2>1, MailHolds, RestHolds
  <2>4. RoomInv'
    BY <2>1, <2>2, RoomOfCalls, RoomOfThread, Steps
  <2>5. WindowInv'
    BY <2>1, <2>2, WindowsOwnSteps, WindowKept, FreshHolds
  <2> QED
    BY <2>3, <2>4, <2>5 DEF HouseInv
<1> QED
  BY <1>1, <1>2, ThreadInvariant, PTL DEF SettingsSpec

\* Every field of the loader, of the runtime and of the window keeps its type, and
\* checks, requests and message boxes stay within the bounds set to the requests.
THEOREM SettingsTypeCorrect == SettingsSpec => []SettingsTypeOK
<1>1. ThreadInv /\ HouseInv => SettingsTypeOK
  <2> SUFFICES ASSUME ThreadInv, HouseInv
               PROVE  SettingsTypeOK
    OBVIOUS
  <2>1. boxes \in 0..MaxRequests /\ requested \in 0..MaxRequests
    BY BoundsAssumption DEF HouseInv, RoomInv
  <2>2. RuntimeTypeOK
    BY <2>1 DEF ThreadInv, Typed, HouseInv, RestTyped, WindowInv, RuntimeTypeOK
  <2> QED
    BY <2>2 DEF ThreadInv, Typed, OpInv, HouseInv, RestTyped, SettingsTypeOK
<1> QED
  BY <1>1, ThreadInvariant, HouseInvariant, PTL

\* What the window promises on its own, it keeps behind the loader, whichever
\* threads come and go, and whenever they are asked to show, to hide or to stop.
THEOREM WindowKeepsItsPromises ==
    SettingsSpec => [](OffersOnlyNewer /\ JoinIsShort /\ NothingLeaks
                       /\ QuietShowsLastVerdict /\ ColoursTell)
<1>1. HouseInv => OffersOnlyNewer /\ JoinIsShort /\ NothingLeaks
                  /\ QuietShowsLastVerdict /\ ColoursTell
  BY DEF HouseInv, WindowInv, OfferInv, PaintInv, VerdictInv, Told, ShowsLatest,
     QuietShowsLastVerdict
<1> QED
  BY <1>1, HouseInvariant, PTL

-----------------------------------------------------------------------------
(* The door *)

\* Before the first start has succeeded nobody asks for the window.
UnshownInv ==
    ~started =>
        /\ ui \notin {"showing", "loop", "joining"} /\ ~visible
        /\ \A t \in Threads : ~Contains(inbox[t], "show")

\* Every step keeps the window away until a start has succeeded.
LEMMA UnshownHolds ==
    ASSUME Typed, UnshownInv, [SettingsNext]_settingsVars
    PROVE  UnshownInv'
<1> SUFFICES ASSUME ~started'
             PROVE  /\ ui' \notin {"showing", "loop", "joining"} /\ ~visible'
                    /\ \A t \in Threads : ~Contains(inbox'[t], "show")
  BY DEF UnshownInv
<1>1. ~started
  BY Steps, UiMoves DEF Calls, Between, ShowStarts, ShowStarted, HideExported, ShowAfterStart,
     DestroyStops, ShowGivesUp, DestroyAtOnce, DestroyEnds, CheckWorker, loaderVars, settingsVars
<1>2. /\ ui \notin {"showing", "loop", "joining"} /\ ~visible
      /\ \A t \in Threads : ~Contains(inbox[t], "show") /\ inbox[t] \in Seq(Messages)
  BY <1>1 DEF UnshownInv, Typed
<1>3. CASE Calls \/ Between \/ CheckWorker \/ UNCHANGED settingsVars
  <2>1. ui' = ui /\ visible' = visible
    <3>1. CASE Calls \/ Between
      BY <3>1, CallsLeaveWindow DEF windowVars, checkVars
    <3>2. CASE CheckWorker
      BY <3>2 DEF CheckWorker, Worker, WorkerThread, Answered, Broken, TimedOut, Ends,
            Complete, StoreIdle, Exit
    <3> QED
      BY <1>3, <3>1, <3>2 DEF settingsVars, runtimeVars, windowVars, checkVars
  <2>2. ASSUME NEW u \in Threads
        PROVE  ~Contains(inbox'[u], "show")
    <3>1. \/ inbox'[u] = inbox[u]
          \/ \E m \in {"hide", "stop"} : inbox'[u] = Append(inbox[u], m)
      <4>1. CASE HideExported
        BY <4>1 DEF HideExported, Hide, Request, Post, Typed
      <4>2. CASE DestroyStops
        BY <4>2 DEF DestroyStops, Stop, StopNothing, StopPost, Post, Typed
      <4>3. CASE ~HideExported /\ ~DestroyStops
        <5>1. ~ShowStarted /\ ~ShowAfterStart
          BY <1>1 DEF ShowStarted, ShowAfterStart
        <5>2. inbox' = inbox
          BY <1>3, <4>3, <5>1 DEF Calls, Between, ShowGivesUp, DestroyAtOnce, DestroyEnds,
             ShowStarts, StartAgain, StartFails, StartThread, CallReturns, StartReady, StartJoin,
             StopJoined, StartWaitFails, StopTimesOut, StartUnchanged, CheckWorker, Worker,
             runtimeVars, settingsVars
        <5> QED
          BY <5>2
      <4> QED
        BY <4>1, <4>2, <4>3
    <3>2. ASSUME NEW m \in {"hide", "stop"}
          PROVE  ~Contains(Append(inbox[u], m), "show")
      <4>1. m \in Messages /\ m # "show"
        BY DEF Messages
      <4> QED
        BY <1>2, <4>1, QueuePosted
    <3> QED
      BY <1>2, <3>1, <3>2
  <2> QED
    BY <1>2, <2>1, <2>2
<1>4. ASSUME NEW t \in Threads, UiStep(t)
      PROVE  /\ ui' \notin {"showing", "loop", "joining"} /\ ~visible'
             /\ \A u \in Threads : ~Contains(inbox'[u], "show")
  <2>1. ~HandleShow(t) /\ ~WindowMessage(t) /\ ~IslandThrows(t)
    <3>1. "show" \in Messages
      BY DEF Messages
    <3> QED
      BY <1>2, <3>1, QueuePosted DEF HandleShow, Receives, WindowMessage, IslandThrows
  <2>2. ui' \notin {"showing", "loop", "joining"} /\ ~visible'
    <3>1. CASE ThreadStarted(t)
      BY <3>1 DEF ThreadStarted, FreshWindow
    <3>2. CASE ThreadFailed(t) \/ ThreadQuits(t) \/ ThreadExits(t) \/ BoxEnds(t)
      BY <1>2, <3>2 DEF ThreadFailed, ThreadQuits, ThreadExits, BoxEnds, windowVars, checkVars
    <3>3. CASE Destructs(t) \/ HandleStop(t)
      BY <1>2, <3>3 DEF Destructs, JoinsWorker, JoinWorker, HandleStop, BeginsDestroy, CloseWindow
    <3>4. CASE HandleHide(t)
      BY <1>2, <3>4 DEF HandleHide, windowVars, checkVars
    <3>5. CASE HandlerGoesOn(t)
      BY <1>2, <3>5 DEF HandlerGoesOn, StartsWorker, StartWorker, GoesOnDestroying,
            DiscardPending, DestroyWindow
    <3> QED
      BY <1>4, <2>1, <3>1, <3>2, <3>3, <3>4, <3>5 DEF UiStep, UiThread, UiSteps, UserSteps
  <2>3. ASSUME NEW u \in Threads
        PROVE  ~Contains(inbox'[u], "show")
    <3>1. \/ inbox'[u] \in {inbox[u], <<>>}
          \/ inbox[u] # <<>> /\ inbox'[u] = Tail(inbox[u])
      BY <1>4 DEF Typed, UiStep, UiThread, UiSteps, UserSteps, ThreadStarted, ThreadFailed,
            ThreadQuits, Destructs, ThreadExits, HandleShow, HandleHide, HandleStop, Receives,
            Consumes, HandlerGoesOn, WindowMessage, IslandThrows, BoxEnds
    <3>2. inbox[u] # <<>> => ~Contains(Tail(inbox[u]), "show")
      <4>1. "show" \in Messages
        BY DEF Messages
      <4> QED
        BY <1>2, <4>1, QueuePosted
    <3>3. ~Contains(<<>>, "show")
      BY DEF Contains
    <3> QED
      BY <1>2, <3>1, <3>2, <3>3
  <2> QED
    BY <2>2, <2>3
<1> QED
  BY <1>3, <1>4, Steps

\* The one thread in its loop is at the door, and its queue holds the requests.
LEMMA DoorOfThread ==
    ASSUME OneInv, ~abandoned, NEW t \in Threads, phase[t] = "loop"
    PROVE  Serving = {t} /\ Alive /\ Requests = Heeded(inbox[t])
<1>1. Serving = {t}
  BY DEF OneInv, Live, Serving
<1>2. (CHOOSE u \in Serving : TRUE) = t
  BY <1>1
<1> QED
  BY <1>1, <1>2 DEF Alive, Requests

\* Nobody is there otherwise.
LEMMA DoorOfNobody ==
    ASSUME abandoned \/ \A t \in Threads : phase[t] # "loop"
    PROVE  Serving = {} /\ ~Alive /\ Requests = <<>>
  BY DEF Serving, Alive, Requests

\* A step that leaves the loops and their queues alone leaves the door alone.
LEMMA DoorUntouched ==
    ASSUME abandoned' <=> abandoned,
           \A t \in Threads : (phase'[t] = "loop") <=> (phase[t] = "loop"),
           \A t \in Threads : phase[t] = "loop" => inbox'[t] = inbox[t]
    PROVE  Alive' = Alive /\ Requests' = Requests
<1>1. Serving' = Serving
  BY DEF Serving
<1>2. Serving # {} => (CHOOSE t \in Serving : TRUE) \in Serving
  OBVIOUS
<1>3. \A t \in Serving : inbox'[t] = inbox[t]
  BY DEF Serving
<1> QED
  BY <1>1, <1>2, <1>3 DEF Alive, Requests

\* The same of the state after a step.
LEMMA DoorAfter ==
    ASSUME OneInv'
    PROVE  /\ \A t \in Threads : phase'[t] = "loop" /\ ~abandoned' =>
                 Alive' /\ Requests' = Heeded(inbox'[t])
           /\ abandoned' \/ (\A t \in Threads : phase'[t] # "loop") =>
                 ~Alive' /\ Requests' = <<>>
<1>1. ASSUME NEW t \in Threads, phase'[t] = "loop", ~abandoned'
      PROVE  Alive' /\ Requests' = Heeded(inbox'[t])
  <2>1. Serving' = {t}
    BY <1>1 DEF OneInv, Live, Serving
  <2>2. (CHOOSE u \in Serving' : TRUE) = t
    BY <2>1
  <2> QED
    BY <2>1, <2>2 DEF Alive, Requests
<1> QED
  BY <1>1 DEF Serving, Alive, Requests

\* Door and screen have no third state.
LEMMA DoorFacts == {Alive, OnScreen} \subseteq BOOLEAN /\ {Alive', OnScreen'} \subseteq BOOLEAN
  BY DEF Alive, OnScreen

DoorStep == [Door!DoorNext]_(Door!doorVars)

\* Whatever the main thread does to the door is a request, or the end of it all.
LEMMA DoorOfCalls ==
    ASSUME ThreadInv, OneInv', HouseInv, LoaderLife, UnshownInv, ~abandoned,
           Calls \/ Between \/ CheckWorker \/ UNCHANGED settingsVars
    PROVE  DoorStep
<1> USE DEF DoorStep, Door!DoorNext, Door!doorVars
<1>1. visible' = visible
  <2>1. CASE Calls \/ Between
    BY <2>1, CallsLeaveWindow DEF windowVars
  <2> QED
    BY <2>1 DEF CheckWorker, Worker, WorkerThread, settingsVars, runtimeVars, windowVars
<1>2. \A u \in Threads : (phase'[u] = "loop") <=> (phase[u] = "loop")
  <2>1. CASE Calls \/ Between
    BY <2>1, CallsLeaveWindow DEF ThreadInv, Typed, StartThread, GoesTo
  <2> QED
    BY <2>1 DEF CheckWorker, Worker, lifeVars, settingsVars, runtimeVars
<1>3. CASE ShowGivesUp /\ abandoned'
  <2>1. ~visible
    BY <1>3 DEF ShowGivesUp, ThreadInv, OpInv, UnshownInv
  <2>2. ~Alive' /\ Requests' = <<>>
    BY <1>3, DoorAfter
  <2>3. ~Alive => Requests = <<>>
    BY DEF Requests
  <2>4. ~OnScreen /\ ~OnScreen'
    BY <1>1, <2>1 DEF OnScreen
  <2> QED
    BY <2>2, <2>3, <2>4, DoorFacts DEF Door!Shuts
<1>4. CASE ~abandoned'
  <2>1. OnScreen' = OnScreen
    BY <1>1, <1>4 DEF OnScreen
  <2>2. abandoned' <=> abandoned
    BY <1>4
  <2>3. CASE \A u \in Threads : phase[u] = "loop" => inbox'[u] = inbox[u]
    BY <1>2, <2>1, <2>2, <2>3, DoorUntouched
  <2>4. ASSUME NEW t \in Threads, phase[t] = "loop", inbox'[t] # inbox[t]
        PROVE  DoorStep
    <3>1. Alive /\ Requests = Heeded(inbox[t]) /\ Alive' /\ Requests' = Heeded(inbox'[t])
      BY <1>2, <1>4, <2>4, DoorOfThread, DoorAfter DEF ThreadInv
    <3>2. inbox[t] \in Seq(Messages) /\ Once(inbox[t])
      BY DEF ThreadInv, Typed, HouseInv, MailInv
    <3>3. CASE DestroyStops /\ inbox'[t] = Append(inbox[t], "stop")
      <4>1. ~Contains(inbox[t], "stop")
        BY <3>3 DEF DestroyStops, Free, ThreadInv, QueueInv
      <4>2. Requests' = Requests
        BY <3>1, <3>2, <3>3, <4>1, HeededAfterStop
      <4> QED
        BY <2>1, <3>1, <4>2
    <3>4. ASSUME NEW m \in {"show", "hide"}, inbox'[t] = Append(inbox[t], m)
          PROVE  DoorStep
      <4>1. Requests' = Requests \/ Requests' = Append(Requests, m)
        BY <3>1, <3>2, <3>4, HeededAfterRequest
      <4> QED
        BY <2>1, <3>1, <4>1 DEF Door!Asks
    <3> QED
      BY <2>4, <3>3, <3>4, QueueOfCalls DEF ThreadInv
  <2> QED
    BY <2>3, <2>4
<1>5. abandoned' => ShowGivesUp
  BY DEF Calls, Between, ShowStarts, ShowStarted, HideExported, ShowAfterStart, DestroyStops,
     DestroyAtOnce, DestroyEnds, CheckWorker, loaderVars, settingsVars
<1> QED
  BY <1>3, <1>4, <1>5

\* The thread opens the door, deals with the requests in their order, and shuts it.
LEMMA DoorOfThreads ==
    ASSUME ThreadInv, OneInv', HouseInv, LoaderLife, ~abandoned, NEW t \in Threads, UiStep(t)
    PROVE  DoorStep
<1> USE DEF DoorStep, Door!DoorNext, Door!doorVars
<1>1. /\ UNCHANGED abandoned /\ phase[t] \in Busy /\ visible \in BOOLEAN
      /\ \A u \in Threads \ {t} : phase'[u] = phase[u]
  BY UiMoves DEF ThreadInv, loaderVars, HouseInv, WindowInv, WindowTypeOK
<1>2. phase[t] # "cleanup" => \A u \in Threads \ {t} : phase[u] # "loop"
  BY <1>1 DEF ThreadInv, OneInv, Live, Busy
<1>3. ASSUME phase'[t] = phase[t], inbox'[t] = inbox[t], visible' \in {visible, FALSE},
             \A u \in Threads \ {t} : inbox'[u] = inbox[u]
      PROVE  DoorStep
  <2>1. Alive' = Alive /\ Requests' = Requests
    BY <1>1, <1>3, DoorUntouched
  <2>2. CASE visible' = visible
    <3>1. OnScreen' = OnScreen
      BY <1>1, <2>2 DEF OnScreen
    <3> QED
      BY <2>1, <3>1
  <2>3. CASE visible' = FALSE
    <3>1. ~OnScreen'
      BY <2>3 DEF OnScreen
    <3> QED
      BY <2>1, <3>1, DoorFacts DEF Door!Dismissed
  <2> QED
    BY <1>3, <2>2, <2>3
<1>4. CASE ThreadStarted(t)
  <2>1. phase[t] = "starting" /\ phase'[t] = "loop" /\ visible' = FALSE /\ inbox' = inbox
    BY <1>4 DEF ThreadStarted, GoesTo, FreshWindow, ThreadInv, Typed
  <2>2. \A u \in Threads : phase[u] \notin Live
    BY <1>1, <2>1 DEF ThreadInv, OneInv, Live
  <2>3. ~visible
    BY <2>2 DEF ThreadInv, PlaceInv, RemainsInv
  <2>4. ~Alive /\ Requests = <<>>
    BY <2>2, DoorOfNobody DEF Live
  <2>5. Alive' /\ Requests' = <<>>
    <3>1. inbox'[t] = <<>>
      BY <2>1 DEF HouseInv, MailInv
    <3> QED
      BY <1>1, <2>1, <3>1, DoorAfter, HeededEmpty
  <2> QED
    BY <2>1, <2>3, <2>4, <2>5 DEF Door!Opens, OnScreen
<1>5. CASE ThreadFailed(t) \/ ThreadQuits(t) \/ ThreadExits(t) \/ Destructs(t)
  <2>1. /\ phase[t] # "loop" /\ phase'[t] # "loop"
        /\ \A u \in Threads \ {t} : inbox'[u] = inbox[u]
    BY <1>5 DEF ThreadFailed, ThreadQuits, ThreadExits, Destructs, GoesTo, ThreadInv, Typed
  <2>2. visible' = visible
    BY <1>5 DEF ThreadFailed, ThreadQuits, ThreadExits, Destructs, JoinsWorker, windowVars
  <2>3. Alive' = Alive /\ Requests' = Requests
    BY <1>1, <2>1, DoorUntouched
  <2> QED
    BY <1>1, <2>2, <2>3 DEF OnScreen
<1>6. CASE HandleShow(t) \/ HandleHide(t)
  <2>1. PICK m \in {"show", "hide"} :
            /\ Receives(t, m) /\ Consumes(t)
            /\ m = "show" => visible' \in {TRUE, visible}
            /\ m = "hide" => visible' = FALSE
    <3>1. CASE HandleShow(t)
      <4>1. visible' \in {TRUE, visible}
        BY <3>1 DEF HandleShow, CreateAndShow, ShowAgain, CreateFails, windowVars
      <4> QED
        BY <3>1, <4>1 DEF HandleShow
    <3>2. CASE HandleHide(t)
      <4>1. phase[t] = "loop" /\ ui \in {"closed", "loop"} /\ settingsWindow = t
        BY <3>2 DEF HandleHide, Receives, LoaderLife, PointInv
      <4>2. settingsWindow # NoThread /\ (ui = "closed" => ~visible)
        BY <4>1, NoThreadAssumption DEF ThreadInv, RemainsInv
      <4>3. visible' = FALSE
        <5>1. CASE ui = "loop" /\ visible
          BY <3>2, <4>2, <5>1 DEF HandleHide, HideWindow
        <5>2. CASE ~(ui = "loop" /\ visible)
          BY <1>1, <3>2, <4>1, <4>2, <5>2 DEF HandleHide, windowVars
        <5> QED
          BY <5>1, <5>2
      <4> QED
        BY <3>2, <4>3 DEF HandleHide
    <3> QED
      BY <1>6, <3>1, <3>2
  <2>2. phase[t] = "loop" /\ phase'[t] = "loop"
    BY <1>6 DEF HandleShow, HandleHide, Receives
  <2>3. Alive /\ Requests = Heeded(inbox[t]) /\ Alive' /\ Requests' = Heeded(inbox'[t])
    BY <1>1, <2>2, DoorOfThread, DoorAfter DEF ThreadInv
  <2>4. Requests # <<>> /\ Head(Requests) = m /\ Requests' = Tail(Requests)
    BY <2>1, <2>3, Received DEF ThreadInv, HouseInv
  <2>5. OnScreen' \in IF m = "show" THEN {TRUE, OnScreen} ELSE {FALSE}
    <3>1. CASE visible' = visible
      <4>1. OnScreen' = OnScreen /\ (m = "hide" => ~OnScreen')
        BY <1>1, <2>1, <3>1 DEF OnScreen
      <4> QED
        BY <4>1, DoorFacts
    <3>2. CASE visible' = TRUE
      <4>1. OnScreen' /\ m # "hide"
        BY <1>1, <2>1, <3>2 DEF OnScreen
      <4> QED
        BY <4>1, DoorFacts
    <3>3. CASE visible' = FALSE /\ m = "hide"
      <4>1. ~OnScreen'
        BY <3>3 DEF OnScreen
      <4> QED
        BY <3>3, <4>1, DoorFacts
    <3> QED
      BY <2>1, <3>1, <3>2, <3>3
  <2>6. Alive' = Alive
    BY <2>3 DEF Alive
  <2> QED
    BY <2>4, <2>5, <2>6 DEF Door!Serves
<1>7. CASE HandleStop(t) \/ IslandThrows(t)
  <2>1. phase[t] = "loop" /\ phase'[t] # "loop" /\ visible' = visible
    BY <1>7 DEF HandleStop, Receives, IslandThrows, BeginsDestroy, GoesTo, ThreadInv, Typed
  <2>2. \A u \in Threads : phase'[u] # "loop"
    BY <1>1, <1>2, <2>1
  <2>3. Alive /\ ~Alive' /\ Requests' = <<>>
    BY <2>1, <2>2, DoorOfThread, DoorAfter DEF ThreadInv
  <2> QED
    BY <1>1, <2>1, <2>3 DEF Door!Shuts, OnScreen, Alive
<1>8. CASE HandlerGoesOn(t)
  <2>1. visible' \in {visible, FALSE}
    BY <1>8 DEF HandlerGoesOn, BeginsCheck, StartsWorker, GoesOnDestroying
  <2> QED
    BY <1>3, <1>8, <2>1 DEF HandlerGoesOn, lifeVars
<1>9. CASE WindowMessage(t)
  <2>1. visible' \in {visible, FALSE}
    BY <1>9 DEF WindowMessage, AppliesResult, HideWindow, ThemeMessage, BeginsCheck
  <2> QED
    BY <1>3, <1>9, <2>1 DEF WindowMessage, lifeVars
<1>10. CASE BoxEnds(t)
  BY <1>3, <1>10 DEF BoxEnds, lifeVars, windowVars
<1> QED
  BY <1>4, <1>5, <1>6, <1>7, <1>8, <1>9, <1>10 DEF UiStep, UiThread, UiSteps, UserSteps

\* Once nobody is promised anything, the door stays as it is.
LEMMA DoorOfAbandoned ==
    ASSUME OneInv', abandoned, abandoned'
    PROVE  DoorStep
<1>1. ~Alive /\ Requests = <<>> /\ ~OnScreen
  BY DoorOfNobody DEF OnScreen
<1>2. ~Alive' /\ Requests' = <<>> /\ ~OnScreen'
  BY DoorAfter DEF OnScreen
<1> QED
  BY <1>1, <1>2 DEF DoorStep, Door!doorVars, Alive, OnScreen

\* The runtime and its loader implement the door: every request that was queued
\* is dealt with in its order and once, none before the thread is there, and
\* only an end of the thread drops requests or leaves them unasked.
THEOREM SettingsImplementsDoor == SettingsSpec => Door!DoorSpec
<1>1. SettingsInit => Door!DoorInit /\ UnshownInv
  BY DEF SettingsInit, RuntimeInit, WindowInit, CheckInit, Door!DoorInit, Alive, Serving,
     Requests, OnScreen, UnshownInv, Contains
<1>2. ThreadInv /\ UnshownInv /\ [SettingsNext]_settingsVars => UnshownInv'
  BY UnshownHolds DEF ThreadInv
<1>3. ThreadInv /\ ThreadInv' /\ HouseInv /\ ReachInv /\ UnshownInv
        /\ [SettingsNext]_settingsVars => [Door!DoorNext]_(Door!doorVars)
  <2> SUFFICES ASSUME ThreadInv, ThreadInv', HouseInv, ReachInv, UnshownInv,
                      [SettingsNext]_settingsVars
               PROVE  DoorStep
    BY DEF DoorStep
  <2>1. OneInv'
    BY DEF ThreadInv
  <2>2. abandoned => abandoned'
    BY Steps, UiMoves DEF ThreadInv, Calls, Between, ShowStarts, ShowStarted, HideExported,
       ShowAfterStart, DestroyStops, ShowGivesUp, DestroyAtOnce, DestroyEnds, CheckWorker,
       loaderVars, settingsVars
  <2>3. CASE abandoned
    BY <2>1, <2>2, <2>3, DoorOfAbandoned
  <2>4. CASE ~abandoned
    BY <2>1, <2>4, DoorOfCalls, DoorOfThreads, Steps DEF ReachInv
  <2> QED
    BY <2>3, <2>4
<1> QED
  BY <1>1, <1>2, <1>3, ThreadInvariant, HouseInvariant, ReachInvariant, PTL
     DEF SettingsSpec, Door!DoorSpec

\* What is lost between the loader and the window is lost for want of room in the
\* queue only: a show() after a start that succeeded is queued for the started
\* thread, unless an exception has ended its loop or start() gave up on a thread
\* before.
ShowIsQueuedInRoom ==
    ShowStarted /\ ~abandoned /\ ~crashed /\ Len(inbox[thread]) < QueueLimit =>
        inbox' = [inbox EXCEPT ![thread] = Append(@, "show")]

\* Every show() of a started thread that has room in its queue is queued there.
THEOREM ShowIsQueuedInRoomCorrect == SettingsSpec => [][ShowIsQueuedInRoom]_settingsVars
<1>1. StartedServes => ShowIsQueuedInRoom
  <2> SUFFICES ASSUME StartedServes, ShowStarted, ~abandoned, ~crashed,
                      Len(inbox[thread]) < QueueLimit
               PROVE  inbox' = [inbox EXCEPT ![thread] = Append(@, "show")]
    BY DEF ShowIsQueuedInRoom
  <2>1. thread # NoThread /\ commandWindow = thread /\ phase[thread] = "loop"
    BY DEF StartedServes, ShowStarted, Free
  <2>2. CanPost
    BY <2>1 DEF CanPost
  <2> QED
    BY <2>1, <2>2 DEF ShowStarted, Show, Request, Post
<1> QED
  BY <1>1, StartedServesCorrect, PTL
=============================================================================
