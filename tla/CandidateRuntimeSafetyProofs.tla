-------------------- MODULE CandidateRuntimeSafetyProofs --------------------
(***************************************************************************)
(* The safety properties of CandidateRuntime.                              *)
(*                                                                         *)
(* LifeInv says which thread the pointers name, DeliveryInv says which     *)
(* messages are still on their way when the popup is not what was asked    *)
(* for.  Both hold until start() abandons a thread that is still running   *)
(* (lingered); together with TypeOK and SlotInv they are inductive.        *)
(***************************************************************************)
EXTENDS CandidateRuntimeProofs

Busy == {"starting", "loop", "quitting", "cleanup"}

\* thread_ is the one thread that is alive; in its loop both pointers name it;
\* and only a thread in its loop has a popup.
LifeInv ==
    /\ \A t \in Threads : phase[t] \in Busy => thread = t
    /\ \A t \in Threads : phase[t] = "loop" => commandWindow = t /\ candidateWindow = t
    /\ call \in {"start_wait", "start_join", "stop_post", "stop_wait"} => thread # NoThread
    /\ shown # 0 => created /\ \E t \in Threads : phase[t] = "loop"

\* No thread exists at first.
LEMMA LifeInit == Init => LifeInv
<1> SUFFICES ASSUME Init
             PROVE  LifeInv
  OBVIOUS
<1> QED
  BY DEF Init, LifeInv, Busy

\* The caller's steps keep the pointers and the one live thread in agreement,
\* unless start() drops the handle of a thread that has not ended.
LEMMA LifeOfCalls ==
    ASSUME TypeOK, LifeInv, CallBegins \/ CallContinues,
           StartJoin => phase[thread] = "exited"
    PROVE  LifeInv'
<1> USE DEF LifeInv, Busy
<1>1. CASE StartAgain \/ StartFails \/ PresentRejected \/ StopNothing
  BY <1>1 DEF StartAgain, StartFails, PresentRejected, StopNothing, Return,
        lifeVars, popupVars
<1>2. ASSUME NEW t \in Threads, StartThread(t)
      PROVE  LifeInv'
  <2>1. \A u \in Threads : phase[u] \notin Busy
    BY <1>2, NoThreadAssumption DEF StartThread
  <2>2. shown = 0
    BY <2>1
  <2>3. \A u \in Threads : phase'[u] \in Busy => u = t
    BY <1>2, <2>1 DEF StartThread, TypeOK
  <2>4. phase'[t] = "starting" /\ thread' = t /\ shown' = 0 /\ t # NoThread
    BY <1>2, <2>2, NoThreadAssumption DEF StartThread, TypeOK, popupVars
  <2> QED
    BY <2>3, <2>4
<1>3. CASE PresentStore \/ HideReset
  BY <1>3 DEF PresentStore, HideReset, lifeVars, popupVars
<1>4. CASE StopReset
  BY <1>4 DEF StopReset, lifeVars, popupVars
<1>5. CASE StartReady \/ StartWaitFails \/ StopTimesOut
  BY <1>5 DEF StartReady, StartWaitFails, StopTimesOut, Return, lifeVars, popupVars
<1>6. CASE StartJoin \/ StopJoined
  <2>1. thread \in Threads /\ phase[thread] = "exited" /\ call' = "idle"
    BY <1>6 DEF TypeOK, StartJoin, StopJoined, Return
  <2>2. \A t \in Threads : phase[t] \notin Busy
    BY <2>1
  <2>3. shown = 0
    BY <2>2
  <2>4. phase' = phase /\ shown' = shown
    BY <1>6 DEF StartJoin, StopJoined, popupVars
  <2> QED
    BY <2>1, <2>2, <2>3, <2>4
<1>7. CASE PresentPost \/ HidePost
  BY <1>7 DEF PresentPost, HidePost, Return, lifeVars, popupVars
<1>8. CASE StopPost
  BY <1>8 DEF StopPost, lifeVars, popupVars
<1> QED
  BY <1>1, <1>2, <1>3, <1>4, <1>5, <1>6, <1>7, <1>8 DEF CallBegins, CallContinues

\* A step of one UI thread does not touch another, because no other is alive.
LEMMA LifeOfThreads ==
    ASSUME TypeOK, LifeInv, NEW t \in Threads, UiThread(t)
    PROVE  LifeInv'
<1> USE DEF LifeInv, Busy
<1>1. phase[t] \in Busy
  BY DEF UiThread, ThreadStarted, ThreadFailed, ThreadQuits, ThreadExits,
        HandlePresent, HandleHide, HandleStop, Receives
<1>2. thread = t /\ \A u \in Threads : phase[u] \in Busy => u = t
  BY <1>1
<1>3. thread' = thread /\ call' = call /\ t # NoThread
  BY NoThreadAssumption DEF UiThread, ThreadStarted, ThreadFailed, ThreadQuits,
        ThreadExits, HandlePresent, HandleHide, HandleStop, callerVars, lifeVars
<1>4. CASE ThreadStarted(t)
  <2>1. phase'[t] = "loop" /\ \A u \in Threads \ {t} : phase'[u] = phase[u]
    BY <1>4 DEF ThreadStarted, TypeOK
  <2>2. shown = 0 /\ shown' = shown
    BY <1>4, <1>2 DEF ThreadStarted, popupVars
  <2> QED
    BY <1>2, <1>3, <1>4, <2>1, <2>2 DEF ThreadStarted
<1>5. CASE ThreadFailed(t)
  <2>1. phase'[t] = "cleanup" /\ \A u \in Threads \ {t} : phase'[u] = phase[u]
    BY <1>5 DEF ThreadFailed, TypeOK
  <2>2. shown = 0 /\ shown' = shown
    BY <1>5, <1>2 DEF ThreadFailed, popupVars
  <2> QED
    BY <1>2, <1>3, <2>1, <2>2
<1>6. CASE ThreadQuits(t)
  <2>1. phase'[t] = "cleanup" /\ \A u \in Threads \ {t} : phase'[u] = phase[u]
    BY <1>6 DEF ThreadQuits, TypeOK
  <2>2. shown' = 0
    BY <1>6 DEF ThreadQuits
  <2> QED
    BY <1>2, <1>3, <2>1, <2>2
<1>7. CASE ThreadExits(t)
  <2>1. phase'[t] = "exited" /\ \A u \in Threads \ {t} : phase'[u] = phase[u]
    BY <1>7 DEF ThreadExits, TypeOK
  <2>2. shown = 0 /\ shown' = shown
    BY <1>7, <1>2 DEF ThreadExits, popupVars
  <2> QED
    BY <1>2, <1>3, <2>1, <2>2
<1>8. CASE HandlePresent(t) \/ HandleHide(t)
  <2>1. UNCHANGED lifeVars /\ phase[t] = "loop"
    BY <1>8 DEF HandlePresent, HandleHide, Receives
  <2>2. shown' # 0 => created'
    BY <1>8 DEF HandlePresent, HandleHide, popupVars
  <2> QED
    BY <1>2, <1>3, <2>1, <2>2 DEF lifeVars
<1>9. CASE HandleStop(t)
  <2>1. phase'[t] = "quitting" /\ \A u \in Threads \ {t} : phase'[u] = phase[u]
    BY <1>9 DEF HandleStop, TypeOK
  <2>2. candidateWindow = t
    BY <1>9 DEF HandleStop, Receives
  <2>3. shown' = 0
    BY <1>9, <2>2, <1>3 DEF HandleStop
  <2> QED
    BY <1>2, <1>3, <2>1, <2>3
<1> QED
  BY <1>4, <1>5, <1>6, <1>7, <1>8, <1>9 DEF UiThread

\* LifeInv is kept by every step that does not abandon a running thread.
LEMMA LifeHolds == TypeOK /\ LifeInv /\ ~lingered' /\ [Next]_vars => LifeInv'
<1> SUFFICES ASSUME TypeOK, LifeInv, ~lingered', [Next]_vars
             PROVE  LifeInv'
  OBVIOUS
<1>1. CASE OwnerDestroyed
  BY <1>1 DEF OwnerDestroyed, LifeInv, lifeVars, callerVars
<1>2. CASE UNCHANGED vars
  BY <1>2 DEF vars, LifeInv
<1>3. StartJoin => phase[thread] = "exited"
  BY DEF StartJoin
<1> QED
  BY <1>1, <1>2, <1>3, LifeOfCalls, LifeOfThreads DEF Next
-----------------------------------------------------------------------------
(* Messages on their way *)

Posting == {"present_post", "hide_post", "stop_post"}

\* The popup is what the last command asked for, or empty, or a message that
\* will make it so is still queued.
Delivered(t) ==
    \/ shown \in {0, Wanted}
    \/ pending # 0 /\ Contains(inbox[t], "present")
    \/ last # "present" /\ (Contains(inbox[t], "hide") \/ Contains(inbox[t], "stop"))

\* Between the slot and the post of a call the message is not queued yet; an
\* older "present" may meanwhile have taken the new presentation.
DeliveryInv ==
    /\ call = "present_post" =>
          last = "present" /\ (pending = submitted \/ shown \in {0, Wanted})
    /\ call = "hide_post" => last = "hide"
    /\ call = "stop_post" => last = "stop"
    /\ last = "present" => submitted # 0
    /\ ~refused /\ call \notin Posting =>
          \A t \in Threads : phase[t] = "loop" => Delivered(t)

\* Nothing is on the screen and nothing is asked for at first.
LEMMA DeliveryInit == Init => DeliveryInv
  BY DEF Init, DeliveryInv, Posting, Delivered, Wanted

\* A call that does not post leaves the popup and the messages alone.
LEMMA DeliveryOfCalls ==
    ASSUME TypeOK, LifeInv, SlotInv, DeliveryInv, CallBegins
    PROVE  DeliveryInv'
<1> USE DEF DeliveryInv, Posting, Delivered, Wanted
<1>1. CASE StartAgain \/ StartFails \/ PresentRejected \/ StopNothing
  BY <1>1 DEF StartAgain, StartFails, PresentRejected, StopNothing, Return,
        lifeVars, popupVars
<1>2. ASSUME NEW t \in Threads, StartThread(t)
      PROVE  DeliveryInv'
  <2>1. \A u \in Threads : phase'[u] # "loop"
    BY <1>2, NoThreadAssumption DEF StartThread, LifeInv, Busy, TypeOK
  <2> QED
    BY <1>2, <2>1 DEF StartThread, popupVars
<1>3. CASE PresentStore
  <2>1. submitted' # 0 /\ last' = "present" /\ pending' = submitted' /\ call' = "present_post"
    BY <1>3, NumberFacts DEF PresentStore, TypeOK
  <2> QED
    BY <2>1
<1>4. CASE HideReset
  BY <1>4 DEF HideReset
<1>5. CASE StopReset
  BY <1>5 DEF StopReset
<1> QED
  BY <1>1, <1>2, <1>3, <1>4, <1>5 DEF CallBegins

\* A posted message reaches the queue of the one thread in its message loop.
LEMMA PostDelivers ==
    ASSUME TypeOK, LifeInv, NEW m \in Messages, Post(m), ~refused',
           NEW t \in Threads, phase[t] = "loop"
    PROVE  Contains(inbox'[t], m)
<1>1. CanPost /\ commandWindow = t
  BY DEF Post, LifeInv
<1>2. inbox'[t] = Append(inbox[t], m)
  BY <1>1 DEF Post, TypeOK
<1>3. inbox[t] \in Seq(Messages)
  BY DEF TypeOK
<1> QED
  BY <1>2, <1>3, AppendContains

\* A call that posts either queues the message that will correct the popup, or
\* records that it was refused.
LEMMA DeliveryOfContinuations ==
    ASSUME TypeOK, LifeInv, SlotInv, DeliveryInv, CallContinues
    PROVE  DeliveryInv'
<1>1. CASE StartReady \/ StartWaitFails \/ StartJoin \/ StopJoined \/ StopTimesOut
  BY <1>1 DEF DeliveryInv, Posting, Delivered, Wanted, StartReady, StartWaitFails,
        StartJoin, StopJoined, StopTimesOut, Return, lifeVars, popupVars
<1>2. CASE PresentPost
  <2>1. /\ call' = "idle" /\ last' = last /\ last = "present"
        /\ submitted' = submitted /\ submitted # 0
        /\ phase' = phase /\ shown' = shown /\ pending' = pending
    BY <1>2 DEF PresentPost, lifeVars, popupVars, DeliveryInv
  <2>2. ASSUME ~refused', NEW t \in Threads, phase[t] = "loop"
        PROVE  Contains(inbox'[t], "present")
    <3>1. Post("present") /\ "present" \in Messages
      BY <1>2 DEF PresentPost, Messages
    <3> QED
      BY <2>2, <3>1, PostDelivers
  <2>3. pending = submitted \/ shown \in {0, Wanted}
    BY <1>2 DEF DeliveryInv, PresentPost
  <2> QED
    BY <2>1, <2>2, <2>3 DEF DeliveryInv, Delivered, Wanted
<1>3. CASE HidePost
  <2>1. call' = "idle" /\ last' = "hide" /\ phase' = phase
    BY <1>3 DEF HidePost, Return, lifeVars, DeliveryInv
  <2>2. ASSUME ~refused', NEW t \in Threads, phase[t] = "loop"
        PROVE  Contains(inbox'[t], "hide")
    <3>1. Post("hide") /\ "hide" \in Messages
      BY <1>3 DEF HidePost, Messages
    <3> QED
      BY <2>2, <3>1, PostDelivers
  <2> QED
    BY <2>1, <2>2 DEF DeliveryInv, Delivered
<1>4. CASE StopPost
  <2>1. call' = "stop_wait" /\ last' = "stop" /\ phase' = phase
    BY <1>4 DEF StopPost, lifeVars, DeliveryInv
  <2>2. ASSUME ~refused', NEW t \in Threads, phase[t] = "loop"
        PROVE  Contains(inbox'[t], "stop")
    <3>1. Post("stop") /\ "stop" \in Messages
      BY <1>4 DEF StopPost, Messages
    <3> QED
      BY <2>2, <3>1, PostDelivers
  <2> QED
    BY <2>1, <2>2 DEF DeliveryInv, Delivered
<1> QED
  BY <1>1, <1>2, <1>3, <1>4 DEF CallContinues

-----------------------------------------------------------------------------
(* UI threads *)

\* A UI thread that is in its message loop after the step makes the popup right
\* when it takes a message, or leaves a message that will.
LEMMA DeliveredAfter ==
    ASSUME TypeOK, LifeInv, SlotInv, NEW t \in Threads, Delivered(t),
           HandlePresent(t) \/ HandleHide(t)
    PROVE  Delivered(t)'
<1>1. /\ inbox[t] \in Seq(Messages) /\ inbox[t] # <<>>
      /\ inbox'[t] = Tail(inbox[t])
      /\ phase[t] = "loop"
  BY DEF TypeOK, HandlePresent, HandleHide, Receives, Consume
<1>2. candidateWindow # NoThread /\ last' = last /\ submitted' = submitted
  BY <1>1, NoThreadAssumption DEF LifeInv, HandlePresent, HandleHide, callerVars
<1>3. CASE HandleHide(t)
  <2>1. shown' = 0
    BY <1>3, <1>2 DEF HandleHide
  <2> QED
    BY <2>1 DEF Delivered
<1>4. CASE HandlePresent(t) /\ pending # 0
  <2>1. shown' = pending \/ (shown' = shown /\ ~created)
    BY <1>2, <1>4 DEF HandlePresent, popupVars
  <2>2. shown' \in {0, Wanted}
    BY <1>4, <2>1 DEF SlotInv, LifeInv
  <2> QED
    BY <1>2, <2>2 DEF Delivered, Wanted
<1>5. CASE HandlePresent(t) /\ pending = 0
  <2>1. shown' = shown /\ Head(inbox[t]) = "present"
    BY <1>5 DEF HandlePresent, popupVars, Receives
  <2>2. \A m \in {"hide", "stop"} : Contains(inbox[t], m) => Contains(inbox'[t], m)
    <3>1. \A k \in Messages : Contains(inbox[t], k) /\ Head(inbox[t]) # k
                                => Contains(Tail(inbox[t]), k)
      BY <1>1, TailContains
    <3> QED
      BY <1>1, <2>1, <3>1 DEF Messages
  <2> QED
    BY <1>2, <1>5, <2>1, <2>2 DEF Delivered, Wanted
<1> QED
  BY <1>3, <1>4, <1>5

\* A UI thread's step corrects the popup or keeps the message that will.
LEMMA DeliveryOfThreads ==
    ASSUME TypeOK, LifeInv, SlotInv, DeliveryInv, NEW t \in Threads, UiThread(t)
    PROVE  DeliveryInv'
<1>1. UNCHANGED callerVars
  BY DEF UiThread, ThreadStarted, ThreadFailed, ThreadQuits, ThreadExits,
        HandlePresent, HandleHide, HandleStop
<1>2. call = "present_post" => pending' = submitted \/ shown' \in {0, Wanted}
  <2> SUFFICES ASSUME call = "present_post"
               PROVE  pending' = submitted \/ shown' \in {0, Wanted}
    OBVIOUS
  <2>1. pending = submitted \/ shown \in {0, Wanted}
    BY DEF DeliveryInv
  <2>2. CASE HandlePresent(t)
    <3>1. candidateWindow # NoThread
      BY <2>2, NoThreadAssumption DEF HandlePresent, Receives, LifeInv
    <3> QED
      BY <2>1, <2>2, <3>1 DEF HandlePresent, popupVars, SlotInv, LifeInv
  <2>3. CASE ~HandlePresent(t)
    <3>1. pending' = pending /\ shown' \in {shown, 0}
      BY <2>3 DEF UiThread, ThreadStarted, ThreadFailed, ThreadQuits, ThreadExits,
            HandleHide, HandleStop, popupVars
    <3> QED
      BY <2>1, <3>1
  <2> QED
    BY <2>2, <2>3
<1>3. ASSUME ~refused', call' \notin Posting, NEW u \in Threads, phase'[u] = "loop"
      PROVE  Delivered(u)'
  <2>1. \A w \in Threads : phase[w] = "loop" => w = t
    BY DEF LifeInv, Busy, UiThread, ThreadStarted, ThreadFailed, ThreadQuits,
          ThreadExits, HandlePresent, HandleHide, HandleStop, Receives
  <2>2. CASE ThreadStarted(t)
    <3>1. shown = 0 /\ shown' = shown
      BY <2>1, <2>2 DEF LifeInv, ThreadStarted, popupVars
    <3> QED
      BY <3>1 DEF Delivered
  <2>3. CASE HandlePresent(t) \/ HandleHide(t)
    <3>1. phase' = phase /\ u = t
      BY <1>3, <2>1, <2>3 DEF HandlePresent, HandleHide, lifeVars
    <3>2. Delivered(t)
      BY <1>1, <1>3, <3>1 DEF DeliveryInv, callerVars
    <3> QED
      BY <2>3, <3>1, <3>2, DeliveredAfter
  <2>4. CASE ThreadFailed(t) \/ ThreadQuits(t) \/ ThreadExits(t) \/ HandleStop(t)
    <3>1. phase'[t] # "loop" /\ \A w \in Threads \ {t} : phase'[w] = phase[w]
      BY <2>4 DEF TypeOK, ThreadFailed, ThreadQuits, ThreadExits, HandleStop
    <3> QED
      BY <1>3, <2>1, <3>1
  <2> QED
    BY <2>2, <2>3, <2>4 DEF UiThread
<1> QED
  BY <1>1, <1>2, <1>3 DEF DeliveryInv, callerVars, Wanted

\* DeliveryInv is inductive, given the types, SlotInv and LifeInv.
LEMMA DeliveryHolds ==
    TypeOK /\ LifeInv /\ SlotInv /\ DeliveryInv /\ [Next]_vars => DeliveryInv'
<1> SUFFICES ASSUME TypeOK, LifeInv, SlotInv, DeliveryInv, [Next]_vars
             PROVE  DeliveryInv'
  OBVIOUS
<1>1. CASE OwnerDestroyed
  BY <1>1 DEF OwnerDestroyed, lifeVars, callerVars, DeliveryInv, Delivered, Wanted
<1>2. CASE UNCHANGED vars
  BY <1>2 DEF vars, DeliveryInv, Delivered, Wanted
<1> QED
  BY <1>1, <1>2, DeliveryOfCalls, DeliveryOfContinuations, DeliveryOfThreads DEF Next

-----------------------------------------------------------------------------
(* The theorems *)

SafetyInv == TypeOK /\ SlotInv /\ (lingered \/ (LifeInv /\ DeliveryInv))

\* What was once left to itself stays so.
LEMMA LingeredStays == lingered /\ [Next]_vars => lingered'
<1> SUFFICES ASSUME lingered, [Next]_vars
             PROVE  lingered'
  OBVIOUS
<1>1. CASE CallBegins
  BY <1>1 DEF CallBegins, StartAgain, StartFails, StartThread, PresentRejected,
        PresentStore, HideReset, StopNothing, StopReset
<1>2. CASE CallContinues
  BY <1>2 DEF CallContinues, StartReady, StartWaitFails, StartJoin, PresentPost,
        HidePost, StopPost, StopJoined, StopTimesOut
<1>3. CASE OwnerDestroyed
  BY <1>3 DEF OwnerDestroyed, callerVars
<1>4. ASSUME NEW t \in Threads, UiThread(t)
      PROVE  lingered'
  BY <1>4 DEF UiThread, ThreadStarted, ThreadFailed, ThreadQuits, ThreadExits,
        HandlePresent, HandleHide, HandleStop, callerVars
<1>5. CASE UNCHANGED vars
  BY <1>5 DEF vars
<1> QED
  BY <1>1, <1>2, <1>3, <1>4, <1>5 DEF Next

\* The strengthening that the three theorems below are read off from.
LEMMA SafetyInvariant == Spec => []SafetyInv
<1>1. Init => SafetyInv
  BY InitTyped, LifeInit, DeliveryInit DEF Init, SafetyInv, SlotInv
<1>2. SafetyInv /\ [Next]_vars => SafetyInv'
  <2> SUFFICES ASSUME SafetyInv, [Next]_vars
               PROVE  SafetyInv'
    OBVIOUS
  <2>1. TypeOK' /\ SlotInv'
    BY NextTyped, SlotHolds DEF SafetyInv
  <2>2. CASE lingered'
    BY <2>1, <2>2 DEF SafetyInv
  <2>3. CASE ~lingered'
    <3>1. TypeOK /\ SlotInv /\ LifeInv /\ DeliveryInv
      BY <2>3, LingeredStays DEF SafetyInv
    <3> QED
      BY <2>1, <2>3, <3>1, LifeHolds, DeliveryHolds DEF SafetyInv
  <2> QED
    BY <2>2, <2>3
<1> QED
  BY <1>1, <1>2, PTL DEF Spec

\* Once the queue is drained the popup is the last presentation or nothing.
THEOREM NoStalePopupCorrect == Spec => []NoStalePopup
<1>1. SafetyInv => NoStalePopup
  BY DEF SafetyInv, LifeInv, DeliveryInv, Delivered, Posting, NoStalePopup, Quiet, Contains
<1> QED
  BY <1>1, SafetyInvariant, PTL

\* A UI thread in its message loop is always the one that calls reach.
THEOREM LoopIsReachableCorrect == Spec => []LoopIsReachable
<1>1. SafetyInv => LoopIsReachable
  BY DEF SafetyInv, LifeInv, Busy, LoopIsReachable
<1> QED
  BY <1>1, SafetyInvariant, PTL

\* When thread_ is null no UI thread is alive: stop() joins, and start() never
\* makes a second thread.
THEOREM StopJoinsCorrect == Spec => []StopJoins
<1>1. SafetyInv => StopJoins
  BY NoThreadAssumption DEF SafetyInv, TypeOK, Phases, LifeInv, Busy, StopJoins
<1> QED
  BY <1>1, SafetyInvariant, PTL
=============================================================================
