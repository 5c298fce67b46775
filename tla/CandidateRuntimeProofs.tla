----------------------- MODULE CandidateRuntimeProofs -----------------------
(***************************************************************************)
(* Proofs about CandidateRuntime, for every set of threads, every bound on *)
(* the presentations and every queue limit.                                *)
(*                                                                         *)
(*   TypeCorrect         Spec => []TypeOK                                  *)
(*   RuntimeImplementsBoard  the popup keeps the promise of CandidateBoard *)
(*                                                                         *)
(* The safety properties are proved in CandidateRuntimeSafetyProofs.       *)
(***************************************************************************)
EXTENDS CandidateRuntime, TLAPS

-----------------------------------------------------------------------------
(* Queues *)

Contains(q, m) == \E i \in 1..Len(q) : q[i] = m

\* Posting a message keeps every message that was queued already.
LEMMA AppendContains ==
    ASSUME NEW S, NEW q \in Seq(S), NEW m \in S
    PROVE  /\ Append(q, m) \in Seq(S)
           /\ Contains(Append(q, m), m)
           /\ \A k \in S : Contains(q, k) => Contains(Append(q, m), k)
  BY DEF Contains

\* Taking a message off the queue keeps every other message.
LEMMA TailContains ==
    ASSUME NEW S, NEW q \in Seq(S), q # <<>>
    PROVE  /\ Tail(q) \in Seq(S)
           /\ \A k \in S : Contains(q, k) /\ Head(q) # k => Contains(Tail(q), k)
<1>1. Tail(q) \in Seq(S) /\ Len(Tail(q)) = Len(q) - 1
  OBVIOUS
<1>2. ASSUME NEW k \in S, Contains(q, k), Head(q) # k
      PROVE  Contains(Tail(q), k)
  <2>1. PICK i \in 1..Len(q) : q[i] = k
    BY <1>2 DEF Contains
  <2>2. i # 1
    BY <1>2, <2>1
  <2>3. i - 1 \in 1..Len(Tail(q)) /\ Tail(q)[i - 1] = k
    BY <2>1, <2>2, <1>1
  <2> QED
    BY <2>3 DEF Contains
<1> QED
  BY <1>1, <1>2

-----------------------------------------------------------------------------
(* Type correctness *)

USE NoThreadAssumption DEF Messages, Phases, Calls, Waits

\* Presentation numbers are naturals, and the next one is still in range.
LEMMA NumberFacts ==
    /\ 0 \in Numbers
    /\ Numbers \subseteq Nat
    /\ \A n \in Numbers : n < MaxPresentations => n + 1 \in Numbers
  BY BoundsAssumption DEF Numbers

\* A fresh Runtime has the right types.
LEMMA InitTyped == Init => TypeOK
<1> SUFFICES ASSUME Init
             PROVE  TypeOK
  OBVIOUS
<1>1. inbox \in [Threads -> Seq(Messages)] /\ phase \in [Threads -> Phases]
  BY DEF Init
<1> QED
  BY <1>1, NumberFacts DEF Init, TypeOK

\* The first step of every API call keeps the types.
LEMMA CallsTyped == TypeOK /\ CallBegins => TypeOK'
<1> SUFFICES ASSUME TypeOK, CallBegins
             PROVE  TypeOK'
  OBVIOUS
<1> USE NumberFacts DEF TypeOK, Return, lifeVars, popupVars
<1>1. CASE StartAgain
  BY <1>1 DEF StartAgain
<1>2. CASE StartFails
  BY <1>2 DEF StartFails
<1>3. ASSUME NEW t \in Threads, StartThread(t)
      PROVE  TypeOK'
  BY <1>3 DEF StartThread
<1>4. CASE PresentRejected
  BY <1>4 DEF PresentRejected
<1>5. CASE PresentStore
  BY <1>5 DEF PresentStore
<1>6. CASE HideReset
  BY <1>6 DEF HideReset
<1>7. CASE StopNothing
  BY <1>7 DEF StopNothing
<1>8. CASE StopReset
  BY <1>8 DEF StopReset
<1> QED
  BY <1>1, <1>2, <1>3, <1>4, <1>5, <1>6, <1>7, <1>8 DEF CallBegins

\* post() keeps the queues well formed and, if it queues at all, queues to the
\* command window of a thread in its message loop.
LEMMA PostTyped ==
    ASSUME TypeOK, NEW m \in Messages, Post(m)
    PROVE  inbox' \in [Threads -> Seq(Messages)] /\ refused' \in BOOLEAN
<1>1. CASE CanPost
  <2>1. commandWindow \in Threads
    BY <1>1 DEF CanPost, TypeOK
  <2>2. Append(inbox[commandWindow], m) \in Seq(Messages)
    BY <2>1 DEF TypeOK
  <2> QED
    BY <1>1, <2>1, <2>2 DEF Post, TypeOK
<1>2. CASE ~CanPost
  BY <1>2 DEF Post, TypeOK
<1> QED
  BY <1>1, <1>2

\* So does everything a call does after its first step.
LEMMA ContinuationsTyped == TypeOK /\ CallContinues => TypeOK'
<1> SUFFICES ASSUME TypeOK, CallContinues
             PROVE  TypeOK'
  OBVIOUS
<1>1. CASE StartReady \/ StartWaitFails \/ StartJoin \/ StopJoined \/ StopTimesOut
  <2>1. CASE StartReady
    BY <2>1 DEF TypeOK, StartReady, Return, lifeVars, popupVars
  <2>2. CASE StartWaitFails
    BY <2>2 DEF TypeOK, StartWaitFails, Return, lifeVars, popupVars
  <2>3. CASE StartJoin
    BY <2>3 DEF TypeOK, StartJoin, Return, lifeVars, popupVars
  <2>4. CASE StopJoined
    BY <2>4 DEF TypeOK, StopJoined, Return, lifeVars, popupVars
  <2>5. CASE StopTimesOut
    BY <2>5 DEF TypeOK, StopTimesOut, Return, lifeVars, popupVars
  <2> QED
    BY <1>1, <2>1, <2>2, <2>3, <2>4, <2>5
<1>2. CASE PresentPost
  <2>1. inbox' \in [Threads -> Seq(Messages)] /\ refused' \in BOOLEAN
    BY <1>2, PostTyped DEF PresentPost
  <2>2. result' \in {"ok", "error"}
    BY <1>2 DEF PresentPost
  <2> QED
    BY <1>2, <2>1, <2>2 DEF TypeOK, PresentPost, lifeVars, popupVars
<1>3. CASE HidePost
  <2>1. inbox' \in [Threads -> Seq(Messages)] /\ refused' \in BOOLEAN
    BY <1>3, PostTyped DEF HidePost
  <2> QED
    BY <1>3, <2>1 DEF TypeOK, HidePost, Return, lifeVars, popupVars
<1>4. CASE StopPost
  <2>1. inbox' \in [Threads -> Seq(Messages)] /\ refused' \in BOOLEAN
    BY <1>4, PostTyped DEF StopPost
  <2> QED
    BY <1>4, <2>1 DEF TypeOK, StopPost, lifeVars, popupVars
<1> QED
  BY <1>1, <1>2, <1>3, <1>4 DEF CallContinues

\* The queue a UI thread leaves behind is well formed.
LEMMA ConsumeTyped ==
    ASSUME TypeOK, NEW t \in Threads, NEW m, Receives(t, m), Consume(t)
    PROVE  inbox' \in [Threads -> Seq(Messages)]
<1>1. Tail(inbox[t]) \in Seq(Messages)
  BY DEF TypeOK, Receives
<1> QED
  BY <1>1 DEF TypeOK, Consume

\* Every step of thread_main and command_window_proc keeps the types.
LEMMA UiThreadTyped == ASSUME NEW t \in Threads, TypeOK, UiThread(t) PROVE TypeOK'
<1>1. CASE ThreadStarted(t)
  BY <1>1 DEF TypeOK, ThreadStarted, callerVars, popupVars
<1>2. CASE ThreadFailed(t)
  BY <1>2 DEF TypeOK, ThreadFailed, callerVars, popupVars
<1>3. CASE ThreadQuits(t)
  <2>1. phase' \in [Threads -> Phases] /\ shown' \in Numbers
    BY <1>3, NumberFacts DEF TypeOK, ThreadQuits
  <2>2. UNCHANGED <<pending, submitted>>
    BY <1>3 DEF ThreadQuits, callerVars
  <2> HIDE DEF Messages, Phases, Calls, Waits
  <2> QED
    BY <1>3, <2>1, <2>2 DEF TypeOK, ThreadQuits, callerVars
<1>4. CASE ThreadExits(t)
  BY <1>4 DEF TypeOK, ThreadExits, callerVars, popupVars
<1>5. CASE HandlePresent(t)
  <2>1. inbox' \in [Threads -> Seq(Messages)]
    BY <1>5, ConsumeTyped DEF HandlePresent
  <2>2. pending' \in Numbers /\ created' \in BOOLEAN /\ shown' \in Numbers
    BY <1>5, NumberFacts DEF TypeOK, HandlePresent, popupVars
  <2> QED
    BY <1>5, <2>1, <2>2 DEF TypeOK, HandlePresent, callerVars, lifeVars
<1>6. CASE HandleHide(t)
  <2>1. inbox' \in [Threads -> Seq(Messages)]
    BY <1>6, ConsumeTyped DEF HandleHide
  <2>2. shown' \in Numbers
    BY <1>6, NumberFacts DEF TypeOK, HandleHide
  <2> QED
    BY <1>6, <2>1, <2>2 DEF TypeOK, HandleHide, callerVars, lifeVars
<1>7. CASE HandleStop(t)
  <2>1. inbox' \in [Threads -> Seq(Messages)] /\ phase' \in [Threads -> Phases]
    BY <1>7 DEF TypeOK, HandleStop
  <2>2. created' \in BOOLEAN /\ shown' \in Numbers
    BY <1>7, NumberFacts DEF TypeOK, HandleStop, popupVars
  <2> QED
    BY <1>7, <2>1, <2>2 DEF TypeOK, HandleStop, callerVars
<1> QED
  BY <1>1, <1>2, <1>3, <1>4, <1>5, <1>6, <1>7 DEF UiThread

\* TypeOK is inductive by itself.
LEMMA NextTyped == TypeOK /\ [Next]_vars => TypeOK'
<1> SUFFICES ASSUME TypeOK, [Next]_vars
             PROVE  TypeOK'
  OBVIOUS
<1>1. CASE OwnerDestroyed
  <2>1. created' \in BOOLEAN /\ shown' \in Numbers
    BY <1>1, NumberFacts DEF OwnerDestroyed
  <2>2. UNCHANGED <<lifeVars, pending, inbox, callerVars>>
    BY <1>1 DEF OwnerDestroyed
  <2> QED
    BY <2>1, <2>2 DEF TypeOK, callerVars, lifeVars
<1>2. CASE UNCHANGED vars
  BY <1>2 DEF TypeOK, vars
<1> QED
  BY <1>1, <1>2, CallsTyped, ContinuationsTyped, UiThreadTyped DEF Next

\* Every variable keeps its type, whatever the callers and the threads do.
THEOREM TypeCorrect == Spec => []TypeOK
<1> QED
  BY InitTyped, NextTyped, PTL DEF Spec
-----------------------------------------------------------------------------
(* The promise of the board *)

\* What is in the slot is what the last command asked for: present() fills it
\* with the newest presentation and hide() and stop() empty it at call time.
SlotInv == pending \in {0, Wanted}

\* No step puts an older presentation than the wanted one into the slot.
LEMMA SlotHolds == TypeOK /\ SlotInv /\ [Next]_vars => SlotInv'
<1> SUFFICES ASSUME TypeOK, SlotInv, [Next]_vars
             PROVE  SlotInv'
  OBVIOUS
<1> USE DEF SlotInv, Wanted
<1>1. CASE CallBegins
  BY <1>1 DEF CallBegins, StartAgain, StartFails, StartThread, PresentRejected,
        PresentStore, HideReset, StopNothing, StopReset
<1>2. CASE CallContinues
  BY <1>2 DEF CallContinues, StartReady, StartWaitFails, StartJoin, PresentPost,
        HidePost, StopPost, StopJoined, StopTimesOut
<1>3. CASE OwnerDestroyed
  BY <1>3 DEF OwnerDestroyed, callerVars
<1>4. ASSUME NEW t \in Threads, UiThread(t)
      PROVE  SlotInv'
  BY <1>4 DEF UiThread, ThreadStarted, ThreadFailed, ThreadQuits, ThreadExits,
        HandlePresent, HandleHide, HandleStop, callerVars
<1>5. CASE UNCHANGED vars
  BY <1>5 DEF vars
<1> QED
  BY <1>1, <1>2, <1>3, <1>4, <1>5 DEF Next

\* One step of the runtime is a step of the board or leaves it alone.
LEMMA StepImplementsBoard ==
    TypeOK /\ SlotInv /\ [Next]_vars => [Board!Next]_(Board!vars)
<1> SUFFICES ASSUME TypeOK, SlotInv, [Next]_vars
             PROVE  [Board!Next]_(Board!vars)
  OBVIOUS
<1> USE DEF Wanted, Board!Next, Board!vars, Board!Submit, Board!Withdraw,
            Board!Refresh, Board!Blank
<1>1. CASE PresentStore
  BY <1>1 DEF PresentStore, popupVars
<1>2. CASE HideReset
  BY <1>2 DEF HideReset, popupVars
<1>3. CASE StopReset
  BY <1>3 DEF StopReset, popupVars
<1>4. CASE StartAgain \/ StartFails \/ PresentRejected \/ StopNothing
  BY <1>4 DEF StartAgain, StartFails, PresentRejected, StopNothing, popupVars
<1>5. ASSUME NEW t \in Threads, StartThread(t)
      PROVE  [Board!Next]_(Board!vars)
  BY <1>5 DEF StartThread, popupVars
<1>6. CASE CallContinues
  BY <1>6 DEF CallContinues, StartReady, StartWaitFails, StartJoin, PresentPost,
        HidePost, StopPost, StopJoined, StopTimesOut, popupVars
<1>7. CASE OwnerDestroyed
  BY <1>7 DEF OwnerDestroyed, callerVars
<1>8. ASSUME NEW t \in Threads, UiThread(t)
      PROVE  [Board!Next]_(Board!vars)
  <2>1. submitted' = submitted /\ last' = last
    BY <1>8 DEF UiThread, ThreadStarted, ThreadFailed, ThreadQuits, ThreadExits,
          HandlePresent, HandleHide, HandleStop, callerVars
  <2>2. shown' \in {shown, 0, Wanted}
    BY <1>8 DEF UiThread, ThreadStarted, ThreadFailed, ThreadQuits, ThreadExits,
          HandlePresent, HandleHide, HandleStop, popupVars, SlotInv
  <2> QED
    BY <2>1, <2>2
<1>9. CASE UNCHANGED vars
  BY <1>9 DEF vars
<1> QED
  BY <1>1, <1>2, <1>3, <1>4, <1>5, <1>6, <1>7, <1>8, <1>9 DEF Next, CallBegins

\* The popup only ever changes to the newest presentation or to nothing: the
\* runtime implements the board, whatever faults the instance admits.
THEOREM RuntimeImplementsBoard == Spec => BoardSpec
<1>1. Init => SlotInv /\ Board!Init
  BY DEF Init, SlotInv, Wanted, Board!Init
<1>2. TypeOK /\ SlotInv /\ [Next]_vars => SlotInv'
  BY SlotHolds
<1>3. TypeOK /\ SlotInv /\ [Next]_vars => [Board!Next]_(Board!vars)
  BY StepImplementsBoard
<1> QED
  BY <1>1, <1>2, <1>3, TypeCorrect, PTL DEF Spec, BoardSpec, Board!Spec
=============================================================================
