----------------------- MODULE CandidateServiceProofs -----------------------
(***************************************************************************)
(* Proofs about the candidate path from end to end, for any number of      *)
(* clients, frames and UI threads and whatever faults are admitted.        *)
(*                                                                         *)
(*   ServiceTypeCorrect         the types of the whole path                *)
(*   ServiceImplementsRuntime   the service uses the DLL as CandidateRuntime *)
(*                              has it, and inherits what holds of it      *)
(*   OwnerIsConnectedCorrect    the owner of the popup has a handler       *)
(*   OnlyAuthorHidesCorrect     nobody takes another client's popup down   *)
(*   ServiceImplementsBoard     the popup keeps CandidateBoard's promise   *)
(*   StartedIsReachableCorrect  a started thread stays reachable           *)
(*   UnloadSafeCorrect          no thread is left in a DLL that is freed   *)
(*   ScreenBelongsToOwnerCorrect  the popup on the screen is its owner's   *)
(*                                                                         *)
(* The io thread's steps come in two parts, one of the pipe server and one *)
(* of the loader; the lemmas take them apart in the same way.              *)
(***************************************************************************)
EXTENDS CandidateService, CandidateRuntimeSafetyProofs

-----------------------------------------------------------------------------
(* The loader's part of a step *)

\* What the service may do to the loader and the DLL behind it.
LoaderCalls == LoaderPresent \/ PresentAfterStart \/ LoaderHide \/ LoaderDestroy
LoaderGoesOn == PresentGivesUp \/ LoaderReturns \/ DestroyEnds
DllRuns ==
    /\ CallContinues \/ OwnerDestroyed \/ \E t \in Threads : UiThread(t)
    /\ UNCHANGED loaderVars
LoaderStep == LoaderCalls \/ LoaderGoesOn \/ DllRuns

\* Every step of the service does one of these to the loader, or nothing.
LEMMA ServiceUsesLoader == [ServiceNext]_serviceVars => [LoaderStep]_uiVars
<1> SUFFICES ASSUME [ServiceNext]_serviceVars
             PROVE  [LoaderStep]_uiVars
  OBVIOUS
<1> USE DEF LoaderStep, LoaderCalls, LoaderGoesOn, DllRuns
<1>1. CASE Listens
  BY <1>1 DEF Listens
<1>2. ASSUME NEW c \in Clients, Handles(c)
      PROVE  [LoaderStep]_uiVars
  BY <1>2 DEF Handles, Presents, Hides, Leaves, AsksToHide
<1>3. CASE ShutDown
  BY <1>3 DEF ShutDown
<1>4. CASE CallerContinues
  BY <1>4 DEF CallerContinues, PresentsAfterStart
<1>5. CASE OwnerGoes
  BY <1>5 DEF OwnerGoes
<1>6. ASSUME NEW c \in Clients, Peer(c)
      PROVE  [LoaderStep]_uiVars
  BY <1>6 DEF Peer
<1>7. ASSUME NEW t \in Threads, UiRuns(t)
      PROVE  [LoaderStep]_uiVars
  BY <1>7 DEF UiRuns
<1>8. CASE UNCHANGED serviceVars
  BY <1>8 DEF serviceVars
<1> QED
  BY <1>1, <1>2, <1>3, <1>4, <1>5, <1>6, <1>7, <1>8 DEF ServiceNext, IoThread

\* And every such step begins or continues a call of the DLL, lets it run, or
\* leaves it alone.
LEMMA LoaderUsesRuntime == [LoaderStep]_uiVars => [Next]_vars
<1> SUFFICES ASSUME [LoaderStep]_uiVars
             PROVE  [Next]_vars
  OBVIOUS
<1>1. CASE LoaderPresent
  BY <1>1 DEF LoaderPresent, PresentFailsToLoad, PresentStarts, PresentStarted,
        CallsPresent, Next, CallBegins, uiVars
<1>2. CASE PresentAfterStart
  BY <1>2 DEF PresentAfterStart, CallsPresent, Next, CallBegins
<1>3. CASE LoaderHide
  BY <1>3 DEF LoaderHide, Next, CallBegins
<1>4. CASE LoaderDestroy
  BY <1>4 DEF LoaderDestroy, DestroyAtOnce, DestroyStops, Next, CallBegins
<1>5. CASE LoaderGoesOn
  BY <1>5 DEF LoaderGoesOn, PresentGivesUp, LoaderReturns, DestroyEnds
<1>6. CASE DllRuns
  BY <1>6 DEF DllRuns, Next
<1>7. CASE UNCHANGED uiVars
  BY <1>7 DEF uiVars
<1> QED
  BY <1>1, <1>2, <1>3, <1>4, <1>5, <1>6, <1>7 DEF LoaderStep, LoaderCalls

\* The service drives the DLL the way CandidateRuntime lets it be driven, so
\* whatever is proved of the runtime holds in the service.
THEOREM ServiceImplementsRuntime == ServiceSpec => Spec
<1>1. ServiceInit => Init
  BY DEF ServiceInit, LoaderInit
<1>2. [ServiceNext]_serviceVars => [Next]_vars
  BY ServiceUsesLoader, LoaderUsesRuntime
<1> QED
  BY <1>1, <1>2, PTL DEF ServiceSpec, Spec

\* The clients, too, see the popup change to the newest presentation or go
\* away only: no interleaving of their handlers brings an older one back.
THEOREM ServiceImplementsBoard == ServiceSpec => BoardSpec
  BY ServiceImplementsRuntime, RuntimeImplementsBoard, PTL

-----------------------------------------------------------------------------
(* The pipe server's part of a step *)

ServerStep ==
    \/ Accept \/ ListenerStops
    \/ \E c \in Clients :
          \/ PresentFrame(c) \/ HideFrame(c) \/ EndSession(c) \/ PeerCloses(c)
          \/ \E f \in Frames : PeerSends(c, f)

\* Every step of the service is one of these for the pipe server, or none.
LEMMA ServiceUsesServer == [ServiceNext]_serviceVars => [ServerStep]_serverVars
<1> SUFFICES ASSUME [ServiceNext]_serviceVars
             PROVE  [ServerStep]_serverVars
  OBVIOUS
<1>1. CASE IoThread
  BY <1>1 DEF IoThread, Listens, Handles, Presents, Hides, Leaves, ServerStep
<1>2. CASE ShutDown \/ OwnerGoes \/ \E t \in Threads : UiRuns(t)
  BY <1>2 DEF ShutDown, OwnerGoes, UiRuns
<1>3. CASE CallerContinues
  BY <1>3 DEF CallerContinues, PresentsAfterStart
<1>4. CASE \E c \in Clients : Peer(c)
  BY <1>4 DEF Peer, ServerStep
<1>5. CASE UNCHANGED serviceVars
  BY <1>5 DEF serviceVars
<1> QED
  BY <1>1, <1>2, <1>3, <1>4, <1>5 DEF ServiceNext

\* The pipe server's variables keep their types, and a handler that ends gives
\* the popup up.
ServerInv == ServerTypeOK /\ OwnerIsConnected

\* The listener and every handler keep the relation between the owner and the connected clients.
LEMMA ServerHolds == ServerInv /\ [ServerStep]_serverVars => ServerInv'
<1> SUFFICES ASSUME ServerInv, [ServerStep]_serverVars
             PROVE  ServerInv'
  OBVIOUS
<1> USE ClientsAssumption DEF ServerInv, ServerTypeOK, OwnerIsConnected, Clients
<1>1. CASE Accept
  <2>1. \A c \in Clients : session'[c] = IF c = nextClientId THEN "open" ELSE session[c]
    BY <1>1 DEF Accept
  <2>2. session[nextClientId] = "none"
    BY <1>1 DEF Accept
  <2> QED
    BY <1>1, <2>1, <2>2, SMTT(60) DEF Accept
<1>2. CASE ListenerStops
  BY <1>2 DEF ListenerStops
<1>3. ASSUME NEW c \in Clients, PresentFrame(c)
      PROVE  ServerInv'
  <2>1. pipe' \in [Clients -> Seq(Frames)]
    BY <1>3 DEF PresentFrame, NextFrameIs
  <2> QED
    BY <1>3, <2>1 DEF PresentFrame, NextFrameIs
<1>4. ASSUME NEW c \in Clients, HideFrame(c)
      PROVE  ServerInv'
  <2>1. pipe' \in [Clients -> Seq(Frames)]
    BY <1>4, SMTT(60) DEF HideFrame, NextFrameIs
  <2> QED
    BY <1>4, <2>1, SMTT(60) DEF HideFrame, GivesUpPopup
<1>5. ASSUME NEW c \in Clients, EndSession(c)
      PROVE  ServerInv'
  <2>1. session[c] = "open"
    BY <1>5, SMTT(60) DEF EndSession, NextFrameIs
  <2> QED
    BY <1>5, <2>1, SMTT(60) DEF EndSession, GivesUpPopup, Owns
<1>6. ASSUME NEW c \in Clients, PeerCloses(c)
      PROVE  ServerInv'
  BY <1>6 DEF PeerCloses
<1>7. ASSUME NEW c \in Clients, NEW f \in Frames, PeerSends(c, f)
      PROVE  ServerInv'
  <2>1. pipe' \in [Clients -> Seq(Frames)]
    BY <1>7 DEF PeerSends
  <2>2. sent' \in [Clients -> Nat] /\ \A d \in Clients : sent'[d] <= MaxFrames[d]
    <3>1. sent[c] \in Nat /\ MaxFrames[c] \in Nat /\ sent[c] < MaxFrames[c]
      BY <1>7 DEF PeerSends
    <3>2. sent'[c] = sent[c] + 1 /\ \A d \in Clients \ {c} : sent'[d] = sent[d]
      BY <1>7 DEF PeerSends
    <3>3. sent' \in [Clients -> Nat]
      BY <1>7, <3>1 DEF PeerSends
    <3>4. sent'[c] <= MaxFrames[c]
      BY <3>1, <3>2
    <3> QED
      BY <3>2, <3>3, <3>4
  <2> QED
    BY <1>7, <2>1, <2>2 DEF PeerSends
<1>8. CASE UNCHANGED serverVars
  BY <1>8 DEF serverVars
<1> QED
  BY <1>1, <1>2, <1>3, <1>4, <1>5, <1>6, <1>7, <1>8 DEF ServerStep

\* The popup never belongs to a client whose handler is gone: whoever owns it can
\* still take it down.
THEOREM OwnerIsConnectedCorrect == ServiceSpec => [](ServerTypeOK /\ OwnerIsConnected)
<1>1. ServiceInit => ServerInv
  BY ClientsAssumption DEF ServiceInit, ServerInit, ServerInv, ServerTypeOK,
        OwnerIsConnected, Clients
<1>2. ServerInv /\ [ServiceNext]_serviceVars => ServerInv'
  BY ServiceUsesServer, ServerHolds
<1> QED
  BY <1>1, <1>2, PTL DEF ServiceSpec, ServerInv
-----------------------------------------------------------------------------
(* Who asked for what is on the board *)

\* A call that goes on, a UI thread and the end of the popup's owner leave the
\* board alone; only a destructor or a hide of the loader empties it.
LEMMA DllKeepsBoard ==
    ASSUME DllRuns \/ LoaderGoesOn
    PROVE  submitted' = submitted /\ last' = last
<1>1. CASE LoaderGoesOn
  BY <1>1 DEF LoaderGoesOn, PresentGivesUp, LoaderReturns, DestroyEnds, vars
<1>2. CASE CallContinues
  BY <1>2 DEF CallContinues, StartReady, StartWaitFails, StartJoin, PresentPost,
        HidePost, StopPost, StopJoined, StopTimesOut
<1>3. CASE OwnerDestroyed
  BY <1>3 DEF OwnerDestroyed, callerVars
<1>4. ASSUME NEW t \in Threads, UiThread(t)
      PROVE  submitted' = submitted /\ last' = last
  BY <1>4 DEF UiThread, ThreadStarted, ThreadFailed, ThreadQuits, ThreadExits,
        HandlePresent, HandleHide, HandleStop, callerVars
<1> QED
  BY <1>1, <1>2, <1>3, <1>4 DEF DllRuns

\* A presentation gets a number of its own, or nothing changes on the board.
LEMMA PresentSubmits ==
    ASSUME TypeOK, LoaderPresent \/ PresentAfterStart
    PROVE  \/ submitted' = submitted /\ last' = last
           \/ submitted' = submitted + 1 /\ submitted' \in 1..MaxPresentations
<1>1. CASE CallsPresent
  BY <1>1, BoundsAssumption DEF CallsPresent, PresentStore, PresentRejected, TypeOK, Numbers
<1>2. CASE PresentFailsToLoad \/ PresentStarts
  BY <1>2 DEF PresentFailsToLoad, PresentStarts, StartAgain, StartFails, StartThread,
        uiVars, vars
<1> QED
  BY <1>1, <1>2 DEF LoaderPresent, PresentStarted, PresentAfterStart

\* What is wanted was asked for by the owner of the popup, unless the owner's own
\* presentation did not get that far.
AuthorInv ==
    /\ author \in [1..MaxPresentations -> 0..MaxClients] /\ unheard \in BOOLEAN
    /\ last = "present" /\ activeClientId # 0 /\ ~unheard =>
          author[submitted] = activeClientId

\* SubmittedBy records the new owner as the author of what it submitted.
LEMMA SubmitsAsOwner ==
    ASSUME TypeOK, AuthorInv, NEW c \in 0..MaxClients, SubmittedBy(c),
           LoaderPresent \/ PresentAfterStart, activeClientId' = c
    PROVE  AuthorInv'
<1>1. CASE submitted' = submitted
  BY <1>1 DEF AuthorInv, SubmittedBy
<1>2. CASE submitted' = submitted + 1 /\ submitted' \in 1..MaxPresentations
  <2>1. submitted' # submitted
    BY <1>2, NumberFacts DEF TypeOK
  <2>2. unheard' = FALSE /\ author' = [author EXCEPT ![submitted'] = c]
    BY <2>1 DEF SubmittedBy
  <2> QED
    BY <1>2, <2>2 DEF AuthorInv
<1> QED
  BY <1>1, <1>2, PresentSubmits

\* AuthorInv is inductive, given the types.
LEMMA AuthorHolds ==
    TypeOK /\ ServerTypeOK /\ AuthorInv /\ [ServiceNext]_serviceVars => AuthorInv'
<1> SUFFICES ASSUME TypeOK, ServerTypeOK, AuthorInv, [ServiceNext]_serviceVars
             PROVE  AuthorInv'
  OBVIOUS
<1> USE DEF ghostVars
<1>1. CASE Listens
  BY <1>1 DEF Listens, Accept, ListenerStops, AuthorInv, uiVars, vars
<1>2. ASSUME NEW c \in Clients, Presents(c)
      PROVE  AuthorInv'
  <2>1. c \in 0..MaxClients /\ activeClientId' = c
    BY <1>2, ClientsAssumption DEF Presents, PresentFrame, Clients
  <2> QED
    BY <1>2, <2>1, SubmitsAsOwner DEF Presents
<1>3. ASSUME NEW c \in Clients, Hides(c) \/ Leaves(c)
      PROVE  AuthorInv'
  <2>1. CASE Owns(c)
    BY <1>3, <2>1 DEF Hides, Leaves, HideFrame, EndSession, GivesUpPopup, AuthorInv
  <2>2. CASE ~Owns(c)
    BY <1>3, <2>2 DEF Hides, Leaves, HideFrame, EndSession, GivesUpPopup, AsksToHide,
          AuthorInv, uiVars, vars
  <2> QED
    BY <2>1, <2>2
<1>4. CASE ShutDown
  BY <1>4 DEF ShutDown, LoaderDestroy, DestroyAtOnce, DestroyStops, StopNothing,
        StopReset, serverVars, AuthorInv, vars
<1>5. CASE PresentsAfterStart
  <2>1. activeClientId' = activeClientId /\ activeClientId \in 0..MaxClients
    BY <1>5 DEF PresentsAfterStart, serverVars, ServerTypeOK
  <2> QED
    BY <1>5, <2>1, SubmitsAsOwner DEF PresentsAfterStart
<1>6. ASSUME DllRuns \/ LoaderGoesOn, UNCHANGED <<serverVars, ghostVars>>
      PROVE  AuthorInv'
  BY <1>6, DllKeepsBoard DEF AuthorInv, serverVars
<1>7. ASSUME NEW c \in Clients, Peer(c)
      PROVE  AuthorInv'
  BY <1>7 DEF Peer, PeerCloses, PeerSends, AuthorInv, uiVars, vars
<1>8. CASE UNCHANGED serviceVars
  BY <1>8 DEF serviceVars, serverVars, uiVars, vars, AuthorInv
<1> QED
  BY <1>1, <1>2, <1>3, <1>4, <1>5, <1>6, <1>7, <1>8 DEF ServiceNext, IoThread, Handles,
     CallerContinues, OwnerGoes, UiRuns, DllRuns, LoaderGoesOn

\* The loader's fields keep their types, its mutex is only free between calls, and
\* the DLL is loaded before its thread is started.
LoaderFields == LoaderTypeOK /\ (op = "start" => module = "loaded")

\* The loader's steps keep its fields in their types.
LEMMA LoaderTyped == LoaderFields /\ [LoaderStep]_uiVars => LoaderFields'
<1> SUFFICES ASSUME LoaderFields, [LoaderStep]_uiVars
             PROVE  LoaderFields'
  OBVIOUS
<1> USE DEF LoaderFields, LoaderTypeOK
<1>1. CASE LoaderPresent
  BY <1>1 DEF LoaderPresent, PresentFailsToLoad, PresentStarts, PresentStarted, Unlocked,
        uiVars, vars, loaderVars
<1>2. CASE PresentAfterStart
  BY <1>2 DEF PresentAfterStart
<1>3. CASE LoaderHide
  BY <1>3 DEF LoaderHide, Unlocked, vars
<1>4. CASE LoaderDestroy
  BY <1>4 DEF LoaderDestroy, DestroyAtOnce, DestroyStops, Unlocked, vars
<1>5. CASE LoaderGoesOn
  <2>1. CASE PresentGivesUp
    <3>1. abandoned' \in BOOLEAN
      BY <2>1 DEF PresentGivesUp
    <3> QED
      BY <2>1, <3>1 DEF PresentGivesUp, vars
  <2>2. CASE LoaderReturns \/ DestroyEnds
    BY <2>2 DEF LoaderReturns, DestroyEnds, vars
  <2> QED
    BY <1>5, <2>1, <2>2 DEF LoaderGoesOn
<1>6. CASE DllRuns
  <2>1. call' = call \/ call # "idle"
    BY <1>6 DEF DllRuns, CallContinues, StartReady, StartWaitFails, StartJoin, PresentPost,
          HidePost, StopPost, StopJoined, StopTimesOut, OwnerDestroyed, UiThread,
          ThreadStarted, ThreadFailed, ThreadQuits, ThreadExits, HandlePresent, HandleHide,
          HandleStop, callerVars
  <2> QED
    BY <1>6, <2>1 DEF DllRuns, loaderVars
<1>7. CASE UNCHANGED uiVars
  BY <1>7 DEF uiVars, vars, loaderVars
<1> QED
  BY <1>1, <1>2, <1>3, <1>4, <1>5, <1>6, <1>7 DEF LoaderStep, LoaderCalls

ServiceInv == TypeOK /\ LoaderFields /\ ServerInv /\ AuthorInv

\* Server and loader relations together hold throughout the composition.
LEMMA ServiceInvariant == ServiceSpec => []ServiceInv
<1>1. ServiceInit => ServiceInv
  <2> SUFFICES ASSUME ServiceInit
               PROVE  ServiceInv
    OBVIOUS
  <2>1. TypeOK
    BY InitTyped DEF ServiceInit, LoaderInit
  <2>2. LoaderFields
    BY DEF ServiceInit, LoaderInit, Init, LoaderFields, LoaderTypeOK
  <2>3. ServerInv
    BY ClientsAssumption DEF ServiceInit, ServerInit, ServerInv, ServerTypeOK,
          OwnerIsConnected, Clients
  <2>4. AuthorInv
    <3>1. 0 \in 0..MaxClients /\ last = "none"
      BY ClientsAssumption DEF ServiceInit, LoaderInit, Init
    <3>2. author \in [1..MaxPresentations -> 0..MaxClients] /\ unheard \in BOOLEAN
      BY <3>1 DEF ServiceInit
    <3> QED
      BY <3>1, <3>2 DEF AuthorInv
  <2> QED
    BY <2>1, <2>2, <2>3, <2>4 DEF ServiceInv
<1>2. ServiceInv /\ [ServiceNext]_serviceVars => ServiceInv'
  <2> SUFFICES ASSUME ServiceInv, [ServiceNext]_serviceVars
               PROVE  ServiceInv'
    OBVIOUS
  <2>1. [LoaderStep]_uiVars /\ [Next]_vars /\ [ServerStep]_serverVars
    BY ServiceUsesLoader, LoaderUsesRuntime, ServiceUsesServer
  <2>2. TypeOK' /\ LoaderFields' /\ ServerInv'
    BY <2>1, NextTyped, LoaderTyped, ServerHolds DEF ServiceInv
  <2>3. AuthorInv'
    BY AuthorHolds DEF ServiceInv, ServerInv
  <2> QED
    BY <2>2, <2>3 DEF ServiceInv
<1> QED
  BY <1>1, <1>2, PTL DEF ServiceSpec

\* Every variable of the path keeps its type, from the clients to the screen.
THEOREM ServiceTypeCorrect == ServiceSpec => []ServiceTypeOK
<1>1. ServiceInv => ServiceTypeOK
  BY DEF ServiceInv, LoaderFields, ServerInv, AuthorInv, ServiceTypeOK
<1> QED
  BY <1>1, ServiceInvariant, PTL

\* A hide comes from the loader's hide(), which only the owner's frames reach.
LEMMA HideIsTheOwners ==
    ASSUME ServiceInv, ServiceNext, last = "present", last' = "hide"
    PROVE  \E c \in Clients : (Hides(c) \/ Leaves(c)) /\ Owns(c)
<1>1. CASE Listens \/ \E c \in Clients : Peer(c)
  BY <1>1 DEF Listens, Peer, uiVars, vars
<1>2. ASSUME NEW c \in Clients, Presents(c)
      PROVE  FALSE
  BY <1>2 DEF Presents, LoaderPresent, PresentFailsToLoad, PresentStarts, PresentStarted,
        CallsPresent, StartAgain, StartFails, StartThread, PresentStore, PresentRejected,
        uiVars, vars
<1>3. ASSUME NEW c \in Clients, Hides(c) \/ Leaves(c), ~Owns(c)
      PROVE  FALSE
  BY <1>3 DEF Hides, Leaves, AsksToHide, uiVars, vars
<1>4. CASE ShutDown
  BY <1>4 DEF ShutDown, LoaderDestroy, DestroyAtOnce, DestroyStops, StopNothing,
        StopReset, vars
<1>5. CASE PresentsAfterStart
  BY <1>5 DEF PresentsAfterStart, PresentAfterStart, CallsPresent, PresentStore,
        PresentRejected
<1>6. CASE DllRuns \/ LoaderGoesOn
  BY <1>6, DllKeepsBoard
<1> QED
  BY <1>1, <1>2, <1>3, <1>4, <1>5, <1>6 DEF ServiceNext, IoThread, Handles,
     CallerContinues, OwnerGoes, UiRuns, DllRuns, LoaderGoesOn

\* A hide or a disconnect takes back its author's presentation only, or that of a
\* client that has lost the popup to one whose own presentation came to nothing.
THEOREM OnlyAuthorHidesCorrect == ServiceSpec => OnlyAuthorHides
<1> DEFINE Step == last = "present" /\ last' = "hide" =>
              \E c \in Clients :
                  /\ author[submitted] = c \/ (unheard /\ activeClientId = c)
                  /\ session'[c] = "done" \/ Len(pipe'[c]) < Len(pipe[c])
<1>1. ServiceInv /\ [ServiceNext]_serviceVars => [Step]_serviceVars
  <2> SUFFICES ASSUME ServiceInv, ServiceNext, last = "present", last' = "hide"
               PROVE  \E c \in Clients :
                        /\ author[submitted] = c \/ (unheard /\ activeClientId = c)
                        /\ session'[c] = "done" \/ Len(pipe'[c]) < Len(pipe[c])
    OBVIOUS
  <2>1. PICK c \in Clients : (Hides(c) \/ Leaves(c)) /\ Owns(c)
    BY HideIsTheOwners
  <2>2. c # 0 /\ activeClientId = c
    BY <2>1, ClientsAssumption DEF Clients, Owns
  <2>3. author[submitted] = c \/ (unheard /\ activeClientId = c)
    BY <2>2 DEF ServiceInv, AuthorInv
  <2>4. session \in [Clients -> {"none", "open", "done"}] /\ pipe \in [Clients -> Seq(Frames)]
    BY DEF ServiceInv, ServerInv, ServerTypeOK
  <2>5. CASE Hides(c)
    <3>1. pipe[c] \in Seq(Frames) /\ pipe[c] # <<>> /\ pipe'[c] = Tail(pipe[c])
      BY <2>4, <2>5 DEF Hides, HideFrame, NextFrameIs
    <3>2. Len(pipe'[c]) < Len(pipe[c])
      BY <3>1
    <3> QED
      BY <2>3, <3>2
  <2>6. CASE Leaves(c)
    <3>1. session'[c] = "done"
      BY <2>4, <2>6 DEF Leaves, EndSession
    <3> QED
      BY <2>3, <3>1
  <2> QED
    BY <2>1, <2>5, <2>6
<1> QED
  BY <1>1, ServiceInvariant, PTL DEF ServiceSpec, OnlyAuthorHides
-----------------------------------------------------------------------------
(* The thread the loader counts on *)

\* Between the join that start() gave up and the return of the loader: the thread
\* that failed may still be on its way out, and nothing else runs in the DLL.
Stray ==
    /\ op = "start" /\ call = "idle" /\ result = "error" /\ thread = NoThread
    /\ shown = 0
    /\ \A t \in Threads : phase[t] \in {"none", "cleanup", "exited"}

\* Every operation of the loader makes its own call of the DLL only.
OpInv ==
    /\ op = "start" => call \in {"idle", "start_wait", "start_join"} /\ ~started
    /\ op = "present" => call \in {"idle", "present_post"} /\ started
    /\ op = "hide" => call \in {"idle", "hide_post"} /\ started
    /\ op = "stop" => call \in {"idle", "stop_post", "stop_wait"} /\ started
    /\ module = "freed" => op = "gone"

\* A thread begins with an empty queue, and only a destructor asks it to stop.
QueueInv ==
    /\ \A t \in Threads : phase[t] \in {"none", "starting"} => inbox[t] = <<>>
    /\ op \notin {"stop", "gone"} => \A t \in Threads : ~Contains(inbox[t], "stop")

\* The ready event says whether the new thread is in its loop or on its way out.
WakeInv ==
    /\ call = "start_wait" /\ ready =>
          phase[thread] \in IF startResult = "ok" THEN {"loop"} ELSE {"cleanup", "exited"}
    /\ call = "start_join" => phase[thread] \in {"cleanup", "exited"}

InLoop == thread # NoThread /\ phase[thread] = "loop"

\* started_, and what start_() and stop_() return, tell where the thread is.
HandleInv ==
    /\ op = "start" /\ call = "idle" /\ result = "ok" => InLoop
    /\ op \in {"idle", "present", "hide"} => IF started THEN InLoop ELSE thread = NoThread
    /\ op = "stop" /\ call = "idle" /\ result = "ok" => thread = NoThread
    /\ module = "freed" => thread = NoThread

LoaderLife == (LifeInv \/ Stray) /\ QueueInv /\ WakeInv /\ HandleInv

\* No start has been given up on yet, or one was and the promise is off.
ReachInv == OpInv /\ (abandoned \/ LoaderLife)

\* Which call of the DLL the loader is inside of is kept by every step of the loader.
LEMMA OpHolds == OpInv /\ [LoaderStep]_uiVars => OpInv'
<1> SUFFICES ASSUME OpInv, [LoaderStep]_uiVars
             PROVE  OpInv'
  OBVIOUS
<1> USE DEF OpInv
<1>1. CASE LoaderPresent \/ PresentAfterStart
  BY <1>1 DEF LoaderPresent, PresentFailsToLoad, PresentStarts, PresentStarted, Unlocked,
        PresentAfterStart, CallsPresent, StartAgain, StartFails, StartThread,
        PresentStore, PresentRejected, Return, uiVars, vars, loaderVars
<1>2. CASE LoaderHide
  BY <1>2 DEF LoaderHide, Unlocked, HideReset, vars
<1>3. CASE LoaderDestroy
  BY <1>3 DEF LoaderDestroy, DestroyAtOnce, DestroyStops, Unlocked, StopNothing, StopReset,
        Return, vars
<1>4. CASE LoaderGoesOn
  BY <1>4 DEF LoaderGoesOn, PresentGivesUp, LoaderReturns, DestroyEnds, vars
<1>5. CASE DllRuns
  <2>1. CASE CallContinues
    BY <1>5, <2>1 DEF DllRuns, CallContinues, StartReady, StartWaitFails, StartJoin,
          PresentPost, HidePost, StopPost, StopJoined, StopTimesOut, Return, loaderVars
  <2>2. CASE ~CallContinues
    <3>1. call' = call
      BY <1>5, <2>2 DEF DllRuns, OwnerDestroyed, UiThread, ThreadStarted, ThreadFailed,
            ThreadQuits, ThreadExits, HandlePresent, HandleHide, HandleStop, callerVars
    <3> QED
      BY <1>5, <3>1 DEF DllRuns, loaderVars
  <2> QED
    BY <2>1, <2>2
<1>6. CASE UNCHANGED uiVars
  BY <1>6 DEF uiVars, vars, loaderVars
<1> QED
  BY <1>1, <1>2, <1>3, <1>4, <1>5, <1>6 DEF LoaderStep, LoaderCalls

\* A thread once left behind by a failed start stays left behind.
LEMMA AbandonedStays == abandoned /\ [LoaderStep]_uiVars => abandoned'
  BY DEF LoaderStep, LoaderCalls, LoaderPresent, PresentFailsToLoad, PresentStarts,
     PresentStarted, PresentAfterStart, LoaderHide, LoaderDestroy, DestroyAtOnce,
     DestroyStops, LoaderGoesOn, PresentGivesUp, LoaderReturns, DestroyEnds, DllRuns,
     uiVars, vars, loaderVars

\* A call that begins finds the pointers in agreement and leaves them so.
LEMMA ReachOfCalls ==
    ASSUME TypeOK, LoaderFields, OpInv, LoaderLife, LoaderCalls
    PROVE  abandoned' \/ LoaderLife'
<1>1. ~Stray /\ LifeInv
  BY DEF LoaderLife, Stray, LoaderCalls, LoaderPresent, PresentFailsToLoad, PresentStarts,
        PresentStarted, PresentAfterStart, LoaderHide, LoaderDestroy, DestroyAtOnce,
        DestroyStops, Unlocked
<1>2. CallBegins \/ UNCHANGED vars
  BY DEF LoaderCalls, LoaderPresent, PresentFailsToLoad, PresentStarts, PresentStarted,
        PresentAfterStart, LoaderHide, LoaderDestroy, DestroyAtOnce, DestroyStops,
        CallsPresent, CallBegins, uiVars
<1>3. LifeInv'
  <2>1. CASE CallBegins
    <3>1. ~StartJoin
      BY <2>1 DEF StartJoin, CallBegins, StartAgain, StartFails, StartThread,
            PresentRejected, PresentStore, HideReset, StopNothing, StopReset
    <3> QED
      BY <1>1, <2>1, <3>1, LifeOfCalls
  <2>2. CASE UNCHANGED vars
    BY <1>1, <2>2 DEF vars, LifeInv
  <2> QED
    BY <1>2, <2>1, <2>2
<1>4. inbox' = inbox
  BY <1>2 DEF CallBegins, StartAgain, StartFails, StartThread, PresentRejected,
        PresentStore, HideReset, StopNothing, StopReset, vars
<1>5. QueueInv'
  <2>1. \A t \in Threads : phase'[t] \in {"none", "starting"} => phase[t] \in {"none", "starting"}
    BY <1>2 DEF TypeOK, CallBegins, StartAgain, StartFails, StartThread, PresentRejected,
          PresentStore, HideReset, StopNothing, StopReset, lifeVars, vars
  <2>2. op' \notin {"stop", "gone"} => op \notin {"stop", "gone"}
    BY DEF LoaderCalls, LoaderPresent, PresentFailsToLoad, PresentStarts, PresentStarted,
          PresentAfterStart, LoaderHide, LoaderDestroy, DestroyAtOnce, DestroyStops,
          Unlocked
  <2> QED
    BY <1>4, <2>1, <2>2 DEF LoaderLife, QueueInv
<1>6. WakeInv'
  BY <1>2 DEF WakeInv, LoaderLife, CallBegins, StartAgain, StartFails, StartThread,
        PresentRejected, PresentStore, HideReset, StopNothing, StopReset, Return, vars
<1>7. HandleInv'
  <2> USE DEF HandleInv, InLoop, LoaderLife, OpInv, LoaderFields, LoaderTypeOK
  <2>1. CASE PresentFailsToLoad
    BY <2>1 DEF PresentFailsToLoad, uiVars, vars, loaderVars
  <2>2. CASE PresentStarts
    <3>1. thread = NoThread /\ op' = "start" /\ module' = "loaded"
      BY <2>2 DEF PresentStarts, Unlocked
    <3>2. call' = "start_wait" \/ result' = "error"
      BY <2>2, <3>1 DEF PresentStarts, StartAgain, StartFails, StartThread, Return
    <3> QED
      BY <3>1, <3>2
  <2>3. CASE PresentStarted \/ PresentAfterStart
    <3>1. UNCHANGED <<thread, phase, module>> /\ op' = "present" /\ started'
      BY <2>3 DEF PresentStarted, PresentAfterStart, CallsPresent, PresentStore,
            PresentRejected, lifeVars
    <3>2. InLoop
      BY <2>3 DEF PresentStarted, PresentAfterStart, Unlocked
    <3> QED
      BY <3>1, <3>2
  <2>4. CASE LoaderHide
    BY <2>4 DEF LoaderHide, Unlocked, HideReset, lifeVars, vars
  <2>5. CASE DestroyAtOnce
    BY <2>5 DEF DestroyAtOnce, Unlocked, vars
  <2>6. CASE DestroyStops
    BY <2>6 DEF DestroyStops, Unlocked, StopNothing, StopReset, Return, lifeVars
  <2> QED
    BY <2>1, <2>2, <2>3, <2>4, <2>5, <2>6 DEF LoaderCalls, LoaderPresent, LoaderDestroy
<1> QED
  BY <1>3, <1>5, <1>6, <1>7 DEF LoaderLife

\* What the loader does after a call touches no thread.
LEMMA ReachOfReturns ==
    ASSUME TypeOK, LoaderFields, OpInv, LoaderLife, LoaderGoesOn
    PROVE  abandoned' \/ LoaderLife'
<1> SUFFICES ASSUME ~abandoned'
             PROVE  LoaderLife'
  OBVIOUS
<1>1. UNCHANGED vars
  BY DEF LoaderGoesOn, PresentGivesUp, LoaderReturns, DestroyEnds
<1>2. WakeInv'
  BY <1>1 DEF LoaderLife, WakeInv, vars
<1>3. op' \notin {"stop", "gone"} => op \notin {"stop", "gone"}
  BY DEF LoaderGoesOn, PresentGivesUp, LoaderReturns, DestroyEnds
<1>4. QueueInv'
  BY <1>1, <1>3 DEF LoaderLife, QueueInv, vars
<1>5. CASE PresentGivesUp
  <2>1. thread = NoThread /\ \A t \in Threads : phase[t] \in {"none", "exited"}
    BY <1>5 DEF PresentGivesUp
  <2>2. shown = 0
    BY <2>1 DEF LoaderLife, LifeInv, Stray
  <2>3. LifeInv'
    BY <1>1, <1>5, <2>1, <2>2 DEF PresentGivesUp, LifeInv, Busy, vars
  <2>4. HandleInv'
    BY <1>1, <1>5, <2>1 DEF PresentGivesUp, HandleInv, LoaderLife, OpInv, vars
  <2> QED
    BY <1>2, <1>4, <2>3, <2>4 DEF LoaderLife
<1>6. CASE LoaderReturns \/ DestroyEnds
  <2>1. LifeInv
    BY <1>6 DEF LoaderLife, Stray, LoaderReturns, DestroyEnds
  <2>2. LifeInv'
    BY <1>1, <2>1 DEF LifeInv, vars
  <2>3. HandleInv'
    BY <1>1, <1>6 DEF LoaderReturns, DestroyEnds, HandleInv, InLoop, LoaderLife, OpInv, vars
  <2> QED
    BY <1>2, <1>4, <2>2, <2>3 DEF LoaderLife
<1> QED
  BY <1>5, <1>6 DEF LoaderGoesOn

\* A queue holds nothing but what was posted to it.
LEMMA QueuePosted ==
    ASSUME NEW S, NEW q \in Seq(S), NEW m \in S, NEW k
    PROVE  /\ Contains(Append(q, m), k) => m = k \/ Contains(q, k)
           /\ q # <<>> /\ Contains(Tail(q), k) => Contains(q, k)
<1>1. ASSUME Contains(Append(q, m), k)
      PROVE  m = k \/ Contains(q, k)
  <2>1. PICK i \in 1..Len(Append(q, m)) : Append(q, m)[i] = k
    BY <1>1 DEF Contains
  <2>2. CASE i = Len(q) + 1
    BY <2>1, <2>2
  <2>3. CASE i \in 1..Len(q)
    BY <2>1, <2>3 DEF Contains
  <2> QED
    BY <2>1, <2>2, <2>3
<1>2. ASSUME q # <<>>, Contains(Tail(q), k)
      PROVE  Contains(q, k)
  <2>1. PICK i \in 1..Len(Tail(q)) : Tail(q)[i] = k
    BY <1>2 DEF Contains
  <2>2. i + 1 \in 1..Len(q) /\ q[i + 1] = k
    BY <1>2, <2>1
  <2> QED
    BY <2>2 DEF Contains
<1> QED
  BY <1>1, <1>2

\* A message posted for the loader keeps the queues as QueueInv has them.
LEMMA QueueOfPosts ==
    ASSUME TypeOK, QueueInv, NEW m \in Messages, Post(m), UNCHANGED <<phase, op>>,
           m = "stop" => op \in {"stop", "gone"}
    PROVE  QueueInv'
<1>1. CASE ~CanPost
  BY <1>1 DEF Post, QueueInv
<1>2. CASE CanPost
  <2>1. commandWindow \in Threads /\ phase[commandWindow] = "loop"
    BY <1>2 DEF CanPost, TypeOK
  <2>2. inbox' = [inbox EXCEPT ![commandWindow] = Append(@, m)]
    BY <1>2 DEF Post
  <2>3. \A t \in Threads : inbox[t] \in Seq(Messages)
    BY DEF TypeOK
  <2>4. \A t \in Threads \ {commandWindow} : inbox'[t] = inbox[t]
    BY <2>2 DEF TypeOK
  <2>5. inbox'[commandWindow] = Append(inbox[commandWindow], m)
    BY <2>1, <2>2 DEF TypeOK
  <2>6. \A t \in Threads : phase'[t] \in {"none", "starting"} => inbox'[t] = <<>>
    BY <2>1, <2>4 DEF QueueInv
  <2>7. ASSUME op' \notin {"stop", "gone"}, NEW t \in Threads
        PROVE  ~Contains(inbox'[t], "stop")
    <3>1. ~Contains(inbox[t], "stop") /\ m # "stop"
      BY <2>7 DEF QueueInv
    <3>2. CASE t = commandWindow
      <4>1. ~Contains(Append(inbox[t], m), "stop")
        BY <2>3, <3>1, QueuePosted
      <4> QED
        BY <2>5, <3>2, <4>1
    <3>3. CASE t # commandWindow
      BY <2>4, <3>1, <3>3
    <3> QED
      BY <3>2, <3>3
  <2> QED
    BY <2>6, <2>7 DEF QueueInv
<1> QED
  BY <1>1, <1>2

\* A call under way brings its operation where HandleInv says it does; only
\* start() may drop the handle of a thread that is still on its way out.
LEMMA ReachOfContinuations ==
    ASSUME TypeOK, LoaderFields, OpInv, LoaderLife, CallContinues, UNCHANGED loaderVars
    PROVE  LoaderLife'
<1> USE DEF LoaderFields, LoaderTypeOK, OpInv, loaderVars
<1>1. ~Stray /\ LifeInv
  BY DEF LoaderLife, Stray, CallContinues, StartReady, StartWaitFails, StartJoin,
        PresentPost, HidePost, StopPost, StopJoined, StopTimesOut
<1>2. phase' = phase
  BY DEF CallContinues, StartReady, StartWaitFails, StartJoin, PresentPost, HidePost,
        StopPost, StopJoined, StopTimesOut, lifeVars
<1>3. (LifeInv \/ Stray)'
  <2>1. CASE StartJoin /\ phase[thread] # "exited"
    <3>1. phase[thread] = "cleanup" /\ thread # NoThread
      BY <1>1, <2>1 DEF StartJoin, LoaderLife, WakeInv, LifeInv
    <3>2. \A t \in Threads : phase[t] \in {"none", "cleanup", "exited"}
      BY <1>1, <3>1 DEF LifeInv, Busy, TypeOK, Phases
    <3>3. shown = 0
      BY <1>1, <3>2 DEF LifeInv
    <3>4. op = "start"
      BY <2>1 DEF StartJoin
    <3> QED
      BY <1>2, <2>1, <3>2, <3>3, <3>4 DEF Stray, StartJoin, Return, popupVars
  <2>2. CASE StartJoin => phase[thread] = "exited"
    BY <1>1, <2>2, LifeOfCalls
  <2> QED
    BY <2>1, <2>2
<1>4. QueueInv'
  <2>1. CASE PresentPost
    BY <1>2, <2>1, QueueOfPosts DEF PresentPost, LoaderLife, Messages
  <2>2. CASE HidePost
    BY <1>2, <2>2, QueueOfPosts DEF HidePost, LoaderLife, Messages
  <2>3. CASE StopPost
    BY <1>2, <2>3, QueueOfPosts DEF StopPost, LoaderLife, Messages
  <2>4. CASE StartReady \/ StartWaitFails \/ StartJoin \/ StopJoined \/ StopTimesOut
    <3>1. inbox' = inbox
      BY <2>4 DEF StartReady, StartWaitFails, StartJoin, StopJoined, StopTimesOut
    <3> QED
      BY <1>2, <3>1 DEF LoaderLife, QueueInv
  <2> QED
    BY <2>1, <2>2, <2>3, <2>4 DEF CallContinues
<1>5. WakeInv'
  <2>1. CASE StartReady
    BY <2>1 DEF StartReady, LoaderLife, WakeInv, Return, lifeVars
  <2>2. CASE ~StartReady
    BY <2>2 DEF CallContinues, StartWaitFails, StartJoin, PresentPost, HidePost,
          StopPost, StopJoined, StopTimesOut, Return, WakeInv
  <2> QED
    BY <2>1, <2>2
<1>6. HandleInv'
  <2> USE DEF HandleInv, InLoop, LoaderLife
  <2>1. CASE StartReady
    <3>1. thread # NoThread
      BY <1>1, <2>1 DEF StartReady, LifeInv
    <3> QED
      BY <2>1, <3>1 DEF StartReady, WakeInv, Return, lifeVars
  <2>2. CASE StartWaitFails \/ StartJoin
    BY <2>2 DEF StartWaitFails, StartJoin, Return
  <2>3. CASE PresentPost \/ HidePost
    BY <2>3 DEF PresentPost, HidePost, lifeVars
  <2>4. CASE StopPost \/ StopJoined \/ StopTimesOut
    BY <2>4 DEF StopPost, StopJoined, StopTimesOut, Return, lifeVars
  <2> QED
    BY <2>1, <2>2, <2>3, <2>4 DEF CallContinues
<1> QED
  BY <1>3, <1>4, <1>5, <1>6 DEF LoaderLife

\* Taking a message off a queue keeps the queues as QueueInv has them.
LEMMA QueueOfThreads ==
    ASSUME TypeOK, QueueInv, NEW t \in Threads, UiThread(t), op' = op
    PROVE  QueueInv'
<1>1. \A u \in Threads : phase'[u] \in {"none", "starting"} => phase[u] \in {"none", "starting"}
  BY DEF TypeOK, UiThread, ThreadStarted, ThreadFailed, ThreadQuits, ThreadExits,
        HandlePresent, HandleHide, HandleStop, lifeVars
<1>2. \A u \in Threads :
          \/ inbox'[u] = inbox[u]
          \/ inbox'[u] = <<>>
          \/ inbox[u] # <<>> /\ inbox'[u] = Tail(inbox[u])
  BY DEF TypeOK, UiThread, ThreadStarted, ThreadFailed, ThreadQuits, ThreadExits,
        HandlePresent, HandleHide, HandleStop, Receives, Consume
<1>3. \A u \in Threads : phase'[u] \in {"none", "starting"} => inbox'[u] = <<>>
  BY <1>1, <1>2 DEF QueueInv
<1>4. ASSUME op' \notin {"stop", "gone"}, NEW u \in Threads
      PROVE  ~Contains(inbox'[u], "stop")
  <2>1. ~Contains(inbox[u], "stop") /\ inbox[u] \in Seq(Messages)
    BY <1>4 DEF QueueInv, TypeOK
  <2>2. CASE inbox'[u] = <<>>
    BY <2>2 DEF Contains
  <2>3. CASE inbox[u] # <<>> /\ inbox'[u] = Tail(inbox[u])
    <3>1. "stop" \in Messages
      BY DEF Messages
    <3>2. ~Contains(Tail(inbox[u]), "stop")
      BY <2>1, <2>3, <3>1, QueuePosted
    <3> QED
      BY <2>3, <3>2
  <2> QED
    BY <1>2, <2>1, <2>2, <2>3
<1> QED
  BY <1>3, <1>4 DEF QueueInv

\* A thread the loader gave up on ends; the one it counts on stays in its loop
\* until the destructor asks it to stop.
LEMMA ReachOfThreads ==
    ASSUME TypeOK, LoaderFields, OpInv, LoaderLife, NEW t \in Threads, UiThread(t),
           UNCHANGED loaderVars
    PROVE  LoaderLife'
<1>1. QueueInv'
  BY QueueOfThreads DEF LoaderLife, loaderVars
<1>2. UNCHANGED <<thread, call, result, module, op, started>>
  BY DEF UiThread, ThreadStarted, ThreadFailed, ThreadQuits, ThreadExits, HandlePresent,
        HandleHide, HandleStop, callerVars, lifeVars, loaderVars
<1>3. CASE Stray
  <2>1. ThreadExits(t)
    BY <1>3 DEF Stray, UiThread, ThreadStarted, ThreadFailed, ThreadQuits, HandlePresent,
          HandleHide, HandleStop, Receives
  <2>2. Stray'
    BY <1>2, <1>3, <2>1 DEF TypeOK, Stray, ThreadExits, popupVars
  <2>3. WakeInv' /\ HandleInv'
    BY <1>2, <1>3 DEF Stray, WakeInv, HandleInv, LoaderLife, OpInv
  <2> QED
    BY <1>1, <2>2, <2>3 DEF LoaderLife
<1>4. CASE LifeInv
  <2>1. LifeInv'
    BY <1>4, LifeOfThreads
  <2>2. phase[t] \in Busy /\ thread = t
    BY <1>4 DEF LifeInv, Busy, UiThread, ThreadStarted, ThreadFailed, ThreadQuits,
          ThreadExits, HandlePresent, HandleHide, HandleStop, Receives
  <2>3. op \notin {"stop", "gone"} => ~HandleStop(t)
    <3>1. inbox[t] \in Seq(Messages)
      BY DEF TypeOK
    <3>2. HandleStop(t) => Contains(inbox[t], "stop")
      BY <3>1 DEF HandleStop, Receives, Contains
    <3> QED
      BY <3>2 DEF LoaderLife, QueueInv
  <2>4. call \in {"start_wait", "start_join"} => op = "start"
    BY DEF LoaderFields, LoaderTypeOK, OpInv
  <2>5. WakeInv'
    <3>1. CASE call = "start_wait" /\ ready'
      <4>1. CASE ThreadStarted(t) \/ ThreadFailed(t)
        BY <1>2, <2>2, <3>1, <4>1 DEF TypeOK, WakeInv, ThreadStarted, ThreadFailed
      <4>2. CASE ~(ThreadStarted(t) \/ ThreadFailed(t))
        <5>1. ready' = ready /\ startResult' = startResult
          BY <4>2 DEF UiThread, ThreadQuits, ThreadExits, HandlePresent, HandleHide,
                HandleStop, lifeVars
        <5>2. phase[t] \in IF startResult = "ok" THEN {"loop"} ELSE {"cleanup", "exited"}
          BY <2>2, <3>1, <5>1 DEF LoaderLife, WakeInv
        <5>3. phase'[t] \in IF startResult = "ok" THEN {"loop"} ELSE {"cleanup", "exited"}
          BY <2>3, <2>4, <3>1, <4>2, <5>2 DEF TypeOK, UiThread, ThreadQuits, ThreadExits,
                HandlePresent, HandleHide, lifeVars
        <5> QED
          BY <1>2, <2>2, <3>1, <5>1, <5>3 DEF WakeInv
      <4> QED
        BY <4>1, <4>2
    <3>2. CASE call = "start_join"
      <4>1. phase[t] = "cleanup"
        BY <2>2, <3>2 DEF LoaderLife, WakeInv, Busy
      <4>2. ThreadExits(t)
        BY <4>1 DEF UiThread, ThreadStarted, ThreadFailed, ThreadQuits, HandlePresent,
              HandleHide, HandleStop, Receives
      <4> QED
        BY <1>2, <2>2, <3>2, <4>2 DEF TypeOK, WakeInv, ThreadExits
    <3> QED
      BY <1>2, <3>1, <3>2 DEF WakeInv
  <2>6. op \notin {"stop", "gone"} /\ InLoop => InLoop'
    BY <1>2, <2>2, <2>3 DEF InLoop, UiThread, ThreadStarted, ThreadFailed, ThreadQuits,
          ThreadExits, HandlePresent, HandleHide, lifeVars
  <2>7. HandleInv'
    BY <1>2, <2>6 DEF HandleInv, LoaderLife
  <2> QED
    BY <1>1, <2>1, <2>5, <2>7 DEF LoaderLife
<1> QED
  BY <1>3, <1>4 DEF LoaderLife

\* Every step of the service keeps the loader and the UI threads in agreement.
LEMMA ReachHolds ==
    TypeOK /\ LoaderFields /\ ReachInv /\ [LoaderStep]_uiVars => ReachInv'
<1> SUFFICES ASSUME TypeOK, LoaderFields, ReachInv, [LoaderStep]_uiVars
             PROVE  ReachInv'
  OBVIOUS
<1>1. OpInv /\ OpInv'
  BY OpHolds DEF ReachInv
<1>2. CASE abandoned
  BY <1>1, <1>2, AbandonedStays DEF ReachInv
<1>3. CASE LoaderLife
  <2>1. OwnerDestroyed /\ UNCHANGED loaderVars => LoaderLife'
    <3> SUFFICES ASSUME OwnerDestroyed, UNCHANGED loaderVars
                 PROVE  LoaderLife'
      OBVIOUS
    <3>1. LifeInv => LifeInv'
      BY DEF OwnerDestroyed, LifeInv, lifeVars, callerVars
    <3>2. Stray => Stray'
      BY DEF OwnerDestroyed, Stray, lifeVars, callerVars, loaderVars
    <3>3. QueueInv' /\ WakeInv' /\ HandleInv'
      BY <1>3 DEF OwnerDestroyed, LoaderLife, QueueInv, WakeInv, HandleInv, InLoop,
            lifeVars, callerVars, loaderVars
    <3> QED
      BY <1>3, <3>1, <3>2, <3>3 DEF LoaderLife
  <2>2. UNCHANGED uiVars => LoaderLife'
    BY <1>3 DEF uiVars, vars, loaderVars, LoaderLife, LifeInv, Stray, QueueInv,
          WakeInv, HandleInv, InLoop
  <2>3. abandoned' \/ LoaderLife'
    BY <1>1, <1>3, <2>1, <2>2, ReachOfCalls, ReachOfReturns, ReachOfContinuations,
       ReachOfThreads DEF LoaderStep, DllRuns
  <2> QED
    BY <1>1, <2>3 DEF ReachInv
<1> QED
  BY <1>2, <1>3 DEF ReachInv

\* Loader and UI threads agree about which thread serves, in every behaviour.
LEMMA ReachInvariant == ServiceSpec => []ReachInv
<1>1. ServiceInit => ReachInv
  <2> SUFFICES ASSUME ServiceInit
               PROVE  ReachInv
    OBVIOUS
  <2>1. Init /\ module = "none" /\ started = FALSE /\ op = "idle"
    BY DEF ServiceInit, LoaderInit
  <2>2. LifeInv
    BY <2>1, LifeInit
  <2>3. QueueInv
    BY <2>1 DEF Init, QueueInv, Contains
  <2>4. OpInv /\ WakeInv /\ HandleInv
    BY <2>1 DEF Init, OpInv, WakeInv, HandleInv
  <2> QED
    BY <2>2, <2>3, <2>4 DEF ReachInv, LoaderLife
<1>2. ServiceInv /\ ReachInv /\ [ServiceNext]_serviceVars => ReachInv'
  BY ServiceUsesLoader, ReachHolds DEF ServiceInv
<1> QED
  BY <1>1, <1>2, ServiceInvariant, PTL DEF ServiceSpec

\* A started thread stays in its loop, and within reach of the loader's calls,
\* until the destructor stops it: started_ never has to be taken back.
THEOREM StartedIsReachableCorrect == ServiceSpec => []StartedIsReachable
<1>1. ServiceInv /\ ReachInv => StartedIsReachable
  <2> SUFFICES ASSUME ServiceInv, ReachInv, started, ~abandoned,
                      op \in {"idle", "present", "hide"}
               PROVE  thread # NoThread /\ commandWindow = thread /\ phase[thread] = "loop"
    BY DEF StartedIsReachable
  <2>1. thread # NoThread /\ phase[thread] = "loop" /\ LifeInv
    BY DEF ReachInv, LoaderLife, HandleInv, InLoop, Stray
  <2>2. thread \in Threads
    BY <2>1 DEF ServiceInv, TypeOK
  <2> QED
    BY <2>1, <2>2 DEF LifeInv
<1> QED
  BY <1>1, ServiceInvariant, ReachInvariant, PTL

\* The DLL is unmapped only when none of its threads is alive.
THEOREM UnloadSafeCorrect == ServiceSpec => []UnloadSafe
<1>1. ServiceInv /\ ReachInv => UnloadSafe
  <2> SUFFICES ASSUME ServiceInv, ReachInv, module = "freed", ~abandoned,
                      NEW t \in Threads
               PROVE  phase[t] \in {"none", "exited"}
    BY DEF UnloadSafe
  <2>1. thread = NoThread /\ op = "gone" /\ LifeInv
    BY DEF ReachInv, OpInv, LoaderLife, HandleInv, Stray
  <2>2. phase[t] \notin Busy
    BY <2>1, NoThreadAssumption DEF LifeInv
  <2> QED
    BY <2>2 DEF ServiceInv, TypeOK, Phases, Busy
<1> QED
  BY <1>1, ServiceInvariant, ReachInvariant, PTL
-----------------------------------------------------------------------------
(* Whose popup is on the screen *)

\* The messages that will correct the popup stay on their way although start()
\* may have left a thread to itself: that one never reaches its loop.
LEMMA DeliveryOfLoader ==
    ASSUME TypeOK, SlotInv, LoaderLife, DeliveryInv, [LoaderStep]_uiVars
    PROVE  DeliveryInv'
<1>1. [Next]_vars
  BY LoaderUsesRuntime
<1>2. CASE LifeInv
  BY <1>1, <1>2, DeliveryHolds
<1>3. CASE Stray
  <2>1. CASE UNCHANGED vars
    BY <2>1 DEF vars, DeliveryInv, Delivered, Wanted
  <2>2. CASE ~UNCHANGED vars
    <3>1. ~LoaderCalls
      BY <1>3 DEF Stray, LoaderCalls, LoaderPresent, PresentFailsToLoad, PresentStarts,
            PresentStarted, PresentAfterStart, LoaderHide, LoaderDestroy, DestroyAtOnce,
            DestroyStops, Unlocked
    <3>2. ~LoaderGoesOn
      BY <2>2 DEF LoaderGoesOn, PresentGivesUp, LoaderReturns, DestroyEnds
    <3>3. ~CallContinues
      BY <1>3 DEF Stray, CallContinues, StartReady, StartWaitFails, StartJoin,
            PresentPost, HidePost, StopPost, StopJoined, StopTimesOut
    <3>4. CASE OwnerDestroyed
      BY <1>3, <3>4 DEF Stray, OwnerDestroyed, lifeVars, callerVars, DeliveryInv
    <3>5. ASSUME NEW t \in Threads, UiThread(t)
          PROVE  DeliveryInv'
      <4>1. ThreadExits(t)
        BY <1>3, <3>5 DEF Stray, UiThread, ThreadStarted, ThreadFailed, ThreadQuits,
              HandlePresent, HandleHide, HandleStop, Receives
      <4>2. \A u \in Threads : phase'[u] # "loop"
        BY <1>3, <4>1 DEF TypeOK, Stray, ThreadExits
      <4> QED
        BY <1>3, <4>1, <4>2 DEF Stray, ThreadExits, callerVars, DeliveryInv
    <3> QED
      BY <2>2, <3>1, <3>2, <3>3, <3>4, <3>5 DEF LoaderStep, DllRuns, uiVars
  <2> QED
    BY <2>1, <2>2
<1> QED
  BY <1>2, <1>3 DEF LoaderLife

\* What is wanted was presented through a started loader, for a client that owns
\* the popup since.
OwnerInv ==
    /\ op = "start" => activeClientId # 0
    /\ last = "present" /\ op \notin {"stop", "gone"} => started /\ activeClientId # 0

\* Only a hide that reaches the DLL leaves the popup without an owner.
LEMMA OwnerHolds ==
    ASSUME OpInv, OwnerInv, [ServiceNext]_serviceVars
    PROVE  OwnerInv'
<1> USE DEF OwnerInv, OpInv
<1>1. CASE Listens
  BY <1>1 DEF Listens, Accept, ListenerStops, uiVars, vars, loaderVars
<1>2. ASSUME NEW c \in Clients, Presents(c)
      PROVE  OwnerInv'
  <2>1. activeClientId' = c /\ c # 0
    BY <1>2, ClientsAssumption DEF Presents, PresentFrame, Clients
  <2>2. CASE PresentFailsToLoad
    BY <2>1, <2>2 DEF PresentFailsToLoad, uiVars, vars, loaderVars, Unlocked
  <2>3. CASE PresentStarts
    <3>1. last' = last /\ last # "present" /\ op' = "start"
      BY <2>3 DEF PresentStarts, Unlocked, StartAgain, StartFails, StartThread
    <3> QED
      BY <2>1, <3>1
  <2>4. CASE PresentStarted
    BY <2>1, <2>4 DEF PresentStarted, Unlocked
  <2> QED
    BY <1>2, <2>2, <2>3, <2>4 DEF Presents, LoaderPresent
<1>3. ASSUME NEW c \in Clients, Hides(c) \/ Leaves(c), Unlocked
      PROVE  OwnerInv'
  <2>1. CASE Owns(c)
    <3>1. CASE started
      BY <1>3, <2>1, <3>1 DEF Hides, Leaves, AsksToHide, LoaderHide, HideReset
    <3>2. CASE ~started
      <4>1. last' = last /\ op' = op /\ op = "idle" /\ last # "present"
        BY <1>3, <2>1, <3>2 DEF Hides, Leaves, AsksToHide, LoaderHide, Unlocked, vars
      <4> QED
        BY <4>1
    <3> QED
      BY <3>1, <3>2
  <2>2. CASE ~Owns(c)
    BY <1>3, <2>2 DEF Hides, Leaves, HideFrame, EndSession, GivesUpPopup, AsksToHide,
          uiVars, vars, loaderVars
  <2> QED
    BY <2>1, <2>2
<1>4. CASE ShutDown
  BY <1>4 DEF ShutDown, LoaderDestroy, DestroyAtOnce, DestroyStops
<1>5. CASE PresentsAfterStart
  BY <1>5 DEF PresentsAfterStart, PresentAfterStart, serverVars
<1>6. ASSUME DllRuns \/ LoaderGoesOn, UNCHANGED serverVars
      PROVE  OwnerInv'
  <2>1. last' = last /\ activeClientId' = activeClientId
    BY <1>6, DllKeepsBoard DEF serverVars
  <2>2. started' = started /\ (op' = op \/ op' \in {"idle", "gone"})
    BY <1>6 DEF DllRuns, loaderVars, LoaderGoesOn, PresentGivesUp, LoaderReturns, DestroyEnds
  <2>3. op' = "idle" /\ op' # op => op \notin {"stop", "gone"}
    BY <1>6 DEF DllRuns, loaderVars, LoaderGoesOn, PresentGivesUp, LoaderReturns, DestroyEnds
  <2> QED
    BY <2>1, <2>2, <2>3
<1>7. ASSUME NEW c \in Clients, Peer(c)
      PROVE  OwnerInv'
  BY <1>7 DEF Peer, PeerCloses, PeerSends, uiVars, vars, loaderVars
<1>8. CASE UNCHANGED serviceVars
  BY <1>8 DEF serviceVars, serverVars, uiVars, vars, loaderVars
<1> QED
  BY <1>1, <1>2, <1>3, <1>4, <1>5, <1>6, <1>7, <1>8 DEF ServiceNext, IoThread, Handles,
     CallerContinues, OwnerGoes, UiRuns, DllRuns, LoaderGoesOn

\* The popup on its way to the screen, and its owner, until a start is given up on.
ScreenInv == SlotInv /\ OwnerInv /\ (abandoned \/ DeliveryInv)

\* The promise about the messages holds in the service as long as nothing is abandoned.
LEMMA ScreenInvariant == ServiceSpec => []ScreenInv
<1>1. ServiceInit => ScreenInv
  <2> SUFFICES ASSUME ServiceInit
               PROVE  ScreenInv
    OBVIOUS
  <2>1. Init /\ op = "idle"
    BY DEF ServiceInit, LoaderInit
  <2>2. DeliveryInv
    BY <2>1, DeliveryInit
  <2> QED
    BY <2>1, <2>2 DEF Init, ScreenInv, SlotInv, OwnerInv
<1>2. ServiceInv /\ ReachInv /\ ScreenInv /\ [ServiceNext]_serviceVars => ScreenInv'
  <2> SUFFICES ASSUME ServiceInv, ReachInv, ScreenInv, [ServiceNext]_serviceVars
               PROVE  ScreenInv'
    OBVIOUS
  <2>1. [LoaderStep]_uiVars /\ [Next]_vars
    BY ServiceUsesLoader, LoaderUsesRuntime
  <2>2. SlotInv'
    BY <2>1, SlotHolds DEF ServiceInv, ScreenInv
  <2>3. OwnerInv'
    BY OwnerHolds DEF ReachInv, ScreenInv
  <2>4. CASE abandoned
    BY <2>1, <2>2, <2>3, <2>4, AbandonedStays DEF ScreenInv
  <2>5. CASE ~abandoned
    <3>1. DeliveryInv'
      BY <2>1, <2>5, DeliveryOfLoader DEF ServiceInv, ReachInv, ScreenInv
    <3> QED
      BY <2>2, <2>3, <3>1 DEF ScreenInv
  <2> QED
    BY <2>4, <2>5
<1> QED
  BY <1>1, <1>2, ServiceInvariant, ReachInvariant, PTL DEF ServiceSpec

\* When the UI has caught up, the popup on the screen is the last presentation of
\* the client that owns it: what a client left behind, by hiding, by leaving or by
\* losing the popup to another one, is gone.
THEOREM ScreenBelongsToOwnerCorrect == ServiceSpec => []ScreenBelongsToOwner
<1>1. ServiceInv /\ ReachInv /\ ScreenInv => ScreenBelongsToOwner
  <2> SUFFICES ASSUME ServiceInv, ReachInv, ScreenInv, Quiet, op = "idle", ~refused,
                      ~abandoned, shown # 0, ~unheard
               PROVE  author[shown] = activeClientId
    BY DEF ScreenBelongsToOwner
  <2>1. LifeInv /\ DeliveryInv
    BY DEF ReachInv, LoaderLife, Stray, ScreenInv
  <2>2. PICK t \in Threads : phase[t] = "loop"
    BY <2>1 DEF LifeInv
  <2>3. Delivered(t) /\ inbox[t] = <<>>
    BY <2>1, <2>2 DEF Quiet, DeliveryInv, Posting
  <2>4. shown = Wanted
    BY <2>3 DEF Delivered, Contains
  <2>5. last = "present" /\ shown = submitted
    BY <2>4 DEF Wanted
  <2> QED
    BY <2>5 DEF ScreenInv, OwnerInv, ServiceInv, AuthorInv
<1> QED
  BY <1>1, ServiceInvariant, ReachInvariant, ScreenInvariant, PTL
=============================================================================
