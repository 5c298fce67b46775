-------------------------- MODULE CandidateService --------------------------
(***************************************************************************)
(* The candidate path from end to end: clients on the pipe, the pipe       *)
(* server's coroutines on the io thread, the loader and the DLL's runtime. *)
(*                                                                         *)
(* The io thread makes the loader's calls itself.  While it is inside one  *)
(* (Unlocked is false) no coroutine runs; the clients and the UI threads   *)
(* go on.  When the io_context is out of work the server thread ends and   *)
(* main() destroys the loader.                                             *)
(***************************************************************************)
EXTENDS CandidatePipeServer, CandidateUiLoader

VARIABLES
    author,  \* ghost: the client that submitted each presentation
    unheard  \* ghost: the owner's last presentation did not get into the DLL

ghostVars   == <<author, unheard>>
serviceVars == <<serverVars, uiVars, ghostVars>>

ServiceTypeOK ==
    /\ TypeOK /\ LoaderTypeOK /\ ServerTypeOK
    /\ author \in [1..MaxPresentations -> 0..MaxClients] /\ unheard \in BOOLEAN

ServiceInit ==
    /\ ServerInit /\ LoaderInit
    /\ author = [n \in 1..MaxPresentations |-> 0] /\ unheard = FALSE

-----------------------------------------------------------------------------
(* The io thread *)

\* The loader was asked to present for c: did it submit anything?
SubmittedBy(c) ==
    /\ unheard' = (submitted' = submitted)
    /\ author' = IF unheard' THEN author ELSE [author EXCEPT ![submitted'] = c]

Presents(c) == PresentFrame(c) /\ LoaderPresent /\ SubmittedBy(c)

\* The first presentation of all is stored after the DLL was started for it.
PresentsAfterStart ==
    /\ PresentAfterStart
    /\ SubmittedBy(activeClientId)
    /\ UNCHANGED serverVars

\* Mutants: the owner is forgotten without a hide; everybody may hide.
NobodyHides(c) == UNCHANGED uiVars

AnybodyHides(c) == LoaderHide

\* hide_if_active(): only the owner's hide reaches the loader.
AsksToHide(c) == IF Owns(c) THEN LoaderHide ELSE UNCHANGED uiVars

Hides(c) == HideFrame(c) /\ AsksToHide(c) /\ UNCHANGED ghostVars

\* Mutant: a handler that ends leaves the popup where it is.
LeavesQuietly(c) == EndSession(c) /\ UNCHANGED <<uiVars, ghostVars>>

Leaves(c) == EndSession(c) /\ AsksToHide(c) /\ UNCHANGED ghostVars

Listens == (Accept \/ ListenerStops) /\ UNCHANGED <<uiVars, ghostVars>>

Handles(c) == Unlocked /\ (Presents(c) \/ Hides(c) \/ Leaves(c))

IoThread == (Unlocked /\ Listens) \/ \E c \in Clients : Handles(c)

Peer(c) == /\ PeerCloses(c) \/ \E f \in Frames : PeerSends(c, f)
           /\ UNCHANGED <<uiVars, ghostVars>>

\* main(): the server thread is joined, then the loader is destroyed.
ShutDown == OutOfWork /\ LoaderDestroy /\ UNCHANGED <<serverVars, ghostVars>>

CallerContinues ==
    \/ PresentsAfterStart
    \/ /\ \/ PresentGivesUp \/ LoaderReturns \/ DestroyEnds
          \/ CallContinues /\ UNCHANGED loaderVars
       /\ UNCHANGED <<serverVars, ghostVars>>

UiRuns(t) == UiThread(t) /\ UNCHANGED <<loaderVars, serverVars, ghostVars>>

OwnerGoes == OwnerDestroyed /\ UNCHANGED <<loaderVars, serverVars, ghostVars>>

ServiceNext ==
    \/ IoThread \/ ShutDown \/ CallerContinues \/ OwnerGoes
    \/ \E c \in Clients : Peer(c)
    \/ \E t \in Threads : UiRuns(t)

ServiceSpec == ServiceInit /\ [][ServiceNext]_serviceVars

\* Every handler that can go on is resumed by the io_context, calls come back
\* and UI threads run.  No client has to write, close or connect.
ServiceFairness ==
    /\ \A c \in Clients : WF_serviceVars(Handles(c))
    /\ WF_serviceVars(CallerContinues)
    /\ \A t \in Threads : WF_serviceVars(UiRuns(t))

FairServiceSpec == ServiceSpec /\ ServiceFairness

-----------------------------------------------------------------------------
(* Properties *)

\* The popup never belongs to a client whose handler is gone, so there is
\* always someone left who can take it down.
OwnerIsConnected == activeClientId # 0 => session[activeClientId] = "open"

\* When the UI has caught up, what is on the screen was presented by the
\* client that owns the popup: a popup is never left behind by a client that
\* hid it, left, or lost it to another client.  The owner's own presentation may
\* have come to nothing, and a start that was given up on may leave a thread
\* that takes the pointers of the next one away.
ScreenBelongsToOwner ==
    /\ Quiet /\ op = "idle" /\ ~refused /\ ~abandoned
    /\ shown # 0 /\ ~unheard
    => author[shown] = activeClientId

\* Nobody takes a presentation back but its author, or a client that owns the
\* popup because of a presentation that came to nothing: a hide or a disconnect
\* of another client leaves the wanted presentation alone.
OnlyAuthorHides ==
    [][last = "present" /\ last' = "hide" =>
          \E c \in Clients :
              /\ author[submitted] = c \/ (unheard /\ activeClientId = c)
              /\ session'[c] = "done" \/ Len(pipe'[c]) < Len(pipe[c])]_serviceVars

\* After the last handler has ended the screen becomes empty and stays empty,
\* with no client left to ask for it.
PopupGoesWithClients ==
    (OutOfWork /\ ~refused) ~> [](shown = 0)

\* What a client wrote is read, for its handler never waits for ever on a UI call,
\* and a client that closed its end loses its session, although calls of other
\* clients hold the io thread meanwhile.
FramesAreServed ==
    \A c \in Clients :
        /\ session[c] = "open" /\ pipe[c] # <<>> ~> pipe[c] = <<>>
        /\ session[c] = "open" /\ ~peer[c] ~> session[c] = "done"

\* The board promise, now including that a withdrawn popup does go away.
LiveBoard == Board!LiveSpec
=============================================================================
