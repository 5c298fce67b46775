------------------------ MODULE CandidatePipeServer -------------------------
(***************************************************************************)
(* The candidate pipe server (src/service/candidate_pipe_server.hpp): one  *)
(* listener coroutine and one handler coroutine per connected client, all  *)
(* on the service's io thread, so that one of them runs at a time and they *)
(* interleave only where they wait for the pipe.                           *)
(*                                                                         *)
(* A client is named by the client_id it is given.  A frame stands for the *)
(* bytes of one command: the handler's reads in the middle of a frame      *)
(* change nothing that anyone else can see, so a frame is taken in the step*)
(* of its last read.  "bad" is every frame that ends the session: another  *)
(* version, an unknown command, a header valid_presentation_header refuses,*)
(* a text that is too long, or a frame cut off by the end of the pipe.     *)
(*                                                                         *)
(* The actions leave the candidate UI alone; CandidateService adds to each *)
(* what it asks of the loader.                                             *)
(***************************************************************************)
EXTENDS Naturals, Sequences

CONSTANTS
    MaxClients,  \* bound: clients that connect in a behaviour
    MaxFrames    \* bound: frames each client sends

Clients == 1..MaxClients

ASSUME ClientsAssumption == MaxClients \in Nat /\ MaxFrames \in [Clients -> Nat]

Frames  == {"present", "hide", "bad"}

VARIABLES
    listening,       \* listen() has a pipe instance waiting for a client
    nextClientId,    \* next_client_id_
    activeClientId,  \* active_client_id_, 0 when no client owns the popup
    session,         \* the handler coroutine of each client
    pipe,            \* frames written and not yet read
    peer,            \* the client's end of the pipe: is it open?
    sent             \* frames each client has written, for the bound

serverVars == <<listening, nextClientId, activeClientId, session, pipe, peer, sent>>

ServerTypeOK ==
    /\ listening \in BOOLEAN
    /\ nextClientId \in 1..(MaxClients + 1)
    /\ activeClientId \in 0..MaxClients
    /\ session \in [Clients -> {"none", "open", "done"}]
    /\ pipe \in [Clients -> Seq(Frames)]
    /\ peer \in [Clients -> BOOLEAN]
    /\ sent \in [Clients -> Nat] /\ \A c \in Clients : sent[c] <= MaxFrames[c]
    /\ \A c \in Clients : session[c] = "none" <=> nextClientId <= c

ServerInit ==
    /\ listening = TRUE
    /\ nextClientId = 1
    /\ activeClientId = 0
    /\ session = [c \in Clients |-> "none"]
    /\ pipe = [c \in Clients |-> <<>>]
    /\ peer = [c \in Clients |-> FALSE]
    /\ sent = [c \in Clients |-> 0]

-----------------------------------------------------------------------------
(* The clients *)

PeerSends(c, f) ==
    /\ session[c] # "none" /\ peer[c]
    /\ sent[c] < MaxFrames[c]
    /\ sent' = [sent EXCEPT ![c] = @ + 1]
    /\ pipe' = [pipe EXCEPT ![c] = Append(@, f)]
    /\ UNCHANGED <<listening, nextClientId, activeClientId, session, peer>>

\* The client closes its end or its process dies; what it wrote stays readable.
PeerCloses(c) ==
    /\ peer[c]
    /\ peer' = [peer EXCEPT ![c] = FALSE]
    /\ UNCHANGED <<listening, nextClientId, activeClientId, session, pipe, sent>>

-----------------------------------------------------------------------------
(* listen() *)

\* A client connected: it gets the next id and a handler of its own, and the
\* listener goes on with a fresh instance.
Accept ==
    /\ listening
    /\ nextClientId \in Clients
    /\ nextClientId' = nextClientId + 1
    /\ session' = [session EXCEPT ![nextClientId] = "open"]
    /\ peer' = [peer EXCEPT ![nextClientId] = TRUE]
    /\ UNCHANGED <<listening, activeClientId, pipe, sent>>

\* The security descriptor or the next pipe instance could not be created:
\* the coroutine returns, and no client is accepted any more.
ListenerStops ==
    /\ listening
    /\ listening' = FALSE
    /\ UNCHANGED <<nextClientId, activeClientId, session, pipe, peer, sent>>

-----------------------------------------------------------------------------
(* handle_client() and hide_if_active() *)

NextFrameIs(c, f) == session[c] = "open" /\ pipe[c] # <<>> /\ Head(pipe[c]) = f

Owns(c) == activeClientId = c

\* The client becomes the owner before the UI is asked, whatever it answers.
PresentFrame(c) ==
    /\ NextFrameIs(c, "present")
    /\ pipe' = [pipe EXCEPT ![c] = Tail(@)]
    /\ activeClientId' = c
    /\ UNCHANGED <<listening, nextClientId, session, peer, sent>>

GivesUpPopup(c) == activeClientId' = IF Owns(c) THEN 0 ELSE activeClientId

HideFrame(c) ==
    /\ NextFrameIs(c, "hide")
    /\ pipe' = [pipe EXCEPT ![c] = Tail(@)]
    /\ GivesUpPopup(c)
    /\ UNCHANGED <<listening, nextClientId, session, peer, sent>>

\* Mutant: the end of the pipe is not told from a pipe that is still empty.
EndSessionOnBad(c) ==
    /\ NextFrameIs(c, "bad")
    /\ session' = [session EXCEPT ![c] = "done"]
    /\ pipe' = [pipe EXCEPT ![c] = <<>>]
    /\ peer' = [peer EXCEPT ![c] = FALSE]
    /\ GivesUpPopup(c)
    /\ UNCHANGED <<listening, nextClientId, sent>>

\* A bad frame, or the end of the pipe after everything was read.  The stream
\* is closed with the handler, so what is left in the pipe is dropped.
EndSession(c) ==
    /\ \/ NextFrameIs(c, "bad")
       \/ session[c] = "open" /\ pipe[c] = <<>> /\ ~peer[c]
    /\ session' = [session EXCEPT ![c] = "done"]
    /\ pipe' = [pipe EXCEPT ![c] = <<>>]
    /\ peer' = [peer EXCEPT ![c] = FALSE]
    /\ GivesUpPopup(c)
    /\ UNCHANGED <<listening, nextClientId, sent>>

\* run() of the io_context returns when no coroutine is left.
OutOfWork == ~listening /\ \A c \in Clients : session[c] # "open"
=============================================================================
