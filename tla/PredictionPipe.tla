--------------------------- MODULE PredictionPipe ---------------------------
(***************************************************************************)
(* The prediction pipe server (src/service/prediction_pipe_server.hpp).    *)
(* Each connected client has a handler coroutine that reads a request,     *)
(* serves it and writes the answer.  All handlers share the io thread and  *)
(* interleave where they wait for a pipe; the engine's calls do not wait,  *)
(* they hold the io thread until they return.                              *)
(*                                                                         *)
(* A request stands for the bytes of one command, taken in the step of its *)
(* last read.  "empty" is a prediction without context and padding, "cut"  *)
(* one whose padding is cut off by the end of the pipe, "huge" one with a  *)
(* length that no memory can be had for: lengths come from the wire and    *)
(* are not checked, so the exception leaves the handler, of which nobody   *)
(* hears.  An answer carries a ghost: how many toggles had been made when  *)
(* it was computed.                                                        *)
(***************************************************************************)
EXTENDS Naturals, Sequences

CONSTANTS
    Clients,      \* the clients that may connect
    Offered,      \* the requests that each client of this instance sends
    MaxRequests,  \* bound: requests each client sends
    AnswerLimit   \* answers that fit into a pipe whose client does not read

ASSUME LimitsAssumption == MaxRequests \in [Clients -> Nat] /\ AnswerLimit \in Nat \ {0}

VARIABLES
    inputMode,  \* g_input_mode
    listening,  \* listener() accepts clients
    session,    \* where each handler is
    engine,     \* the handler has made its engine session
    answer,     \* what the handler has to write
    pipe,       \* requests written by the client and not yet read
    peer,       \* the client's end of the pipe is open
    asked,      \* ghost: all requests of each client
    answered,   \* all answers written to each client
    seen,       \* how many of them the client has read
    toggles     \* ghost: toggles made so far, by anyone

vars == <<inputMode, listening, session, engine, answer, pipe, peer, asked,
          answered, seen, toggles>>

Modes    == {"Chinese", "English"}
Requests == {"toggle", "get", "ready", "predict", "cut", "empty", "huge",
             "unknown"}
Kinds    == {"mode", "ready", "not_ready", "predictions", "no_predictions"}
Answers  == [kind : Kinds, mode : Modes, at : Nat]

ASSUME OfferedAssumption == Offered \in [Clients -> SUBSET Requests]

\* The kinds of answer a request may get; a session ends over the others.
AnswersTo(r) ==
    CASE r \in {"toggle", "get"} -> {"mode"}
      [] r = "ready" -> {"ready", "not_ready"}
      [] r \in {"predict", "cut"} -> {"predictions", "no_predictions"}
      [] OTHER -> {}

TypeOK ==
    /\ inputMode \in Modes
    /\ listening \in BOOLEAN
    /\ session \in [Clients -> {"none", "reading", "readying", "predicting",
                                "writing", "done"}]
    /\ engine \in [Clients -> BOOLEAN]
    /\ answer \in [Clients -> Answers]
    /\ pipe \in [Clients -> Seq(Requests)]
    /\ peer \in [Clients -> BOOLEAN]
    /\ asked \in [Clients -> Seq(Requests)]
    /\ answered \in [Clients -> Seq(Answers)]
    /\ seen \in [Clients -> Nat]
    /\ toggles \in Nat
    /\ \A c \in Clients : session[c] \in {"readying", "predicting"} => engine[c]

Tells(mode, count) == [kind |-> "mode", mode |-> mode, at |-> count]

Plain(kind) == [kind |-> kind, mode |-> "Chinese", at |-> 0]

Nothing == Plain("no_predictions")

Init ==
    /\ inputMode = "Chinese"
    /\ listening = TRUE
    /\ session = [c \in Clients |-> "none"]
    /\ engine = [c \in Clients |-> FALSE]
    /\ toggles = 0
    /\ answer = [c \in Clients |-> Nothing]
    /\ pipe = [c \in Clients |-> <<>>]
    /\ peer = [c \in Clients |-> FALSE]
    /\ asked = [c \in Clients |-> <<>>]
    /\ answered = [c \in Clients |-> <<>>]
    /\ seen = [c \in Clients |-> 0]

-----------------------------------------------------------------------------
(* The clients *)

PeerSends(c, r) ==
    /\ peer[c] /\ r # "cut"
    /\ Len(asked[c]) < MaxRequests[c]
    /\ pipe' = [pipe EXCEPT ![c] = Append(@, r)]
    /\ asked' = [asked EXCEPT ![c] = Append(@, r)]
    /\ UNCHANGED <<inputMode, listening, session, engine, answer, peer, answered,
                   seen, toggles>>

\* The client goes in the middle of a prediction's padding.
PeerBreaksOff(c) ==
    /\ peer[c] /\ "cut" \in Offered[c]
    /\ Len(asked[c]) < MaxRequests[c]
    /\ pipe' = [pipe EXCEPT ![c] = Append(@, "cut")]
    /\ asked' = [asked EXCEPT ![c] = Append(@, "cut")]
    /\ peer' = [peer EXCEPT ![c] = FALSE]
    /\ UNCHANGED <<inputMode, listening, session, engine, answer, answered, seen,
                   toggles>>

PeerCloses(c) ==
    /\ peer[c]
    /\ peer' = [peer EXCEPT ![c] = FALSE]
    /\ UNCHANGED <<inputMode, listening, session, engine, answer, pipe, asked,
                   answered, seen, toggles>>

PeerReads(c) ==
    /\ peer[c]
    /\ seen[c] < Len(answered[c])
    /\ seen' = [seen EXCEPT ![c] = @ + 1]
    /\ UNCHANGED <<inputMode, listening, session, engine, answer, pipe, peer,
                   asked, answered, toggles>>

-----------------------------------------------------------------------------
(* listener() *)

Unread == <<inputMode, answer, pipe, asked, answered, seen, toggles>>

Accept(c) ==
    /\ listening
    /\ session[c] = "none"
    /\ session' = [session EXCEPT ![c] = "reading"]
    /\ peer' = [peer EXCEPT ![c] = TRUE]
    /\ UNCHANGED <<Unread, listening, engine>>

\* One descriptor or pipe instance could not be made, or a wait threw.
ListenerStops ==
    /\ listening
    /\ listening' = FALSE
    /\ UNCHANGED <<Unread, session, engine, peer>>

-----------------------------------------------------------------------------
(* handle_client() *)

InEngine == {"readying", "predicting"}

\* Mutant: a handler that waits for its client to read holds the io thread.
BlockingWrites(c) == \A d \in Clients \ {c} : session[d] \notin InEngine \cup {"writing"}

\* The io thread is not inside an engine call of another handler.
ThreadFree(c) == \A d \in Clients \ {c} : session[d] \notin InEngine

Reads(c, r) ==
    /\ ThreadFree(c)
    /\ session[c] = "reading"
    /\ pipe[c] # <<>> /\ Head(pipe[c]) = r
    /\ pipe' = [pipe EXCEPT ![c] = Tail(@)]

GoesTo(c, state) == session' = [session EXCEPT ![c] = state]

Answer(c, a) == answer' = [answer EXCEPT ![c] = a] /\ GoesTo(c, "writing")

Other(mode) == IF mode = "Chinese" THEN "English" ELSE "Chinese"

\* The mode is changed before the answer is written, and the answer tells the
\* mode this toggle made.
Toggle(c) ==
    /\ Reads(c, "toggle")
    /\ inputMode' = Other(inputMode)
    /\ toggles' = toggles + 1
    /\ Answer(c, Tells(inputMode', toggles'))
    /\ UNCHANGED <<listening, engine, peer, asked, answered, seen>>

GetMode(c) ==
    /\ Reads(c, "get")
    /\ Answer(c, Tells(inputMode, toggles))
    /\ UNCHANGED <<inputMode, listening, engine, peer, asked, answered, seen, toggles>>

\* Mutant: the engine session is left to be made later.
WithoutEngine(c) == UNCHANGED engine

\* Every other command, known or not, needs the engine session first.
WithEngine(c) == engine' = [engine EXCEPT ![c] = TRUE]

BeginReady(c) ==
    /\ Reads(c, "ready")
    /\ WithEngine(c)
    /\ GoesTo(c, "readying")
    /\ UNCHANGED <<inputMode, listening, answer, peer, asked, answered, seen, toggles>>

\* A context with cut padding is predicted as if it had none.
BeginPredict(c) ==
    /\ Reads(c, "predict") \/ Reads(c, "cut")
    /\ WithEngine(c)
    /\ GoesTo(c, "predicting")
    /\ UNCHANGED <<inputMode, listening, answer, peer, asked, answered, seen, toggles>>

\* Mutant: a failed ready() is not answered.
EndReadyOrForget(c) ==
    /\ session[c] = "readying"
    /\ \/ Answer(c, Plain("ready"))
       \/ GoesTo(c, "reading") /\ UNCHANGED answer
    /\ UNCHANGED <<inputMode, listening, engine, pipe, peer, asked, answered, seen,
                   toggles>>

\* The engine returned, or it threw: both are answered.
EndReady(c) ==
    /\ session[c] = "readying"
    /\ Answer(c, Plain("ready")) \/ Answer(c, Plain("not_ready"))
    /\ UNCHANGED <<inputMode, listening, engine, pipe, peer, asked, answered, seen,
                   toggles>>

EndPredict(c) ==
    /\ session[c] = "predicting"
    /\ Answer(c, Plain("predictions")) \/ Answer(c, Plain("no_predictions"))
    /\ UNCHANGED <<inputMode, listening, engine, pipe, peer, asked, answered, seen,
                   toggles>>

Room(c) == Len(answered[c]) - seen[c] < AnswerLimit

\* Mutant: the mode is looked up when the answer is written.
WriteLate(c) ==
    /\ ThreadFree(c)
    /\ session[c] = "writing"
    /\ \/ /\ peer[c] /\ Room(c)
          /\ answered' = [answered EXCEPT ![c] =
                             Append(@, [answer[c] EXCEPT !.mode = inputMode])]
       \/ ~peer[c] /\ UNCHANGED answered
    /\ answer' = [answer EXCEPT ![c] = Nothing]
    /\ GoesTo(c, "reading")
    /\ UNCHANGED <<inputMode, listening, engine, pipe, peer, asked, seen, toggles>>

\* A write waits for room.  Its failure, when the client is gone, is not looked
\* at: the handler goes on with the next request.
Write(c) ==
    /\ ThreadFree(c)
    /\ session[c] = "writing"
    /\ \/ peer[c] /\ Room(c) /\ answered' = [answered EXCEPT ![c] = Append(@, answer[c])]
       \/ ~peer[c] /\ UNCHANGED answered
    /\ answer' = [answer EXCEPT ![c] = Nothing]
    /\ GoesTo(c, "reading")
    /\ UNCHANGED <<inputMode, listening, engine, pipe, peer, asked, seen, toggles>>

\* The handler returns: its stream and its engine session go with it.
Returns(c) ==
    /\ GoesTo(c, "done")
    /\ engine' = [engine EXCEPT ![c] = FALSE]
    /\ peer' = [peer EXCEPT ![c] = FALSE]
    /\ UNCHANGED <<inputMode, listening, answer, asked, answered, seen, toggles>>

\* Mutant: a failed read is tried again for ever.
ReadsAgain(c) == ThreadFree(c) /\ (Reads(c, "empty") \/ Reads(c, "unknown")) /\ Returns(c)

\* A request that cannot be served, or nothing left to read.
EndSession(c) ==
    /\ \/ \E r \in {"empty", "huge", "unknown"} : Reads(c, r)
       \/ /\ ThreadFree(c) /\ session[c] = "reading"
          /\ pipe[c] = <<>> /\ ~peer[c] /\ UNCHANGED pipe
    /\ Returns(c)

\* create_session() threw: the handler ends without an answer.
EngineFails(c) ==
    /\ ~engine[c]
    /\ \E r \in Requests \ {"toggle", "get"} : Reads(c, r)
    /\ Returns(c)

-----------------------------------------------------------------------------
Handler(c) ==
    \/ Toggle(c) \/ GetMode(c)
    \/ BeginReady(c) \/ EndReady(c) \/ BeginPredict(c) \/ EndPredict(c)
    \/ Write(c) \/ EndSession(c) \/ EngineFails(c)

Peer(c) ==
    \/ \E r \in Offered[c] : PeerSends(c, r)
    \/ PeerBreaksOff(c) \/ PeerCloses(c) \/ PeerReads(c)

Next ==
    \/ ListenerStops
    \/ \E c \in Clients : Accept(c) \/ Handler(c) \/ Peer(c)

Spec == Init /\ [][Next]_vars

\* The io_context resumes every handler that can go on, and the engine's calls
\* return.  No client has to connect, send, read or close.  The handlers share
\* one thread but an engine call ends, so another's turn comes again and again:
\* strong fairness says that a handler is not passed over for ever.
Fairness == \A c \in Clients : SF_vars(Handler(c))

FairSpec == Spec /\ Fairness

-----------------------------------------------------------------------------
(* Properties *)

\* Clients pair answers with their requests by position alone: the n-th answer
\* is one to the n-th request, whichever of them failed in the engine.
AnswersMatchRequests ==
    \A c \in Clients : \A n \in 1..Len(answered[c]) :
        n <= Len(asked[c]) /\ answered[c][n].kind \in AnswersTo(asked[c][n])

ModeAfter(n) == IF n % 2 = 0 THEN "Chinese" ELSE "English"

\* An answer tells the mode as it was left by its own request, also when other
\* clients toggled while it waited to be written, and a client never sees the
\* mode of an earlier moment after that of a later one.
ModeAnswersAreExact ==
    \A c \in Clients : \A n \in 1..Len(answered[c]) :
        LET a == answered[c][n]
        IN  a.kind = "mode" =>
               /\ a.mode = ModeAfter(a.at)
               /\ \A m \in 1..(n - 1) : answered[c][m].at <= a.at

\* A request is answered or its session ends, unless the client lets answers
\* pile up: neither another client's prediction nor another client that does
\* not read holds a handler up for ever.
RequestsAreAnswered ==
    \A c \in Clients : \A n \in 1..MaxRequests[c] :
        Len(asked[c]) >= n ~>
            Len(answered[c]) >= n \/ session[c] = "done" \/ ~Room(c)

\* A client that is gone is forgotten, with its engine session, whatever it
\* left in the pipe and in whatever state it left the handler.
SessionsEnd ==
    \A c \in Clients : session[c] # "none" /\ ~peer[c] ~> session[c] = "done" /\ ~engine[c]
=============================================================================
