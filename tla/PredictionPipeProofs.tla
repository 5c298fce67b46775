------------------------ MODULE PredictionPipeProofs ------------------------
(***************************************************************************)
(* Proofs about the prediction pipe, for any number of clients and requests*)
(* and any room in the pipes.                                              *)
(*                                                                         *)
(*   PredictionTypeCorrect        types, and who has an engine session     *)
(*   AnswersMatchRequestsCorrect  the n-th answer is one to the n-th request *)
(*   ModeAnswersAreExactCorrect   a mode answer tells what its request left *)
(*                                                                         *)
(* Both rest on counting: how many requests a handler has taken from its   *)
(* pipe says which request the answer in its hands belongs to.             *)
(***************************************************************************)
EXTENDS PredictionPipe, TLAPS

\* A handler that has taken a request and not yet written its answer.
Busy(c) == session[c] \in {"readying", "predicting", "writing"}

\* The requests taken from the pipe: what is left in it are the later ones.
Taken(c) == Len(asked[c]) - Len(pipe[c])

PipeInv(c) ==
    /\ Len(pipe[c]) <= Len(asked[c])
    /\ \A i \in 1..Len(pipe[c]) : pipe[c][i] = asked[c][Taken(c) + i]
    /\ session[c] = "none" => asked[c] = <<>> /\ answered[c] = <<>>
    /\ session[c] \in {"none", "done"} => ~peer[c]

\* While the client is there each request it got past has its answer.
TurnInv(c) ==
    /\ peer[c] => Len(answered[c]) = IF Busy(c) THEN Taken(c) - 1 ELSE Taken(c)
    /\ Busy(c) => Taken(c) >= 1
    /\ session[c] = "readying" => asked[c][Taken(c)] = "ready"
    /\ session[c] = "predicting" => asked[c][Taken(c)] \in {"predict", "cut"}
    /\ session[c] = "writing" => answer[c].kind \in AnswersTo(asked[c][Taken(c)])

Matches(c) ==
    \A n \in 1..Len(answered[c]) :
        n <= Len(asked[c]) /\ answered[c][n].kind \in AnswersTo(asked[c][n])

PairInv(c) == PipeInv(c) /\ TurnInv(c) /\ Matches(c)

clientVars(c) == <<session[c], answer[c], pipe[c], peer[c], asked[c], answered[c]>>

-----------------------------------------------------------------------------
(* Types *)

\* Every step is one of the listener or of one client and its handler.
ClientStep(c) == Accept(c) \/ Handler(c) \/ Peer(c)

\* With no client connected everything is of its type.
LEMMA InitTyped == Init => TypeOK
<1>1. Nothing \in Answers
  BY DEF Nothing, Plain, Answers, Kinds, Modes
<1> QED
  BY <1>1 DEF Init, TypeOK, Modes

\* What the handlers answer with is of the type of answers.
LEMMA AnswersTyped ==
    /\ \A m \in Modes, n \in Nat : Tells(m, n) \in Answers
    /\ \A k \in Kinds : Plain(k) \in Answers
    /\ Nothing \in Answers
    /\ \A m \in Modes : Other(m) \in Modes
  BY DEF Tells, Plain, Nothing, Other, Answers, Kinds, Modes

\* A request that is read keeps the requests left in the pipe in their type.
LEMMA ReadsTyped ==
    ASSUME TypeOK, NEW c \in Clients, NEW r, Reads(c, r)
    PROVE  pipe' \in [Clients -> Seq(Requests)] /\ session[c] = "reading"
<1>1. pipe[c] \in Seq(Requests) /\ pipe[c] # <<>>
  BY DEF Reads, TypeOK
<1>2. Tail(pipe[c]) \in Seq(Requests)
  BY <1>1
<1> QED
  BY <1>2 DEF Reads, TypeOK

\* Every handler, listener and client step keeps the types.
LEMMA StepTyped ==
    ASSUME TypeOK, NEW c \in Clients, ClientStep(c)
    PROVE  TypeOK'
<1> USE DEF TypeOK
<1>1. CASE Accept(c)
  BY <1>1 DEF Accept, Unread
<1>2. CASE Toggle(c)
  <2>1. inputMode' \in Modes /\ toggles' \in Nat
    BY <1>2, AnswersTyped DEF Toggle
  <2>2. Tells(inputMode', toggles') \in Answers
    BY <2>1, AnswersTyped
  <2> QED
    BY <1>2, <2>1, <2>2 DEF Toggle, Reads, Answer, GoesTo
<1>3. CASE GetMode(c)
  <2>1. Tells(inputMode, toggles) \in Answers
    BY AnswersTyped
  <2> QED
    BY <1>3, <2>1 DEF GetMode, Reads, Answer, GoesTo
<1>4. CASE BeginReady(c) \/ BeginPredict(c)
  <2>1. pipe' \in [Clients -> Seq(Requests)]
    BY <1>4, ReadsTyped DEF BeginReady, BeginPredict
  <2>2. engine' = [engine EXCEPT ![c] = TRUE]
    BY <1>4 DEF BeginReady, BeginPredict, WithEngine
  <2>3. session' = [session EXCEPT ![c] = "readying"] \/ session' = [session EXCEPT ![c] = "predicting"]
    BY <1>4 DEF BeginReady, BeginPredict, GoesTo
  <2> QED
    BY <1>4, <2>1, <2>2, <2>3 DEF BeginReady, BeginPredict
<1>5. CASE EndReady(c) \/ EndPredict(c)
  <2>1. \A k \in Kinds : Plain(k) \in Answers
    BY AnswersTyped
  <2>2. PICK k \in Kinds : Answer(c, Plain(k))
    BY <1>5 DEF EndReady, EndPredict, Kinds
  <2>3. UNCHANGED <<inputMode, listening, engine, pipe, peer, asked, answered, seen, toggles>>
    BY <1>5 DEF EndReady, EndPredict
  <2>4. answer' = [answer EXCEPT ![c] = Plain(k)] /\ Plain(k) \in Answers
    BY <2>1, <2>2 DEF Answer
  <2>5. session' = [session EXCEPT ![c] = "writing"]
    BY <2>2 DEF Answer, GoesTo
  <2> QED
    BY <2>3, <2>4, <2>5
<1>6. CASE Write(c)
  <2>1. answered' \in [Clients -> Seq(Answers)]
    <3>1. Append(answered[c], answer[c]) \in Seq(Answers)
      OBVIOUS
    <3> QED
      BY <1>6, <3>1 DEF Write
  <2>2. answer' \in [Clients -> Answers]
    BY <1>6, AnswersTyped DEF Write
  <2> QED
    BY <1>6, <2>1, <2>2 DEF Write, GoesTo
<1>7. CASE EndSession(c) \/ EngineFails(c)
  <2>1. pipe' \in [Clients -> Seq(Requests)]
    BY <1>7, ReadsTyped DEF EndSession, EngineFails
  <2>2. Returns(c)
    BY <1>7 DEF EndSession, EngineFails
  <2> QED
    BY <2>1, <2>2 DEF Returns, GoesTo
<1>8. ASSUME NEW r \in Offered[c], PeerSends(c, r)
      PROVE  TypeOK'
  <2>1. r \in Requests
    BY OfferedAssumption
  <2> QED
    BY <1>8, <2>1 DEF PeerSends
<1>9. CASE PeerBreaksOff(c)
  <2>1. Append(pipe[c], "cut") \in Seq(Requests) /\ Append(asked[c], "cut") \in Seq(Requests)
    BY DEF Requests
  <2> QED
    BY <1>9, <2>1 DEF PeerBreaksOff
<1>10. CASE PeerCloses(c)
  BY <1>10 DEF PeerCloses
<1>11. CASE PeerReads(c)
  <2>1. seen[c] + 1 \in Nat
    OBVIOUS
  <2> QED
    BY <1>11, <2>1 DEF PeerReads
<1> QED
  BY <1>1, <1>2, <1>3, <1>4, <1>5, <1>6, <1>7, <1>8, <1>9, <1>10, <1>11
     DEF ClientStep, Handler, Peer

\* The listener changes no pair of a session that is open.
LEMMA ListenerKeeps ==
    ASSUME ListenerStops \/ UNCHANGED vars
    PROVE  UNCHANGED <<inputMode, toggles, session, engine, answer, pipe, peer, asked, answered, seen>>
  BY DEF ListenerStops, Unread, vars

\* Every variable keeps its type, and a handler inside an engine call has a session.
THEOREM PredictionTypeCorrect == Spec => []TypeOK
<1>1. TypeOK /\ [Next]_vars => TypeOK'
  <2> SUFFICES ASSUME TypeOK, [Next]_vars
               PROVE  TypeOK'
    OBVIOUS
  <2>1. CASE ListenerStops \/ UNCHANGED vars
    <3>1. listening' \in BOOLEAN
      BY <2>1 DEF TypeOK, ListenerStops, vars
    <3> QED
      BY <2>1, <3>1, ListenerKeeps DEF TypeOK
  <2> QED
    BY <2>1, StepTyped DEF Next, ClientStep
<1> QED
  BY <1>1, InitTyped, PTL DEF Spec

-----------------------------------------------------------------------------
(* Answers and their requests *)

\* Nothing about a client changes by a step of another.
LEMMA OthersKeep ==
    ASSUME TypeOK, NEW c \in Clients, ClientStep(c), NEW d \in Clients \ {c}
    PROVE  UNCHANGED clientVars(d)
<1> USE DEF clientVars, TypeOK
<1>1. CASE Accept(c)
  BY <1>1 DEF Accept, Unread
<1>2. CASE Toggle(c) \/ GetMode(c)
  BY <1>2 DEF Toggle, GetMode, Reads, Answer, GoesTo
<1>3. CASE BeginReady(c) \/ BeginPredict(c)
  BY <1>3 DEF BeginReady, BeginPredict, Reads, GoesTo
<1>4. CASE EndReady(c) \/ EndPredict(c)
  BY <1>4 DEF EndReady, EndPredict, Answer, GoesTo
<1>5. CASE Write(c)
  BY <1>5 DEF Write, GoesTo
<1>6. CASE EndSession(c) \/ EngineFails(c)
  BY <1>6 DEF EndSession, EngineFails, Reads, Returns, GoesTo
<1>7. CASE Peer(c)
  BY <1>7 DEF Peer, PeerSends, PeerBreaksOff, PeerCloses, PeerReads
<1> QED
  BY <1>1, <1>2, <1>3, <1>4, <1>5, <1>6, <1>7 DEF ClientStep, Handler

\* A client whose pipe, session and history are left alone keeps its pairs.
LEMMA KeptPairs ==
    ASSUME NEW d \in Clients, PairInv(d), UNCHANGED clientVars(d)
    PROVE  PairInv(d)'
  BY DEF clientVars, PairInv, PipeInv, TurnInv, Matches, Taken, Busy

\* A request that is sent comes after all that are in the pipe.
LEMMA PairsOfSends ==
    ASSUME TypeOK, NEW c \in Clients, PairInv(c), NEW r \in Requests, peer[c],
           pipe' = [pipe EXCEPT ![c] = Append(@, r)],
           asked' = [asked EXCEPT ![c] = Append(@, r)],
           peer'[c] => peer[c],
           UNCHANGED <<session, answer, answered>>
    PROVE  PairInv(c)'
<1>1. pipe[c] \in Seq(Requests) /\ asked[c] \in Seq(Requests)
  BY DEF TypeOK
<1>2. pipe'[c] = Append(pipe[c], r) /\ asked'[c] = Append(asked[c], r)
  BY DEF TypeOK
<1>3. /\ Len(pipe'[c]) = Len(pipe[c]) + 1 /\ Len(asked'[c]) = Len(asked[c]) + 1
      /\ Taken(c)' = Taken(c) /\ Taken(c) \in Nat
      /\ Taken(c) + Len(pipe[c]) = Len(asked[c])
  <2>1. Len(pipe[c]) \in Nat /\ Len(asked[c]) \in Nat
    BY <1>1
  <2>2. Len(pipe'[c]) = Len(pipe[c]) + 1 /\ Len(asked'[c]) = Len(asked[c]) + 1
    BY <1>1, <1>2
  <2>3. Len(pipe[c]) <= Len(asked[c])
    BY DEF PairInv, PipeInv
  <2>4. /\ Taken(c) \in Nat /\ Taken(c) + Len(pipe[c]) = Len(asked[c])
    BY <2>1, <2>3 DEF Taken
  <2>5. Taken(c)' = Len(asked'[c]) - Len(pipe'[c])
    BY DEF Taken
  <2>6. (Len(asked[c]) + 1) - (Len(pipe[c]) + 1) = Taken(c)
    <3>1. \A a, b, t \in Nat : t + b = a => (a + 1) - (b + 1) = t
      OBVIOUS
    <3> QED
      BY <2>1, <2>4, <3>1
  <2> QED
    BY <2>2, <2>4, <2>5, <2>6
<1>4. \A k \in 1..Len(asked[c]) : asked'[c][k] = asked[c][k]
  BY <1>1, <1>2
<1>5. PipeInv(c)'
  <2>1. ASSUME NEW i \in 1..Len(pipe'[c])
        PROVE  pipe'[c][i] = asked'[c][Taken(c)' + i]
    <3>1. CASE i = Len(pipe[c]) + 1
      <4>1. Taken(c) + i = Len(asked[c]) + 1
        BY <1>1, <1>3, <3>1
      <4> QED
        BY <1>1, <1>2, <1>3, <3>1, <4>1
    <3>2. CASE i \in 1..Len(pipe[c])
      <4>1. pipe'[c][i] = pipe[c][i] /\ pipe[c][i] = asked[c][Taken(c) + i]
        BY <1>1, <1>2, <3>2 DEF PairInv, PipeInv
      <4>2. Taken(c) + i \in 1..Len(asked[c])
        BY <1>1, <1>3, <3>2
      <4> QED
        BY <1>3, <1>4, <4>1, <4>2
    <3>3. Len(pipe[c]) \in Nat
      BY <1>1
    <3> QED
      BY <1>3, <3>1, <3>2, <3>3, SMTT(60)
  <2>2. Len(pipe'[c]) <= Len(asked'[c])
    BY <1>1, <1>3
  <2>3. session'[c] \notin {"none", "done"}
    BY DEF PairInv, PipeInv
  <2> QED
    BY <2>1, <2>2, <2>3 DEF PipeInv
<1>6. TurnInv(c)'
  BY <1>3, <1>4 DEF PairInv, TurnInv, Busy
<1>7. Matches(c)'
  <2>1. answered[c] \in Seq(Answers)
    BY DEF TypeOK
  <2>2. ASSUME NEW n \in 1..Len(answered[c])
        PROVE  n <= Len(asked'[c]) /\ answered[c][n].kind \in AnswersTo(asked'[c][n])
    <3>1. n <= Len(asked[c]) /\ answered[c][n].kind \in AnswersTo(asked[c][n])
      BY DEF PairInv, Matches
    <3>2. n \in 1..Len(asked[c])
      BY <1>1, <2>1, <3>1
    <3> QED
      BY <1>1, <1>3, <1>4, <3>1, <3>2
  <2> QED
    BY <2>2 DEF Matches
<1> QED
  BY <1>5, <1>6, <1>7 DEF PairInv

\* The request that is read is the one that the count of those taken points to.
LEMMA PipeOfReads ==
    ASSUME TypeOK, NEW c \in Clients, PairInv(c), NEW r, Reads(c, r),
           asked' = asked
    PROVE  /\ Taken(c)' = Taken(c) + 1 /\ Taken(c) \in Nat
           /\ asked'[c][Taken(c)'] = r
           /\ Len(pipe'[c]) <= Len(asked'[c])
           /\ \A i \in 1..Len(pipe'[c]) : pipe'[c][i] = asked'[c][Taken(c)' + i]
<1>1. pipe[c] \in Seq(Requests) /\ asked[c] \in Seq(Requests) /\ pipe[c] # <<>>
  BY DEF TypeOK, Reads
<1>2. pipe'[c] = Tail(pipe[c]) /\ r = pipe[c][1]
  BY <1>1 DEF TypeOK, Reads
<1>3. Len(pipe'[c]) = Len(pipe[c]) - 1 /\ 1 \in 1..Len(pipe[c])
  BY <1>1, <1>2
<1>4. Len(pipe[c]) <= Len(asked[c])
  BY DEF PairInv, PipeInv
<1>5. Taken(c)' = Taken(c) + 1 /\ Taken(c) \in Nat
  BY <1>1, <1>3, <1>4 DEF Taken
<1>6. asked'[c][Taken(c)'] = r
  BY <1>2, <1>3, <1>5 DEF PairInv, PipeInv
<1>7. ASSUME NEW i \in 1..Len(pipe'[c])
      PROVE  pipe'[c][i] = asked'[c][Taken(c)' + i]
  <2>1. pipe'[c][i] = pipe[c][i + 1] /\ i + 1 \in 1..Len(pipe[c])
    BY <1>1, <1>2, <1>3
  <2>2. pipe[c][i + 1] = asked[c][Taken(c) + (i + 1)]
    BY <2>1 DEF PairInv, PipeInv
  <2>3. Taken(c) + (i + 1) = Taken(c)' + i
    BY <1>5
  <2> QED
    BY <2>1, <2>2, <2>3
<1>8. Len(pipe'[c]) <= Len(asked'[c])
  <2>1. Len(pipe[c]) \in Nat /\ Len(asked[c]) \in Nat
    BY <1>1
  <2> QED
    BY <1>3, <1>4, <2>1
<1> QED
  BY <1>5, <1>6, <1>7, <1>8

\* A handler that takes a request goes on to answer it.
LEMMA PairsOfReads ==
    ASSUME TypeOK, NEW c \in Clients, PairInv(c),
           Toggle(c) \/ GetMode(c) \/ BeginReady(c) \/ BeginPredict(c)
    PROVE  PairInv(c)'
<1>1. PICK r \in {"toggle", "get", "ready", "predict", "cut"} :
          /\ Reads(c, r)
          /\ r \in {"toggle", "get"} => session'[c] = "writing" /\ answer'[c].kind = "mode"
          /\ r = "ready" => session'[c] = "readying"
          /\ r \in {"predict", "cut"} => session'[c] = "predicting"
  BY DEF TypeOK, Toggle, GetMode, BeginReady, BeginPredict, Answer, GoesTo, Tells
<1>2. UNCHANGED <<asked, answered, peer>>
  BY DEF Toggle, GetMode, BeginReady, BeginPredict
<1>3. session[c] = "reading" /\ ~Busy(c) /\ Busy(c)'
  BY <1>1 DEF Reads, Busy
<1>4. /\ Taken(c)' = Taken(c) + 1 /\ Taken(c) \in Nat
      /\ asked'[c][Taken(c)'] = r
      /\ Len(pipe'[c]) <= Len(asked'[c])
      /\ \A i \in 1..Len(pipe'[c]) : pipe'[c][i] = asked'[c][Taken(c)' + i]
  BY <1>1, <1>2, PipeOfReads
<1>5. PipeInv(c)'
  BY <1>1, <1>4 DEF PipeInv
<1>6. TurnInv(c)'
  <2>1. peer'[c] => Len(answered'[c]) = Taken(c)' - 1
    BY <1>2, <1>3, <1>4 DEF PairInv, TurnInv
  <2>2. session'[c] = "writing" => answer'[c].kind \in AnswersTo(r)
    BY <1>1 DEF AnswersTo
  <2> QED
    BY <1>1, <1>3, <1>4, <2>1, <2>2 DEF TurnInv
<1>7. Matches(c)'
  BY <1>2 DEF PairInv, Matches
<1> QED
  BY <1>5, <1>6, <1>7 DEF PairInv

\* The engine's calls return with an answer of the right kind.
LEMMA PairsOfEngine ==
    ASSUME TypeOK, NEW c \in Clients, PairInv(c), EndReady(c) \/ EndPredict(c)
    PROVE  PairInv(c)'
<1>1. UNCHANGED <<pipe, peer, asked, answered>> /\ session'[c] = "writing"
  BY DEF TypeOK, EndReady, EndPredict, Answer, GoesTo
<1>2. \/ session[c] = "readying" /\ answer'[c].kind \in {"ready", "not_ready"}
      \/ session[c] = "predicting" /\ answer'[c].kind \in {"predictions", "no_predictions"}
  BY DEF TypeOK, EndReady, EndPredict, Answer, Plain
<1>3. Taken(c)' = Taken(c) /\ Busy(c) /\ Busy(c)'
  BY <1>1, <1>2 DEF Taken, Busy
<1>4. answer'[c].kind \in AnswersTo(asked'[c][Taken(c)'])
  <2>1. AnswersTo("ready") = {"ready", "not_ready"}
    BY DEF AnswersTo
  <2>2. \A r \in {"predict", "cut"} : AnswersTo(r) = {"predictions", "no_predictions"}
    BY DEF AnswersTo
  <2> QED
    BY <1>1, <1>2, <1>3, <2>1, <2>2 DEF PairInv, TurnInv
<1>5. PipeInv(c)'
  BY <1>1, <1>3 DEF PairInv, PipeInv
<1>6. TurnInv(c)'
  BY <1>1, <1>3, <1>4 DEF PairInv, TurnInv
<1>7. Matches(c)'
  BY <1>1 DEF PairInv, Matches
<1> QED
  BY <1>5, <1>6, <1>7 DEF PairInv

\* What is written is the answer to the request taken last, in its place.
LEMMA PairsOfWrites ==
    ASSUME TypeOK, NEW c \in Clients, PairInv(c), Write(c)
    PROVE  PairInv(c)'
<1>1. UNCHANGED <<pipe, peer, asked>> /\ session[c] = "writing" /\ session'[c] = "reading"
  BY DEF TypeOK, Write, GoesTo
<1>2. Taken(c)' = Taken(c) /\ Busy(c) /\ ~Busy(c)'
  BY <1>1 DEF Taken, Busy
<1>3. PipeInv(c)'
  BY <1>1, <1>2 DEF PairInv, PipeInv
<1>4. CASE ~peer[c]
  <2>1. answered' = answered
    BY <1>4 DEF Write
  <2> QED
    BY <1>1, <1>2, <1>3, <1>4, <2>1 DEF PairInv, TurnInv, Matches
<1>5. CASE peer[c]
  <2>1. answered[c] \in Seq(Answers) /\ answer[c] \in Answers /\ Len(answered[c]) \in Nat
    BY DEF TypeOK
  <2>2. answered'[c] = Append(answered[c], answer[c])
    BY <1>5 DEF TypeOK, Write
  <2>3. Len(answered'[c]) = Len(answered[c]) + 1
    BY <2>1, <2>2
  <2>4. Len(answered[c]) = Taken(c) - 1 /\ answer[c].kind \in AnswersTo(asked[c][Taken(c)])
    BY <1>1, <1>2, <1>5 DEF PairInv, TurnInv
  <2>5. Taken(c) \in Nat /\ Taken(c) <= Len(asked[c])
    <3>1. pipe[c] \in Seq(Requests) /\ asked[c] \in Seq(Requests)
      BY DEF TypeOK
    <3>2. Len(pipe[c]) \in Nat /\ Len(asked[c]) \in Nat /\ Len(pipe[c]) <= Len(asked[c])
      BY <3>1 DEF PairInv, PipeInv
    <3>3. \A a, b \in Nat : b <= a => a - b \in Nat /\ a - b <= a
      OBVIOUS
    <3> QED
      BY <3>2, <3>3 DEF Taken
  <2>6. Len(answered[c]) + 1 = Taken(c)
    <3>1. \A a \in Nat, t \in Nat : a = t - 1 => a + 1 = t
      OBVIOUS
    <3> QED
      BY <2>1, <2>4, <2>5, <3>1
  <2>7. ASSUME NEW n \in 1..Len(answered'[c])
        PROVE  n <= Len(asked'[c]) /\ answered'[c][n].kind \in AnswersTo(asked'[c][n])
    <3>1. CASE n = Len(answered[c]) + 1
      <4>1. answered'[c][n] = answer[c] /\ n = Taken(c)
        BY <2>1, <2>2, <2>6, <3>1
      <4> QED
        BY <1>1, <2>4, <2>5, <4>1
    <3>2. CASE n \in 1..Len(answered[c])
      <4>1. answered'[c][n] = answered[c][n]
        BY <2>1, <2>2, <3>2
      <4> QED
        BY <1>1, <3>2, <4>1 DEF PairInv, Matches
    <3> QED
      BY <2>1, <2>3, <3>1, <3>2
  <2>8. TurnInv(c)'
    BY <1>1, <1>2, <2>3, <2>6 DEF TurnInv, Busy
  <2> QED
    BY <1>3, <2>7, <2>8 DEF PairInv, Matches
<1> QED
  BY <1>4, <1>5

\* A handler that ends, and a client that closes, leave the pairs as they are.
LEMMA PairsOfEnds ==
    ASSUME TypeOK, NEW c \in Clients, PairInv(c), EndSession(c) \/ EngineFails(c)
    PROVE  PairInv(c)'
<1>1. UNCHANGED <<asked, answered>> /\ session'[c] = "done" /\ ~peer'[c]
  BY DEF TypeOK, EndSession, EngineFails, Returns, GoesTo
<1>2. /\ Len(pipe'[c]) <= Len(asked'[c])
      /\ \A i \in 1..Len(pipe'[c]) : pipe'[c][i] = asked'[c][Taken(c)' + i]
  <2>1. ASSUME NEW r, Reads(c, r)
        PROVE  /\ Len(pipe'[c]) <= Len(asked'[c])
               /\ \A i \in 1..Len(pipe'[c]) : pipe'[c][i] = asked'[c][Taken(c)' + i]
    BY <1>1, <2>1, PipeOfReads
  <2>2. CASE pipe' = pipe
    BY <1>1, <2>2 DEF PairInv, PipeInv, Taken
  <2> QED
    BY <2>1, <2>2 DEF EndSession, EngineFails
<1> QED
  BY <1>1, <1>2 DEF PairInv, PipeInv, TurnInv, Matches, Busy

\* Writing, reading and closing by a client keep its own pairs.
LEMMA PairsOfPeers ==
    ASSUME TypeOK, NEW c \in Clients, PairInv(c), Peer(c) \/ Accept(c)
    PROVE  PairInv(c)'
<1>1. ASSUME NEW r \in Offered[c], PeerSends(c, r)
      PROVE  PairInv(c)'
  <2>1. r \in Requests
    BY OfferedAssumption
  <2> QED
    BY <1>1, <2>1, PairsOfSends DEF PeerSends
<1>2. CASE PeerBreaksOff(c)
  <2>1. "cut" \in Requests /\ ~peer'[c]
    BY <1>2 DEF TypeOK, Requests, PeerBreaksOff
  <2> QED
    BY <1>2, <2>1, PairsOfSends DEF PeerBreaksOff
<1>3. CASE PeerCloses(c)
  <2>1. ~peer'[c] /\ UNCHANGED <<session, answer, pipe, asked, answered>>
    BY <1>3 DEF TypeOK, PeerCloses
  <2> QED
    BY <2>1 DEF PairInv, PipeInv, TurnInv, Matches, Taken, Busy
<1>4. CASE PeerReads(c)
  BY <1>4, KeptPairs DEF PeerReads, clientVars
<1>5. CASE Accept(c)
  <2>1. /\ session[c] = "none" /\ session'[c] = "reading"
        /\ UNCHANGED <<answer, pipe, asked, answered>>
    BY <1>5 DEF TypeOK, Accept, Unread
  <2>2. asked[c] = <<>> /\ answered[c] = <<>> /\ Len(pipe[c]) <= Len(asked[c])
    BY <2>1 DEF PairInv, PipeInv
  <2>3. Len(pipe[c]) = 0
    BY <2>2 DEF TypeOK
  <2> QED
    BY <2>1, <2>2, <2>3 DEF PairInv, PipeInv, TurnInv, Matches, Taken, Busy
<1> QED
  BY <1>1, <1>2, <1>3, <1>4, <1>5 DEF Peer

AllPairs == \A c \in Clients : PairInv(c)

\* Every step keeps every session paired.
LEMMA PairsHold == TypeOK /\ AllPairs /\ [Next]_vars => AllPairs'
<1> SUFFICES ASSUME TypeOK, AllPairs, [Next]_vars, NEW d \in Clients
             PROVE  PairInv(d)'
  BY DEF AllPairs
<1>1. PairInv(d)
  BY DEF AllPairs
<1>2. CASE ListenerStops \/ UNCHANGED vars
  BY <1>1, <1>2, ListenerKeeps, KeptPairs DEF clientVars
<1>3. ASSUME NEW c \in Clients \ {d}, ClientStep(c)
      PROVE  PairInv(d)'
  BY <1>1, <1>3, OthersKeep, KeptPairs
<1>4. CASE ClientStep(d)
  BY <1>1, <1>4, PairsOfReads, PairsOfEngine, PairsOfWrites, PairsOfEnds, PairsOfPeers
     DEF ClientStep, Handler
<1> QED
  BY <1>2, <1>3, <1>4 DEF Next, ClientStep

\* The n-th answer a client gets is one to its n-th request.
THEOREM AnswersMatchRequestsCorrect == Spec => []AnswersMatchRequests
<1>1. Init => AllPairs
  <2> SUFFICES ASSUME Init, NEW c \in Clients
               PROVE  PairInv(c)
    BY DEF AllPairs
  <2>1. /\ session[c] = "none" /\ ~peer[c]
        /\ pipe[c] = <<>> /\ asked[c] = <<>> /\ answered[c] = <<>>
    BY DEF Init
  <2>2. Len(pipe[c]) = 0 /\ Len(asked[c]) = 0 /\ Len(answered[c]) = 0
    BY <2>1
  <2> QED
    BY <2>1, <2>2 DEF PairInv, PipeInv, TurnInv, Matches, Busy
<1>2. AllPairs => AnswersMatchRequests
  BY DEF AllPairs, PairInv, Matches, AnswersMatchRequests
<1> QED
  BY <1>1, <1>2, PredictionTypeCorrect, PairsHold, PTL DEF Spec

-----------------------------------------------------------------------------
(* The input mode *)

\* Toggling alternates between the modes.
LEMMA ModeAlternates ==
    /\ ModeAfter(0) = "Chinese"
    /\ \A n \in Nat : ModeAfter(n + 1) = Other(ModeAfter(n))
<1>1. 0 % 2 = 0
  OBVIOUS
<1>2. \A n \in Nat : n % 2 = 0 <=> (n + 1) % 2 # 0
  OBVIOUS
<1> QED
  BY <1>1, <1>2 DEF ModeAfter, Other

\* Every answer to a toggle or a question carries the moment it was computed; an
\* answer being written is at least as recent as those written before.
Exact(a) == a.kind = "mode" => a.mode = ModeAfter(a.at)

StampInv(c) ==
    /\ \A n \in 1..Len(answered[c]) :
          /\ answered[c][n].at <= toggles
          /\ Exact(answered[c][n])
          /\ answered[c][n].kind = "mode" =>
                \A m \in 1..(n - 1) : answered[c][m].at <= answered[c][n].at
    /\ answer[c].at <= toggles /\ Exact(answer[c])
    /\ session[c] = "writing" /\ answer[c].kind = "mode" =>
          \A n \in 1..Len(answered[c]) : answered[c][n].at <= answer[c].at

ModeInv == inputMode = ModeAfter(toggles) /\ \A c \in Clients : StampInv(c)

\* Every request and answer carries a stamp, a number of the history of modes.
LEMMA StampTypes ==
    ASSUME TypeOK, NEW c \in Clients
    PROVE  /\ answered[c] \in Seq(Answers) /\ answer[c] \in Answers
           /\ Len(answered[c]) \in Nat /\ answer[c].at \in Nat /\ toggles \in Nat
           /\ \A n \in 1..Len(answered[c]) : answered[c][n].at \in Nat
<1>1. answered[c] \in Seq(Answers) /\ answer[c] \in Answers /\ toggles \in Nat
  BY DEF TypeOK
<1>2. \A n \in 1..Len(answered[c]) : answered[c][n] \in Answers
  BY <1>1
<1> QED
  BY <1>1, <1>2 DEF Answers

\* Only a toggle changes the mode, and it counts.
LEMMA TogglesCount ==
    ASSUME TypeOK, inputMode = ModeAfter(toggles), [Next]_vars
    PROVE  inputMode' = ModeAfter(toggles') /\ toggles' \in {toggles, toggles + 1}
<1>1. CASE \E c \in Clients : Toggle(c)
  BY <1>1, ModeAlternates DEF TypeOK, Toggle
<1>2. CASE ~\E c \in Clients : Toggle(c)
  <2>1. UNCHANGED <<inputMode, toggles>>
    BY <1>2 DEF Next, Accept, ListenerStops, Unread, Handler, GetMode, BeginReady, EndReady,
          BeginPredict, EndPredict, Write, EndSession, EngineFails, Returns, Peer,
          PeerSends, PeerBreaksOff, PeerCloses, PeerReads, vars
  <2> QED
    BY <2>1
<1> QED
  BY <1>1, <1>2

\* A step that changes neither the mode nor a client's stamps keeps what they say.
LEMMA KeptStamps ==
    ASSUME TypeOK, NEW d \in Clients, StampInv(d), toggles' \in {toggles, toggles + 1},
           answered'[d] = answered[d], answer'[d] = answer[d],
           session'[d] = "writing" => session[d] = "writing"
    PROVE  StampInv(d)'
<1>1. \A k \in Nat : k <= toggles => k <= toggles'
  BY DEF TypeOK
<1> QED
  BY <1>1, StampTypes DEF StampInv, Exact

\* The answer to a toggle or a question tells the mode of its moment, which is
\* now; other answers tell no mode.
LEMMA StampsOfAnswers ==
    ASSUME TypeOK, TypeOK', NEW c \in Clients, StampInv(c), toggles' \in {toggles, toggles + 1},
           inputMode' = ModeAfter(toggles'), answered' = answered,
           \/ answer'[c] = Tells(inputMode', toggles')
           \/ \E k \in Kinds \ {"mode"} : answer'[c] = Plain(k)
    PROVE  StampInv(c)'
<1>1. \A k \in Nat : k <= toggles => k <= toggles'
  BY DEF TypeOK
<1>2. \A n \in 1..Len(answered[c]) : answered[c][n].at <= toggles'
  BY <1>1, StampTypes DEF StampInv
<1>3. answer'[c].at <= toggles' /\ Exact(answer'[c])
  BY DEF TypeOK, Tells, Plain, Exact
<1>4. answer'[c].kind = "mode" => answer'[c].at = toggles'
  <2>1. \A k : Plain(k).kind = k
    BY DEF Plain
  <2>2. Tells(inputMode', toggles').at = toggles'
    BY DEF Tells
  <2> QED
    BY <2>1, <2>2
<1> QED
  BY <1>2, <1>3, <1>4 DEF StampInv, Exact

\* An answer written now carries the mode that is current now.
LEMMA StampsOfWrites ==
    ASSUME TypeOK, NEW c \in Clients, StampInv(c), Write(c)
    PROVE  StampInv(c)'
<1>1. session[c] = "writing" /\ session'[c] = "reading" /\ toggles' = toggles
  BY DEF TypeOK, Write, GoesTo
<1>2. answer'[c] = Nothing
  BY DEF TypeOK, Write
<1>3. answer'[c].at <= toggles' /\ Exact(answer'[c])
  BY <1>1, <1>2, StampTypes DEF Nothing, Plain, Exact
<1>4. CASE answered' = answered
  BY <1>1, <1>3, <1>4 DEF StampInv, Exact
<1>5. CASE answered' = [answered EXCEPT ![c] = Append(@, answer[c])]
  <2>1. answered'[c] = Append(answered[c], answer[c])
    BY <1>5 DEF TypeOK
  <2>2. /\ Len(answered'[c]) = Len(answered[c]) + 1
        /\ answered'[c][Len(answered[c]) + 1] = answer[c]
        /\ \A n \in 1..Len(answered[c]) : answered'[c][n] = answered[c][n]
    BY <2>1, StampTypes
  <2>3. ASSUME NEW n \in 1..Len(answered'[c])
        PROVE  /\ answered'[c][n].at <= toggles'
               /\ Exact(answered'[c][n])
               /\ answered'[c][n].kind = "mode" =>
                     \A m \in 1..(n - 1) : answered'[c][m].at <= answered'[c][n].at
    <3>1. CASE n = Len(answered[c]) + 1
      <4>1. 1..(n - 1) = 1..Len(answered[c])
        BY <3>1, StampTypes
      <4> QED
        BY <1>1, <2>2, <3>1, <4>1 DEF StampInv
    <3>2. CASE n \in 1..Len(answered[c])
      <4>1. 1..(n - 1) \subseteq 1..Len(answered[c])
        BY <3>2, StampTypes
      <4> QED
        BY <1>1, <2>2, <3>2, <4>1 DEF StampInv
    <3> QED
      BY <2>2, <3>1, <3>2, StampTypes
  <2> QED
    BY <1>1, <1>3, <2>3 DEF StampInv, Exact
<1> QED
  BY <1>4, <1>5 DEF Write

\* Every step keeps the answers about modes exact.
LEMMA ModesHold == TypeOK /\ TypeOK' /\ ModeInv /\ [Next]_vars => ModeInv'
<1> SUFFICES ASSUME TypeOK, TypeOK', ModeInv, [Next]_vars
             PROVE  ModeInv'
  OBVIOUS
<1>1. inputMode' = ModeAfter(toggles') /\ toggles' \in {toggles, toggles + 1}
  BY TogglesCount DEF ModeInv
<1>2. ASSUME NEW d \in Clients
      PROVE  StampInv(d)'
  <2>1. StampInv(d)
    BY DEF ModeInv
  <2>2. CASE ListenerStops \/ UNCHANGED vars
    BY <1>1, <2>1, <2>2, ListenerKeeps, KeptStamps
  <2>3. ASSUME NEW c \in Clients \ {d}, ClientStep(c)
        PROVE  StampInv(d)'
    <3>1. UNCHANGED clientVars(d)
      BY <2>3, OthersKeep
    <3> QED
      BY <1>1, <2>1, <3>1, KeptStamps DEF clientVars
  <2>4. CASE Toggle(d) \/ GetMode(d)
    <3>1. answer'[d] = Tells(inputMode', toggles') /\ answered' = answered
      BY <2>4 DEF TypeOK, Toggle, GetMode, Answer
    <3> QED
      BY <1>1, <2>1, <3>1, StampsOfAnswers
  <2>5. CASE EndReady(d) \/ EndPredict(d)
    <3>1. answered' = answered /\ \E k \in Kinds \ {"mode"} : answer'[d] = Plain(k)
      BY <2>5 DEF TypeOK, EndReady, EndPredict, Answer, Kinds
    <3> QED
      BY <1>1, <2>1, <3>1, StampsOfAnswers
  <2>6. CASE Write(d)
    BY <2>1, <2>6, StampsOfWrites
  <2>7. CASE BeginReady(d) \/ BeginPredict(d) \/ EndSession(d) \/ EngineFails(d) \/ Accept(d)
    <3>1. answered' = answered /\ answer' = answer /\ session'[d] # "writing"
      BY <2>7 DEF TypeOK, BeginReady, BeginPredict, EndSession, EngineFails, Returns,
            GoesTo, Accept, Unread
    <3> QED
      BY <1>1, <2>1, <3>1, KeptStamps
  <2>8. CASE Peer(d)
    <3>1. answered' = answered /\ answer' = answer /\ session' = session
      BY <2>8 DEF Peer, PeerSends, PeerBreaksOff, PeerCloses, PeerReads
    <3> QED
      BY <1>1, <2>1, <3>1, KeptStamps
  <2> QED
    BY <2>2, <2>3, <2>4, <2>5, <2>6, <2>7, <2>8 DEF Next, ClientStep, Handler
<1> QED
  BY <1>1, <1>2 DEF ModeInv

\* A mode answer tells the mode its own request made or found, and a client gets
\* them in the order of their moments.
THEOREM ModeAnswersAreExactCorrect == Spec => []ModeAnswersAreExact
<1>1. Init => ModeInv
  BY ModeAlternates DEF Init, ModeInv, StampInv, Exact, Nothing, Plain
<1>2. ModeInv => ModeAnswersAreExact
  BY DEF ModeInv, StampInv, Exact, ModeAnswersAreExact
<1> QED
  BY <1>1, <1>2, PredictionTypeCorrect, ModesHold, PTL DEF Spec
=============================================================================
