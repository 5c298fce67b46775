SPECIFICATION FairSpec
CONSTANTS
    c1 = c1
    c2 = c2
    Clients <- MCClients
    Offered <- MCOffered
    MaxRequests <- MCMaxRequests
    AnswerLimit = 1
INVARIANTS
    TypeOK
    AnswersMatchRequests
    ModeAnswersAreExact
PROPERTIES
    RequestsAreAnswered
    SessionsEnd
CHECK_DEADLOCK FALSE
