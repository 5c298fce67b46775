-------------------------- MODULE MCPredictionPipe --------------------------
(* A small instance of PredictionPipe for TLC: one client with two requests, *)
(* which get their answers paired by position, and one whose only request    *)
(* may be any that changes the mode or ends a handler.                       *)
EXTENDS PredictionPipe

CONSTANTS c1, c2

MCClients == {c1, c2}

MCOffered ==
    [c \in MCClients |-> IF c = c1 THEN {"toggle", "ready", "predict", "cut"}
                         ELSE {"toggle", "get", "predict", "empty", "huge", "unknown"}]

MCMaxRequests == [c \in MCClients |-> IF c = c1 THEN 2 ELSE 1]
=============================================================================
