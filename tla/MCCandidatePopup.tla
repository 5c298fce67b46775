-------------------------- MODULE MCCandidatePopup --------------------------
(* Small instances of CandidatePopup for TLC: headers the pipe server lets   *)
(* through, text rectangles around the borders of a small work area.         *)
EXTENDS CandidatePopup

CONSTANTS l1, l2

\* A short list, full columns in two variants, and a list that needs three
\* columns, with the first or the last candidate selected.
MCPresentations ==
    {p \in [list : {l1, l2}, count : {1, 9, 20}, selection : {0, 8, 19},
            columns : {1, 3}, numberColumn : {0, 2}] :
       /\ ValidHeader(p)
       /\ p.selection \in {0, p.count - 1}
       /\ p.numberColumn = 2 <=> p.selection = 19
       /\ p.count = 1 => p.columns = 1
       /\ p.list = l2 => p.count = 9 /\ p.selection = 0}

MCArea == [left |-> 0, top |-> 0, right |-> 400, bottom |-> 500]

MCAnchors ==
    {CopiedAnchor(a) : a \in {[x |-> -20, top |-> 10, bottom |-> 30],
                              [x |-> 100, top |-> 120, bottom |-> 140],
                              [x |-> 380, top |-> 460, bottom |-> 480],
                              [x |-> 390, top |-> 530, bottom |-> 520]}}
=============================================================================
