--------------------------- MODULE CandidateBoard ---------------------------
(***************************************************************************)
(* What the candidate UI promises the service, whatever its threads do:    *)
(* the popup shows the presentation that was submitted last, or nothing.   *)
(* A presentation that was replaced or withdrawn is never brought up again.*)
(*                                                                         *)
(* The popup lags behind the commands, so "visible" may still be an older  *)
(* presentation; but every CHANGE of it goes to the wanted presentation or *)
(* to the empty screen.  In particular the promise does not say that a     *)
(* submitted presentation is ever shown: the code does not keep that one   *)
(* (see LastPresentationShown in CandidateRuntime).                        *)
(***************************************************************************)
EXTENDS Naturals

CONSTANT MaxPresentations   \* how many presentations are ever submitted

VARIABLES
    wanted,      \* the presentation of the last command, 0 after a withdrawal
    submitted,   \* how many presentations were submitted so far
    visible      \* the presentation on the screen, 0 when there is none

vars == <<wanted, submitted, visible>>

Init == wanted = 0 /\ submitted = 0 /\ visible = 0

Submit ==
    /\ submitted < MaxPresentations
    /\ submitted' = submitted + 1
    /\ wanted' = submitted'
    /\ UNCHANGED visible

Withdraw == wanted' = 0 /\ UNCHANGED <<submitted, visible>>

\* The screen catches up with the last command.
Refresh == visible' = wanted /\ UNCHANGED <<wanted, submitted>>

\* The popup goes away: an earlier withdrawal, or its window was destroyed.
Blank == visible' = 0 /\ UNCHANGED <<wanted, submitted>>

Next == Submit \/ Withdraw \/ Refresh \/ Blank

Spec == Init /\ [][Next]_vars

\* A withdrawn presentation does not stay on the screen.
TakeDown == wanted = 0 /\ Blank
LiveSpec == Spec /\ WF_vars(TakeDown)
=============================================================================
