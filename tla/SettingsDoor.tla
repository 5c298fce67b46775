---------------------------- MODULE SettingsDoor -----------------------------
(***************************************************************************)
(* What the settings UI promises to the process that opens it              *)
(* (src/settings/settings_ui_api.h): requests are queued, and the UI thread*)
(* deals with each of them in the order they were made, once, for as long  *)
(* as it is there.  Opening may fail, and then says so.                    *)
(***************************************************************************)
EXTENDS Sequences

VARIABLES
    alive,      \* the UI thread takes requests
    requests,   \* "show" and "hide" requests not yet dealt with
    visible     \* the settings window is on the screen

doorVars == <<alive, requests, visible>>

DoorInit == alive = FALSE /\ requests = <<>> /\ visible = FALSE

Opens ==
    /\ ~alive
    /\ alive' = TRUE
    /\ UNCHANGED <<requests, visible>>

Asks(r) ==
    /\ alive
    /\ requests' = Append(requests, r)
    /\ UNCHANGED <<alive, visible>>

\* The oldest request is dealt with.
Serves ==
    /\ requests # <<>>
    /\ requests' = Tail(requests)
    /\ visible' \in IF Head(requests) = "show" THEN {TRUE, visible} ELSE {FALSE}
    /\ UNCHANGED alive

\* The user closes the window.
Dismissed == visible /\ visible' = FALSE /\ UNCHANGED <<alive, requests>>

\* The thread stops taking requests, and what is left of them is dropped.
Shuts ==
    /\ alive
    /\ alive' = FALSE
    /\ requests' = <<>>
    /\ UNCHANGED visible

DoorNext == Opens \/ (\E r \in {"show", "hide"} : Asks(r)) \/ Serves \/ Dismissed \/ Shuts

DoorSpec == DoorInit /\ [][DoorNext]_doorVars

\* Whoever is there deals with requests; without a thread no window stays.
LiveDoorSpec ==
    /\ DoorSpec
    /\ WF_doorVars(Serves)
    /\ WF_doorVars(~alive /\ Dismissed)
=============================================================================
