-------------------------- MODULE MCSettingsWindow --------------------------
(* Small instances of SettingsWindow for TLC: builds around build 2, this    *)
(* very commit and another one.                                              *)
EXTENDS SettingsWindow

CONSTANTS here, other

MCManifests == [build : 0..3, commit : {here, other}]
=============================================================================
