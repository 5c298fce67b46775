------------------------- MODULE MCSettingsUiLoader -------------------------
(* Small instances of SettingsUiLoader for TLC: one verdict of the check is  *)
(* enough here, MCSettingsWindow has them all.                               *)
EXTENDS SettingsUiLoader

CONSTANTS t1, t2, here, newer

MCThreads == {t1, t2}

OneThread == {t1}

MCManifests == {[build |-> 3, commit |-> newer]}
=============================================================================
