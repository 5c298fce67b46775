-------------------------- MODULE MCServiceProcess --------------------------
(* ServiceProcess for TLC; its constants need no model values. *)
EXTENDS ServiceProcess
=============================================================================
