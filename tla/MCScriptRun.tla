----------------------------- MODULE MCScriptRun -----------------------------
(* TLC instances of ScriptRun. *)
EXTENDS ScriptRun
=============================================================================
