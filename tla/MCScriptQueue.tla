---------------------------- MODULE MCScriptQueue ----------------------------
(***************************************************************************)
(* ScriptQueue with a queue of three, two slots, two process ids that come *)
(* free again, and a clock of two values that moves both ways.             *)
(***************************************************************************)
EXTENDS ScriptQueue

MCPids  == {2, 3}
MCTimes == {0, 1}
=============================================================================
