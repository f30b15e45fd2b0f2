----------------------------- MODULE MCScriptDB -----------------------------
(***************************************************************************)
(* ScriptDB for TLC.  The second topic extends the name of the first one.  *)
(***************************************************************************)
EXTENDS ScriptDB

MCTopics == {<<10>>, <<10, 11>>, <<12>>}
MCPaths == {<<10>>, <<10, 11>>}
=============================================================================
