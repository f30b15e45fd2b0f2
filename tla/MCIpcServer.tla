----------------------------- MODULE MCIpcServer -----------------------------
(***************************************************************************)
(* IpcServer for TLC: either the built-in ping is in use and the other     *)
(* topics have a script, or a script takes ping over.                      *)
(***************************************************************************)
EXTENDS IpcServer

MCScriptDirs == {{"other"}, {"ping"}}
=============================================================================
