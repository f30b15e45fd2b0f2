----------------------------- MODULE MCIpcSession -----------------------------
(***************************************************************************)
(* IpcSession for TLC.                                                     *)
(***************************************************************************)
EXTENDS IpcSession

MCNL == <<0, 0>>
MCBytes == {<<m, k>> : m \in 0..Len(Size), k \in 0..3}
MCChunks == {SubSeq(Wire, i, j) : i, j \in 1..Len(Wire)}
Sizes == <<0, 3, 1, 1>>  \* the second may or may not fit into the buffer
=============================================================================
