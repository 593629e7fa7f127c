--------------------------- MODULE MCRecorderWorker ---------------------------
(***************************************************************************)
(* Two exports and chunks that cross the end of a segment, in a buffer of  *)
(* two segments and behind a queue of one command.                         *)
(***************************************************************************)
EXTENDS RecorderWorker

MCJob == 1..2
MCChunk == {3}
MCLatest == {2}
MCFaultKinds == {"crash", "remove", "export"}
=============================================================================
