--------------------------- MODULE MCReplyBuffer ---------------------------
(***************************************************************************)
(* ReplyBuffer for buffers of a few bytes, so that replies spill into the  *)
(* list, chunks fill up and one event does not empty them.                 *)
(***************************************************************************)
EXTENDS ReplyBuffer
=============================================================================
