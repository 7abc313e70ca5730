--------------------------- MODULE MCClientTable ---------------------------
(***************************************************************************)
(* ClientTable with three fds, which come free again, and three connections. *)
(***************************************************************************)
EXTENDS ClientTable

MCFds == {5, 6, 7}
=============================================================================
