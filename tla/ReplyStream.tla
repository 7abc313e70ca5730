---------------------------- MODULE ReplyStream ----------------------------
(***************************************************************************)
(* What the output side of a client connection promises, without any       *)
(* buffer: the bytes of the replies form one numbered stream, and the peer *)
(* receives a prefix of it, in order, nothing skipped and nothing twice,   *)
(* until the connection is closed.  ReplyBuffer implements this module.    *)
(***************************************************************************)
EXTENDS Naturals, Sequences

VARIABLES
  accepted,   \* how many reply bytes the server has taken in so far
  delivered,  \* the bytes the peer's socket has been given, by number
  open        \* the connection still exists

svars == <<accepted, delivered, open>>

(* The first n bytes of the stream. *)
Prefix(n) == [i \in 1..n |-> i]

SInit ==
  /\ accepted = 0
  /\ delivered = << >>
  /\ open = TRUE

SAccept ==
  /\ accepted' \in Nat
  /\ accepted' >= accepted
  /\ UNCHANGED <<delivered, open>>

SDeliver ==
  /\ open
  /\ \E n \in Len(delivered)..accepted : delivered' = Prefix(n)
  /\ UNCHANGED <<accepted, open>>

SClose ==
  /\ open' = FALSE
  /\ UNCHANGED <<accepted, delivered>>

SNext == SAccept \/ SDeliver \/ SClose

SSpec == SInit /\ [][SNext]_svars
=============================================================================
