---------------------------- MODULE MCBioWorker ----------------------------
(***************************************************************************)
(* BioWorker for the server's thread and one other that waits, and three   *)
(* jobs: one executed, one in the list and one to come.                    *)
(***************************************************************************)
EXTENDS BioWorker

CONSTANTS t1

MCThreads == {Main, t1}
=============================================================================
