------------------------------ MODULE MCReply ------------------------------
(* A small instance of Reply for TLC.                                      *)
EXTENDS Reply, TLC
CONSTANTS r1, r2, r3

\* r2 carries two files; r1 and r3 are texts, or empty.
MCUrls == (r1 :> 0) @@ (r2 :> 2) @@ (r3 :> 0)
=============================================================================
