------------------------------ MODULE MCOutbox ------------------------------
(* Small instances of Outbox for TLC.                                      *)
EXTENDS Outbox, TLC
CONSTANTS p1, p2, m1, m2, m3

\* m1 has two chunks and shares p1 with m2; m3 goes to the other peer.
MCDest == (m1 :> p1) @@ (m2 :> p1)
MCDest3 == MCDest @@ (m3 :> p2)
MCChunks == (m1 :> 2) @@ (m2 :> 1)
MCChunks3 == MCChunks @@ (m3 :> 1)
=============================================================================
