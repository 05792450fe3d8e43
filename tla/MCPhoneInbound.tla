--------------------------- MODULE MCPhoneInbound ---------------------------
(* A small instance of PhoneInbound for TLC.                               *)
EXTENDS PhoneInbound, TLC
CONSTANTS m1, m2, m3

\* m1 is a text of two chunks; m2 and m3 have one each.
MCChunks == (m1 :> 2) @@ (m2 :> 1) @@ (m3 :> 1)
MCSymmetry == Permutations({m2, m3})
=============================================================================
