------------------------------- MODULE Greedy -------------------------------
(***************************************************************************)
(* What cutting a text into envelopes means: from the left, each piece is  *)
(* the longest one that fits, or a single unit when none does.  Chunking   *)
(* finds that piece by binary search; this is the definition it is         *)
(* measured against.                                                       *)
(***************************************************************************)
EXTENDS Integers, Sequences

VARIABLES
  n,      \* units of the text
  fits,   \* the pairs <<a, b>> such that units a+1..b fit one envelope
  cuts,   \* the boundaries chosen so far, the first of them 0
  done

vars == <<n, fits, cuts, done>>

Init == cuts = <<0>> /\ done = FALSE

\* The whole text in one envelope.
Whole == cuts = <<0>> /\ cuts' = <<0, n>> /\ done' = TRUE

Longest(a, b) == /\ b = a + 1 \/ <<a, b>> \in fits
                 /\ \A c \in (b + 1)..n : <<a, c>> \notin fits

Cut == LET a == cuts[Len(cuts)] IN
  /\ a < n
  /\ \E b \in (a + 1)..n :
       /\ Longest(a, b)
       /\ cuts' = Append(cuts, b)
       /\ done' = (b = n)

Next == ~done /\ (Whole \/ Cut) /\ UNCHANGED <<n, fits>>

Spec == Init /\ [][Next]_vars
=============================================================================
