------------------------------ MODULE MCInbound -----------------------------
(* Instances of Inbound for TLC: a text and a control envelope under a      *)
(* shared secret, or two attachments without; times are in units of 30 s.   *)
EXTENDS Inbound, TLC

MCKindText == "text" :> "text" @@ "ctl" :> "control"
MCChunksText == "text" :> 2 @@ "ctl" :> 1
MCKindMedia == "pic" :> "media" @@ "big" :> "media"
MCChunksMedia == "pic" :> 2 @@ "big" :> 4
MCAhead == -1

\* Handler activations are interchangeable, and no property names one.
MCSymmetry == Permutations(Calls)
=============================================================================
