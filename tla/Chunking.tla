------------------------------ MODULE Chunking ------------------------------
(***************************************************************************)
(* How both sides cut a text or a payload into envelopes: chunkText and    *)
(* chunkMedia of plugin/src/wire.ts, Wire.chunk and Wire.chunkMedia of the *)
(* phone, with the signing and the size check every envelope goes through  *)
(* before it is sent.                                                      *)
(*                                                                         *)
(* A text is known by its sizes: utf8[k] and json[k] are the bytes of its  *)
(* first k units, raw and as JSON escapes them.  The plugin's units are    *)
(* UTF-16 code units, the phone's are characters; pairs holds the          *)
(* positions k such that units k and k+1 are the two halves of one         *)
(* character outside the BMP, 4 bytes together but, cut apart, 3 bytes     *)
(* each (U+FFFD), or a 6-byte escape each in JSON.                         *)
(***************************************************************************)
EXTENDS Integers, Sequences, FiniteSets

CONSTANTS
  Texts, Media,       \* inputs, see Text and Payload
  TextHead, SoleHead, \* [Sides -> Nat]: a text envelope with no text in it and no
                      \* digits of seq and total; one without seq and total
  MediaHead,          \* [Sides -> Nat]: the same for media, without metadata
  Limit,              \* MAX_ENVELOPE_BYTES (1024)
  Safety,             \* the margin for text (8)
  MediaSafety,        \* [Sides -> Nat]: the margin for media (8, 32)
  MinRoom,            \* the least room the phone assumes (64)
  UnknownHead,        \* the phone's guess at a head that does not fit (300)
  HmacBytes,          \* what the hmac field adds (54)
  Powers              \* the powers of ten; of a smaller base in an instance

Sides == {"plugin", "phone"}

\* A text of side by, in its units.
Text(t) ==
  /\ t.kind = "text" /\ t.by \in Sides /\ t.size \in Nat
  /\ t.utf8 \in [0..t.size -> Nat] /\ t.json \in [0..t.size -> Nat]
  /\ t.pairs \subseteq 1..(t.size - 1)
  /\ \A a, b \in 0..t.size : a <= b => t.utf8[b] - t.utf8[a] >= b - a
\* A payload: its bytes, the bytes of its filename, mime, caption and totalBytes
\* fields, and whether its base64 is nothing but slashes.
Payload(m) ==
  /\ m.kind = "media" /\ m.by \in Sides /\ m.size \in Nat
  /\ m.meta \in Nat /\ m.slashed \in BOOLEAN

ASSUME ChunkingAssumption ==
  /\ \A t \in Texts : Text(t)
  /\ \A m \in Media : Payload(m)
  /\ TextHead \in [Sides -> Nat] /\ SoleHead \in [Sides -> Nat] /\ MediaHead \in [Sides -> Nat]
  /\ Limit \in Nat /\ Safety \in Nat /\ MediaSafety \in [Sides -> Nat]
  /\ MinRoom \in Nat /\ UnknownHead \in Nat /\ HmacBytes \in Nat
  /\ MinRoom >= 4
  /\ Powers \subseteq Nat \ {0} /\ 1 \in Powers
  /\ \A s \in Sides : /\ SoleHead[s] <= Limit
                      /\ TextHead[s] + 3 + Safety + MinRoom <= Limit
                      /\ MediaHead[s] + 6 + MediaSafety[s] + MinRoom <= Limit

VARIABLES
  item, secret,    \* the text or payload; whether a shared secret is configured
  phase,           \* "start", "search", "fill" (media), "done"
  lo, hi, best,    \* the binary search
  cuts             \* boundaries of the pieces: piece k is cuts[k]+1..cuts[k+1]

input == <<item, secret>>
vars == <<item, secret, phase, lo, hi, best, cuts>>

Larger(x, y) == IF x >= y THEN x ELSE y
Smaller(x, y) == IF x <= y THEN x ELSE y

(***************************************************************************)
(* Sizes.                                                                  *)
(***************************************************************************)
side == item.by
IsText == item.kind = "text"
Total == item.size
At == cuts[Len(cuts)]
Pieces == Len(cuts) - 1

\* Buffer.byteLength of a slice, and its bytes inside a JSON string.
Bytes(a, b) == item.utf8[b] - item.utf8[a] + (IF a \in item.pairs THEN 2 ELSE 0)
Escaped(a, b) == item.json[b] - item.json[a]
                 + (IF a \in item.pairs THEN 4 ELSE 0)
                 + (IF b \in item.pairs THEN 4 ELSE 0)
Base64(a, b) == 4 * ((b - a + 2) \div 3)

\* A number has as many digits as there are powers up to it.
Digits(k) == Cardinality({p \in Powers : p <= k})
Hmac == IF secret /\ side = "phone" THEN HmacBytes ELSE 0

AtLeastMin(x) == IF side = "phone" THEN Larger(MinRoom, x) ELSE x
\* Measured on a sample with seq 1 and total 99; the hmac is not in it.
\* Mutant: the sample has no seq and total.
RoomOfSole == AtLeastMin(Limit - SoleHead[side] - Safety)
Room == AtLeastMin(Limit - (TextHead[side] + 3) - Safety)
Fits(a, b) == Bytes(a, b) <= Room

\* The samples of chunkMedia: seq 1 of 999 with the metadata, seq 999 of 999
\* without.  The phone cannot measure a head above the limit, and guesses.
FirstHead == LET h == MediaHead[side] + 4 + item.meta IN
             IF side = "phone" /\ h > Limit THEN UnknownHead ELSE h
MediaRoom(first) ==
  AtLeastMin(Limit - (IF first THEN FirstHead ELSE MediaHead[side] + 6) - MediaSafety[side])
SrcBytes(first) == Larger(3, (MediaRoom(first) \div 4) * 3)

(***************************************************************************)
(* The loops.                                                              *)
(***************************************************************************)
Init ==
  /\ item \in Texts \/ item \in Media
  /\ secret \in BOOLEAN
  /\ phase = "start"
  /\ lo = 1 /\ hi = 0 /\ best = 1
  /\ cuts = <<0>>

\* The plugin never tries more units than the room has bytes.
Upper(a) == IF side = "plugin" THEN Smaller(Total - a, Room) ELSE Total - a

FitsUnsplit == SoleHead[side] + Escaped(0, Total) <= Limit

Unsplit ==
  /\ phase = "start" /\ IsText
  /\ FitsUnsplit
  /\ cuts' = <<0, Total>> /\ phase' = "done"
  /\ UNCHANGED <<lo, hi, best, input>>

Begin ==
  /\ phase = "start" /\ IsText
  /\ ~FitsUnsplit
  /\ phase' = "search" /\ hi' = Upper(0)
  /\ UNCHANGED <<cuts, lo, best, input>>

Middle == (lo + hi) \div 2
\* Mutant: a try is skipped.
AboveSkipping(mid) == mid + 2
Above(mid) == mid + 1
\* Mutant: a try is skipped.
BelowSkipping(mid) == mid - 2
Below(mid) == mid - 1
\* Mutant: the last unit is left behind.
MoreButOne(end) == end + 1 < Total
More(end) == end < Total

Search ==
  /\ phase = "search" /\ lo <= hi
  /\ IF Fits(At, At + Middle)
     THEN best' = Middle /\ lo' = Above(Middle) /\ UNCHANGED hi
     ELSE hi' = Below(Middle) /\ UNCHANGED <<lo, best>>
  /\ UNCHANGED <<phase, cuts, input>>

Cut ==
  /\ phase = "search" /\ lo > hi
  /\ cuts' = Append(cuts, At + best)
  /\ lo' = 1 /\ best' = 1
  /\ IF More(At + best) THEN hi' = Upper(At + best) /\ UNCHANGED phase
                          ELSE phase' = "done" /\ UNCHANGED hi
  /\ UNCHANGED input

\* One subarray; the first also when there are no bytes at all.
Fill ==
  /\ ~IsText /\ phase \in {"start", "fill"}
  /\ LET end == Smaller(At + SrcBytes(phase = "start"), Total) IN
       /\ cuts' = Append(cuts, end)
       /\ phase' = IF More(end) THEN "fill" ELSE "done"
  /\ UNCHANGED <<lo, hi, best, input>>

Next == Unsplit \/ Begin \/ Search \/ Cut \/ Fill
Spec == Init /\ [][Next]_vars

(***************************************************************************)
(* The envelope of piece k as encode sees it: JSONEncoder writes a slash   *)
(* of the base64 as two characters, and sendEnvelope has added the hmac.   *)
(***************************************************************************)
Raw(k) == IF IsText THEN Bytes(cuts[k], cuts[k + 1]) ELSE Base64(cuts[k], cuts[k + 1])
Body(k) ==
  IF IsText THEN Escaped(cuts[k], cuts[k + 1])
  ELSE Raw(k) * (IF side = "phone" /\ item.slashed THEN 2 ELSE 1)
Numbers(k) == IF IsText /\ FitsUnsplit THEN 0 ELSE Digits(k) + Digits(Pieces)
Header(k) ==
  IF ~IsText THEN MediaHead[side] + Numbers(k) + (IF k = 1 THEN item.meta ELSE 0)
  ELSE IF FitsUnsplit THEN SoleHead[side] ELSE TextHead[side] + Numbers(k)
Envelope(k) == Header(k) + Body(k) + Hmac

-----------------------------------------------------------------------------
(***************************************************************************)
(* Properties.                                                             *)
(***************************************************************************)
\* Every variable has its type.
TypeOK ==
  /\ item \in Texts \/ item \in Media
  /\ secret \in BOOLEAN
  /\ phase \in {"start", "search", "fill", "done"}
  /\ lo \in Nat /\ hi \in Nat /\ best \in Nat
  /\ cuts \in Seq(0..Total) /\ cuts # <<>>

\* The pieces are the input: they begin at its first unit, follow one another
\* without gap or overlap, none is empty but that of an empty input, and a
\* finished cut reaches the end.  (A receiver that joins them by seq has the
\* input, but for a pair of halves that a boundary separates.)
Seamless ==
  /\ cuts[1] = 0
  /\ \A k \in 1..Pieces : cuts[k] < cuts[k + 1] \/ Total = 0
  /\ phase = "done" => Pieces >= 1 /\ At = Total

\* A piece the loop had to make although nothing fits: one unit wider than the
\* room, or a payload whose metadata leaves no room.
Misfit(k) ==
  IF IsText THEN cuts[k + 1] = cuts[k] + 1 /\ ~Fits(cuts[k], cuts[k + 1])
  ELSE k = 1 /\ MediaHead[side] + 4 + item.meta + MediaSafety[side] + MinRoom > Limit

\* The digits of seq and total that the sample and the margin hold.
Provided(k) ==
  IF IsText THEN 3 + Safety ELSE (IF k = 1 THEN 4 ELSE 6) + MediaSafety[side]

\* An envelope is above the limit by no more than what was not measured when
\* the room was computed: the escapes of its text or base64, the hmac, and the
\* digits of seq and total beyond those provided for.  In particular a plain
\* text without a secret always fits while seq and total have 11 digits
\* together, in less than 100000 pieces.
Surplus(k) == Larger(0, Numbers(k) - Provided(k))
Unmeasured(k) ==
  Hmac + Surplus(k) + (IF IsText /\ FitsUnsplit THEN 0 ELSE Body(k) - Raw(k))
OverByUnmeasured ==
  phase = "done" => \A k \in 1..Pieces :
    Misfit(k) \/ Envelope(k) <= Limit + Unmeasured(k)

\* "Split text into N user envelopes that each fit MAX_ENVELOPE_BYTES"
\* (wire.ts), "that each fit `maxEnvelopeBytes`" (Wire.swift).
EnvelopesFit == phase = "done" => \A k \in 1..Pieces : Misfit(k) \/ Envelope(k) <= Limit

\* The binary search of both sides cuts a text as the definition does: every
\* piece is the longest that fits, or one unit.
Reference == INSTANCE Greedy WITH
  n <- Total,
  fits <- IF IsText THEN {p \in (0..Total) \X (0..Total) : Fits(p[1], p[2])} ELSE {},
  cuts <- IF IsText THEN cuts ELSE <<0>>,
  done <- IsText /\ phase = "done"
CutsGreedily == Reference!Spec
=============================================================================
