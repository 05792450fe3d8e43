-------------------------- MODULE ChunkingProofs --------------------------
(***************************************************************************)
(* Proofs about Chunking for every text, payload and limit that meets      *)
(* ChunkingAssumption: the pieces are seamless, an envelope is over the    *)
(* limit by no more than was never measured, and the binary search cuts    *)
(* as the greedy definition does.                                          *)
(***************************************************************************)
EXTENDS Chunking, FiniteSetTheorems, TLAPS

(***************************************************************************)
(* The inductive invariant.  Searching is the invariant of the binary      *)
(* search: whatever is below lo fits, whatever is above hi does not.       *)
(***************************************************************************)
Searching ==
  /\ At < Total
  /\ lo >= 1 /\ hi <= Total - At /\ lo <= hi + 1
  /\ best = (IF lo = 1 THEN 1 ELSE lo - 1)
  /\ lo > 1 => Fits(At, At + (lo - 1))
  /\ \A c \in 0..Total : c > At + hi => ~Fits(At, c)

Fresh == cuts = <<0>> /\ lo = 1 /\ best = 1

PieceOK(k) ==
  IF IsText THEN FitsUnsplit \/ Misfit(k) \/ Fits(cuts[k], cuts[k + 1])
  ELSE cuts[k + 1] - cuts[k] <= SrcBytes(k = 1)

Shape ==
  /\ phase = "start" => Fresh
  /\ phase = "search" => IsText /\ ~FitsUnsplit
  /\ phase = "fill" => ~IsText /\ Pieces >= 1 /\ At < Total
  /\ phase = "done" /\ IsText /\ FitsUnsplit => cuts = <<0, Total>>

Inv ==
  /\ TypeOK
  /\ Shape
  /\ phase = "search" => Searching
  /\ Seamless
  /\ \A k \in 1..Pieces : PieceOK(k)

-----------------------------------------------------------------------------
(***************************************************************************)
(* Facts about sizes.                                                      *)
(***************************************************************************)
\* What an item is: its side, its kind and its size.
LEMMA Items ==
  ASSUME TypeOK
  PROVE  /\ side \in Sides /\ Total \in Nat
         /\ IsText => Text(item)
         /\ ~IsText => Payload(item)
<1>1. CASE item \in Texts
  BY <1>1, ChunkingAssumption DEF Text, side, Total, IsText
<1>2. CASE item \in Media
  BY <1>2, ChunkingAssumption DEF Payload, side, Total, IsText
<1> QED BY <1>1, <1>2 DEF TypeOK

\* The room for text is what the head and the margin leave, on both sides.
LEMMA Rooms ==
  ASSUME TypeOK
  PROVE  /\ Room = Limit - (TextHead[side] + 3) - Safety
         /\ Room \in Nat /\ Room >= 4
<1>1. side \in Sides BY Items
<1>2. /\ TextHead[side] \in Nat /\ Limit \in Nat /\ Safety \in Nat /\ MinRoom \in Nat
      /\ MinRoom >= 4 /\ TextHead[side] + 3 + Safety + MinRoom <= Limit
  BY <1>1, ChunkingAssumption
<1> QED BY <1>2 DEF Room, AtLeastMin, Larger

\* The bytes of a slice grow with it, a byte at least for every unit.
LEMMA Slices ==
  ASSUME TypeOK, IsText
  PROVE  /\ \A a, b \in 0..Total : Bytes(a, b) \in Int
         /\ \A a, b \in 0..Total : a <= b => Bytes(a, b) >= b - a
         /\ \A a, b, c \in 0..Total : b <= c => Bytes(a, b) <= Bytes(a, c)
<1>1. Text(item) BY Items
<1> DEFINE u == item.utf8
           n == item.size
<1>2. u \in [0..n -> Nat] /\ n \in Nat /\ (\A a, b \in 0..n : a <= b => u[b] - u[a] >= b - a)
  BY <1>1 DEF Text
<1>3. \A a, b \in 0..n : Bytes(a, b) = u[b] - u[a] + (IF a \in item.pairs THEN 2 ELSE 0)
  BY DEF Bytes
<1> DEFINE d(a) == IF a \in item.pairs THEN 2 ELSE 0
<1>8. \A a : d(a) \in Nat OBVIOUS
<1>9. \A a, b \in 0..n : Bytes(a, b) = u[b] - u[a] + d(a) BY <1>3
<1> HIDE DEF u, n, d
<1>4. \A x \in 0..n : u[x] \in Nat BY <1>2
<1>5. \A a, b \in 0..n : Bytes(a, b) \in Int BY <1>4, <1>8, <1>9
<1>6. ASSUME NEW a \in 0..n, NEW b \in 0..n, a <= b
      PROVE  Bytes(a, b) >= b - a
  <2>1. u[b] - u[a] >= b - a BY <1>2, <1>6
  <2>2. Bytes(a, b) = u[b] - u[a] + d(a) BY <1>9
  <2>3. u[a] \in Nat /\ u[b] \in Nat /\ d(a) \in Nat BY <1>4, <1>8
  <2> QED BY <2>1, <2>2, <2>3, <1>2
<1>7. ASSUME NEW a \in 0..n, NEW b \in 0..n, NEW c \in 0..n, b <= c
      PROVE  Bytes(a, b) <= Bytes(a, c)
  <2>1. u[c] - u[b] >= c - b BY <1>2, <1>7
  <2>2. Bytes(a, b) = u[b] - u[a] + d(a) /\ Bytes(a, c) = u[c] - u[a] + d(a) BY <1>9
  <2>3. u[a] \in Nat /\ u[b] \in Nat /\ u[c] \in Nat /\ d(a) \in Nat BY <1>4, <1>8
  <2>4. b \in Int /\ c \in Int /\ c - b >= 0 BY <1>2, <1>7
  <2>5. u[c] - u[b] >= 0 BY <2>1, <2>3, <2>4
  <2> QED BY <2>2, <2>3, <2>5
<1> QED BY <1>5, <1>6, <1>7 DEF Total, n

\* A text of no units fits unsplit.
LEMMA Empty ==
  ASSUME TypeOK, IsText, ~FitsUnsplit
  PROVE  Total > 0
<1>1. Text(item) /\ side \in Sides BY Items
<1>2. SoleHead[side] \in Nat /\ Limit \in Nat /\ SoleHead[side] <= Limit
  BY <1>1, ChunkingAssumption
<1> SUFFICES ASSUME item.size = 0 PROVE FALSE BY <1>1 DEF Text, Total
<1>3. item.json[0] \in Nat /\ 0 \notin item.pairs BY <1>1 DEF Text
<1>4. Escaped(0, 0) = 0 BY <1>3 DEF Escaped
<1> QED BY <1>2, <1>4 DEF FitsUnsplit, Total

\* The most bytes of a payload one envelope takes are at least 3.
LEMMA Sources ==
  ASSUME TypeOK, ~IsText, NEW f \in BOOLEAN
  PROVE  /\ MediaRoom(f) \in Int
         /\ SrcBytes(f) \in Nat /\ SrcBytes(f) >= 3
<1>1. Payload(item) /\ side \in Sides BY Items
<1>2. item.meta \in Nat /\ MediaHead[side] \in Nat /\ MediaSafety[side] \in Nat
  BY <1>1, ChunkingAssumption DEF Payload
<1>3. Limit \in Nat /\ MinRoom \in Nat /\ UnknownHead \in Nat BY ChunkingAssumption
<1>4. FirstHead \in Nat BY <1>2, <1>3 DEF FirstHead
<1>5. MediaRoom(f) \in Int BY <1>2, <1>3, <1>4 DEF MediaRoom, AtLeastMin, Larger
<1> QED BY <1>5 DEF SrcBytes, Larger

\* Appending a boundary, in terms of indices.
LEMMA Appended ==
  ASSUME NEW S, NEW c \in Seq(S), NEW x \in S
  PROVE  /\ Append(c, x) \in Seq(S) /\ Append(c, x) # <<>>
         /\ Len(Append(c, x)) = Len(c) + 1 /\ Len(c) \in Nat
         /\ \A i \in 1..Len(c) : Append(c, x)[i] = c[i]
         /\ Append(c, x)[Len(c) + 1] = x
OBVIOUS

LEMMA Elements ==
  ASSUME NEW S, NEW c \in Seq(S)
  PROVE  \A k \in 1..Len(c) : c[k] \in S
OBVIOUS

\* The last boundary is one of the text.
LEMMA Last ==
  ASSUME TypeOK
  PROVE  /\ Len(cuts) \in Nat /\ Len(cuts) >= 1
         /\ At \in 0..Total /\ Pieces \in Nat
         /\ \A k \in 1..Len(cuts) : cuts[k] \in 0..Total
<1>1. Total \in Nat BY Items
<1>2. cuts \in Seq(0..Total) /\ cuts # <<>> BY DEF TypeOK
<1>3. Len(cuts) \in Nat /\ Len(cuts) # 0 BY <1>2
<1>4. \A k \in 1..Len(cuts) : cuts[k] \in 0..Total BY <1>2, Elements
<1> QED BY <1>3, <1>4 DEF At, Pieces

-----------------------------------------------------------------------------
(***************************************************************************)
(* The invariant.                                                          *)
(***************************************************************************)
LEMMA Initially == Init => Inv
<1> SUFFICES ASSUME Init PROVE Inv OBVIOUS
<1>1. item \in Texts \/ item \in Media BY DEF Init
<1>2. item.size \in Nat BY <1>1, ChunkingAssumption DEF Text, Payload
<1>3. TypeOK BY <1>1, <1>2 DEF Init, TypeOK, Total
<1>4. Len(cuts) = 1 /\ cuts[1] = 0 BY DEF Init
<1>5. Pieces = 0 BY <1>4 DEF Pieces
<1>6. Shape BY DEF Init, Shape, Fresh
<1>7. Seamless BY <1>4, <1>5 DEF Init, Seamless
<1>8. \A k \in 1..Pieces : PieceOK(k) BY <1>5
<1> QED BY <1>3, <1>6, <1>7, <1>8 DEF Init, Inv

\* What an extension of cuts by the boundary x keeps and adds, when the pieces
\* are what they should be before and the new piece is.
LEMMA Extended ==
  ASSUME Inv, NEW x \in 0..Total, cuts' = Append(cuts, x), UNCHANGED input,
         At < x \/ (Total = 0 /\ Pieces = 0),
         IF IsText
         THEN FitsUnsplit \/ (x = At + 1 /\ ~Fits(At, x)) \/ Fits(At, x)
         ELSE x - At <= SrcBytes(Pieces = 0)
  PROVE  /\ cuts' \in Seq(0..Total) /\ cuts' # <<>>
         /\ At' = x /\ Pieces' = Pieces + 1
         /\ cuts'[1] = 0
         /\ \A k \in 1..Pieces' : cuts'[k] < cuts'[k + 1] \/ Total' = 0
         /\ \A k \in 1..Pieces' : PieceOK(k)'
<1> DEFINE n == Len(cuts)
<1>1. TypeOK BY DEF Inv
<1>2. n \in Nat /\ n >= 1 /\ Pieces = n - 1 BY <1>1, Last DEF Pieces
<1>3. cuts \in Seq(0..Total) BY <1>1 DEF TypeOK
<1>4. /\ cuts' \in Seq(0..Total) /\ cuts' # <<>> /\ Len(cuts') = n + 1
      /\ \A i \in 1..n : cuts'[i] = cuts[i]
      /\ cuts'[n + 1] = x
  BY <1>3, Appended
<1>5. At' = x BY <1>2, <1>4 DEF At
<1>6. Pieces' = Pieces + 1 /\ Pieces' = n BY <1>2, <1>4 DEF Pieces
<1>7. cuts'[1] = 0 BY <1>2, <1>4 DEF Inv, Seamless
<1>8. item' = item /\ secret' = secret BY DEF input
<1>9. Total' = Total /\ IsText' = IsText /\ side' = side BY <1>8 DEF Total, IsText, side
<1>10. ASSUME NEW k \in 1..(n - 1)
       PROVE  /\ cuts'[k] = cuts[k] /\ cuts'[k + 1] = cuts[k + 1]
              /\ cuts[k] < cuts[k + 1] \/ Total = 0
              /\ PieceOK(k)
  BY <1>2, <1>4, <1>10 DEF Inv, Seamless
<1>11. cuts'[n] = At /\ cuts'[n + 1] = x BY <1>2, <1>4 DEF At
<1>12. ASSUME NEW k \in 1..n PROVE cuts'[k] < cuts'[k + 1] \/ Total' = 0
  <2>1. CASE k = n BY <2>1, <1>9, <1>11
  <2>2. CASE k # n
    <3>1. k \in 1..(n - 1) BY <2>2, <1>2
    <3> QED BY <3>1, <1>9, <1>10
  <2> QED BY <2>1, <2>2
<1>13. ASSUME NEW k \in 1..n PROVE PieceOK(k)'
  <2>1. /\ FitsUnsplit' = FitsUnsplit
        /\ \A a, b : Fits(a, b)' = Fits(a, b)
        /\ \A f : SrcBytes(f)' = SrcBytes(f)
    BY <1>8 DEF FitsUnsplit, Fits, SrcBytes, MediaRoom, FirstHead, Room, Bytes, Escaped,
      AtLeastMin, Total, side
  <2>2. CASE k = n
    <3>1. (k = 1) = (Pieces = 0) BY <2>2, <1>2
    <3>2. CASE IsText
      <4>1. FitsUnsplit \/ (x = At + 1 /\ ~Fits(At, x)) \/ Fits(At, x) BY <3>2
      <4>2. Misfit(k)' = (cuts'[k + 1] = cuts'[k] + 1 /\ ~Fits(cuts'[k], cuts'[k + 1]))
        BY <3>2, <1>9, <2>1 DEF Misfit
      <4> QED BY <4>1, <4>2, <3>2, <2>1, <2>2, <1>9, <1>11 DEF PieceOK
    <3>3. CASE ~IsText
      BY <3>1, <3>3, <2>1, <2>2, <1>9, <1>11 DEF PieceOK
    <3> QED BY <3>2, <3>3
  <2>3. CASE k # n
    <3>1. k \in 1..(n - 1) BY <2>3, <1>2
    <3>2. cuts'[k] = cuts[k] /\ cuts'[k + 1] = cuts[k + 1] /\ PieceOK(k) BY <3>1, <1>10
    <3>3. CASE IsText
      <4>1. Misfit(k)' = (cuts'[k + 1] = cuts'[k] + 1 /\ ~Fits(cuts'[k], cuts'[k + 1]))
        BY <3>3, <1>9, <2>1 DEF Misfit
      <4>2. Misfit(k)' = Misfit(k) BY <4>1, <3>2, <3>3 DEF Misfit
      <4> QED BY <4>2, <3>2, <3>3, <2>1, <1>9 DEF PieceOK
    <3>4. CASE ~IsText BY <3>2, <3>4, <2>1, <1>9 DEF PieceOK
    <3> QED BY <3>3, <3>4
  <2> QED BY <2>2, <2>3
<1> QED BY <1>4, <1>5, <1>6, <1>7, <1>12, <1>13

\* The top of the range is within the text, and nothing above it fits.
LEMMA Uppers ==
  ASSUME TypeOK, IsText, NEW a \in 0..Total, a < Total
  PROVE  /\ Upper(a) \in Nat /\ Upper(a) <= Total - a
         /\ \A c \in 0..Total : c > a + Upper(a) => ~Fits(a, c)
<1>1. Total \in Nat BY Items
<1>2. Room \in Nat BY Rooms
<1>3. Upper(a) \in Nat /\ Upper(a) <= Total - a BY <1>1, <1>2 DEF Upper, Smaller
<1>4. ASSUME NEW c \in 0..Total, c > a + Upper(a) PROVE ~Fits(a, c)
  <2>1. Upper(a) = Room BY <1>1, <1>2, <1>4 DEF Upper, Smaller
  <2>2. a <= c /\ c - a > Room BY <1>1, <1>2, <1>4, <2>1
  <2>3. Bytes(a, c) >= c - a /\ Bytes(a, c) \in Int BY <2>2, Slices
  <2> QED BY <2>2, <2>3, <1>1, <1>2 DEF Fits
<1> QED BY <1>3, <1>4

\* A step that leaves the pieces alone keeps what is known of them.
LEMMA PiecesKept ==
  ASSUME Inv, UNCHANGED <<input, cuts>>, phase' # "done"
  PROVE  Seamless' /\ (\A k \in 1..Pieces : PieceOK(k))'
<1>1. UNCHANGED <<item, secret, cuts>> BY DEF input
<1>2. Seamless' BY <1>1 DEF Inv, Seamless, Pieces, Total, At
<1>3. (\A k \in 1..Pieces : PieceOK(k))'
  BY <1>1 DEF Inv, Pieces, PieceOK, Misfit, Fits, SrcBytes, MediaRoom, FirstHead, Room, Bytes,
    FitsUnsplit, Escaped, AtLeastMin, IsText, Total, side
<1> QED BY <1>2, <1>3

LEMMA UnsplitStep == Inv /\ Unsplit => Inv'
<1> SUFFICES ASSUME Inv, Unsplit PROVE Inv' OBVIOUS
<1>1. TypeOK /\ Fresh BY DEF Inv, Shape, Unsplit
<1>2. Total \in Nat BY <1>1, Items
<1>3. /\ UNCHANGED <<item, secret, lo, hi, best>> /\ IsText /\ FitsUnsplit
      /\ cuts' = <<0, Total>> /\ phase' = "done"
  BY DEF Unsplit, input
<1>4. Total' = Total /\ IsText' /\ FitsUnsplit' = FitsUnsplit
  BY <1>3 DEF Total, IsText, FitsUnsplit, Escaped, side
<1>5. TypeOK' BY <1>1, <1>2, <1>3, <1>4 DEF TypeOK
<1>6. Len(cuts') = 2 /\ cuts'[1] = 0 /\ cuts'[2] = Total BY <1>3
<1>7. At' = Total /\ Pieces' = 1 BY <1>6 DEF At, Pieces
<1>8. Shape' BY <1>3, <1>4 DEF Shape
<1>9. Seamless' BY <1>2, <1>4, <1>6, <1>7 DEF Seamless
<1>10. (\A k \in 1..Pieces : PieceOK(k))' BY <1>3, <1>4 DEF PieceOK
<1> QED BY <1>3, <1>5, <1>8, <1>9, <1>10 DEF Inv

LEMMA BeginStep == Inv /\ Begin => Inv'
<1> SUFFICES ASSUME Inv, Begin PROVE Inv' OBVIOUS
<1>1. TypeOK /\ Fresh BY DEF Inv, Shape, Begin
<1>2. /\ UNCHANGED <<item, secret, cuts, lo, best>> /\ IsText /\ ~FitsUnsplit
      /\ phase' = "search" /\ hi' = Upper(0)
  BY DEF Begin, input
<1>3. Total \in Nat /\ Total > 0 BY <1>1, <1>2, Items, Empty
<1>4. At = 0 BY <1>1 DEF At, Fresh
<1>5. /\ Upper(0) \in Nat /\ Upper(0) <= Total
      /\ \A c \in 0..Total : c > Upper(0) => ~Fits(0, c)
  BY <1>1, <1>2, <1>3, Uppers
<1>6. /\ Total' = Total /\ At' = At /\ IsText' = IsText /\ FitsUnsplit' = FitsUnsplit
      /\ \A a, b : Fits(a, b)' = Fits(a, b)
  BY <1>2 DEF Total, At, IsText, FitsUnsplit, Escaped, Fits, Bytes, Room, AtLeastMin, side
<1>7. TypeOK' BY <1>1, <1>2, <1>5, <1>6 DEF TypeOK
<1>8. Searching' BY <1>1, <1>2, <1>3, <1>4, <1>5, <1>6 DEF Searching, Fresh
<1>9. Shape' BY <1>2, <1>6 DEF Shape
<1>10. Seamless' /\ (\A k \in 1..Pieces : PieceOK(k))' BY <1>2, PiecesKept DEF input
<1> QED BY <1>7, <1>8, <1>9, <1>10 DEF Inv

LEMMA SearchStep == Inv /\ Search => Inv'
<1> SUFFICES ASSUME Inv, Search PROVE Inv' OBVIOUS
<1>1. TypeOK /\ Searching /\ IsText BY DEF Inv, Search, Shape
<1>2. UNCHANGED <<item, secret, cuts, phase>> /\ phase = "search" BY DEF Search, input
<1>3. /\ Total' = Total /\ At' = At /\ IsText' = IsText /\ FitsUnsplit' = FitsUnsplit
      /\ \A a, b : Fits(a, b)' = Fits(a, b)
  BY <1>2 DEF Total, At, IsText, FitsUnsplit, Escaped, Fits, Bytes, Room, AtLeastMin, side
<1>4. At \in 0..Total /\ Total \in Nat BY <1>1, Last, Items
<1>5. lo \in Nat /\ hi \in Nat /\ best \in Nat BY <1>1 DEF TypeOK
<1> DEFINE m == Middle
<1>6. m \in Nat /\ lo <= m /\ m <= hi /\ m >= 1
  BY <1>1, <1>5 DEF Search, Searching, Middle
<1>7. At + m \in 0..Total BY <1>1, <1>4, <1>5, <1>6 DEF Searching
<1> HIDE DEF m
<1>8. /\ lo' \in Nat /\ hi' \in Nat /\ best' \in Nat
      /\ Searching'
  <2>1. CASE Fits(At, At + m)
    <3>1. best' = m /\ lo' = m + 1 /\ hi' = hi BY <2>1 DEF Search, Above, m
    <3>2. lo' - 1 = m BY <3>1, <1>6
    <3>3. lo' > 1 => Fits(At, At + (lo' - 1)) BY <2>1, <3>2
    <3>4. \A c \in 0..Total : c > At + hi' => ~Fits(At, c) BY <3>1, <1>1 DEF Searching
    <3>5. /\ At < Total /\ lo' >= 1 /\ hi' <= Total - At /\ lo' <= hi' + 1
          /\ best' = (IF lo' = 1 THEN 1 ELSE lo' - 1)
      BY <3>1, <1>1, <1>5, <1>6 DEF Searching
    <3> QED BY <3>1, <3>3, <3>4, <3>5, <1>3, <1>5, <1>6 DEF Searching
  <2>2. CASE ~Fits(At, At + m)
    <3>1. hi' = m - 1 /\ lo' = lo /\ best' = best BY <2>2 DEF Search, Below, m
    <3>2. ASSUME NEW c \in 0..Total, c > At + hi' PROVE ~Fits(At, c)
      <4>1. At + m <= c BY <3>1, <3>2, <1>4, <1>6
      <4>2. Bytes(At, At + m) <= Bytes(At, c) BY <4>1, <1>1, <1>4, <1>7, Slices
      <4>3. Bytes(At, At + m) \in Int /\ Bytes(At, c) \in Int /\ Room \in Nat
        BY <1>1, <1>4, <1>7, Slices, Rooms
      <4> QED BY <4>2, <4>3, <2>2 DEF Fits
    <3>3. /\ At < Total /\ lo' >= 1 /\ hi' <= Total - At /\ lo' <= hi' + 1 /\ hi' \in Nat
          /\ best' = (IF lo' = 1 THEN 1 ELSE lo' - 1)
      BY <3>1, <1>1, <1>4, <1>5, <1>6 DEF Searching
    <3>4. lo' > 1 => Fits(At, At + (lo' - 1)) BY <3>1, <1>1 DEF Searching
    <3> QED BY <3>1, <3>2, <3>3, <3>4, <1>3, <1>5 DEF Searching
  <2> QED BY <2>1, <2>2
<1>9. TypeOK' BY <1>1, <1>2, <1>3, <1>8 DEF TypeOK
<1>10. Shape' BY <1>2, <1>3 DEF Inv, Shape
<1>11. Seamless' /\ (\A k \in 1..Pieces : PieceOK(k))' BY <1>2, PiecesKept DEF input
<1> QED BY <1>8, <1>9, <1>10, <1>11 DEF Inv


\* The end of a search: best is the longest piece that fits, or 1.
LEMMA Found ==
  ASSUME Inv, phase = "search", lo > hi
  PROVE  /\ best \in Nat /\ best >= 1 /\ At + best \in 0..Total
         /\ best = 1 \/ Fits(At, At + best)
         /\ \A c \in 0..Total : c > At + best => ~Fits(At, c)
<1>1. TypeOK /\ Searching BY DEF Inv
<1>2. At \in 0..Total /\ Total \in Nat BY <1>1, Last, Items
<1>3. lo \in Nat /\ hi \in Nat /\ lo = hi + 1 /\ lo >= 1 BY <1>1 DEF TypeOK, Searching
<1>4. best = (IF lo = 1 THEN 1 ELSE lo - 1) BY <1>1 DEF Searching
<1>5. best \in Nat /\ best >= 1 /\ best >= hi BY <1>3, <1>4
<1>6. At + best \in 0..Total
  <2>1. CASE lo = 1 BY <2>1, <1>1, <1>2, <1>4 DEF Searching
  <2>2. CASE lo # 1
    <3>1. best = hi BY <2>2, <1>3, <1>4
    <3> QED BY <3>1, <1>1, <1>2, <1>3 DEF Searching
  <2> QED BY <2>1, <2>2
<1>7. best = 1 \/ Fits(At, At + best)
  <2>1. CASE lo = 1 BY <2>1, <1>4
  <2>2. CASE lo # 1
    <3>1. best = lo - 1 /\ lo > 1 BY <2>2, <1>3, <1>4
    <3> QED BY <3>1, <1>1 DEF Searching
  <2> QED BY <2>1, <2>2
<1>8. ASSUME NEW c \in 0..Total, c > At + best PROVE ~Fits(At, c)
  <2>1. c > At + hi BY <1>2, <1>3, <1>5, <1>8
  <2> QED BY <2>1, <1>1 DEF Searching
<1> QED BY <1>5, <1>6, <1>7, <1>8

LEMMA CutStep == Inv /\ Cut => Inv'
<1> SUFFICES ASSUME Inv, Cut PROVE Inv' OBVIOUS
<1> DEFINE x == At + best
<1>1. phase = "search" /\ lo > hi /\ cuts' = Append(cuts, x) /\ UNCHANGED input
  BY DEF Cut
<1>2. TypeOK /\ Searching /\ IsText /\ ~FitsUnsplit BY <1>1 DEF Inv, Shape
<1>3. At \in 0..Total /\ Total \in Nat BY <1>2, Last, Items
<1>4. /\ x \in 0..Total /\ best \in Nat /\ best >= 1
      /\ best = 1 \/ Fits(At, x)
      /\ \A c \in 0..Total : c > x => ~Fits(At, c)
  BY <1>1, Found
<1>5. At < x /\ (best = 1 => x = At + 1) BY <1>3, <1>4
<1> HIDE DEF x
<1>6. (x = At + 1 /\ ~Fits(At, x)) \/ Fits(At, x) BY <1>4, <1>5
<1>7. /\ cuts' \in Seq(0..Total) /\ cuts' # <<>>
      /\ At' = x /\ Pieces' = Pieces + 1
      /\ cuts'[1] = 0
      /\ \A k \in 1..Pieces' : cuts'[k] < cuts'[k + 1] \/ Total' = 0
      /\ \A k \in 1..Pieces' : PieceOK(k)'
  BY <1>1, <1>2, <1>4, <1>5, <1>6, Extended
<1>8. /\ UNCHANGED <<item, secret>>
      /\ Total' = Total /\ IsText' = IsText /\ FitsUnsplit' = FitsUnsplit
      /\ \A a, b : Fits(a, b)' = Fits(a, b)
  BY <1>1 DEF input, Total, IsText, FitsUnsplit, Escaped, Fits, Bytes, Room, AtLeastMin, side
<1>9. lo' = 1 /\ best' = 1 BY DEF Cut
<1>10. Pieces \in Nat BY <1>2, Last
<1>11. CASE x < Total
  <2>1. phase' = "search" /\ hi' = Upper(x) BY <1>1, <1>11 DEF Cut, More, x
  <2>2. /\ Upper(x) \in Nat /\ Upper(x) <= Total - x
        /\ \A c \in 0..Total : c > x + Upper(x) => ~Fits(x, c)
    BY <1>2, <1>4, <1>11, Uppers
  <2>3. TypeOK' BY <2>1, <2>2, <1>2, <1>7, <1>8, <1>9 DEF TypeOK
  <2>4. Searching'
    BY <2>1, <2>2, <1>7, <1>8, <1>9, <1>11 DEF Searching
  <2>5. Shape' BY <2>1, <1>2, <1>8 DEF Shape
  <2>6. Seamless' BY <2>1, <1>7 DEF Seamless
  <2> QED BY <2>3, <2>4, <2>5, <2>6, <1>7 DEF Inv
<1>12. CASE ~(x < Total)
  <2>1. phase' = "done" /\ hi' = hi BY <1>12 DEF Cut, More, x
  <2>2. TypeOK' BY <2>1, <1>2, <1>7, <1>8, <1>9 DEF TypeOK
  <2>3. Shape' BY <2>1, <1>2, <1>8 DEF Shape
  <2>4. x = Total BY <1>3, <1>4, <1>12
  <2>5. Seamless' BY <2>1, <2>4, <1>7, <1>8, <1>10 DEF Seamless
  <2> QED BY <2>1, <2>2, <2>3, <2>5, <1>7 DEF Inv
<1> QED BY <1>11, <1>12

LEMMA FillStep == Inv /\ Fill => Inv'
<1> SUFFICES ASSUME Inv, Fill PROVE Inv' OBVIOUS
<1> DEFINE f == phase = "start"
           x == Smaller(At + SrcBytes(f), Total)
<1>1. /\ ~IsText /\ phase \in {"start", "fill"}
      /\ cuts' = Append(cuts, x) /\ UNCHANGED input /\ UNCHANGED <<lo, hi, best>>
      /\ phase' = IF More(x) THEN "fill" ELSE "done"
  BY DEF Fill
<1>2. TypeOK BY DEF Inv
<1>3. At \in 0..Total /\ Total \in Nat /\ Pieces \in Nat BY <1>2, Last, Items
<1>4. SrcBytes(f) \in Nat /\ SrcBytes(f) >= 3 BY <1>1, <1>2, Sources
<1>5. /\ f => Pieces = 0 /\ At = 0
      /\ ~f => Pieces >= 1 /\ At < Total
  <2>1. ASSUME f PROVE Pieces = 0 /\ At = 0
    <3>1. cuts = <<0>> BY <2>1 DEF Inv, Shape, Fresh
    <3>2. Len(cuts) = 1 /\ cuts[1] = 0 BY <3>1
    <3> QED BY <3>2 DEF Pieces, At
  <2> QED BY <2>1, <1>1 DEF Inv, Shape
<1>6. f = (Pieces = 0) BY <1>3, <1>5
<1>7. x \in 0..Total /\ x - At <= SrcBytes(f) BY <1>3, <1>4 DEF Smaller
<1>8. At < x \/ (Total = 0 /\ Pieces = 0) BY <1>3, <1>4, <1>5 DEF Smaller
<1>9. x - At <= SrcBytes(Pieces = 0) BY <1>6, <1>7
<1> HIDE DEF f, x
<1>10. /\ cuts' \in Seq(0..Total) /\ cuts' # <<>>
       /\ At' = x /\ Pieces' = Pieces + 1
       /\ cuts'[1] = 0
       /\ \A k \in 1..Pieces' : cuts'[k] < cuts'[k + 1] \/ Total' = 0
       /\ \A k \in 1..Pieces' : PieceOK(k)'
  BY <1>1, <1>7, <1>8, <1>9, Extended
<1>11. /\ UNCHANGED <<item, secret>>
       /\ Total' = Total /\ IsText' = IsText
  BY <1>1 DEF input, Total, IsText
<1>12. phase' \in {"fill", "done"} /\ (phase' = "fill" <=> x < Total) BY <1>1 DEF More
<1>13. TypeOK' BY <1>1, <1>2, <1>10, <1>11, <1>12 DEF TypeOK
<1>14. Shape' BY <1>1, <1>3, <1>10, <1>11, <1>12 DEF Shape
<1>15. phase' = "done" => x = Total BY <1>3, <1>7, <1>12
<1>16. Seamless' BY <1>3, <1>10, <1>11, <1>15 DEF Seamless
<1> QED BY <1>10, <1>12, <1>13, <1>14, <1>16 DEF Inv

LEMMA Steps == Inv /\ [Next]_vars => Inv'
<1> SUFFICES ASSUME Inv, [Next]_vars PROVE Inv' OBVIOUS
<1>1. CASE UNCHANGED vars
  <2>1. UNCHANGED <<item, secret, phase, lo, hi, best, cuts>> BY <1>1 DEF vars
  <2> QED BY <2>1 DEF Inv, TypeOK, Shape, Fresh, Searching, Seamless, PieceOK, Misfit, Pieces, At,
    Total, IsText, FitsUnsplit, Escaped, Fits, Bytes, Room, AtLeastMin, side, SrcBytes, MediaRoom,
    FirstHead
<1> QED BY <1>1, UnsplitStep, BeginStep, SearchStep, CutStep, FillStep DEF Next

\* The strengthened invariant holds of every reachable state.
THEOREM Inductive == Spec => []Inv
BY Initially, Steps, PTL DEF Spec

\* Every variable keeps its type: in particular the search never leaves the
\* text, and its upper end never gets below 0.
THEOREM TypeCorrect == Spec => []TypeOK
<1>1. Inv => TypeOK BY DEF Inv
<1> QED BY <1>1, Inductive, PTL

\* Whatever the text and the limit, joining the pieces gives back the input.
THEOREM Joins == Spec => []Seamless
<1>1. Inv => Seamless BY DEF Inv
<1> QED BY <1>1, Inductive, PTL


-----------------------------------------------------------------------------
(***************************************************************************)
(* Sizes of envelopes.                                                     *)
(***************************************************************************)
\* A number has finitely many digits.
LEMMA DigitsType == ASSUME NEW k \in Nat PROVE Digits(k) \in Nat
<1> DEFINE S == {p \in Powers : p <= k}
<1>1. IsFiniteSet(0..k) BY FS_Interval
<1>2. S \in SUBSET (0..k)
  <2>1. \A p \in Powers : p \in Nat BY ChunkingAssumption
  <2>2. ASSUME NEW p \in S PROVE p \in 0..k
    <3>1. p \in Nat /\ p <= k BY <2>1
    <3> QED BY <3>1
  <2> QED BY <2>2
<1>3. IsFiniteSet(S) BY <1>1, <1>2, FS_Subset
<1> QED BY <1>3, FS_CardinalityType DEF Digits

\* What the margin does not hold of them is counted.
LEMMA SurplusCounts ==
  ASSUME NEW n \in Nat, NEW p \in Int
  PROVE  Larger(0, n - p) \in Nat /\ n <= p + Larger(0, n - p)
BY DEF Larger

\* A payload piece within its room: its base64 is within the room too.
LEMMA Base64Fits ==
  ASSUME NEW r \in Int, r >= 4, NEW d \in Nat, d <= Larger(3, (r \div 4) * 3)
  PROVE  4 * ((d + 2) \div 3) <= r
<1> DEFINE q == r \div 4
<1>1. q \in Int /\ q >= 1 /\ 4 * q <= r OBVIOUS
<1> HIDE DEF q
<1>2. d <= 3 * q BY <1>1 DEF Larger, q
<1>3. (d + 2) \div 3 <= q BY <1>1, <1>2
<1>4. (d + 2) \div 3 \in Int OBVIOUS
<1> QED BY <1>1, <1>3, <1>4

LEMMA Bounded == Inv => OverByUnmeasured
<1> SUFFICES ASSUME Inv, phase = "done", NEW k \in 1..Pieces, ~Misfit(k)
             PROVE  Envelope(k) <= Limit + Unmeasured(k)
  BY DEF OverByUnmeasured
<1>1. TypeOK /\ PieceOK(k) BY DEF Inv
<1>2. Pieces \in Nat /\ k \in Nat /\ k >= 1 BY <1>1, Last
<1>3. side \in Sides BY <1>1, Items
<1>4. Hmac \in Nat BY ChunkingAssumption DEF Hmac
<1>5. Numbers(k) \in Nat
  <2>1. Digits(k) \in Nat /\ Digits(Pieces) \in Nat BY <1>2, DigitsType
  <2> QED BY <2>1 DEF Numbers
<1>6. /\ Limit \in Nat /\ Safety \in Nat /\ MinRoom \in Nat /\ MinRoom >= 4
      /\ TextHead[side] \in Nat /\ SoleHead[side] \in Nat /\ MediaHead[side] \in Nat
      /\ MediaSafety[side] \in Nat
      /\ MediaHead[side] + 6 + MediaSafety[side] + MinRoom <= Limit
  BY <1>3, ChunkingAssumption
<1>7. k \in 1..Len(cuts) /\ k + 1 \in 1..Len(cuts) BY <1>1, <1>2, Last DEF Pieces
<1>8. /\ cuts[k] \in 0..Total /\ cuts[k + 1] \in 0..Total
      /\ cuts[k] <= cuts[k + 1]
  <2>1. cuts[k] \in 0..Total /\ cuts[k + 1] \in 0..Total BY <1>1, <1>7, Last
  <2>2. cuts[k] < cuts[k + 1] \/ Total = 0 BY DEF Inv, Seamless
  <2>3. Total \in Nat BY <1>1, Items
  <2> QED BY <2>1, <2>2, <2>3
<1>8a. /\ Provided(k) \in Int
       /\ Surplus(k) \in Nat /\ Numbers(k) <= Provided(k) + Surplus(k)
  <2>1. Provided(k) \in Int BY <1>6 DEF Provided
  <2> QED BY <2>1, <1>5, SurplusCounts DEF Surplus
<1> DEFINE a == cuts[k]
           b == cuts[k + 1]
<1>9. CASE IsText /\ FitsUnsplit
  <2>1. cuts = <<0, Total>> BY <1>9 DEF Inv, Shape
  <2>2. Len(cuts) = 2 /\ cuts[1] = 0 /\ cuts[2] = Total BY <2>1
  <2>3. k = 1 BY <2>2, <1>2 DEF Pieces
  <2>4. Envelope(k) = SoleHead[side] + Escaped(0, Total) + Hmac
    BY <2>2, <2>3, <1>9 DEF Envelope, Header, Body
  <2>5. Unmeasured(k) = Hmac + Surplus(k) + 0 BY <1>9 DEF Unmeasured
  <2>6. Escaped(0, Total) \in Int
    <3>1. Text(item) /\ Total \in Nat BY <1>1, <1>9, Items
    <3>2. item.json \in [0..Total -> Nat] BY <3>1 DEF Text, Total
    <3>3. item.json[0] \in Nat /\ item.json[Total] \in Nat BY <3>1, <3>2
    <3> QED BY <3>3 DEF Escaped
  <2>7. SoleHead[side] + Escaped(0, Total) <= Limit BY <1>9 DEF FitsUnsplit
  <2> QED BY <2>4, <2>5, <2>6, <2>7, <1>4, <1>6, <1>8a
<1>10. CASE IsText /\ ~FitsUnsplit
  <2>1. Fits(a, b) BY <1>1, <1>10 DEF PieceOK
  <2>2. Room = Limit - (TextHead[side] + 3) - Safety BY <1>1, Rooms
  <2>3. Bytes(a, b) \in Int BY <1>1, <1>8, <1>10, Slices
  <2>4. Bytes(a, b) <= Limit - (TextHead[side] + 3) - Safety BY <2>1, <2>2 DEF Fits
  <2>5. Escaped(a, b) \in Int
    <3>1. Text(item) BY <1>1, <1>10, Items
    <3>2. item.json[a] \in Nat /\ item.json[b] \in Nat BY <3>1, <1>8 DEF Text, Total
    <3> QED BY <3>2 DEF Escaped
  <2>6. Envelope(k) = TextHead[side] + Numbers(k) + Escaped(a, b) + Hmac
    BY <1>10 DEF Envelope, Header, Body
  <2>7. Unmeasured(k) = Hmac + Surplus(k) + (Escaped(a, b) - Bytes(a, b))
    BY <1>10 DEF Unmeasured, Body, Raw
  <2>8. Provided(k) = 3 + Safety BY <1>10 DEF Provided
  <2> HIDE DEF a, b
  <2> QED BY <2>3, <2>4, <2>5, <2>6, <2>7, <2>8, <1>4, <1>5, <1>6, <1>8a
<1>11. CASE ~IsText
  <2>1. Payload(item) BY <1>1, <1>11, Items
  <2>2. item.meta \in Nat BY <2>1 DEF Payload
  <2> DEFINE head == IF k = 1 THEN MediaHead[side] + 4 + item.meta ELSE MediaHead[side] + 6
             r == Limit - head - MediaSafety[side]
  <2>3. head \in Nat /\ r \in Int BY <2>2, <1>6
  <2>4. r >= MinRoom
    <3>1. CASE k = 1
      <4>1. MediaHead[side] + 4 + item.meta + MediaSafety[side] + MinRoom <= Limit
        BY <3>1, <2>2, <1>6, <1>11 DEF Misfit
      <4> QED BY <4>1, <3>1, <2>2, <1>6
    <3>2. CASE k # 1 BY <3>2, <1>6
    <3> QED BY <3>1, <3>2
  <2>5. MediaRoom(k = 1) = r
    <3>1. CASE k = 1
      <4>1. MediaHead[side] + 4 + item.meta <= Limit BY <2>4, <3>1, <2>2, <1>6
      <4>2. FirstHead = MediaHead[side] + 4 + item.meta BY <4>1, <2>2, <1>6 DEF FirstHead
      <4> QED BY <4>2, <3>1, <2>3, <2>4, <1>6 DEF MediaRoom, AtLeastMin, Larger
    <3>2. CASE k # 1 BY <3>2, <2>3, <2>4, <1>6 DEF MediaRoom, AtLeastMin, Larger
    <3> QED BY <3>1, <3>2
  <2>6. b - a <= SrcBytes(k = 1) BY <1>1, <1>11 DEF PieceOK
  <2>7. SrcBytes(k = 1) = Larger(3, (r \div 4) * 3) BY <2>5 DEF SrcBytes
  <2>8. b - a \in Nat
    <3>1. Total \in Nat BY <1>1, Items
    <3> QED BY <3>1, <1>8
  <2>9. Base64(a, b) <= r
    <3> HIDE DEF a, b, r
    <3>1. r >= 4 BY <2>3, <2>4, <1>6
    <3> QED BY <3>1, <2>3, <2>6, <2>7, <2>8, Base64Fits DEF Base64
  <2>10. Base64(a, b) \in Int BY <2>8 DEF Base64
  <2>11. Raw(k) = Base64(a, b) /\ Body(k) \in Int
    BY <2>10, <1>11 DEF Raw, Body
  <2>12. Envelope(k) = MediaHead[side] + Numbers(k)
                       + (IF k = 1 THEN item.meta ELSE 0) + Body(k) + Hmac
    BY <1>11 DEF Envelope, Header
  <2>13. Unmeasured(k) = Hmac + Surplus(k) + (Body(k) - Base64(a, b))
    BY <2>11, <1>11 DEF Unmeasured
  <2>13a. Provided(k) = (IF k = 1 THEN 4 ELSE 6) + MediaSafety[side] BY <1>11 DEF Provided
  <2>14. MediaHead[side] + Numbers(k) + (IF k = 1 THEN item.meta ELSE 0)
         + Base64(a, b) <= Limit + Surplus(k)
    <3> HIDE DEF a, b
    <3>1. CASE k = 1
      <4>1. Base64(a, b) <= Limit - (MediaHead[side] + 4 + item.meta) - MediaSafety[side]
        BY <2>9, <3>1
      <4> QED BY <4>1, <3>1, <2>2, <2>10, <2>13a, <1>5, <1>6, <1>8a
    <3>2. CASE k # 1
      <4>1. Base64(a, b) <= Limit - (MediaHead[side] + 6) - MediaSafety[side] BY <2>9, <3>2
      <4> QED BY <4>1, <3>2, <2>10, <2>13a, <1>5, <1>6, <1>8a
    <3> QED BY <3>1, <3>2
  <2> HIDE DEF a, b
  <2> QED BY <2>2, <2>10, <2>11, <2>12, <2>13, <2>14, <1>4, <1>5, <1>6, <1>8a
<1> QED BY <1>9, <1>10, <1>11

\* An envelope is over the limit only by what the code does not measure: the
\* escapes, the hmac, and the digits of seq and total above what the sample and
\* the margin hold.
THEOREM OverOnlyByUnmeasured == Spec => []OverByUnmeasured
BY Inductive, Bounded, PTL

-----------------------------------------------------------------------------
(***************************************************************************)
(* The refinement.                                                         *)
(***************************************************************************)
LEMMA ReferenceInit == Init => Reference!Init
BY DEF Init, Reference!Init

LEMMA ReferenceStep == Inv /\ [Next]_vars => [Reference!Next]_Reference!vars
<1> SUFFICES ASSUME Inv, [Next]_vars
             PROVE  Reference!Next \/ UNCHANGED Reference!vars
  OBVIOUS
<1> DEFINE fs == IF IsText THEN {p \in (0..Total) \X (0..Total) : Fits(p[1], p[2])} ELSE {}
           cs == IF IsText THEN cuts ELSE <<0>>
           dn == IsText /\ phase = "done"
<1>1. UNCHANGED <<item, secret>> BY DEF Next, vars, Unsplit, Begin, Search, Cut, Fill, input
<1>2. UNCHANGED <<Total, fs>> /\ IsText' = IsText
  BY <1>1 DEF Total, IsText, Fits, Bytes, Room, AtLeastMin, side
<1>3. TypeOK BY DEF Inv
<1>4. CASE UNCHANGED <<cs, dn>> BY <1>2, <1>4 DEF Reference!vars
<1>5. CASE Unsplit
  <2>1. cuts = <<0>> /\ cuts' = <<0, Total>> /\ phase = "start" /\ phase' = "done" /\ IsText
    BY <1>5 DEF Inv, Shape, Fresh, Unsplit
  <2>2. Reference!Whole BY <2>1, <1>2 DEF Reference!Whole
  <2> QED BY <2>1, <2>2, <1>2 DEF Reference!Next
<1>6. CASE Cut
  <2>1. phase = "search" /\ lo > hi /\ cuts' = Append(cuts, At + best) /\ IsText
    BY <1>6 DEF Cut, Inv, Shape
  <2>2. /\ best \in Nat /\ best >= 1 /\ At + best \in 0..Total
        /\ best = 1 \/ Fits(At, At + best)
        /\ \A c \in 0..Total : c > At + best => ~Fits(At, c)
    BY <2>1, Found
  <2>3. At \in 0..Total /\ At < Total /\ Total \in Nat
    BY <2>1, <1>3, Last, Items DEF Inv, Searching
  <2>4. phase' = "done" <=> At + best = Total BY <2>1, <2>2, <2>3, <1>6 DEF Cut, More
  <2> DEFINE b == At + best
  <2>5. b \in (At + 1)..Total BY <2>2, <2>3
  <2>6. Reference!Longest(At, b)
    <3>1. b = At + 1 \/ <<At, b>> \in fs BY <2>1, <2>2, <2>3
    <3>2. ASSUME NEW c \in (b + 1)..Total PROVE <<At, c>> \notin fs
      <4>1. c \in 0..Total /\ c > b BY <2>2, <2>3
      <4> QED BY <4>1, <2>1, <2>2
    <3> QED BY <3>1, <3>2 DEF Reference!Longest
  <2>7. Reference!Cut
    BY <2>1, <2>3, <2>4, <2>5, <2>6, <1>2 DEF Reference!Cut, At
  <2> QED BY <2>1, <2>7, <1>2 DEF Reference!Next
<1>7. CASE Begin \/ Search
  BY <1>7, <1>2, <1>4 DEF Begin, Search
<1>8. CASE Fill BY <1>8, <1>2, <1>4 DEF Fill
<1>9. CASE UNCHANGED vars BY <1>9, <1>2, <1>4 DEF vars
<1> QED BY <1>5, <1>6, <1>7, <1>8, <1>9 DEF Next

\* The binary search implements the greedy definition: every piece of a split
\* text is the longest that fits, or one unit.
THEOREM ImplementsGreedy == Spec => CutsGreedily
<1>1. Spec => Reference!Init /\ [][Reference!Next]_Reference!vars
  BY ReferenceInit, ReferenceStep, Inductive, PTL DEF Spec
<1> QED BY <1>1 DEF CutsGreedily, Reference!Spec

=============================================================================
