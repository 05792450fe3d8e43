----------------------------- MODULE MCChunking -----------------------------
(* Small instances of Chunking for TLC: texts are made of blocks of equal  *)
(* units, so that boundaries fall at every place of a block.               *)
EXTENDS Chunking, SequencesExt
CONSTANTS MaxBlocks, Run   \* blocks of a text, units of a block (an even number)

\* The bytes of one unit of a block, raw and in JSON; emoji are pairs of units,
\* 3 + 1 bytes raw, and a cluster is one character of many bytes in each unit.
Raw1 == [ascii |-> 1, quotes |-> 1, wide |-> 3, emoji |-> 2, cluster |-> 25]
Json1 == [Raw1 EXCEPT !.quotes = 2]
Blocks(s) == {"ascii", "quotes", "wide"} \cup (IF s = "phone" THEN {"cluster"} ELSE {"emoji"})

\* The running total of the bytes in the first k units of the blocks of t.
Totals(t, of) ==
  LET Add(acc, b) == acc \o [i \in 1..Run |-> acc[Len(acc)] + i * of[b]]
      all == FoldLeft(Add, <<0>>, t)
  IN  [k \in 0..(Run * Len(t)) |-> all[k + 1]]
TextOf(s, t) ==
  LET raw == Totals(t, Raw1)
      pairs == {k \in 1..(Run * Len(t)) : k % 2 = 1 /\ t[((k - 1) \div Run) + 1] = "emoji"}
  IN  [kind |-> "text", by |-> s, size |-> Run * Len(t), pairs |-> pairs,
       utf8 |-> [k \in 0..(Run * Len(t)) |-> raw[k] + (IF k \in pairs THEN 1 ELSE 0)],
       json |-> Totals(t, Json1)]
Shapes(s) == UNION {[1..n -> Blocks(s)] : n \in 1..MaxBlocks}
MCTexts == {TextOf("plugin", t) : t \in Shapes("plugin")} \cup {TextOf("phone", t) : t \in Shapes("phone")}

\* The texts that are split, and have nothing but plain units.
MCPlain == {t \in MCTexts : t.json = t.utf8 /\ t.pairs = {} /\ t.json[t.size] > Limit}

\* Payloads of 0, 1, 16, 100 and 400 bytes, with little, much and too much metadata.
MCMedia == [kind : {"media"}, by : Sides, size : {0, 1, 16, 100, 400}, meta : {0, 7, Limit},
            slashed : BOOLEAN]
\* Numbers are written in base 2, so that a dozen pieces have many digits.
MCPowers == {1, 2, 4, 8, 16, 32}

MCTextHead == [s \in Sides |-> IF s = "phone" THEN 20 ELSE 21]
MCSoleHead == [s \in Sides |-> 5]
MCMediaHead == [s \in Sides |-> 5]
MCMediaSafety == [s \in Sides |-> IF s = "phone" THEN 8 ELSE 1]
=============================================================================
