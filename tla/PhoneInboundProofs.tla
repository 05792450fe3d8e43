------------------------- MODULE PhoneInboundProofs -------------------------
(* Proofs about PhoneInbound.                                              *)
EXTENDS PhoneInbound, FiniteSetTheorems, TLAPS

USE PhoneInboundAssumption

(***************************************************************************)
(* The inductive invariant.  A connection that was not made yet has told   *)
(* nothing (Unmade).  Of a message it has not told, the present connection *)
(* holds exactly the chunks it has heard (Held); it knows every id it told *)
(* or forgot it (Known).  Single says where a message may be between the   *)
(* loop and the screen.                                                    *)
(***************************************************************************)
HeardOf(c, m) == { k \in ChunksOf(m) : <<m, k>> \in heard[c] }

Unmade == \A c \in Conns : c > made => heard[c] = {} /\ Told(c) = {} /\ stream[c] = <<>>
Held == conn # 0 => \A m \in Msgs :
  /\ parts[m] \subseteq HeardOf(conn, m)
  /\ m \notin Told(conn) => parts[m] = HeardOf(conn, m) /\ parts[m] # ChunksOf(m)
Known == conn # 0 =>
  /\ seen \subseteq Told(conn)
  /\ \A m \in Told(conn) : m \in seen \/ <<conn, m>> \in forgotten
TellsWhole == \A c \in Conns : \A m \in Told(c) : HeardOf(c, m) = ChunksOf(m)

Forgot(c, m) == <<c, m>> \in forgotten
Single(c) ==
  /\ \A m, n \in hand[c] : m = n
  /\ \A m \in hand[c] : m \in ShownBy(c) => Forgot(c, m)
  /\ \A m \in Streamed(c) : m \in ShownBy(c) \cup hand[c] => Forgot(c, m)
  /\ \A i, j \in DOMAIN stream[c] : i # j /\ stream[c][i] = stream[c][j] =>
       Forgot(c, stream[c][i])

Inv ==
  /\ TypeOK
  /\ conn \in {0, made} /\ (conn # 0 => conn \in listening)
  /\ Unmade /\ Held /\ Known /\ TellsWhole
  /\ ShownOnce
  /\ \A c \in Conns : Single(c)

LEMMA Initially == Init => Inv
<1> SUFFICES ASSUME Init PROVE Inv OBVIOUS
<1>1. \A c \in Conns : Told(c) = {} /\ stream[c] = <<>> /\ hand[c] = {} /\ heard[c] = {}
  BY DEF Init, Told, ShownBy, Streamed
<1>2. TypeOK
  <2>1. IsFiniteSet({}) /\ Cardinality({}) = 0 BY FS_EmptySet
  <2> QED BY <2>1 DEF Init, TypeOK, NoParts, Conns
<1>3. \A c \in Conns : Single(c) BY <1>1 DEF Single, Told
<1> QED BY <1>1, <1>2, <1>3 DEF Init, Inv, Unmade, Held, Known, TellsWhole, ShownOnce

(***************************************************************************)
(* The stream, the hand and the screen.                                    *)
(***************************************************************************)
\* A message yielded is streamed after the others.
LEMMA Yielded ==
  ASSUME TypeOK, NEW c \in Conns, NEW m \in Msgs,
         stream' = [stream EXCEPT ![c] = Append(@, m)], UNCHANGED <<hand, screen>>
  PROVE  /\ Told(c)' = Told(c) \cup {m} /\ Streamed(c)' = Streamed(c) \cup {m}
         /\ ShownBy(c)' = ShownBy(c)
         /\ \A d \in Conns \ {c} : Told(d)' = Told(d) /\ stream'[d] = stream[d]
<1>1. stream[c] \in Seq(Msgs) /\ stream'[c] = Append(stream[c], m) BY DEF TypeOK
<1>2. Len(stream'[c]) = Len(stream[c]) + 1
      /\ \A i \in 1..Len(stream[c]) : stream'[c][i] = stream[c][i]
      /\ stream'[c][Len(stream[c]) + 1] = m
  BY <1>1
<1>3. Streamed(c)' = Streamed(c) \cup {m}
  <2>1. ASSUME NEW x \in Streamed(c)' PROVE x \in Streamed(c) \cup {m}
    <3>1. PICK i \in DOMAIN stream'[c] : stream'[c][i] = x BY <2>1 DEF Streamed
    <3>2. i \in 1..Len(stream[c]) \/ i = Len(stream[c]) + 1 BY <1>1, <1>2
    <3>3. DOMAIN stream[c] = 1..Len(stream[c]) BY <1>1
    <3>4. x \in Msgs BY <2>1 DEF Streamed
    <3> QED BY <1>2, <3>1, <3>2, <3>3, <3>4 DEF Streamed
  <2>2. m \in Streamed(c)'
    <3>1. Len(stream[c]) + 1 \in DOMAIN stream'[c] BY <1>1, <1>2
    <3> QED BY <1>2, <3>1 DEF Streamed
  <2>3. ASSUME NEW x \in Streamed(c) PROVE x \in Streamed(c)'
    <3>1. PICK i \in DOMAIN stream[c] : stream[c][i] = x BY <2>3 DEF Streamed
    <3>2. i \in 1..Len(stream[c]) /\ i \in DOMAIN stream'[c] BY <1>1, <1>2
    <3> QED BY <1>2, <2>3, <3>1, <3>2 DEF Streamed
  <2> QED BY <2>1, <2>2, <2>3
<1>4. ShownBy(c)' = ShownBy(c) BY DEF ShownBy
<1>5. ASSUME NEW d \in Conns \ {c} PROVE Told(d)' = Told(d) /\ stream'[d] = stream[d]
  <2>1. stream'[d] = stream[d] BY <1>5 DEF TypeOK
  <2> QED BY <2>1 DEF Told, ShownBy, Streamed
<1> QED BY <1>3, <1>4, <1>5 DEF Told

\* What is no longer streamed is in the hand.
LEMMA Taken ==
  ASSUME TypeOK, NEW c \in Conns, Take(c)
  PROVE  /\ hand'[c] = {Head(stream[c])} /\ Head(stream[c]) \in Streamed(c)
         /\ Streamed(c)' \subseteq Streamed(c)
         /\ Streamed(c) = Streamed(c)' \cup hand'[c]
         /\ hand[c] = {} /\ ShownBy(c)' = ShownBy(c) /\ Told(c)' = Told(c)
         /\ \A i \in DOMAIN stream'[c] : i + 1 \in DOMAIN stream[c] /\ i + 1 # 1
                                         /\ stream'[c][i] = stream[c][i + 1]
         /\ \A d \in Conns \ {c} : /\ Told(d)' = Told(d) /\ ShownBy(d)' = ShownBy(d)
                                   /\ stream'[d] = stream[d] /\ hand'[d] = hand[d]
<1>1. /\ stream[c] \in Seq(Msgs) /\ stream[c] # <<>>
      /\ stream'[c] = Tail(stream[c]) /\ hand'[c] = {Head(stream[c])} /\ hand[c] = {}
      /\ UNCHANGED screen
  BY DEF Take, TypeOK
<1>2. /\ Len(stream[c]) \in Nat /\ Len(stream[c]) >= 1
      /\ DOMAIN stream'[c] = 1..(Len(stream[c]) - 1) /\ DOMAIN stream[c] = 1..Len(stream[c])
      /\ \A i \in 1..(Len(stream[c]) - 1) : stream'[c][i] = stream[c][i + 1]
      /\ Head(stream[c]) = stream[c][1] /\ Head(stream[c]) \in Msgs
  BY <1>1
<1>3. \A i \in DOMAIN stream'[c] : i + 1 \in DOMAIN stream[c] /\ i + 1 # 1
                                   /\ stream'[c][i] = stream[c][i + 1]
  BY <1>2
<1>4. Head(stream[c]) \in Streamed(c) BY <1>2 DEF Streamed
<1>5. Streamed(c)' \subseteq Streamed(c) BY <1>3 DEF Streamed
<1>6. ASSUME NEW x \in Streamed(c) PROVE x \in Streamed(c)' \cup hand'[c]
  <2>1. PICK i \in DOMAIN stream[c] : stream[c][i] = x BY <1>6 DEF Streamed
  <2>2. CASE i = 1 BY <2>1, <2>2, <1>1, <1>2
  <2>3. CASE i # 1
    <3>1. i - 1 \in DOMAIN stream'[c] /\ stream'[c][i - 1] = stream[c][(i - 1) + 1]
      BY <2>3, <1>2
    <3>2. (i - 1) + 1 = i BY <1>2
    <3> QED BY <2>1, <3>1, <3>2, <1>6 DEF Streamed
  <2> QED BY <2>2, <2>3
<1>7. ShownBy(c)' = ShownBy(c) BY <1>1 DEF ShownBy
<1>8. Streamed(c) = Streamed(c)' \cup hand'[c] BY <1>1, <1>4, <1>5, <1>6
<1>9. ASSUME NEW d \in Conns \ {c}
      PROVE  /\ Told(d)' = Told(d) /\ ShownBy(d)' = ShownBy(d)
             /\ stream'[d] = stream[d] /\ hand'[d] = hand[d]
  <2>1. stream'[d] = stream[d] /\ hand'[d] = hand[d] BY <1>9 DEF Take, TypeOK
  <2>2. ShownBy(d)' = ShownBy(d) BY <1>1 DEF ShownBy
  <2> QED BY <2>1, <2>2 DEF Told, Streamed
<1> QED BY <1>1, <1>3, <1>4, <1>5, <1>7, <1>8, <1>9 DEF Told

\* What leaves the hand is on the screen.
LEMMA Appended ==
  ASSUME TypeOK, NEW c \in Conns, NEW m \in hand[c], Single(c),
         screen' = Append(screen, [msg |-> m, by |-> c]),
         hand' = [hand EXCEPT ![c] = {}], UNCHANGED stream
  PROVE  /\ hand'[c] = {} /\ ShownBy(c)' = ShownBy(c) \cup {m} /\ Told(c)' = Told(c)
         /\ DOMAIN screen' = DOMAIN screen \cup {Len(screen) + 1}
         /\ Len(screen) + 1 \notin DOMAIN screen
         /\ screen'[Len(screen) + 1] = [msg |-> m, by |-> c]
         /\ \A i \in DOMAIN screen : screen'[i] = screen[i]
         /\ \A d \in Conns \ {c} : /\ Told(d)' = Told(d) /\ ShownBy(d)' = ShownBy(d)
                                   /\ hand'[d] = hand[d]
<1>1. m \in Msgs /\ hand'[c] = {} /\ hand[c] = {m} BY DEF TypeOK, Single
<1>2. /\ screen \in Seq([msg : Msgs, by : Conns]) /\ [msg |-> m, by |-> c] \in [msg : Msgs, by : Conns]
  BY <1>1 DEF TypeOK
<1>3. /\ DOMAIN screen' = DOMAIN screen \cup {Len(screen) + 1}
      /\ Len(screen) + 1 \notin DOMAIN screen
      /\ screen'[Len(screen) + 1] = [msg |-> m, by |-> c]
      /\ \A i \in DOMAIN screen : screen'[i] = screen[i]
  BY <1>2
<1>4. \A d \in Conns : \A x \in Msgs :
        x \in ShownBy(d)' <=> x \in ShownBy(d) \/ [msg |-> m, by |-> c] = [msg |-> x, by |-> d]
  BY <1>3 DEF ShownBy
<1>5. ShownBy(c)' = ShownBy(c) \cup {m}
  <2>1. \A x \in Msgs : [msg |-> m, by |-> c] = [msg |-> x, by |-> c] <=> x = m
    OBVIOUS
  <2>2. \A x \in Msgs : x \in ShownBy(c)' <=> x \in ShownBy(c) \/ x = m BY <1>4, <2>1
  <2>3. ShownBy(c) \subseteq Msgs /\ ShownBy(c)' \subseteq Msgs BY DEF ShownBy
  <2> QED BY <1>1, <2>2, <2>3
<1>6. ASSUME NEW d \in Conns \ {c} PROVE ShownBy(d)' = ShownBy(d) /\ hand'[d] = hand[d]
  <2>1. \A x \in Msgs : [msg |-> m, by |-> c] # [msg |-> x, by |-> d] BY <1>6
  <2>2. ShownBy(d)' = ShownBy(d) BY <1>4, <2>1 DEF ShownBy
  <2> QED BY <2>2 DEF TypeOK
<1>7. \A d \in Conns : Streamed(d)' = Streamed(d) BY DEF Streamed
<1> QED BY <1>1, <1>3, <1>5, <1>6, <1>7 DEF Told

(***************************************************************************)
(* The steps.                                                              *)
(***************************************************************************)
LEMMA ConnectStep == Inv /\ Connect => Inv'
<1> SUFFICES ASSUME Inv, Connect PROVE Inv' OBVIOUS
<1>1. /\ conn' = made + 1 /\ made' = made + 1 /\ made < MaxConns /\ conn' \in Conns
      /\ parts' = NoParts /\ seen' = {} /\ listening' = listening \cup {made + 1}
      /\ UNCHANGED <<stream, hand, screen, heard, forgotten, forgets>>
  BY DEF Connect, Inv, TypeOK, Conns
<1>2. TypeOK'
  <2>1. IsFiniteSet({}) /\ Cardinality({}) = 0 BY FS_EmptySet
  <2> QED BY <1>1, <2>1 DEF Inv, TypeOK, NoParts, Conns
<1>3. \A c \in Conns : Told(c)' = Told(c) /\ (Single(c) => Single(c)')
  BY <1>1 DEF Told, ShownBy, Streamed, Single, Forgot
<1>4. heard[conn'] = {} /\ Told(conn') = {}
  <2>1. conn' > made BY <1>1 DEF Inv, TypeOK
  <2> QED BY <1>1, <2>1 DEF Inv, Unmade
<1>5. Unmade'
  <2>1. \A c \in Conns : c > made' => c > made BY <1>1 DEF Inv, TypeOK, Conns
  <2> QED BY <1>1, <1>3, <2>1 DEF Inv, Unmade
<1>6. Held' /\ Known'
  <2>1. Told(conn)' = {} /\ heard'[conn'] = {} 
    <3>1. Told(conn)' = Told(conn') BY <1>1 DEF Told, ShownBy, Streamed
    <3> QED BY <1>1, <1>4, <3>1
  <2>2. \A m \in Msgs : parts'[m] = {} /\ HeardOf(conn, m)' = {} /\ ChunksOf(m) # {}
    BY <1>1, <2>1 DEF NoParts, HeardOf, ChunksOf
  <2> QED BY <1>1, <2>1, <2>2 DEF Held, Known, ChunksOf
<1>7. TellsWhole' /\ ShownOnce'
  BY <1>1, <1>3 DEF Inv, TellsWhole, ShownOnce, HeardOf
<1> QED BY <1>1, <1>2, <1>3, <1>5, <1>6, <1>7 DEF Inv

LEMMA QuietStep ==
  ASSUME Inv, UNCHANGED <<made, pilot, stream, hand, screen>>,
         conn' \in {0, conn}, listening' \subseteq listening,
         conn' # 0 => conn' \in listening'
  PROVE  Inv'
<1>1. \A c \in Conns : Told(c)' = Told(c) /\ (Single(c) => Single(c)')
  BY DEF Told, ShownBy, Streamed, Single, Forgot, pilot
<1>2. TypeOK' /\ conn' \in {0, made'} BY DEF Inv, TypeOK, pilot
<1>3. Unmade' /\ TellsWhole' /\ ShownOnce'
  BY <1>1 DEF Inv, Unmade, TellsWhole, ShownOnce, HeardOf, pilot
<1>4. Held' /\ Known'
  <2>1. CASE conn' = 0 BY <2>1 DEF Held, Known
  <2>2. CASE conn' = conn /\ conn # 0
    <3>1. conn \in Conns /\ Told(conn)' = Told(conn)
      BY <1>1, <2>2 DEF Inv, TypeOK, Conns, Told, ShownBy, Streamed
    <3> QED BY <2>2, <3>1 DEF Inv, Held, Known, HeardOf, pilot
  <2> QED BY <2>1, <2>2
<1> QED BY <1>1, <1>2, <1>3, <1>4 DEF Inv

\* A datagram handled is heard.
LEMMA Hearing ==
  ASSUME TypeOK, NEW c \in Conns, conn = c, NEW m \in Msgs, NEW k \in ChunksOf(m), Hears(m, k)
  PROVE  /\ heard' \in [Conns -> SUBSET Datagrams]
         /\ HeardOf(c, m)' = HeardOf(c, m) \cup {k}
         /\ \A x \in Msgs \ {m} : HeardOf(c, x)' = HeardOf(c, x)
         /\ \A d \in Conns \ {c} : heard'[d] = heard[d]
         /\ \A d \in Conns : heard[d] \subseteq heard'[d]
         /\ \A d \in Conns, x \in Msgs : HeardOf(d, x) \subseteq HeardOf(d, x)'
<1>1. <<m, k>> \in Datagrams BY DEF Datagrams
<1>2. /\ heard \in [Conns -> SUBSET Datagrams] /\ heard'[c] = heard[c] \cup {<<m, k>>}
      /\ \A d \in Conns \ {c} : heard'[d] = heard[d]
  BY DEF TypeOK, Hears
<1>3. heard' \in [Conns -> SUBSET Datagrams] BY <1>1 DEF TypeOK, Hears
<1>4. HeardOf(c, m)' = HeardOf(c, m) \cup {k} BY <1>2 DEF HeardOf
<1>5. \A x \in Msgs \ {m} : HeardOf(c, x)' = HeardOf(c, x) BY <1>2 DEF HeardOf
<1>6. \A d \in Conns : heard[d] \subseteq heard'[d] BY <1>2
<1> QED BY <1>2, <1>3, <1>4, <1>5, <1>6 DEF HeardOf

LEMMA GatherStep ==
  ASSUME Inv, NEW m \in Msgs, NEW k \in ChunksOf(m), Gather(m, k)
  PROVE  Inv'
<1>1. /\ conn # 0 /\ Hears(m, k) /\ parts[m] \cup {k} # ChunksOf(m)
      /\ parts' = [parts EXCEPT ![m] = @ \cup {k}]
      /\ UNCHANGED <<conn, made, seen, forgotten, forgets, stream, hand, listening, screen>>
  BY DEF Gather, Whole, listener
<1>2. conn \in Conns /\ TypeOK BY <1>1 DEF Inv, TypeOK, Conns
<1> DEFINE c == conn
<1>3. /\ heard' \in [Conns -> SUBSET Datagrams]
      /\ HeardOf(c, m)' = HeardOf(c, m) \cup {k}
      /\ \A x \in Msgs \ {m} : HeardOf(c, x)' = HeardOf(c, x)
      /\ \A d \in Conns \ {c} : heard'[d] = heard[d]
      /\ \A d \in Conns, x \in Msgs : HeardOf(d, x) \subseteq HeardOf(d, x)'
  BY <1>1, <1>2, Hearing
<1>4. \A d \in Conns : Told(d)' = Told(d) /\ (Single(d) => Single(d)')
  BY <1>1 DEF Told, ShownBy, Streamed, Single, Forgot
<1>5. TypeOK' BY <1>1, <1>2, <1>3 DEF TypeOK, ChunksOf
<1>6. Unmade'
  <2>1. ~(c > made) BY <1>1, <1>2 DEF Inv, TypeOK
  <2> QED BY <1>1, <1>3, <1>4, <2>1 DEF Inv, Unmade
<1>7. Held'
  <2>1. Told(c)' = Told(c) /\ c' = c BY <1>1, <1>2, <1>4
  <2>2. parts'[m] = parts[m] \cup {k} /\ \A x \in Msgs \ {m} : parts'[x] = parts[x]
    BY <1>1, <1>2 DEF TypeOK
  <2>3. \A x \in Msgs :
          /\ parts[x] \subseteq HeardOf(c, x)
          /\ x \notin Told(c) => parts[x] = HeardOf(c, x) /\ parts[x] # ChunksOf(x)
    BY <1>1 DEF Inv, Held
  <2>4. \A x \in Msgs :
          /\ parts'[x] \subseteq HeardOf(c, x)'
          /\ x \notin Told(c) => parts'[x] = HeardOf(c, x)' /\ parts'[x] # ChunksOf(x)
    BY <1>1, <1>3, <2>2, <2>3
  <2> QED BY <2>1, <2>4, <1>1 DEF Held, ChunksOf, HeardOf, Told, ShownBy, Streamed
<1>8. Known'
  <2>1. Told(c)' = Told(c) /\ c' = c BY <1>1, <1>2, <1>4
  <2> QED BY <1>1, <2>1 DEF Inv, Known, Told, ShownBy, Streamed
<1>9. TellsWhole'
  <2> SUFFICES ASSUME NEW d \in Conns, NEW x \in Told(d) PROVE HeardOf(d, x)' = ChunksOf(x)
    BY <1>4 DEF TellsWhole, ChunksOf
  <2>1. HeardOf(d, x) = ChunksOf(x) BY DEF Inv, TellsWhole
  <2>2. x \in Msgs BY <1>2 DEF Told, ShownBy, Streamed, TypeOK
  <2> QED BY <1>3, <2>1, <2>2 DEF HeardOf
<1>10. ShownOnce' BY <1>1 DEF Inv, ShownOnce
<1> QED BY <1>1, <1>4, <1>5, <1>6, <1>7, <1>8, <1>9, <1>10 DEF Inv

\* The id just shown is remembered, and what is dropped is forgotten.
LEMMA Marked ==
  ASSUME TypeOK, conn \in Conns, NEW m \in Msgs, MarkSeen(m)
  PROVE  /\ seen' \subseteq seen \cup {m} /\ IsFiniteSet(seen') /\ Cardinality(seen') <= SeenCap
         /\ \A x \in seen \cup {m} : x \in seen' \/ <<conn, x>> \in forgotten'
         /\ forgotten \subseteq forgotten' /\ forgotten' \subseteq Conns \X Msgs
         /\ forgets' \in 0..MaxForgets
<1> DEFINE all == seen \cup {m}
<1>1. IsFiniteSet(all) BY FS_AddElement DEF TypeOK
<1>2. CASE /\ Cardinality(all) <= SeenCap /\ seen' = all
           /\ UNCHANGED <<forgotten, forgets>>
  BY <1>1, <1>2 DEF TypeOK
<1>3. ASSUME forgets < MaxForgets, forgets' = forgets + 1,
             NEW kept \in SUBSET all, Cardinality(kept) = SeenCap \div 2,
             seen' = kept, forgotten' = forgotten \cup ({conn} \X (all \ kept))
      PROVE  /\ seen' \subseteq seen \cup {m} /\ IsFiniteSet(seen') /\ Cardinality(seen') <= SeenCap
             /\ \A x \in seen \cup {m} : x \in seen' \/ <<conn, x>> \in forgotten'
             /\ forgotten \subseteq forgotten' /\ forgotten' \subseteq Conns \X Msgs
             /\ forgets' \in 0..MaxForgets
  <2>1. IsFiniteSet(kept) BY <1>1, FS_Subset
  <2>2. SeenCap \div 2 <= SeenCap OBVIOUS
  <2>3. all \subseteq Msgs BY DEF TypeOK
  <2>4. forgotten' \subseteq Conns \X Msgs BY <1>3, <2>3 DEF TypeOK
  <2>5. forgets' \in 0..MaxForgets BY <1>3 DEF TypeOK
  <2> QED BY <1>3, <2>1, <2>2, <2>4, <2>5
<1> QED BY <1>2, <1>3 DEF MarkSeen

\* A late copy of a message that was told already.
LEMMA LateCopy ==
  ASSUME Inv, NEW m \in Msgs, NEW k \in ChunksOf(m), Complete(m, k), m \in seen
  PROVE  Inv'
<1>1. /\ conn # 0 /\ Hears(m, k) /\ parts' = [parts EXCEPT ![m] = {}]
      /\ UNCHANGED <<conn, made, hand, listening, screen>>
      /\ UNCHANGED <<seen, forgotten, forgets, stream>>
  BY DEF Complete, listener
<1>2. conn \in Conns /\ TypeOK BY <1>1 DEF Inv, TypeOK, Conns
<1>3. /\ heard' \in [Conns -> SUBSET Datagrams]
      /\ HeardOf(conn, m)' = HeardOf(conn, m) \cup {k}
      /\ \A x \in Msgs \ {m} : HeardOf(conn, x)' = HeardOf(conn, x)
      /\ \A d \in Conns \ {conn} : heard'[d] = heard[d]
      /\ \A d \in Conns, x \in Msgs : HeardOf(d, x) \subseteq HeardOf(d, x)'
  BY <1>1, <1>2, Hearing DEF HeardOf
<1>4. \A d \in Conns : Told(d)' = Told(d) /\ (Single(d) => Single(d)')
  BY <1>1 DEF Told, ShownBy, Streamed, Single, Forgot
<1>5. TypeOK' BY <1>1, <1>2, <1>3 DEF TypeOK
<1>6. Unmade'
  <2>1. ~(conn > made) BY <1>1, <1>2 DEF Inv, TypeOK
  <2> QED BY <1>1, <1>3, <1>4, <2>1 DEF Inv, Unmade
<1>7. Told(conn)' = Told(conn) BY <1>1, <1>2, <1>4
<1>8. Held'
  <2>1. m \in Told(conn) BY <1>1 DEF Inv, Known
  <2>2. parts'[m] = {} /\ \A x \in Msgs \ {m} : parts'[x] = parts[x]
    BY <1>1, <1>2 DEF TypeOK
  <2>3. \A x \in Msgs :
          /\ parts'[x] \subseteq HeardOf(conn, x)'
          /\ x \notin Told(conn) => parts'[x] = HeardOf(conn, x)' /\ parts'[x] # ChunksOf(x)
    BY <1>1, <1>3, <2>1, <2>2 DEF Inv, Held
  <2> QED BY <1>7, <2>3, <1>1 DEF Held, ChunksOf, HeardOf
<1>9. Known' BY <1>1, <1>7 DEF Inv, Known
<1>10. TellsWhole'
  <2> SUFFICES ASSUME NEW d \in Conns, NEW x \in Told(d) PROVE HeardOf(d, x)' = ChunksOf(x)
    BY <1>4 DEF TellsWhole, ChunksOf
  <2>1. HeardOf(d, x) = ChunksOf(x) BY DEF Inv, TellsWhole
  <2>2. x \in Msgs BY <1>2 DEF Told, ShownBy, Streamed, TypeOK
  <2> QED BY <1>3, <2>1, <2>2 DEF HeardOf
<1>11. ShownOnce' BY <1>1 DEF Inv, ShownOnce
<1> QED BY <1>1, <1>4, <1>5, <1>6, <1>8, <1>9, <1>10, <1>11 DEF Inv

\* A message told for the first time, or again after its id was forgotten.
LEMMA FirstCopy ==
  ASSUME Inv, NEW m \in Msgs, NEW k \in ChunksOf(m), Complete(m, k), m \notin seen
  PROVE  Inv'
<1>1. /\ conn # 0 /\ Hears(m, k) /\ parts' = [parts EXCEPT ![m] = {}]
      /\ parts[m] \cup {k} = ChunksOf(m)
      /\ UNCHANGED <<conn, made, hand, listening, screen>>
      /\ MarkSeen(m) /\ stream' = [stream EXCEPT ![conn] = Append(@, m)]
  BY DEF Complete, listener, Whole, Yield
<1>2. conn \in Conns /\ TypeOK BY <1>1 DEF Inv, TypeOK, Conns
<1>3. /\ heard' \in [Conns -> SUBSET Datagrams]
      /\ HeardOf(conn, m)' = HeardOf(conn, m) \cup {k}
      /\ \A x \in Msgs \ {m} : HeardOf(conn, x)' = HeardOf(conn, x)
      /\ \A d \in Conns \ {conn} : heard'[d] = heard[d]
      /\ \A d \in Conns, x \in Msgs : HeardOf(d, x) \subseteq HeardOf(d, x)'
  BY <1>1, <1>2, Hearing DEF HeardOf
<1>4. /\ Told(conn)' = Told(conn) \cup {m} /\ Streamed(conn)' = Streamed(conn) \cup {m}
      /\ ShownBy(conn)' = ShownBy(conn)
      /\ \A d \in Conns \ {conn} : Told(d)' = Told(d) /\ stream'[d] = stream[d]
  BY <1>1, <1>2, Yielded
<1>5. /\ seen' \subseteq seen \cup {m} /\ IsFiniteSet(seen') /\ Cardinality(seen') <= SeenCap
      /\ \A x \in seen \cup {m} : x \in seen' \/ <<conn, x>> \in forgotten'
      /\ forgotten \subseteq forgotten' /\ forgotten' \subseteq Conns \X Msgs
      /\ forgets' \in 0..MaxForgets
  BY <1>1, <1>2, Marked
<1>6. TypeOK'
  <2>1. stream' \in [Conns -> Seq(Msgs)] BY <1>1, <1>2 DEF TypeOK
  <2>2. seen' \subseteq Msgs BY <1>5 DEF Inv, TypeOK
  <2>3. parts' \in [Msgs -> SUBSET Nat] BY <1>1, <1>2 DEF TypeOK
  <2> QED BY <1>1, <1>2, <1>3, <1>5, <2>1, <2>2, <2>3 DEF TypeOK
<1>7. Unmade'
  <2>1. ~(conn > made) BY <1>1, <1>2 DEF Inv, TypeOK
  <2> QED BY <1>1, <1>3, <1>4, <2>1 DEF Inv, Unmade
<1>8. HeardOf(conn, m)' = ChunksOf(m)
  <2>1. parts[m] \subseteq HeardOf(conn, m) BY <1>1 DEF Inv, Held
  <2>2. HeardOf(conn, m) \subseteq ChunksOf(m) BY DEF HeardOf
  <2> QED BY <1>1, <1>3, <2>1, <2>2
<1>9. Held'
  <2>1. parts'[m] = {} /\ \A x \in Msgs \ {m} : parts'[x] = parts[x]
    BY <1>1, <1>2 DEF TypeOK
  <2>2. \A x \in Msgs :
          /\ parts'[x] \subseteq HeardOf(conn, x)'
          /\ x \notin Told(conn) \cup {m} =>
               parts'[x] = HeardOf(conn, x)' /\ parts'[x] # ChunksOf(x)
    BY <1>1, <1>3, <2>1 DEF Inv, Held
  <2> QED BY <1>1, <1>4, <2>2 DEF Held, ChunksOf
<1>10. Known'
  <2>1. seen \subseteq Told(conn) /\ \A x \in Told(conn) : x \in seen \/ <<conn, x>> \in forgotten
    BY <1>1 DEF Inv, Known
  <2> QED BY <1>1, <1>4, <1>5, <2>1 DEF Known
<1>11. TellsWhole'
  <2>1. ASSUME NEW d \in Conns, NEW x \in Told(d) PROVE HeardOf(d, x)' = ChunksOf(x)
    <3>1. HeardOf(d, x) = ChunksOf(x) BY DEF Inv, TellsWhole
    <3>2. x \in Msgs BY <1>2 DEF Told, ShownBy, Streamed, TypeOK
    <3> QED BY <1>3, <3>1, <3>2 DEF HeardOf
  <2>2. \A d \in Conns \ {conn} : \A x \in Told(d)' : HeardOf(d, x)' = ChunksOf(x)
    BY <1>4, <2>1
  <2>3. ASSUME NEW x \in Told(conn)' PROVE HeardOf(conn, x)' = ChunksOf(x)
    <3>1. CASE x = m BY <1>8, <3>1
    <3>2. CASE x \in Told(conn) BY <1>1, <1>2, <2>1, <3>2 DEF HeardOf
    <3> QED BY <1>4, <2>3, <3>1, <3>2
  <2>4. conn' = conn BY <1>1
  <2>5. ASSUME NEW d \in Conns, NEW x \in Told(d)' PROVE HeardOf(d, x)' = ChunksOf(x)
    <3>1. CASE d # conn BY <2>2, <2>5, <3>1
    <3>2. CASE d = conn BY <2>3, <2>4, <2>5, <3>2
    <3> QED BY <3>1, <3>2
  <2> QED BY <2>5 DEF TellsWhole, ChunksOf
<1>12. ShownOnce' BY <1>1, <1>5 DEF Inv, ShownOnce
<1>13. ASSUME NEW d \in Conns PROVE Single(d)'
  <2>1. CASE d # conn
    BY <1>1, <1>4, <1>5, <2>1 DEF Inv, Single, Forgot, Streamed, ShownBy
  <2>2. CASE d = conn
    <3>1. Single(conn) BY <1>2 DEF Inv
    <3>2. m \in Told(conn) => <<conn, m>> \in forgotten'
      BY <1>1, <1>5 DEF Inv, Known
    <3>3. \A x \in Streamed(conn)' : x \in ShownBy(conn) \cup hand[conn] => <<conn, x>> \in forgotten'
      BY <1>4, <1>5, <3>1, <3>2 DEF Single, Forgot, Told
    <3>4. stream[conn] \in Seq(Msgs) /\ stream'[conn] = Append(stream[conn], m) BY <1>1, <1>2 DEF TypeOK
    <3>5. /\ DOMAIN stream'[conn] = DOMAIN stream[conn] \cup {Len(stream[conn]) + 1}
          /\ \A i \in DOMAIN stream[conn] : stream'[conn][i] = stream[conn][i]
          /\ stream'[conn][Len(stream[conn]) + 1] = m
      BY <3>4
    <3>6. \A i \in DOMAIN stream[conn] : stream[conn][i] = m => m \in Told(conn)
      BY DEF Told, Streamed
    <3>7. \A i, j \in DOMAIN stream'[conn] : i # j /\ stream'[conn][i] = stream'[conn][j] =>
            <<conn, stream'[conn][i]>> \in forgotten'
      BY <1>5, <3>1, <3>2, <3>5, <3>6 DEF Single, Forgot
    <3>8. /\ hand'[conn] = hand[conn] /\ ShownBy(conn)' = ShownBy(conn)
          /\ \A x \in hand[conn] : x \in ShownBy(conn) => <<conn, x>> \in forgotten'
          /\ \A x, n \in hand[conn] : x = n
      BY <1>1, <1>4, <1>5, <3>1 DEF Single, Forgot
    <3> QED BY <1>1, <2>2, <3>3, <3>7, <3>8 DEF Single, Forgot
  <2> QED BY <2>1, <2>2
<1> QED BY <1>1, <1>6, <1>7, <1>9, <1>10, <1>11, <1>12, <1>13 DEF Inv

LEMMA TakeStep ==
  ASSUME Inv, NEW c \in Conns, Take(c)
  PROVE  Inv'
<1>1. TypeOK /\ stream[c] # <<>>
      /\ stream' = [stream EXCEPT ![c] = Tail(@)] /\ hand' = [hand EXCEPT ![c] = {Head(stream[c])}]
      /\ UNCHANGED <<conn, made, parts, seen, heard, forgotten, forgets, listening, screen>>
  BY DEF Inv, Take, pilot
<1>2. /\ hand'[c] = {Head(stream[c])} /\ Head(stream[c]) \in Streamed(c)
      /\ Streamed(c)' \subseteq Streamed(c)
      /\ hand[c] = {} /\ ShownBy(c)' = ShownBy(c) /\ Told(c)' = Told(c)
      /\ \A i \in DOMAIN stream'[c] : i + 1 \in DOMAIN stream[c] /\ i + 1 # 1
                                      /\ stream'[c][i] = stream[c][i + 1]
      /\ \A d \in Conns \ {c} : /\ Told(d)' = Told(d) /\ ShownBy(d)' = ShownBy(d)
                                /\ stream'[d] = stream[d] /\ hand'[d] = hand[d]
  BY <1>1, Taken
<1>3. \A d \in Conns : Told(d)' = Told(d) BY <1>2
<1>4. stream[c] \in Seq(Msgs) /\ 1 \in DOMAIN stream[c] /\ Head(stream[c]) = stream[c][1]
      /\ DOMAIN stream'[c] \subseteq Nat
  BY <1>1 DEF TypeOK
<1>5. TypeOK'
  <2>1. Tail(stream[c]) \in Seq(Msgs) /\ Head(stream[c]) \in Msgs BY <1>1, <1>4
  <2>2. stream' \in [Conns -> Seq(Msgs)] /\ hand' \in [Conns -> SUBSET Msgs]
    BY <1>1, <2>1 DEF TypeOK
  <2> QED BY <1>1, <2>2 DEF TypeOK
<1>6. Unmade'
  <2>1. ~(c > made)
    <3>1. CASE c > made BY <1>1, <3>1 DEF Inv, Unmade
    <3> QED BY <3>1
  <2> QED BY <1>1, <1>2, <1>3, <2>1 DEF Inv, Unmade
<1>7. Held' /\ Known'
  <2>1. CASE conn = 0 BY <1>1, <2>1 DEF Held, Known
  <2>2. CASE conn # 0
    <3>1. conn \in Conns BY <1>1, <2>2 DEF TypeOK, Conns
    <3>2. conn' = conn BY <1>1
    <3>3. Told(conn)' = Told(conn) BY <1>3, <3>1, <3>2
    <3> QED BY <1>1, <3>2, <3>3 DEF Inv, Held, Known, HeardOf
  <2> QED BY <2>1, <2>2
<1>8. TellsWhole' /\ ShownOnce' BY <1>1, <1>3 DEF Inv, TellsWhole, ShownOnce, HeardOf
<1>9. ASSUME NEW d \in Conns PROVE Single(d)'
  <2>1. CASE d # c
    <3>1. Single(d) BY DEF Inv
    <3>2. /\ stream'[d] = stream[d] /\ hand'[d] = hand[d] /\ ShownBy(d)' = ShownBy(d)
          /\ forgotten' = forgotten
      BY <1>1, <1>2, <2>1
    <3>3. Streamed(d)' = Streamed(d) BY <3>2 DEF Streamed
    <3> QED BY <3>1, <3>2, <3>3 DEF Single, Forgot
  <2>2. CASE d = c
    <3> DEFINE h == Head(stream[c])
    <3>1. Single(c) BY DEF Inv
    <3>2. h \in ShownBy(c) => Forgot(c, h) BY <1>2, <3>1 DEF Single
    <3>3. \A x \in Streamed(c)' : x \in ShownBy(c) => Forgot(c, x) BY <1>2, <3>1 DEF Single
    <3>4. h \in Streamed(c)' => Forgot(c, h)
      <4>1. ASSUME h \in Streamed(c)' PROVE Forgot(c, h)
        <5>1. PICK i \in DOMAIN stream'[c] : stream'[c][i] = h BY <4>1 DEF Streamed
        <5> QED BY <1>2, <1>4, <3>1, <5>1 DEF Single
      <4> QED BY <4>1
    <3>5. ASSUME NEW i \in DOMAIN stream'[c], NEW j \in DOMAIN stream'[c],
                 i # j, stream'[c][i] = stream'[c][j]
          PROVE  Forgot(c, stream'[c][i])
      <4>1. i + 1 # j + 1 BY <1>4, <3>5
      <4> QED BY <1>2, <3>1, <3>5, <4>1 DEF Single
    <3>6. \A x : Forgot(c, x)' <=> Forgot(c, x) BY <1>1 DEF Forgot
    <3> QED BY <1>2, <2>2, <3>2, <3>3, <3>4, <3>5, <3>6 DEF Single
  <2> QED BY <2>1, <2>2
<1> QED BY <1>1, <1>5, <1>6, <1>7, <1>8, <1>9 DEF Inv

LEMMA AppendStep ==
  ASSUME Inv, NEW c \in Conns, AppendIncoming(c)
  PROVE  Inv'
<1>1. PICK m \in hand[c] :
        /\ screen' = Append(screen, [msg |-> m, by |-> c])
        /\ hand' = [hand EXCEPT ![c] = {}]
        /\ UNCHANGED <<conn, made, parts, seen, heard, forgotten, forgets, stream, listening>>
  BY DEF AppendIncoming, pilot
<1>2. TypeOK /\ Single(c) BY DEF Inv
<1>3. /\ hand'[c] = {} /\ ShownBy(c)' = ShownBy(c) \cup {m} /\ Told(c)' = Told(c)
      /\ DOMAIN screen' = DOMAIN screen \cup {Len(screen) + 1}
      /\ Len(screen) + 1 \notin DOMAIN screen
      /\ screen'[Len(screen) + 1] = [msg |-> m, by |-> c]
      /\ \A i \in DOMAIN screen : screen'[i] = screen[i]
      /\ \A d \in Conns \ {c} : /\ Told(d)' = Told(d) /\ ShownBy(d)' = ShownBy(d)
                                /\ hand'[d] = hand[d]
  BY <1>1, <1>2, Appended
<1>4. \A d \in Conns : Told(d)' = Told(d) BY <1>3
<1>5. m \in Msgs BY <1>2 DEF TypeOK
<1>6. TypeOK'
  <2>1. screen' \in Seq([msg : Msgs, by : Conns])
    <3>1. [msg |-> m, by |-> c] \in [msg : Msgs, by : Conns] BY <1>5
    <3> QED BY <1>1, <1>2, <3>1 DEF TypeOK
  <2>2. hand' \in [Conns -> SUBSET Msgs] BY <1>1, <1>2 DEF TypeOK
  <2> QED BY <1>1, <1>2, <2>1, <2>2 DEF TypeOK
<1>7. Unmade' BY <1>1, <1>4 DEF Inv, Unmade
<1>8. Held' /\ Known'
  <2>1. CASE conn = 0 BY <1>1, <2>1 DEF Held, Known
  <2>2. CASE conn # 0
    <3>1. conn \in Conns BY <1>2, <2>2 DEF TypeOK, Conns
    <3>2. conn' = conn /\ Told(conn)' = Told(conn) BY <1>1, <1>4, <3>1 DEF Told, ShownBy, Streamed
    <3> QED BY <1>1, <3>2 DEF Inv, Held, Known, HeardOf
  <2> QED BY <2>1, <2>2
<1>9. TellsWhole' BY <1>1, <1>4 DEF Inv, TellsWhole, HeardOf
<1>10. ShownOnce'
  <2> DEFINE last == Len(screen) + 1
  <2>1. \A i \in DOMAIN screen : screen[i] = [msg |-> m, by |-> c] => Forgot(c, m)
    BY <1>2, <1>5 DEF ShownBy, Single
  <2> SUFFICES ASSUME NEW i \in DOMAIN screen', NEW j \in DOMAIN screen',
                      i # j, screen'[i] = screen'[j]
               PROVE  <<screen'[i].by, screen'[i].msg>> \in forgotten
    BY <1>1 DEF ShownOnce
  <2>2. CASE i \in DOMAIN screen /\ j \in DOMAIN screen
    BY <1>3, <2>2 DEF Inv, ShownOnce
  <2>3. CASE i = last \/ j = last
    <3>1. screen'[i] = [msg |-> m, by |-> c] BY <1>3, <2>3
    <3>2. Forgot(c, m) BY <1>3, <2>1, <2>3, <3>1
    <3> QED BY <3>1, <3>2 DEF Forgot
  <2> QED BY <1>3, <2>2, <2>3
<1>11. ASSUME NEW d \in Conns PROVE Single(d)'
  <2>1. CASE d # c BY <1>1, <1>3, <2>1 DEF Inv, Single, Forgot, Streamed
  <2>2. CASE d = c
    <3>1. Streamed(c)' = Streamed(c) BY <1>1 DEF Streamed
    <3>2. \A x : Forgot(c, x)' <=> Forgot(c, x) BY <1>1 DEF Forgot
    <3>3. \A x \in Streamed(c)' : x \in ShownBy(c)' => Forgot(c, x)
      BY <1>2, <1>3, <3>1 DEF Single
    <3>4. \A i, j \in DOMAIN stream'[c] : i # j /\ stream'[c][i] = stream'[c][j] =>
            Forgot(c, stream'[c][i])
      BY <1>1, <1>2 DEF Single
    <3> QED BY <1>3, <2>2, <3>2, <3>3, <3>4 DEF Single
  <2> QED BY <2>1, <2>2
<1> QED BY <1>1, <1>6, <1>7, <1>8, <1>9, <1>10, <1>11 DEF Inv

LEMMA Steps == Inv /\ [Next]_vars => Inv'
<1> SUFFICES ASSUME Inv, [Next]_vars PROVE Inv' OBVIOUS
<1>1. CASE Connect BY <1>1, ConnectStep
<1>2. CASE Disconnect
  <2>1. conn' = 0 /\ UNCHANGED <<made, pilot, stream, hand, screen, listening>>
    BY <1>2 DEF Disconnect, listener
  <2> QED BY <2>1, QuietStep
<1>3. ASSUME NEW m \in Msgs, NEW k \in ChunksOf(m), Gather(m, k) PROVE Inv'
  BY <1>3, GatherStep
<1>4. ASSUME NEW m \in Msgs, NEW k \in ChunksOf(m), Complete(m, k) PROVE Inv'
  BY <1>4, LateCopy, FirstCopy
<1>5. ASSUME NEW c \in Conns, Take(c) PROVE Inv' BY <1>5, TakeStep
<1>6. ASSUME NEW c \in Conns, AppendIncoming(c) PROVE Inv' BY <1>6, AppendStep
<1>7. ASSUME NEW c \in Conns, Cease(c) PROVE Inv'
  <2>1. UNCHANGED <<conn, made, pilot, stream, hand, screen>>
        /\ listening' = listening \ {c} /\ c # conn
    BY <1>7 DEF Cease, Cancelled
  <2>2. conn # 0 => conn \in listening' BY <2>1 DEF Inv
  <2> QED BY <2>1, <2>2, QuietStep
<1>8. CASE UNCHANGED vars
  <2>1. UNCHANGED <<conn, made, pilot, stream, hand, screen, listening>>
    BY <1>8 DEF vars, listener
  <2>2. conn # 0 => conn \in listening' BY <2>1 DEF Inv
  <2> QED BY <2>1, <2>2, QuietStep
<1> QED BY <1>1, <1>2, <1>3, <1>4, <1>5, <1>6, <1>7, <1>8 DEF Next

(***************************************************************************)
(* The theorems.                                                           *)
(***************************************************************************)
\* Inv holds in every reachable state.
THEOREM Inductive == Spec => []Inv
BY Initially, Steps, PTL DEF Spec

\* Every variable of the receiving side has its type, and the ids seen stay
\* within their cap.
THEOREM TypeCorrect == Spec => []TypeOK
<1>1. Inv => TypeOK BY DEF Inv
<1> QED BY <1>1, Inductive, PTL

\* Every bubble of the claw is made of chunks of one connection.
THEOREM ShowsWhole == Spec => []ShownWhole
<1>1. Inv => ShownWhole
  <2> SUFFICES ASSUME Inv, NEW i \in DOMAIN screen, NEW k \in ChunksOf(screen[i].msg)
               PROVE  <<screen[i].msg, k>> \in heard[screen[i].by]
    BY DEF ShownWhole
  <2>1. screen[i] \in [msg : Msgs, by : Conns]
    <3> DEFINE Bubbles == [msg : Msgs, by : Conns]
    <3>1. screen \in Seq(Bubbles) BY DEF Inv, TypeOK
    <3> HIDE DEF Bubbles
    <3>2. i \in 1..Len(screen) BY <3>1
    <3>3. screen[i] \in Bubbles BY <3>1, <3>2
    <3> QED BY <3>3 DEF Bubbles
  <2>2. screen[i].msg \in Told(screen[i].by) BY <2>1 DEF Told, ShownBy
  <2>3. HeardOf(screen[i].by, screen[i].msg) = ChunksOf(screen[i].msg)
    BY <2>1, <2>2 DEF Inv, TellsWhole
  <2> QED BY <2>3 DEF HeardOf
<1> QED BY <1>1, Inductive, PTL

\* A connection shows no message twice of which it did not forget the id.
THEOREM ShowsOnce == Spec => []ShownOnce
<1>1. Inv => ShownOnce BY DEF Inv
<1> QED BY <1>1, Inductive, PTL

\* What the present connection has heard whole is shown or will be.
THEOREM MissesNone == Spec => []NoneMissed
<1>1. Inv => NoneMissed
  <2> SUFFICES ASSUME Inv, conn # 0, NEW m \in Msgs, {m} \X ChunksOf(m) \subseteq heard[conn]
               PROVE  m \in Told(conn) /\ (m \in Streamed(conn) => conn \in listening)
    BY DEF NoneMissed
  <2>1. HeardOf(conn, m) = ChunksOf(m) BY DEF HeardOf
  <2> QED BY <2>1 DEF Inv, Held
<1> QED BY <1>1, Inductive, PTL
=============================================================================
