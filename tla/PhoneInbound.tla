---------------------------- MODULE PhoneInbound ----------------------------
(***************************************************************************)
(* The claw's messages on the phone: the receive loop of PilotConnection   *)
(* with its reassemblers and the ids it has seen, the stream to the        *)
(* conversation and the listener that puts a message on the screen.        *)
(*                                                                         *)
(* handleDatagram runs to its end on the thread of the loop, appendIncoming*)
(* on the main actor; the listener awaits in between.  A datagram may come *)
(* at any time, again, and in any order: the network and the claw's queue, *)
(* which resends whole messages, owe no more.  Everything but the stream   *)
(* lives in the PilotConnection, so a new one knows nothing of the old.    *)
(* retryHandshake and reconnect change none of it.  Left out: two loops of *)
(* one connection at a time, and what was received but not handled when a  *)
(* connection was dropped, which its finished stream ignores.              *)
(***************************************************************************)
EXTENDS Naturals, Sequences, FiniteSets

CONSTANTS
  Msgs,       \* messages of the claw, by id
  Chunks,     \* [Msgs -> Nat \ {0}]: the envelopes of each
  SeenCap,    \* 512
  MaxConns,   \* bound: connections made
  MaxForgets  \* bound: times the seen ids are halved

ASSUME PhoneInboundAssumption ==
  /\ Chunks \in [Msgs -> Nat \ {0}]
  /\ SeenCap \in Nat /\ MaxConns \in Nat /\ MaxForgets \in Nat

Conns == 1..MaxConns
ChunksOf(m) == 1..Chunks[m]
Datagrams == UNION { {m} \X ChunksOf(m) : m \in Msgs }

VARIABLES
  conn, made,  \* Conversation.connection, 0 when nil; how many were made
  parts,       \* both reassemblers of conn: the chunks held of each message
  seen,        \* seenIds of conn
  stream,      \* per connection: messages yielded and not yet iterated
  hand,        \* per connection: the one its listener takes to the main actor
  listening,   \* connections whose listener iterates
  screen,      \* the claw's bubbles in order, with the connection of each
  heard,       \* history, per connection: the datagrams its loop handled
  forgotten,   \* history: ids a connection dropped from seenIds
  forgets      \* the counter behind the bound

pilot == <<parts, seen, heard, forgotten, forgets>>
listener == <<hand, listening, screen>>
vars == <<conn, made, pilot, stream, listener>>

NoParts == [m \in Msgs |-> {}]
ShownBy(c) == { m \in Msgs : \E i \in DOMAIN screen : screen[i] = [msg |-> m, by |-> c] }
Streamed(c) == { m \in Msgs : \E i \in DOMAIN stream[c] : stream[c][i] = m }
\* What the loop of connection c has told the conversation, or is about to.
Told(c) == ShownBy(c) \cup hand[c] \cup Streamed(c)

Init ==
  /\ conn = 0 /\ made = 0
  /\ parts = NoParts /\ seen = {}
  /\ stream = [c \in Conns |-> <<>>]
  /\ hand = [c \in Conns |-> {}]
  /\ listening = {}
  /\ screen = <<>>
  /\ heard = [c \in Conns |-> {}]
  /\ forgotten = {} /\ forgets = 0

\* connect makes the object and its listener.
Connect ==
  /\ conn = 0 /\ made < MaxConns
  /\ made' = made + 1 /\ conn' = made + 1
  /\ parts' = NoParts /\ seen' = {}
  /\ listening' = listening \cup {made + 1}
  /\ UNCHANGED <<stream, hand, screen, heard, forgotten, forgets>>

\* disconnect cancels the listener, finishes the stream and drops the object.
Disconnect ==
  /\ conn # 0
  /\ conn' = 0
  /\ UNCHANGED <<made, pilot, stream, listener>>

-----------------------------------------------------------------------------
\* The receive loop.

\* Mutant: the last chunk completes a message.
WholeAtLast(m, got) == Chunks[m] \in got
Whole(m, got) == got = ChunksOf(m)

\* markSeen: one id too many, and a random half of them stays.
\* Mutants: no half is dropped; it is not called.
MarkSeenAll(m) == seen' = seen \cup {m} /\ UNCHANGED <<forgotten, forgets>>
MarkSeenNot(m) == UNCHANGED <<seen, forgotten, forgets>>
MarkSeen(m) ==
  LET all == seen \cup {m} IN
  \/ /\ Cardinality(all) <= SeenCap
     /\ seen' = all
     /\ UNCHANGED <<forgotten, forgets>>
  \/ /\ Cardinality(all) > SeenCap
     /\ forgets < MaxForgets
     /\ forgets' = forgets + 1
     /\ \E kept \in SUBSET all :
          /\ Cardinality(kept) = SeenCap \div 2
          /\ seen' = kept
          /\ forgotten' = forgotten \cup ({conn} \X (all \ kept))

\* Mutant: a stream that keeps the newest message only.
YieldNewest(s, m) == <<m>>
Yield(s, m) == Append(s, m)

Hears(m, k) == heard' = [heard EXCEPT ![conn] = @ \cup {<<m, k>>}]

\* A chunk that leaves its message incomplete.
Gather(m, k) ==
  /\ conn # 0
  /\ Hears(m, k)
  /\ ~Whole(m, parts[m] \cup {k})
  /\ parts' = [parts EXCEPT ![m] = @ \cup {k}]
  /\ UNCHANGED <<conn, made, seen, forgotten, forgets, stream, listener>>

\* One that completes it.  Only now is the id looked up.
Complete(m, k) ==
  /\ conn # 0
  /\ Hears(m, k)
  /\ Whole(m, parts[m] \cup {k})
  /\ parts' = [parts EXCEPT ![m] = {}]
  /\ \/ m \in seen /\ UNCHANGED <<seen, forgotten, forgets, stream>>
     \/ /\ m \notin seen
        /\ MarkSeen(m)
        /\ stream' = [stream EXCEPT ![conn] = Yield(@, m)]
  /\ UNCHANGED <<conn, made, listener>>

-----------------------------------------------------------------------------
\* The listener.

\* for await takes the next message of the stream; a cancelled one may, too.
Take(c) ==
  /\ c \in listening
  /\ hand[c] = {} /\ stream[c] # <<>>
  /\ hand' = [hand EXCEPT ![c] = {Head(stream[c])}]
  /\ stream' = [stream EXCEPT ![c] = Tail(@)]
  /\ UNCHANGED <<conn, made, pilot, listening, screen>>

\* appendIncoming on the main actor.  It asks neither for the connection, which
\* may be dropped by now, nor for the id.
AppendIncoming(c) ==
  \E m \in hand[c] :
    /\ screen' = Append(screen, [msg |-> m, by |-> c])
    /\ hand' = [hand EXCEPT ![c] = {}]
    /\ UNCHANGED <<conn, made, pilot, stream, listening>>

Cancelled(c) == c # conn

\* The iteration of a cancelled listener ends.
Cease(c) ==
  /\ c \in listening /\ Cancelled(c) /\ hand[c] = {}
  /\ listening' = listening \ {c}
  /\ UNCHANGED <<conn, made, pilot, stream, hand, screen>>

Next ==
  \/ Connect \/ Disconnect
  \/ \E m \in Msgs : \E k \in ChunksOf(m) : Gather(m, k) \/ Complete(m, k)
  \/ \E c \in Conns : Take(c) \/ AppendIncoming(c) \/ Cease(c)

Spec == Init /\ [][Next]_vars

-----------------------------------------------------------------------------
(***************************************************************************)
(* Properties.                                                             *)
(***************************************************************************)
\* The kinds of values the variables hold; the ids seen stay within their cap.
TypeOK ==
  /\ conn \in 0..made /\ made \in 0..MaxConns
  /\ parts \in [Msgs -> SUBSET Nat]
  /\ seen \subseteq Msgs /\ IsFiniteSet(seen) /\ Cardinality(seen) <= SeenCap
  /\ stream \in [Conns -> Seq(Msgs)]
  /\ hand \in [Conns -> SUBSET Msgs]
  /\ listening \subseteq Conns
  /\ screen \in Seq([msg : Msgs, by : Conns])
  /\ heard \in [Conns -> SUBSET Datagrams]
  /\ forgotten \subseteq Conns \X Msgs
  /\ forgets \in 0..MaxForgets

\* A bubble is whole: each of its chunks came over one and the same connection,
\* so late copies of finished messages and the chunks a dropped connection had
\* never complete another.
ShownWhole ==
  \A i \in DOMAIN screen :
    \A k \in ChunksOf(screen[i].msg) : <<screen[i].msg, k>> \in heard[screen[i].by]

\* "Receivers MUST dedupe by `id`" (WIRE.md) for the life of a connection: it
\* shows a message twice only if it had to forget the id in between, whatever
\* is resent, reordered or still with the listener.
ShownOnce ==
  \A i, j \in DOMAIN screen :
    i # j /\ screen[i] = screen[j] => <<screen[i].by, screen[i].msg>> \in forgotten

\* Nothing is lost on the way: a message of which the present connection has
\* heard every chunk, ever and in any order, is on the screen, with the listener
\* or in the stream of a listener that goes on.
NoneMissed ==
  conn # 0 => \A m \in Msgs : {m} \X ChunksOf(m) \subseteq heard[conn] =>
    m \in Told(conn) /\ (m \in Streamed(conn) => conn \in listening)
=============================================================================
