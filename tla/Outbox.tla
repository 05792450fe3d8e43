------------------------------- MODULE Outbox -------------------------------
(***************************************************************************)
(* The plugin's per-peer persistent queue (plugin/src/outbox.ts), with the *)
(* two callers that fill it (sendOrEnqueue in outbound.ts and sendChunks   *)
(* in reply-dispatcher.ts) and the two that empty it (the proof-of-life    *)
(* drain and the periodic drain of lifecycle.ts).                          *)
(*                                                                         *)
(* JavaScript runs one turn at a time, so a step of this module is the     *)
(* code between two awaits.  A drain awaits every send.  PilotTransport    *)
(* hands the datagram to the daemon before send returns, so a drain over   *)
(* it ends in the turn it began in (SettlesInTurn).  The Transport         *)
(* interface promises only a Promise: over another transport, other turns  *)
(* run between two entries of a drain.                                     *)
(***************************************************************************)
EXTENDS Integers, Sequences, FiniteSets

CONSTANTS
  Peers,            \* pilot addresses, the keys of Outbox.peers
  Msgs,             \* outbound messages; each has one fresh id (newId())
  Drains,           \* drain passes that may be in progress at the same time
  DestOf,           \* [Msgs -> Peers]: the peer a message is for
  ChunksOf,         \* [Msgs -> Nat]: the number of envelopes it is cut into
  MaxPerPeer,       \* the entry cap (256 in the code)
  Ttl,              \* the entry lifetime (24 h in the code)
  SettlesInTurn,    \* TRUE: PilotTransport; FALSE: any Transport
  MaxTime,          \* bound: the last instant of the clock
  MaxCrashes,       \* bound: process crashes
  MaxSaveFailures   \* bound: writes of the JSON file that throw

NoPeer == "none"   \* a drain pass that is between two peers, or idle

ASSUME OutboxAssumption ==
  /\ NoPeer \notin Peers
  /\ DestOf \in [Msgs -> Peers]
  /\ ChunksOf \in [Msgs -> Nat \ {0}]
  /\ MaxPerPeer \in Nat \ {0}
  /\ Ttl \in Nat /\ MaxTime \in Nat
  /\ SettlesInTurn \in BOOLEAN
  /\ MaxCrashes \in Nat /\ MaxSaveFailures \in Nat

VARIABLES
  queue,      \* peers: the live list of each peer; <<>> is "no map key"
  disk,       \* the lists in the JSON file
  job,        \* the drain passes in progress
  snd,        \* the progress of each message's send
  down,       \* peers whose sends fail now (environment)
  now,        \* Date.now()
  running,    \* the plugin process is up
  crashes, saveFailures,     \* the counters behind the bounds
  handed,     \* history: chunks the transport accepted
  expired,    \* history: chunks a drain dropped for their age
  evicted     \* history: chunks the cap pushed out

vars == <<queue, disk, job, snd, down, now, running, crashes,
          saveFailures, handed, expired, evicted>>
history == <<handed, expired, evicted>>
env == <<down, now, running, crashes>>

Chunks == Msgs \X Nat
Entry == [msg : Msgs, seq : Nat, at : Nat]
Key(e) == <<e.msg, e.seq>>
Keys(list) == { Key(list[i]) : i \in DOMAIN list }
ChunksOfMsg(m) == { <<m, s>> : s \in 1..ChunksOf[m] }

NoEntry == [msg |-> "none", seq |-> 0, at |-> 0]
\* A drain pass: peer is the one drain(peer) works on, todo the peers drainAll
\* has left; old is <<>> while the map still holds the array the loop reads,
\* else <<that array>>; next is the loop's index, cur the entry being sent.
Idle == [peer |-> NoPeer, todo |-> {}, old |-> <<>>, next |-> 0,
         cur |-> NoEntry, survive |-> <<>>, start |-> 0]
Sending(d) == job[d].peer # NoPeer

Init ==
  /\ queue = [p \in Peers |-> <<>>]
  /\ disk = queue
  /\ job = [d \in Drains |-> Idle]
  /\ snd = [m \in Msgs |-> [phase |-> "new", next |-> 0]]
  /\ down = {}
  /\ now = 0
  /\ running = TRUE
  /\ crashes = 0 /\ saveFailures = 0
  /\ handed = {} /\ expired = {} /\ evicted = {}

(***************************************************************************)
(* Turns.  Nothing else runs while a caller stashes its chunks (the loop   *)
(* has no await), nor, with PilotTransport, while a drain is in progress.  *)
(***************************************************************************)
\* Mutant: a transport whose send awaits the daemon's answer.
DrainsYieldAlways == TRUE

NoneQueueing == \A m \in Msgs : snd[m].phase # "queueing"
DrainsYield == ~SettlesInTurn \/ \A d \in Drains : job[d] = Idle
TurnFree == running /\ NoneQueueing /\ DrainsYield
DrainTurn == running /\ NoneQueueing

\* Mutant: the write to the file is forgotten.
SaveOkForgotten(q) == UNCHANGED <<disk, saveFailures>>

SaveOk(q) == disk' = q /\ UNCHANGED saveFailures
SaveThrows == /\ saveFailures < MaxSaveFailures
              /\ saveFailures' = saveFailures + 1
              /\ UNCHANGED disk

(***************************************************************************)
(* Outbox.enqueue on one list: a duplicate (id, seq) is a no-op, and the   *)
(* oldest entries go when the list outgrows the cap.                       *)
(***************************************************************************)
IsDup(list, c) == c \in Keys(list)
\* Mutant: the cap test is off by one.
KeepNewestOffByOne(list) ==
  IF Len(list) > MaxPerPeer + 1 THEN SubSeq(list, 2, Len(list)) ELSE list
KeepNewest(list) ==
  IF Len(list) > MaxPerPeer
  THEN SubSeq(list, Len(list) - MaxPerPeer + 1, Len(list))
  ELSE list
\* Mutant: unshift instead of push.
PushedFront(list, e) == KeepNewest(<<e>> \o list)
Pushed(list, e) == KeepNewest(Append(list, e))

(***************************************************************************)
(* Senders: sendOrEnqueue and sendChunks.                                  *)
(***************************************************************************)
\* sendText / sendMedia / dispatch reach the first transport.send.
StartSend(m) ==
  /\ TurnFree
  /\ snd[m].phase = "new"
  /\ snd' = [snd EXCEPT ![m] = [phase |-> "sending", next |-> 1]]
  /\ UNCHANGED <<queue, disk, job, saveFailures, history, env>>

\* The awaited send of the current chunk resolves.
SendAccepted(m) ==
  /\ TurnFree
  /\ snd[m].phase = "sending"
  /\ DestOf[m] \notin down
  /\ handed' = handed \cup {<<m, snd[m].next>>}
  /\ snd' = [snd EXCEPT ![m] =
               IF snd[m].next = ChunksOf[m] THEN [phase |-> "sent", next |-> 0]
               ELSE [phase |-> "sending", next |-> snd[m].next + 1]]
  /\ UNCHANGED <<queue, disk, job, saveFailures, expired, evicted, env>>

\* The awaited send rejects: from here ALL chunks are stashed, in this turn.
SendRejected(m) ==
  /\ TurnFree
  /\ snd[m].phase = "sending"
  /\ DestOf[m] \in down
  /\ snd' = [snd EXCEPT ![m] = [phase |-> "queueing", next |-> 1]]
  /\ UNCHANGED <<queue, disk, job, saveFailures, history, env>>

\* One round of the stashing loop; a throwing save ends it with an error
\* although the entry is already in the list.
\* Mutant: the index of the loop runs one too far.
AfterEnqueuePast(m) ==
  IF snd[m].next > ChunksOf[m] THEN [phase |-> "queued", next |-> 0]
  ELSE [phase |-> "queueing", next |-> snd[m].next + 1]
AfterEnqueue(m) ==
  IF snd[m].next = ChunksOf[m] THEN [phase |-> "queued", next |-> 0]
  ELSE [phase |-> "queueing", next |-> snd[m].next + 1]

\* (m's id is fresh, so its chunks are never duplicates here; enqueue asks.)
Enqueue(m) ==
  LET p == DestOf[m]
      e == [msg |-> m, seq |-> snd[m].next, at |-> now]
      list == IF IsDup(queue[p], Key(e)) THEN queue[p] ELSE Pushed(queue[p], e)
  IN /\ running
     /\ snd[m].phase = "queueing"
     /\ queue' = [queue EXCEPT ![p] = list]
     /\ evicted' = evicted \cup (Keys(Append(queue[p], e)) \ Keys(list))
     /\ \/ /\ IF IsDup(queue[p], Key(e)) THEN UNCHANGED <<disk, saveFailures>>
                                          ELSE SaveOk(queue')
           /\ snd' = [snd EXCEPT ![m] = AfterEnqueue(m)]
        \/ /\ ~IsDup(queue[p], Key(e)) /\ SaveThrows
           /\ snd' = [snd EXCEPT ![m] = [phase |-> "failed", next |-> 0]]
     /\ UNCHANGED <<job, handed, expired, env>>

(***************************************************************************)
(* Outbox.drain.  The for-of loop reads the LIVE array by index, so pushes *)
(* and shifts made while a send is awaited show through; once another      *)
(* drain has replaced the map entry, the loop goes on over the old array.  *)
(***************************************************************************)
Iterated(j) == IF j.old = <<>> THEN queue[j.peer] ELSE j.old[1]
TooOld(e, start) == start - e.at > Ttl

\* The positions the loop still has to send, from position n on.
Fresh(list, n, start) == { i \in n..Len(list) : ~TooOld(list[i], start) }
SkippedTo(list, n, k, start) == { Key(list[i]) : i \in { i \in n..k : TooOld(list[i], start) } }

\* The other drains of p keep the array the map no longer holds.
Orphaned(d, p) ==
  [x \in Drains |-> IF x # d /\ job[x].peer = p /\ job[x].old = <<>>
                    THEN [job[x] EXCEPT !.old = <<queue[p]>>] ELSE job[x]]

\* After the loop: replace (or delete) the peer's list with the survivors.
\* A save that throws makes drainAll reject: its other peers wait for a tick.
FinishDrain(d, j) ==
  LET Ends(rest) == [Orphaned(d, j.peer) EXCEPT ![d] = [Idle EXCEPT !.todo = rest]]
  IN /\ queue' = [queue EXCEPT ![j.peer] = j.survive]
     /\ \/ SaveOk(queue') /\ job' = Ends(j.todo)
        \/ SaveThrows /\ job' = Ends({})

\* Run the loop from position j.next to its next await or to its end.
Advance(d, j) ==
  LET list == Iterated(j)
      fresh == Fresh(list, j.next, j.start)
  IN \/ /\ fresh = {}
        /\ expired' = expired \cup SkippedTo(list, j.next, Len(list), j.start)
        /\ FinishDrain(d, j)
     \/ \E k \in fresh :
          /\ \A i \in fresh : k <= i
          /\ expired' = expired \cup SkippedTo(list, j.next, k, j.start)
          /\ job' = [job EXCEPT ![d] =
               [peer |-> j.peer, todo |-> j.todo, old |-> j.old, next |-> k + 1,
                cur |-> list[k], survive |-> j.survive, start |-> j.start]]
          /\ UNCHANGED <<queue, disk, saveFailures>>

\* drain(p) up to its first await; todo is what drainAll still has to do.
BeginDrain(d, p, todo) ==
  /\ Advance(d, [peer |-> p, todo |-> todo, old |-> <<>>, next |-> 1,
                 cur |-> NoEntry, survive |-> <<>>, start |-> now])
  /\ UNCHANGED <<snd, handed, evicted, env>>

\* onPeerProofOfLife: any authenticated datagram from p, nothing if p has none.
ProofOfLife(d, p) ==
  /\ TurnFree
  /\ job[d] = Idle
  /\ queue[p] # <<>>
  /\ BeginDrain(d, p, {})

\* The interval timer: drainAll over a snapshot of the map's keys.
PeriodicDrain(d) ==
  /\ TurnFree
  /\ job[d] = Idle
  /\ \E p \in Peers :
       /\ queue[p] # <<>>
       /\ BeginDrain(d, p, {x \in Peers \ {p} : queue[x] # <<>>})

\* drainAll's next peer; it may have been emptied since the snapshot.
NextPeer(d) ==
  /\ DrainTurn
  /\ ~Sending(d) /\ job[d].todo # {}
  /\ \E p \in job[d].todo :
       IF queue[p] # <<>>
       THEN BeginDrain(d, p, job[d].todo \ {p})
       ELSE /\ job' = [job EXCEPT ![d].todo = @ \ {p}]
            /\ UNCHANGED <<queue, disk, snd, saveFailures, history, env>>

\* Mutant: the entry survives whether or not its send was accepted.
SurvivorsAll(j, ok) == Append(j.survive, j.cur)
Survivors(j, ok) == IF ok THEN j.survive ELSE Append(j.survive, j.cur)

\* The awaited send of the current entry settles; a rejected one survives.
DrainStep(d) ==
  LET j == job[d]
      ok == j.peer \notin down
  IN /\ DrainTurn
     /\ Sending(d)
     /\ handed' = IF ok THEN handed \cup {Key(j.cur)} ELSE handed
     /\ Advance(d, [j EXCEPT !.survive = Survivors(j, ok)])
     /\ UNCHANGED <<snd, evicted, env>>

(***************************************************************************)
(* The process and its environment.                                        *)
(***************************************************************************)
\* Memory is gone; the file holds what the last successful save wrote
\* (write-temp then rename: never a torn file).
Crash ==
  /\ running /\ crashes < MaxCrashes
  /\ running' = FALSE /\ crashes' = crashes + 1
  /\ queue' = [p \in Peers |-> <<>>]
  /\ job' = [d \in Drains |-> Idle]
  /\ snd' = [m \in Msgs |-> IF snd[m].phase \in {"sending", "queueing"}
                            THEN [phase |-> "lost", next |-> 0] ELSE snd[m]]
  /\ UNCHANGED <<disk, down, now, saveFailures, history>>

\* Outbox.load, from the constructor.
Restart ==
  /\ ~running
  /\ running' = TRUE
  /\ queue' = disk
  /\ UNCHANGED <<disk, job, snd, down, now, crashes, saveFailures, history>>

Flip(p) ==
  /\ down' = IF p \in down THEN down \ {p} ELSE down \cup {p}
  /\ UNCHANGED <<queue, disk, job, snd, now, running, crashes,
                 saveFailures, history>>

Tick ==
  /\ now < MaxTime
  /\ now' = now + 1
  /\ UNCHANGED <<queue, disk, job, snd, down, running, crashes,
                 saveFailures, history>>

Next ==
  \/ \E m \in Msgs : \/ StartSend(m) \/ SendAccepted(m) \/ SendRejected(m)
                     \/ Enqueue(m)
  \/ \E d \in Drains : \/ \E p \in Peers : ProofOfLife(d, p)
                       \/ PeriodicDrain(d) \/ NextPeer(d) \/ DrainStep(d)
  \/ Crash \/ Restart \/ Tick
  \/ \E p \in Peers : Flip(p)

\* Promises settle, the interval timer keeps firing and a crashed process is
\* started again; nothing else is owed.
Fairness ==
  /\ \A m \in Msgs : WF_vars(SendAccepted(m) \/ SendRejected(m) \/ Enqueue(m))
  /\ \A d \in Drains : /\ WF_vars(DrainStep(d) \/ NextPeer(d))
                       /\ SF_vars(PeriodicDrain(d))
  /\ WF_vars(Restart)

Spec == Init /\ [][Next]_vars
FairSpec == Spec /\ Fairness

-----------------------------------------------------------------------------
(***************************************************************************)
(* Properties.                                                             *)
(***************************************************************************)
Phases == {"new", "sending", "queueing", "sent", "queued", "failed", "lost"}
Job == [peer : Peers \cup {NoPeer}, todo : SUBSET Peers, old : Seq(Seq(Entry)),
        next : Nat, cur : Entry \cup {NoEntry}, survive : Seq(Entry), start : Nat]

Types ==
  /\ queue \in [Peers -> Seq(Entry)]
  /\ disk \in [Peers -> Seq(Entry)]
  /\ job \in [Drains -> Job]
  /\ snd \in [Msgs -> [phase : Phases, next : Nat]]
  /\ down \subseteq Peers
  /\ now \in Nat
  /\ running \in BOOLEAN
  /\ crashes \in Nat /\ saveFailures \in Nat
  /\ handed \subseteq Chunks /\ expired \subseteq Chunks /\ evicted \subseteq Chunks

\* The loop of a caller is at a chunk of its message.
Numbered == \A m \in Msgs :
  snd[m].phase \in {"sending", "queueing"} => snd[m].next \in 1..ChunksOf[m]

\* Every variable has its type, and the loops of sendOrEnqueue and sendChunks
\* stay within their message.
TypeOK == Types /\ Numbered

Discharged == handed \cup expired \cup evicted
Promised(m) == snd[m].phase = "queued"

\* A message whose caller was told "queued" is never lost: each of its chunks
\* is in the file (so a crash keeps it) and, while the process runs, in memory,
\* until the transport took it or the TTL or the cap dropped it
\* (outbox.ts: "retrying until success or TTL/cap eviction").
Retained ==
  \A m \in Msgs : Promised(m) =>
    /\ ChunksOfMsg(m) \subseteq Keys(disk[DestOf[m]]) \cup Discharged
    /\ running => ChunksOfMsg(m) \subseteq Keys(queue[DestOf[m]]) \cup Discharged

\* No list outgrows the cap, in memory or in the file, whatever drains and
\* enqueues interleave: a drain's survivors come from arrays that shift under it.
CapHolds ==
  \A p \in Peers : Len(queue[p]) <= MaxPerPeer /\ Len(disk[p]) <= MaxPerPeer

\* The lists stay ordered by age, so the entries the cap shifts out are the
\* oldest, even after a drain has written an older snapshot back.
AgeOrdered ==
  \A p \in Peers : \A a, b \in DOMAIN queue[p] :
    a < b => queue[p][a].at <= queue[p][b].at

\* The outbox is a durable queue: its lists are the items, those discharged are
\* accounted for, and a caller that stashes its chunks offers its message.  Also:
\* no drain brings an item back, and a promise is made with the file up to date.
Listed(lists) == UNION { {p} \X Keys(lists[p]) : p \in Peers }
Durable == INSTANCE DurableQueue WITH
  ItemsOf <- [m \in Msgs |-> {DestOf[m]} \X ChunksOfMsg(m)],
  live <- Listed(queue),
  file <- Listed(disk),
  gone <- Peers \X Discharged,
  offered <- { m \in Msgs : snd[m].phase = "queueing" },
  promised <- { m \in Msgs : Promised(m) },
  up <- running
KeepsPromises == Durable!Spec

\* Once a peer stays reachable its list is drained for good, without any
\* traffic from the peer: the interval timer is enough.
EventuallyDrained ==
  \A p \in Peers : <>[](p \notin down) => <>[](running /\ queue[p] = <<>>)
=============================================================================
