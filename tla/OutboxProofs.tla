---------------------------- MODULE OutboxProofs ----------------------------
(***************************************************************************)
(* Proofs about Outbox, for every number of peers, messages, chunks and    *)
(* concurrent drains, every cap, lifetime and bound.                       *)
(***************************************************************************)
EXTENDS Outbox, SequenceTheorems, TLAPS

-----------------------------------------------------------------------------
(* Lists under enqueue.                                                    *)

\* What KeepNewest keeps of a typed list: a suffix, within the cap.
LEMMA KeepNewestFacts ==
  ASSUME NEW list \in Seq(Entry)
  PROVE  /\ KeepNewest(list) \in Seq(Entry)
         /\ Len(KeepNewest(list)) <= MaxPerPeer
         /\ Len(list) <= MaxPerPeer => KeepNewest(list) = list
         /\ Len(list) > MaxPerPeer => Len(KeepNewest(list)) = MaxPerPeer
         /\ \E k \in Nat : \A i \in DOMAIN KeepNewest(list) :
              i + k \in DOMAIN list /\ KeepNewest(list)[i] = list[i + k]
  <1> USE OutboxAssumption
  <1>1. CASE Len(list) <= MaxPerPeer
    <2>1. KeepNewest(list) = list
      BY <1>1 DEF KeepNewest
    <2>2. 0 \in Nat /\ \A i \in DOMAIN list : i + 0 \in DOMAIN list /\ list[i] = list[i + 0]
      OBVIOUS
    <2>3. ~(Len(list) > MaxPerPeer)
      BY <1>1
    <2> QED BY <1>1, <2>1, <2>2, <2>3
  <1>2. CASE Len(list) > MaxPerPeer
    <2> DEFINE k == Len(list) - MaxPerPeer
    <2>1. /\ k \in Nat /\ k >= 1
          /\ KeepNewest(list) = SubSeq(list, k + 1, Len(list))
      BY <1>2, OutboxAssumption DEF KeepNewest
    <2>2. \A i \in (k + 1) .. Len(list) : list[i] \in Entry
      BY <2>1
    <2>3. /\ KeepNewest(list) \in Seq(Entry)
          /\ Len(KeepNewest(list)) = MaxPerPeer
          /\ \A i \in 1 .. Len(list) - (k + 1) + 1 :
               KeepNewest(list)[i] = list[(k + 1) + i - 1]
      BY <2>1, <2>2, SubSeqProperties, OutboxAssumption
    <2>4. \A i \in DOMAIN KeepNewest(list) :
            i + k \in DOMAIN list /\ KeepNewest(list)[i] = list[i + k]
      <3>1. DOMAIN KeepNewest(list) = 1 .. MaxPerPeer
        BY <2>3
      <3> QED BY <2>1, <2>3, <3>1
    <2> QED BY <1>2, <2>1, <2>3, <2>4
  <1> QED BY <1>1, <1>2, OutboxAssumption

\* Pushing an entry keeps the type and the cap, and never shortens a list
\* that respects the cap.
LEMMA PushedFacts ==
  ASSUME NEW list \in Seq(Entry), NEW e \in Entry
  PROVE  /\ Pushed(list, e) \in Seq(Entry)
         /\ Len(Pushed(list, e)) <= MaxPerPeer
         /\ Len(list) <= MaxPerPeer => Len(Pushed(list, e)) >= Len(list)
  <1>1. Append(list, e) \in Seq(Entry) /\ Len(Append(list, e)) = Len(list) + 1
    BY AppendProperties
  <1>2. Pushed(list, e) = KeepNewest(Append(list, e))
    BY DEF Pushed
  <1>3. /\ KeepNewest(Append(list, e)) \in Seq(Entry)
        /\ Len(KeepNewest(Append(list, e))) <= MaxPerPeer
        /\ \/ KeepNewest(Append(list, e)) = Append(list, e)
           \/ Len(KeepNewest(Append(list, e))) = MaxPerPeer
    <2> DEFINE app == Append(list, e)
    <2>1. app \in Seq(Entry) /\ Len(app) \in Nat /\ MaxPerPeer \in Nat
      BY <1>1, OutboxAssumption
    <2> HIDE DEF app
    <2>2. Len(app) <= MaxPerPeer \/ Len(app) > MaxPerPeer
      BY <2>1
    <2> QED BY <2>1, <2>2, KeepNewestFacts DEF app
  <1> QED BY <1>1, <1>2, <1>3, OutboxAssumption

-----------------------------------------------------------------------------
(* Types.                                                                  *)

\* A drain that awaits a send has an entry in flight and an index.
SendingOK ==
  \A d \in Drains : Sending(d) => job[d].cur \in Entry /\ job[d].next >= 1

TypeInv == Types /\ SendingOK

LEMMA IdleIsJob == \A rest \in SUBSET Peers : [Idle EXCEPT !.todo = rest] \in Job
  BY EmptySeq DEF Idle, Job

LEMMA KeysType == ASSUME NEW list \in Seq(Entry) PROVE Keys(list) \subseteq Chunks
  <1>1. \A i \in DOMAIN list : list[i] \in Entry
    BY ElementOfSeq
  <1> QED BY <1>1 DEF Keys, Key, Entry, Chunks

\* The list a drain with a peer iterates is a list of entries.
LEMMA KeysAppend ==
  ASSUME NEW list \in Seq(Entry), NEW e \in Entry
  PROVE  Keys(Append(list, e)) = Keys(list) \cup {Key(e)}
  <1> DEFINE app == Append(list, e)
  <1>1. /\ app \in Seq(Entry) /\ Len(app) = Len(list) + 1 /\ Len(list) \in Nat
        /\ \A i \in 1..Len(list) : app[i] = list[i]
        /\ app[Len(list) + 1] = e
    BY AppendProperties
  <1>2. DOMAIN app = 1..(Len(list) + 1) /\ DOMAIN list = 1..Len(list)
    BY <1>1
  <1> HIDE DEF app
  <1>3. Keys(app) \subseteq Keys(list) \cup {Key(e)}
    BY <1>1, <1>2 DEF Keys
  <1>4. Keys(list) \cup {Key(e)} \subseteq Keys(app)
    BY <1>1, <1>2 DEF Keys
  <1> QED BY <1>3, <1>4 DEF app

LEMMA IteratedType ==
  ASSUME Types, NEW j \in Job, j.peer \in Peers
  PROVE  Iterated(j) \in Seq(Entry)
  <1>1. CASE j.old = <<>>
    BY <1>1 DEF Types, Iterated
  <1>2. CASE j.old # <<>>
    BY <1>2 DEF Iterated, Job
  <1> QED BY <1>1, <1>2

LEMMA SkippedType ==
  ASSUME NEW list \in Seq(Entry), NEW n \in Nat, n >= 1, NEW k \in Int,
         k <= Len(list), NEW start \in Nat
  PROVE  SkippedTo(list, n, k, start) \subseteq Chunks
  <1>1. \A i \in n .. k : list[i] \in Entry
    BY ElementOfSeq
  <1> QED BY <1>1 DEF SkippedTo, Key, Entry, Chunks

\* The end of a drain keeps the types.
LEMMA FinishTypes ==
  ASSUME TypeInv, NEW d \in Drains, NEW j \in Job, j.peer \in Peers, FinishDrain(d, j)
  PROVE  /\ queue' \in [Peers -> Seq(Entry)]
         /\ disk' \in [Peers -> Seq(Entry)]
         /\ job' \in [Drains -> Job]
         /\ saveFailures' \in Nat
         /\ SendingOK'
  <1> USE DEF TypeInv
  <1>1. j.survive \in Seq(Entry) /\ j.todo \in SUBSET Peers /\ {} \in SUBSET Peers
    BY DEF Job
  <1>2. queue' \in [Peers -> Seq(Entry)]
    BY <1>1 DEF Types, FinishDrain
  <1>3. SaveOk(queue') \/ SaveThrows
    BY DEF FinishDrain
  <1>4. disk' \in [Peers -> Seq(Entry)] /\ saveFailures' \in Nat
    BY <1>2, <1>3 DEF SaveOk, SaveThrows, Types
  <1>5. \A x \in Drains :
          /\ Orphaned(d, j.peer)[x] \in Job
          /\ Orphaned(d, j.peer)[x].peer = job[x].peer
          /\ Orphaned(d, j.peer)[x].cur = job[x].cur
          /\ Orphaned(d, j.peer)[x].next = job[x].next
    <2> SUFFICES ASSUME NEW x \in Drains
                 PROVE /\ Orphaned(d, j.peer)[x] \in Job
                       /\ Orphaned(d, j.peer)[x].peer = job[x].peer
                       /\ Orphaned(d, j.peer)[x].cur = job[x].cur
                       /\ Orphaned(d, j.peer)[x].next = job[x].next
      OBVIOUS
    <2>1. job[x] \in Job /\ <<queue[j.peer]>> \in Seq(Seq(Entry))
      BY DEF Types
    <2>2. [job[x] EXCEPT !.old = <<queue[j.peer]>>] \in Job
      BY <2>1 DEF Job
    <2> QED BY <2>1, <2>2 DEF Orphaned, Job
  <1>6. PICK rest \in SUBSET Peers :
          job' = [Orphaned(d, j.peer) EXCEPT ![d] = [Idle EXCEPT !.todo = rest]]
    BY <1>1 DEF FinishDrain
  <1>7. [Idle EXCEPT !.todo = rest] \in Job /\ [Idle EXCEPT !.todo = rest].peer = NoPeer
    BY IdleIsJob DEF Idle
  <1>8. DOMAIN Orphaned(d, j.peer) = Drains
    BY DEF Orphaned
  <1>9. job' = [x \in Drains |-> IF x = d THEN [Idle EXCEPT !.todo = rest]
                                 ELSE Orphaned(d, j.peer)[x]]
    BY <1>6, <1>8 DEF Orphaned
  <1>10. job' \in [Drains -> Job]
    BY <1>5, <1>7, <1>9
  <1>11. SendingOK'
    BY <1>5, <1>7, <1>9 DEF SendingOK, Sending
  <1> QED BY <1>2, <1>4, <1>10, <1>11

\* One run of the drain loop keeps the types.
LEMMA AdvanceTypes ==
  ASSUME TypeInv, NEW d \in Drains, NEW j \in Job, j.peer \in Peers, j.next >= 1,
         Advance(d, j)
  PROVE  /\ queue' \in [Peers -> Seq(Entry)]
         /\ disk' \in [Peers -> Seq(Entry)]
         /\ job' \in [Drains -> Job]
         /\ saveFailures' \in Nat
         /\ expired' \subseteq Chunks
         /\ SendingOK'
  <1> DEFINE list == Iterated(j)
             fresh == Fresh(list, j.next, j.start)
  <1> USE DEF TypeInv
  <1>1. list \in Seq(Entry) /\ Len(list) \in Nat
    BY IteratedType
  <1>2. j.next \in Nat /\ j.start \in Nat
    BY DEF Job
  <1> HIDE DEF list
  <1>3. ASSUME NEW k \in Int, k <= Len(list)
        PROVE  SkippedTo(list, j.next, k, j.start) \subseteq Chunks
    BY <1>1, <1>2, <1>3, SkippedType
  <1>4. CASE /\ FinishDrain(d, j)
             /\ expired' = expired \cup SkippedTo(list, j.next, Len(list), j.start)
    <2>1. expired' \subseteq Chunks
      BY <1>1, <1>3, <1>4 DEF Types
    <2> QED BY <1>4, <2>1, FinishTypes
  <1>5. ASSUME NEW k \in fresh,
               expired' = expired \cup SkippedTo(list, j.next, k, j.start),
               job' = [job EXCEPT ![d] =
                 [peer |-> j.peer, todo |-> j.todo, old |-> j.old, next |-> k + 1,
                  cur |-> list[k], survive |-> j.survive, start |-> j.start]],
               UNCHANGED <<queue, disk, saveFailures>>
        PROVE  /\ queue' \in [Peers -> Seq(Entry)]
               /\ disk' \in [Peers -> Seq(Entry)]
               /\ job' \in [Drains -> Job]
               /\ saveFailures' \in Nat
               /\ expired' \subseteq Chunks
               /\ SendingOK'
    <2>1. k \in Nat /\ k <= Len(list) /\ k >= 1 /\ list[k] \in Entry
      BY <1>1, <1>2, ElementOfSeq DEF Fresh
    <2> DEFINE jn == [peer |-> j.peer, todo |-> j.todo, old |-> j.old, next |-> k + 1,
                      cur |-> list[k], survive |-> j.survive, start |-> j.start]
    <2>2. jn \in Job /\ jn.cur \in Entry /\ jn.next >= 1
      BY <2>1 DEF Job
    <2> HIDE DEF jn
    <2>3. job' = [job EXCEPT ![d] = jn]
      BY <1>5 DEF jn
    <2>4. job' \in [Drains -> Job]
      BY <2>2, <2>3 DEF Types
    <2>5. SendingOK'
      BY <2>2, <2>3 DEF SendingOK, Sending, Types
    <2>6. expired' \subseteq Chunks
      BY <1>3, <1>5, <2>1 DEF Types
    <2> QED BY <1>5, <2>4, <2>5, <2>6 DEF Types
  <1>6. \/ /\ FinishDrain(d, j)
           /\ expired' = expired \cup SkippedTo(list, j.next, Len(list), j.start)
        \/ \E k \in fresh :
             /\ expired' = expired \cup SkippedTo(list, j.next, k, j.start)
             /\ job' = [job EXCEPT ![d] =
                  [peer |-> j.peer, todo |-> j.todo, old |-> j.old, next |-> k + 1,
                   cur |-> list[k], survive |-> j.survive, start |-> j.start]]
             /\ UNCHANGED <<queue, disk, saveFailures>>
    BY DEF Advance, list
  <1> QED BY <1>4, <1>5, <1>6

\* drain(p) up to its first await keeps the types.
LEMMA BeginDrainTypes ==
  ASSUME TypeInv, NEW d \in Drains, NEW p \in Peers, NEW todo \in SUBSET Peers,
         BeginDrain(d, p, todo)
  PROVE  TypeInv'
  <1> DEFINE j == [peer |-> p, todo |-> todo, old |-> <<>>, next |-> 1,
                   cur |-> NoEntry, survive |-> <<>>, start |-> now]
  <1>1. j \in Job /\ j.peer \in Peers /\ j.next >= 1
    BY EmptySeq DEF Job, TypeInv, Types
  <1>2. Advance(d, j) /\ UNCHANGED <<snd, handed, evicted, env>>
    BY DEF BeginDrain
  <1> HIDE DEF j
  <1> QED BY <1>1, <1>2, AdvanceTypes DEF TypeInv, Types, env

LEMMA InitTypes == Init => TypeInv
  <1> SUFFICES ASSUME Init PROVE TypeInv
    OBVIOUS
  <1>1. Idle \in Job /\ Idle.peer = NoPeer
    BY EmptySeq DEF Idle, Job
  <1> QED BY <1>1, EmptySeq, OutboxAssumption
          DEF Init, TypeInv, Types, SendingOK, Sending, Phases, Chunks

\* Every step keeps the types.
LEMMA NextTypes == TypeInv /\ [Next]_vars => TypeInv'
  <1> SUFFICES ASSUME TypeInv, [Next]_vars PROVE TypeInv'
    OBVIOUS
  <1> USE DEF TypeInv
  <1>1. ASSUME NEW m \in Msgs, StartSend(m) PROVE TypeInv'
    BY <1>1 DEF StartSend, Types, SendingOK, Sending, Phases, history, env
  <1>2. ASSUME NEW m \in Msgs, SendAccepted(m) PROVE TypeInv'
    <2>1. snd[m].next \in Nat /\ <<m, snd[m].next>> \in Chunks
      BY DEF Types, Chunks
    <2>2. snd' \in [Msgs -> [phase : Phases, next : Nat]]
      BY <1>2, <2>1 DEF SendAccepted, Types, Phases
    <2> QED BY <1>2, <2>1, <2>2 DEF SendAccepted, Types, SendingOK, Sending, env
  <1>3. ASSUME NEW m \in Msgs, SendRejected(m) PROVE TypeInv'
    BY <1>3 DEF SendRejected, Types, SendingOK, Sending, Phases, history, env
  <1>4. ASSUME NEW m \in Msgs, Enqueue(m) PROVE TypeInv'
    <2> DEFINE p == DestOf[m]
               e == [msg |-> m, seq |-> snd[m].next, at |-> now]
               list == IF IsDup(queue[p], Key(e)) THEN queue[p] ELSE Pushed(queue[p], e)
    <2>1. p \in Peers /\ e \in Entry /\ queue[p] \in Seq(Entry)
      BY OutboxAssumption DEF Types, Entry
    <2>2. list \in Seq(Entry) /\ Append(queue[p], e) \in Seq(Entry)
      BY <2>1, PushedFacts, AppendProperties
    <2>3. queue' = [queue EXCEPT ![p] = list]
      BY <1>4 DEF Enqueue
    <2>4. queue' \in [Peers -> Seq(Entry)]
      BY <2>1, <2>2, <2>3 DEF Types
    <2>5. evicted' \subseteq Chunks
      <3>1. Keys(Append(queue[p], e)) \subseteq Chunks
        BY <2>2, KeysType
      <3> QED BY <1>4, <3>1 DEF Enqueue, Types
    <2>6. disk' \in [Peers -> Seq(Entry)] /\ saveFailures' \in Nat
      <3>1. UNCHANGED <<disk, saveFailures>> \/ SaveOk(queue') \/ SaveThrows
        BY <1>4 DEF Enqueue
      <3> QED BY <2>4, <3>1 DEF SaveOk, SaveThrows, Types
    <2>7. snd' \in [Msgs -> [phase : Phases, next : Nat]]
      <3>1. AfterEnqueue(m) \in [phase : Phases, next : Nat]
        <4>1. snd[m].next + 1 \in Nat
          BY DEF Types
        <4> QED BY <4>1 DEF AfterEnqueue, Phases
      <3>2. \/ snd' = [snd EXCEPT ![m] = AfterEnqueue(m)]
            \/ snd' = [snd EXCEPT ![m] = [phase |-> "failed", next |-> 0]]
        BY <1>4 DEF Enqueue
      <3>3. [phase |-> "failed", next |-> 0] \in [phase : Phases, next : Nat]
        BY DEF Phases
      <3> QED BY <3>1, <3>2, <3>3 DEF Types
    <2>8. UNCHANGED <<job, handed, expired, env>>
      BY <1>4 DEF Enqueue
    <2> QED BY <2>4, <2>5, <2>6, <2>7, <2>8 DEF Types, SendingOK, Sending, env
  <1>5. ASSUME NEW d \in Drains, NEW p \in Peers, ProofOfLife(d, p) PROVE TypeInv'
    BY <1>5, BeginDrainTypes DEF ProofOfLife
  <1>6. ASSUME NEW d \in Drains, PeriodicDrain(d) PROVE TypeInv'
    <2>1. PICK p \in Peers : BeginDrain(d, p, {x \in Peers \ {p} : queue[x] # <<>>})
      BY <1>6 DEF PeriodicDrain
    <2> QED BY <2>1, BeginDrainTypes
  <1>7. ASSUME NEW d \in Drains, NextPeer(d) PROVE TypeInv'
    <2>1. job[d] \in Job /\ job[d].todo \subseteq Peers
      BY DEF Types, Job
    <2>2. PICK p \in job[d].todo :
            IF queue[p] # <<>>
            THEN BeginDrain(d, p, job[d].todo \ {p})
            ELSE /\ job' = [job EXCEPT ![d].todo = @ \ {p}]
                 /\ UNCHANGED <<queue, disk, snd, saveFailures, history, env>>
      BY <1>7 DEF NextPeer
    <2>3. CASE queue[p] # <<>>
      BY <2>1, <2>2, <2>3, BeginDrainTypes
    <2>4. CASE queue[p] = <<>>
      <3>1. [job[d] EXCEPT !.todo = @ \ {p}] \in Job
        BY <2>1 DEF Job
      <3>2. job' = [job EXCEPT ![d] = [job[d] EXCEPT !.todo = @ \ {p}]]
        BY <2>2, <2>4
      <3>3. job' \in [Drains -> Job]
        BY <3>1, <3>2 DEF Types
      <3>4. \A x \in Drains : /\ job'[x].peer = job[x].peer
                              /\ job'[x].cur = job[x].cur
                              /\ job'[x].next = job[x].next
        BY <2>1, <3>2 DEF Types, Job
      <3>5. SendingOK'
        BY <3>4 DEF SendingOK, Sending
      <3> QED BY <2>2, <2>4, <3>3, <3>5 DEF Types, history, env
    <2> QED BY <2>3, <2>4
  <1>8. ASSUME NEW d \in Drains, DrainStep(d) PROVE TypeInv'
    <2> DEFINE ok == job[d].peer \notin down
               j == [job[d] EXCEPT !.survive = Survivors(job[d], ok)]
    <2>1. /\ job[d] \in Job /\ job[d].cur \in Entry
          /\ job[d].peer \in Peers /\ job[d].next >= 1
      BY <1>8 DEF DrainStep, Types, SendingOK, Sending, Job
    <2>2. Survivors(job[d], ok) \in Seq(Entry)
      BY <2>1, AppendProperties DEF Survivors, Job
    <2>3. j \in Job /\ j.peer \in Peers /\ j.next >= 1
      BY <2>1, <2>2 DEF Job
    <2>4. Advance(d, j) /\ UNCHANGED <<snd, evicted, env>>
      BY <1>8 DEF DrainStep
    <2>5. handed' \subseteq Chunks
      BY <1>8, <2>1 DEF DrainStep, Types, Key, Entry, Chunks
    <2> HIDE DEF j
    <2> QED BY <2>3, <2>4, <2>5, AdvanceTypes DEF Types, env
  <1>9. CASE Crash
    <2>1. \A m \in Msgs : snd'[m] \in [phase : Phases, next : Nat]
      BY <1>9 DEF Crash, Types, Phases
    <2>2. snd' \in [Msgs -> [phase : Phases, next : Nat]]
      BY <1>9, <2>1 DEF Crash
    <2>3. Idle \in Job /\ Idle.peer = NoPeer
      BY EmptySeq DEF Idle, Job
    <2>4. /\ queue' \in [Peers -> Seq(Entry)] /\ job' \in [Drains -> Job] /\ SendingOK'
      BY <1>9, <2>3, EmptySeq DEF Crash, SendingOK, Sending
    <2>5. running' \in BOOLEAN /\ crashes' \in Nat
      <3>1. running' = FALSE /\ crashes' = crashes + 1
        BY <1>9 DEF Crash
      <3>2. crashes \in Nat
        BY DEF Types
      <3>3. crashes' \in Nat
        BY <3>1, <3>2
      <3>4. running' \in BOOLEAN
        BY <3>1
      <3> QED BY <3>3, <3>4
    <2>6. UNCHANGED <<disk, down, now, saveFailures, handed, expired, evicted>>
      BY <1>9 DEF Crash, history
    <2> QED BY <2>2, <2>4, <2>5, <2>6 DEF Types
  <1>10. CASE Restart
    BY <1>10 DEF Restart, Types, SendingOK, Sending, history
  <1>11. CASE Tick
    BY <1>11 DEF Tick, Types, SendingOK, Sending, history
  <1>12. ASSUME NEW p \in Peers, Flip(p) PROVE TypeInv'
    BY <1>12 DEF Flip, Types, SendingOK, Sending, history
  <1>13. CASE UNCHANGED vars
    BY <1>13 DEF vars, Types, SendingOK, Sending
  <1> QED BY <1>1, <1>2, <1>3, <1>4, <1>5, <1>6, <1>7, <1>8, <1>9, <1>10, <1>11,
             <1>12, <1>13 DEF Next

LEMMA NextNumbered == TypeInv /\ Numbered /\ [Next]_vars => Numbered'
  <1> SUFFICES ASSUME TypeInv, Numbered, [Next]_vars PROVE Numbered'
    OBVIOUS
  <1>1. \A m \in Msgs : ChunksOf[m] \in Nat \ {0} /\ snd[m].next \in Nat
    BY OutboxAssumption DEF TypeInv, Types
  <1>2. ASSUME NEW m \in Msgs, NEW r, snd' = [snd EXCEPT ![m] = r],
               r.phase \in {"sending", "queueing"} => r.next \in 1..ChunksOf[m]
        PROVE  Numbered'
    <2>1. snd'[m] = r /\ \A x \in Msgs : x # m => snd'[x] = snd[x]
      BY <1>2 DEF TypeInv, Types
    <2> QED BY <1>2, <2>1 DEF Numbered
  <1>3. ASSUME NEW m \in Msgs, StartSend(m) \/ SendRejected(m) PROVE Numbered'
    <2>1. 1 \in 1..ChunksOf[m]
      BY <1>1
    <2> QED BY <1>2, <1>3, <2>1 DEF StartSend, SendRejected
  <1>4. ASSUME NEW m \in Msgs, snd[m].phase \in {"sending", "queueing"},
               snd[m].next # ChunksOf[m]
        PROVE  snd[m].next + 1 \in 1..ChunksOf[m]
    BY <1>1, <1>4 DEF Numbered
  <1>5. ASSUME NEW m \in Msgs, SendAccepted(m) PROVE Numbered'
    <2> DEFINE r == IF snd[m].next = ChunksOf[m] THEN [phase |-> "sent", next |-> 0]
                    ELSE [phase |-> "sending", next |-> snd[m].next + 1]
    <2>1. r.phase \in {"sending", "queueing"} => r.next \in 1..ChunksOf[m]
      BY <1>4, <1>5 DEF SendAccepted
    <2>2. snd' = [snd EXCEPT ![m] = r]
      BY <1>5 DEF SendAccepted
    <2> HIDE DEF r
    <2> QED BY <1>2, <2>1, <2>2
  <1>6. ASSUME NEW m \in Msgs, Enqueue(m) PROVE Numbered'
    <2>1. AfterEnqueue(m).phase \in {"sending", "queueing"} =>
            AfterEnqueue(m).next \in 1..ChunksOf[m]
      BY <1>4, <1>6 DEF Enqueue, AfterEnqueue
    <2>2. \/ snd' = [snd EXCEPT ![m] = AfterEnqueue(m)]
          \/ snd' = [snd EXCEPT ![m] = [phase |-> "failed", next |-> 0]]
      BY <1>6 DEF Enqueue
    <2> QED BY <1>2, <2>1, <2>2
  <1>7. CASE Crash
    BY <1>7 DEF Crash, Numbered
  <1>8. CASE UNCHANGED snd
    BY <1>8 DEF Numbered
  <1> QED BY <1>3, <1>5, <1>6, <1>7, <1>8
      DEF Next, ProofOfLife, PeriodicDrain, NextPeer, BeginDrain, DrainStep,
          Restart, Tick, Flip, vars

\* Spec keeps every variable in its type: the lists in memory and in the file
\* are lists of entries, a drain awaiting a send has an entry in flight, and a
\* caller that sends or stashes is at a chunk of its message.
THEOREM TypeCorrect == Spec => []TypeOK
  <1>1. Init => TypeInv /\ Numbered
    BY InitTypes DEF Init, Numbered
  <1>2. TypeInv /\ Numbered /\ [Next]_vars => TypeInv' /\ Numbered'
    BY NextTypes, NextNumbered
  <1>3. TypeInv /\ Numbered => TypeOK
    BY DEF TypeInv, TypeOK
  <1> QED BY <1>1, <1>2, <1>3, PTL DEF Spec

-----------------------------------------------------------------------------
(***************************************************************************)
(* A promised message is retained, over a transport that settles in the    *)
(* turn.  The invariant: at most one drain is in progress, nobody enqueues *)
(* meanwhile, and every key of the list it reads is among its survivors,   *)
(* in flight, still to be read, or discharged; so writing the survivors    *)
(* back loses nothing.  The keys a caller has stashed so far are kept like *)
(* those of a promised message.                                            *)
(***************************************************************************)
TurnInv ==
  /\ \A d, x \in Drains : job[d] # Idle /\ job[x] # Idle => d = x
  /\ \A d \in Drains : job[d] # Idle => running /\ NoneQueueing
  /\ \A d \in Drains : Sending(d) => job[d].old = <<>>

Rest(list, n) == { Key(list[i]) : i \in n..Len(list) }

\* What the loop over p's list has not lost; and where its survivors come from.
Covers(survive, flight, n, p, discharged) ==
  /\ Keys(queue[p]) \subseteq Keys(survive) \cup flight \cup Rest(queue[p], n) \cup discharged
  /\ Keys(survive) \cup flight \subseteq Keys(queue[p])

CoverInv ==
  \A d \in Drains : Sending(d) =>
    Covers(job[d].survive, {Key(job[d].cur)}, job[d].next, job[d].peer, handed \cup expired)

Kept(S, p) ==
  /\ S \subseteq Keys(disk[p]) \cup Discharged
  /\ running => S \subseteq Keys(queue[p]) \cup Discharged

StashedChunks(m) ==
  CASE snd[m].phase = "queued" -> ChunksOfMsg(m)
    [] snd[m].phase = "queueing" -> { <<m, s>> : s \in 1..(snd[m].next - 1) }
    [] OTHER -> {}

KeptInv == \A m \in Msgs : /\ Kept(StashedChunks(m), DestOf[m])
                           /\ snd[m].phase = "queueing" => running

\* A list holds a chunk only once its sender has stashed it, so enqueue never
\* meets a duplicate of an entry the file lacks.
Stashed(c) == \/ snd[c[1]].phase \in {"queued", "failed", "lost"}
              \/ snd[c[1]].phase = "queueing" /\ c[2] < snd[c[1]].next

FreshInv ==
  \A p \in Peers : \A c \in Keys(queue[p]) \cup Keys(disk[p]) : Stashed(c)

RetainedInv == TypeInv /\ TurnInv /\ CoverInv /\ KeptInv /\ FreshInv

\* A step that only shrinks lists, and takes no sender back, keeps FreshInv.
LEMMA ShrinkKeepsFresh ==
  ASSUME FreshInv, TypeInv, \A c \in Chunks : Stashed(c) => Stashed(c)',
         \A p \in Peers : Keys(queue'[p]) \subseteq Keys(queue[p]) \cup Keys(disk[p]),
         disk' = disk \/ disk' = queue'
  PROVE  FreshInv'
  <1> SUFFICES ASSUME NEW p \in Peers, NEW c \in Keys(queue'[p]) \cup Keys(disk'[p])
               PROVE Stashed(c)'
    BY DEF FreshInv
  <1>1. c \in Keys(queue[p]) \cup Keys(disk[p])
    OBVIOUS
  <1>2. Keys(queue[p]) \cup Keys(disk[p]) \subseteq Chunks
    BY KeysType DEF TypeInv, Types
  <1> QED BY <1>1, <1>2 DEF FreshInv

\* A step that drops from a list only discharged keys, and writes the file
\* with the list it leaves, keeps whatever was kept.
LossFree ==
  /\ Discharged \subseteq Discharged'
  /\ \A p \in Peers : Keys(queue[p]) \subseteq Keys(queue'[p]) \cup Discharged'
  /\ disk' = disk \/ disk' = queue'

\* And one that brings nothing back.
OnlyLoses == LossFree /\ \A p \in Peers : Keys(queue'[p]) \subseteq Keys(queue[p])

LEMMA LossFreeKeeps ==
  ASSUME NEW S, NEW p \in Peers, Kept(S, p), running, running', LossFree
  PROVE  Kept(S, p)'
  <1>1. S \subseteq Keys(queue'[p]) \cup Discharged'
    BY DEF Kept, LossFree
  <1>2. S \subseteq Keys(disk'[p]) \cup Discharged'
    BY <1>1 DEF Kept, LossFree
  <1> QED BY <1>1, <1>2 DEF Kept, Discharged

\* A step that leaves the senders alone and loses nothing keeps KeptInv.
LEMMA LossFreeKeptInv ==
  ASSUME KeptInv, running, running', LossFree, UNCHANGED snd
  PROVE  KeptInv'
  <1> SUFFICES ASSUME NEW m \in Msgs PROVE Kept(StashedChunks(m), DestOf[m])'
    BY DEF KeptInv
  <1>1. StashedChunks(m)' = StashedChunks(m)
    BY DEF StashedChunks
  <1>2. Kept(StashedChunks(m), DestOf[m]) /\ DestOf[m] \in Peers
    BY OutboxAssumption DEF KeptInv
  <1>3. Kept(StashedChunks(m), DestOf[m])'
    BY <1>2, LossFreeKeeps, <1>1 DEF Kept, LossFree, Discharged
  <1> QED BY <1>3

\* The keys between position n and the next fresh entry (or the end).
LEMMA RestSplit ==
  ASSUME NEW list \in Seq(Entry), NEW n \in Nat, NEW start \in Nat
  PROVE  /\ Fresh(list, n, start) = {} => Rest(list, n) \subseteq SkippedTo(list, n, Len(list), start)
         /\ \A k \in Fresh(list, n, start) :
              (\A i \in Fresh(list, n, start) : k <= i) =>
                Rest(list, n) \subseteq
                  SkippedTo(list, n, k, start) \cup {Key(list[k])} \cup Rest(list, k + 1)
  <1>1. ASSUME Fresh(list, n, start) = {}
        PROVE  Rest(list, n) \subseteq SkippedTo(list, n, Len(list), start)
    BY <1>1 DEF Fresh, Rest, SkippedTo
  <1>2. ASSUME NEW k \in Fresh(list, n, start), \A i \in Fresh(list, n, start) : k <= i,
               NEW i \in n..Len(list)
        PROVE  \/ i \in { x \in n..k : TooOld(list[x], start) }
               \/ i = k
               \/ i \in (k + 1)..Len(list)
    <2>1. k \in Int /\ n <= k /\ k <= Len(list) /\ Len(list) \in Nat
      BY DEF Fresh
    <2>2. i < k => i \notin Fresh(list, n, start)
      BY <1>2, <2>1
    <2>3. i < k => TooOld(list[i], start)
      BY <2>2 DEF Fresh
    <2> QED BY <2>1, <2>3
  <1>3. ASSUME NEW k \in Fresh(list, n, start), \A i \in Fresh(list, n, start) : k <= i
        PROVE  Rest(list, n) \subseteq
                 SkippedTo(list, n, k, start) \cup {Key(list[k])} \cup Rest(list, k + 1)
    BY <1>2, <1>3 DEF Rest, SkippedTo
  <1> QED BY <1>1, <1>3

\* The job of a drain that has left the loop is not sending.
LEMMA EndedJob ==
  ASSUME NEW rest PROVE [Idle EXCEPT !.todo = rest].peer = NoPeer
  BY DEF Idle

\* One run of the loop by the only drain in progress loses nothing.
LEMMA AdvanceKeeps ==
  ASSUME TypeInv, KeptInv,
         NEW d \in Drains, NEW j \in Job, j.peer \in Peers, j.next >= 1, j.old = <<>>,
         Covers(j.survive, {}, j.next, j.peer, handed' \cup expired),
         handed \subseteq handed', UNCHANGED <<snd, evicted, env>>,
         running, NoneQueueing, \A x \in Drains : x # d => job[x] = Idle,
         Advance(d, j)
  PROVE  TurnInv' /\ CoverInv' /\ KeptInv' /\ OnlyLoses
  <1> DEFINE list == queue[j.peer]
             n == j.next
  <1>1. list \in Seq(Entry) /\ n \in Nat /\ j.start \in Nat /\ j.survive \in Seq(Entry)
    BY DEF TypeInv, Types, Job
  <1>2. Iterated(j) = list
    BY DEF Iterated
  <1>3. running' /\ NoneQueueing'
    BY DEF env, NoneQueueing
  <1>4. job \in [Drains -> Job] /\ Idle.peer = NoPeer /\ j.peer # NoPeer
    BY OutboxAssumption DEF TypeInv, Types, Idle
  <1>5. \/ /\ Fresh(list, n, j.start) = {}
           /\ expired' = expired \cup SkippedTo(list, n, Len(list), j.start)
           /\ FinishDrain(d, j)
        \/ \E k \in Fresh(list, n, j.start) :
             /\ \A i \in Fresh(list, n, j.start) : k <= i
             /\ expired' = expired \cup SkippedTo(list, n, k, j.start)
             /\ job' = [job EXCEPT ![d] =
                  [peer |-> j.peer, todo |-> j.todo, old |-> j.old, next |-> k + 1,
                   cur |-> list[k], survive |-> j.survive, start |-> j.start]]
             /\ UNCHANGED <<queue, disk, saveFailures>>
    BY <1>2 DEF Advance
  <1> HIDE DEF list, n
  <1>6. CASE /\ Fresh(list, n, j.start) = {}
             /\ expired' = expired \cup SkippedTo(list, n, Len(list), j.start)
             /\ FinishDrain(d, j)
    <2>1. Rest(list, n) \subseteq SkippedTo(list, n, Len(list), j.start)
      BY <1>1, <1>6, RestSplit
    <2>2. /\ Keys(list) \subseteq Keys(j.survive) \cup handed' \cup expired'
          /\ Keys(j.survive) \subseteq Keys(list)
      BY <1>6, <2>1 DEF Covers, list, n
    <2>3. queue' = [queue EXCEPT ![j.peer] = j.survive] /\ (disk' = queue' \/ disk' = disk)
      BY <1>6 DEF FinishDrain, SaveOk, SaveThrows
    <2>4. \A p \in Peers : Keys(queue[p]) \subseteq Keys(queue'[p]) \cup Discharged'
      BY <2>2, <2>3 DEF TypeInv, Types, list, Discharged
    <2>5. \A p \in Peers : Keys(queue'[p]) \subseteq Keys(queue[p])
      BY <2>2, <2>3 DEF TypeInv, Types, list
    <2>6. OnlyLoses /\ KeptInv'
      <3>1. Discharged \subseteq Discharged'
        BY <1>6 DEF Discharged
      <3>2. LossFree
        BY <2>3, <2>4, <3>1 DEF LossFree
      <3> QED BY <2>5, <3>2, <1>3, LossFreeKeptInv DEF OnlyLoses
    <2>7. \A x \in Drains : x # d => Orphaned(d, j.peer)[x] = Idle
      BY <1>4 DEF Orphaned
    <2>8. PICK rest : job' = [Orphaned(d, j.peer) EXCEPT ![d] = [Idle EXCEPT !.todo = rest]]
      BY <1>6 DEF FinishDrain
    <2>9. \A x \in Drains : job'[x] = IF x = d THEN [Idle EXCEPT !.todo = rest] ELSE Idle
      BY <2>7, <2>8 DEF Orphaned
    <2>10. \A x \in Drains : ~Sending(x)'
      BY <2>9, <1>4, EndedJob DEF Sending
    <2>11. TurnInv'
      BY <2>9, <2>10, <1>3 DEF TurnInv
    <2>12. CoverInv'
      BY <2>10 DEF CoverInv
    <2> QED BY <2>6, <2>11, <2>12
  <1>7. ASSUME NEW k \in Fresh(list, n, j.start),
               \A i \in Fresh(list, n, j.start) : k <= i,
               expired' = expired \cup SkippedTo(list, n, k, j.start),
               job' = [job EXCEPT ![d] =
                  [peer |-> j.peer, todo |-> j.todo, old |-> j.old, next |-> k + 1,
                   cur |-> list[k], survive |-> j.survive, start |-> j.start]],
               UNCHANGED <<queue, disk, saveFailures>>
        PROVE  TurnInv' /\ CoverInv' /\ KeptInv' /\ OnlyLoses
    <2>1. Rest(list, n) \subseteq
            SkippedTo(list, n, k, j.start) \cup {Key(list[k])} \cup Rest(list, k + 1)
      BY <1>1, <1>7, RestSplit
    <2>2. OnlyLoses /\ KeptInv'
      <3>1. Discharged \subseteq Discharged'
        BY <1>7 DEF Discharged
      <3>2. LossFree
        BY <1>7, <3>1 DEF LossFree
      <3> QED BY <1>3, <1>7, <3>2, LossFreeKeptInv DEF OnlyLoses
    <2>3. k \in DOMAIN list
      BY <1>1 DEF Fresh, n
    <2>4. Key(list[k]) \in Keys(list)
      BY <2>3 DEF Keys
    <2>5. \A x \in Drains : job'[x] =
            IF x = d THEN [peer |-> j.peer, todo |-> j.todo, old |-> j.old, next |-> k + 1,
                           cur |-> list[k], survive |-> j.survive, start |-> j.start]
            ELSE Idle
      BY <1>4, <1>7
    <2>6. \A x \in Drains : Sending(x)' => x = d
      BY <2>5, <1>4 DEF Sending
    <2>7. /\ job'[d].peer = j.peer /\ job'[d].old = <<>> /\ job'[d].next = k + 1
          /\ job'[d].cur = list[k] /\ job'[d].survive = j.survive
      BY <2>5
    <2>8. TurnInv'
      BY <2>5, <2>6, <2>7, <1>3 DEF TurnInv
    <2>9. /\ Keys(list) \subseteq Keys(j.survive) \cup {Key(list[k])} \cup Rest(list, k + 1)
                                   \cup (handed' \cup expired')
          /\ Keys(j.survive) \cup {Key(list[k])} \subseteq Keys(list)
      BY <1>7, <2>1, <2>4 DEF Covers, list, n
    <2>10. queue'[j.peer] = list
      BY <1>7 DEF list
    <2>11. CoverInv'
      BY <2>6, <2>7, <2>9, <2>10 DEF CoverInv, Covers
    <2> QED BY <2>2, <2>8, <2>11
  <1> QED BY <1>5, <1>6, <1>7

\* Under TurnInv, a drain that may begin or go on is the only one.
LEMMA OnlyDrain ==
  ASSUME TurnInv, NEW d \in Drains, job[d] # Idle \/ \A x \in Drains : job[x] = Idle
  PROVE  \A x \in Drains : x # d => job[x] = Idle
  BY DEF TurnInv

LEMMA BeginDrainKeeps ==
  ASSUME RetainedInv, NEW d \in Drains, NEW p \in Peers, NEW todo \in SUBSET Peers,
         running, NoneQueueing, \A x \in Drains : x # d => job[x] = Idle,
         BeginDrain(d, p, todo)
  PROVE  TurnInv' /\ CoverInv' /\ KeptInv' /\ OnlyLoses
  <1> DEFINE j == [peer |-> p, todo |-> todo, old |-> <<>>, next |-> 1,
                   cur |-> NoEntry, survive |-> <<>>, start |-> now]
  <1>1. /\ j \in Job /\ j.peer = p /\ j.next = 1 /\ j.old = <<>> /\ j.survive = <<>>
    BY EmptySeq DEF Job, RetainedInv, TypeInv, Types
  <1>2. Advance(d, j) /\ UNCHANGED <<snd, handed, evicted, env>>
    BY DEF BeginDrain
  <1>3. Covers(<<>>, {}, 1, p, handed' \cup expired)
    <2>1. Keys(<<>>) = {}
      BY DEF Keys
    <2>2. queue[p] \in Seq(Entry)
      BY DEF RetainedInv, TypeInv, Types
    <2>3. Rest(queue[p], 1) = Keys(queue[p])
      BY <2>2 DEF Rest, Keys
    <2> QED BY <2>1, <2>3 DEF Covers
  <1> HIDE DEF j
  <1>4. Covers(j.survive, {}, j.next, j.peer, handed' \cup expired)
    BY <1>1, <1>3
  <1>5. j.next >= 1 /\ j.peer \in Peers /\ handed \subseteq handed' /\ UNCHANGED <<snd, evicted, env>>
    BY <1>1, <1>2
  <1>6. TypeInv /\ KeptInv
    BY DEF RetainedInv
  <1> QED BY <1>1, <1>2, <1>4, <1>5, <1>6, AdvanceKeeps

LEMMA DrainStepKeeps ==
  ASSUME RetainedInv, NEW d \in Drains, DrainStep(d)
  PROVE  TurnInv' /\ CoverInv' /\ KeptInv' /\ OnlyLoses
  <1> DEFINE ok == job[d].peer \notin down
             j == [job[d] EXCEPT !.survive = Survivors(job[d], ok)]
             p == job[d].peer
             n == job[d].next
  <1>1. /\ job[d] \in Job /\ job[d].cur \in Entry /\ p \in Peers /\ n >= 1
        /\ Sending(d) /\ job[d] # Idle /\ job[d].old = <<>>
        /\ job[d].survive \in Seq(Entry)
    BY DEF DrainStep, RetainedInv, TypeInv, Types, SendingOK, TurnInv, Sending, Job, Idle
  <1>2. /\ Advance(d, j) /\ UNCHANGED <<snd, evicted, env>> /\ running /\ NoneQueueing
        /\ handed' = IF ok THEN handed \cup {Key(job[d].cur)} ELSE handed
    BY DEF DrainStep, DrainTurn
  <1>3. \A x \in Drains : x # d => job[x] = Idle
    BY <1>1, OnlyDrain DEF RetainedInv
  <1>4. Survivors(job[d], ok) \in Seq(Entry)
    BY <1>1, AppendProperties DEF Survivors
  <1>5. j \in Job /\ j.peer = p /\ j.next = n /\ j.old = <<>> /\ j.survive = Survivors(job[d], ok)
    BY <1>1, <1>4 DEF Job
  <1>6. Covers(job[d].survive, {Key(job[d].cur)}, n, p, handed \cup expired)
    BY <1>1 DEF RetainedInv, CoverInv
  <1>7. Keys(Append(job[d].survive, job[d].cur)) = Keys(job[d].survive) \cup {Key(job[d].cur)}
    BY <1>1, KeysAppend
  <1>8. Covers(Survivors(job[d], ok), {}, n, p, handed' \cup expired)
    <2>1. CASE ok
      BY <1>2, <1>6, <2>1 DEF Covers, Survivors
    <2>2. CASE ~ok
      BY <1>2, <1>6, <1>7, <2>2 DEF Covers, Survivors
    <2> QED BY <2>1, <2>2
  <1>9. handed \subseteq handed'
    BY <1>2
  <1> HIDE DEF j
  <1>10. Covers(j.survive, {}, j.next, j.peer, handed' \cup expired) /\ j.peer \in Peers /\ j.next >= 1
    BY <1>1, <1>5, <1>8
  <1>11. TypeInv /\ KeptInv
    BY DEF RetainedInv
  <1> QED BY <1>2, <1>3, <1>5, <1>9, <1>10, <1>11, AdvanceKeeps

LEMMA InitRetained == Init => RetainedInv
  <1> SUFFICES ASSUME Init PROVE RetainedInv
    OBVIOUS
  <1>1. \A d \in Drains : job[d] = Idle /\ ~Sending(d)
    BY DEF Init, Sending, Idle
  <1>2. \A m \in Msgs : StashedChunks(m) = {} /\ snd[m].phase # "queueing"
    BY DEF Init, StashedChunks
  <1>3. TurnInv /\ CoverInv /\ KeptInv
    BY <1>1, <1>2 DEF TurnInv, CoverInv, KeptInv, Kept
  <1>4. FreshInv
    BY DEF Init, FreshInv, Keys
  <1> QED BY <1>3, <1>4, InitTypes DEF RetainedInv

\* A caller that stashes one more chunk: it is in the list or already accounted
\* for, nothing else enters a list or is lost, and it counts only when saved.
LEMMA EnqueueLists ==
  ASSUME RetainedInv, NEW m \in Msgs, Enqueue(m)
  PROVE  /\ running /\ running' /\ UNCHANGED <<job, handed, expired>>
         /\ snd[m].phase = "queueing" /\ snd[m].next \in Nat
         /\ LossFree
         /\ <<m, snd[m].next>> \in Keys(queue'[DestOf[m]]) \cup Discharged'
         /\ Keys(queue'[DestOf[m]]) \subseteq Keys(queue[DestOf[m]]) \cup {<<m, snd[m].next>>}
         /\ \A x \in Peers : x # DestOf[m] => queue'[x] = queue[x]
         /\ \/ snd' = [snd EXCEPT ![m] = AfterEnqueue(m)] /\ disk' = queue'
            \/ snd' = [snd EXCEPT ![m] = [phase |-> "failed", next |-> 0]] /\ disk' = disk
  <1> DEFINE p == DestOf[m]
             e == [msg |-> m, seq |-> snd[m].next, at |-> now]
             list == Pushed(queue[p], e)
             app == Append(queue[p], e)
  <1>1. p \in Peers /\ e \in Entry /\ queue[p] \in Seq(Entry) /\ Key(e) = <<m, snd[m].next>>
    BY OutboxAssumption DEF RetainedInv, TypeInv, Types, Entry, Key
  <1>2. /\ UNCHANGED <<job, handed, expired, env>> /\ running
        /\ snd[m].phase = "queueing" /\ snd[m].next \in Nat
    BY DEF Enqueue, RetainedInv, TypeInv, Types
  <1>3. ~IsDup(queue[p], Key(e))
    <2>1. ~Stashed(Key(e))
      BY <1>1, <1>2 DEF Stashed
    <2> QED BY <1>1, <2>1 DEF IsDup, RetainedInv, FreshInv
  <1>4. /\ queue' = [queue EXCEPT ![p] = list]
        /\ evicted' = evicted \cup (Keys(app) \ Keys(list))
        /\ \/ snd' = [snd EXCEPT ![m] = AfterEnqueue(m)] /\ disk' = queue'
           \/ snd' = [snd EXCEPT ![m] = [phase |-> "failed", next |-> 0]] /\ disk' = disk
    BY <1>3 DEF Enqueue, SaveOk, SaveThrows
  <1>5. Keys(app) = Keys(queue[p]) \cup {Key(e)}
    BY <1>1, KeysAppend
  <1>6. Keys(list) \subseteq Keys(app)
    <2>1. app \in Seq(Entry)
      BY <1>1, AppendProperties
    <2>2. PICK k \in Nat : \A i \in DOMAIN KeepNewest(app) :
              i + k \in DOMAIN app /\ KeepNewest(app)[i] = app[i + k]
      BY <2>1, KeepNewestFacts
    <2> QED BY <2>2 DEF Keys, Pushed
  <1> HIDE DEF list, app
  <1>7. queue'[p] = list /\ \A x \in Peers : x # p => queue'[x] = queue[x]
    BY <1>1, <1>4 DEF RetainedInv, TypeInv, Types
  <1>8. Discharged \subseteq Discharged' /\ Keys(app) \subseteq Keys(list) \cup Discharged'
    BY <1>2, <1>4 DEF Discharged
  <1>9. \A x \in Peers : Keys(queue[x]) \subseteq Keys(queue'[x]) \cup Discharged'
    BY <1>5, <1>7, <1>8
  <1>10. LossFree
    BY <1>4, <1>8, <1>9 DEF LossFree
  <1> QED BY <1>1, <1>2, <1>4, <1>5, <1>6, <1>7, <1>8, <1>10 DEF env

\* It keeps what the caller has stashed so far.
LEMMA EnqueueKeeps ==
  ASSUME RetainedInv, NEW m \in Msgs, Enqueue(m)
  PROVE  TurnInv' /\ CoverInv' /\ KeptInv' /\ FreshInv'
  <1> DEFINE p == DestOf[m]
             key == <<m, snd[m].next>>
  <1>1. /\ running /\ running' /\ UNCHANGED <<job, handed, expired>>
        /\ snd[m].phase = "queueing" /\ snd[m].next \in Nat
        /\ LossFree
        /\ key \in Keys(queue'[p]) \cup Discharged'
        /\ \A x \in Peers : Keys(queue'[x]) \subseteq Keys(queue[x]) \cup {key}
        /\ \/ snd' = [snd EXCEPT ![m] = AfterEnqueue(m)] /\ disk' = queue'
           \/ snd' = [snd EXCEPT ![m] = [phase |-> "failed", next |-> 0]] /\ disk' = disk
    BY EnqueueLists
  <1>2. p \in Peers /\ key \in Chunks
    BY <1>1, OutboxAssumption DEF Chunks
  <1>3. \A d \in Drains : job[d] = Idle
    BY <1>1 DEF RetainedInv, TurnInv, NoneQueueing
  <1>4. \A d \in Drains : job'[d] = Idle /\ ~Sending(d)'
    <2>1. Idle.peer = NoPeer
      BY DEF Idle
    <2> QED BY <1>1, <1>3, <2>1 DEF Sending
  <1>5. TurnInv' /\ CoverInv'
    BY <1>4 DEF TurnInv, CoverInv
  <1>6. Kept(StashedChunks(m), p)
    BY DEF RetainedInv, KeptInv
  <1>7. StashedChunks(m) = { <<m, s>> : s \in 1..(snd[m].next - 1) }
    BY <1>1 DEF StashedChunks
  <1>8. Kept(StashedChunks(m), p)'
    <2>1. CASE snd' = [snd EXCEPT ![m] = [phase |-> "failed", next |-> 0]]
      <3>1. StashedChunks(m)' = {}
        BY <2>1 DEF StashedChunks, RetainedInv, TypeInv, Types
      <3> QED BY <3>1 DEF Kept
    <2>2. CASE snd' = [snd EXCEPT ![m] = AfterEnqueue(m)] /\ disk' = queue'
      <3>1. snd'[m] = AfterEnqueue(m)
        BY <2>2 DEF RetainedInv, TypeInv, Types
      <3> DEFINE new == { <<m, s>> : s \in 1..snd[m].next }
      <3>2. new \subseteq { <<m, s>> : s \in 1..(snd[m].next - 1) } \cup {key}
        BY <1>1
      <3>3. StashedChunks(m)' \subseteq new
        <4>1. CASE snd[m].next = ChunksOf[m]
          BY <3>1, <4>1 DEF AfterEnqueue, StashedChunks, ChunksOfMsg
        <4>2. CASE snd[m].next # ChunksOf[m]
          <5>1. snd'[m].phase = "queueing" /\ snd'[m].next = snd[m].next + 1
            BY <3>1, <4>2 DEF AfterEnqueue
          <5>2. snd'[m].next - 1 = snd[m].next
            BY <5>1, <1>1
          <5> QED BY <5>1, <5>2 DEF StashedChunks
        <4> QED BY <4>1, <4>2
      <3>4. StashedChunks(m) \subseteq Keys(queue'[p]) \cup Discharged'
        BY <1>1, <1>2, <1>6 DEF Kept, LossFree
      <3>5. StashedChunks(m)' \subseteq Keys(queue'[p]) \cup Discharged'
        BY <1>1, <1>7, <3>2, <3>3, <3>4
      <3> QED BY <2>2, <3>5 DEF Kept, Discharged
    <2> QED BY <1>1, <2>1, <2>2
  <1>9. \A x \in Msgs : x # m => snd'[x] = snd[x]
    BY DEF Enqueue, RetainedInv, TypeInv, Types
  <1>10. KeptInv'
    <2> SUFFICES ASSUME NEW x \in Msgs, x # m PROVE Kept(StashedChunks(x), DestOf[x])'
      BY <1>1, <1>8 DEF KeptInv
    <2>1. StashedChunks(x)' = StashedChunks(x)
      BY <1>9 DEF StashedChunks
    <2>2. Kept(StashedChunks(x), DestOf[x]) /\ DestOf[x] \in Peers
      BY OutboxAssumption DEF RetainedInv, KeptInv
    <2> QED BY <1>1, <2>1, <2>2, LossFreeKeeps DEF Kept, Discharged
  <1>11. \A c \in Chunks : Stashed(c) \/ c = key => Stashed(c)'
    <2> SUFFICES ASSUME NEW c \in Chunks, Stashed(c) \/ c = key PROVE Stashed(c)'
      OBVIOUS
    <2>1. CASE c[1] # m
      BY <1>9, <2>1 DEF Stashed, Chunks
    <2>2. CASE c[1] = m
      <3>1. c[2] < snd[m].next + 1 /\ c[2] \in Nat
        BY <1>1, <2>2 DEF Stashed, Chunks
      <3>2. \/ snd'[m] = AfterEnqueue(m)
            \/ snd'[m] = [phase |-> "failed", next |-> 0]
        BY DEF Enqueue, RetainedInv, TypeInv, Types
      <3> QED BY <2>2, <3>1, <3>2 DEF Stashed, AfterEnqueue
    <2> QED BY <2>1, <2>2
  <1>12. FreshInv'
    <2> SUFFICES ASSUME NEW x \in Peers, NEW c \in Keys(queue'[x]) \cup Keys(disk'[x])
                 PROVE Stashed(c)'
      BY DEF FreshInv
    <2>1. c \in Keys(queue[x]) \cup Keys(disk[x]) \cup {key}
      BY <1>1
    <2>2. Keys(queue[x]) \cup Keys(disk[x]) \subseteq Chunks
      BY KeysType DEF RetainedInv, TypeInv, Types
    <2> QED BY <1>2, <1>11, <2>1, <2>2 DEF RetainedInv, FreshInv
  <1> QED BY <1>5, <1>10, <1>12

\* A drain step, begun or continued by the only drain, keeps FreshInv.
LEMMA DrainKeepsFresh ==
  ASSUME RetainedInv, UNCHANGED snd, OnlyLoses
  PROVE  FreshInv'
  <1>1. \A c \in Chunks : Stashed(c) => Stashed(c)'
    BY DEF Stashed
  <1> QED BY <1>1, ShrinkKeepsFresh DEF RetainedInv, OnlyLoses, LossFree

\* The steps of one sender other than Enqueue touch no list.
LEMMA SenderKeeps ==
  ASSUME RetainedInv, NEW m \in Msgs, running,
         snd[m].phase \in {"new", "sending"},
         \E r : /\ snd' = [snd EXCEPT ![m] = r]
                /\ r.phase \in {"sending", "sent"} \/ (r.phase = "queueing" /\ r.next = 1),
         Discharged \subseteq Discharged', handed \subseteq handed', expired' = expired,
         UNCHANGED <<queue, disk, job, running>>,
         snd'[m].phase = "queueing" => \A d \in Drains : job[d] = Idle
  PROVE  TurnInv' /\ CoverInv' /\ KeptInv' /\ FreshInv'
  <1>1. PICK r : /\ snd' = [snd EXCEPT ![m] = r]
                 /\ r.phase \in {"sending", "sent"} \/ (r.phase = "queueing" /\ r.next = 1)
    OBVIOUS
  <1>2. snd'[m] = r /\ \A x \in Msgs : x # m => snd'[x] = snd[x]
    BY <1>1 DEF RetainedInv, TypeInv, Types
  <1>3. TurnInv'
    <2>1. \A d \in Drains : job[d] # Idle => NoneQueueing'
      BY <1>1, <1>2 DEF RetainedInv, TurnInv, NoneQueueing
    <2> QED BY <2>1 DEF RetainedInv, TurnInv, Sending
  <1>4. CoverInv'
    BY DEF RetainedInv, CoverInv, Covers, Sending
  <1>5. LossFree
    BY DEF LossFree
  <1>6. KeptInv'
    <2> SUFFICES ASSUME NEW x \in Msgs PROVE Kept(StashedChunks(x), DestOf[x])'
      BY DEF KeptInv
    <2>1. CASE x = m
      <3>1. StashedChunks(x)' = {}
        BY <1>1, <1>2, <2>1 DEF StashedChunks
      <3> QED BY <3>1 DEF Kept
    <2>2. CASE x # m
      <3>1. StashedChunks(x)' = StashedChunks(x)
        BY <1>2, <2>2 DEF StashedChunks
      <3>2. Kept(StashedChunks(x), DestOf[x]) /\ DestOf[x] \in Peers
        BY OutboxAssumption DEF RetainedInv, KeptInv
      <3> QED BY <1>5, <3>1, <3>2, LossFreeKeeps DEF Kept, Discharged
    <2> QED BY <2>1, <2>2
  <1>7. FreshInv'
    <2>1. \A c \in Chunks : Stashed(c) => Stashed(c)'
      BY <1>2 DEF Stashed, Chunks
    <2> QED BY <2>1, ShrinkKeepsFresh DEF RetainedInv
  <1> QED BY <1>3, <1>4, <1>6, <1>7

LEMMA NextRetained == SettlesInTurn /\ RetainedInv /\ [Next]_vars => RetainedInv'
  <1> SUFFICES ASSUME SettlesInTurn, RetainedInv, [Next]_vars
               PROVE  TurnInv' /\ CoverInv' /\ KeptInv' /\ FreshInv'
    BY NextTypes DEF RetainedInv
  <1>0. TurnFree => running /\ NoneQueueing /\ \A d \in Drains : job[d] = Idle
    BY DEF TurnFree, DrainsYield
  <1>1. ASSUME NEW m \in Msgs, StartSend(m)
        PROVE  TurnInv' /\ CoverInv' /\ KeptInv' /\ FreshInv'
    <2>1. [phase |-> "sending", next |-> 1].phase \in {"sending", "sent"}
      OBVIOUS
    <2>2. snd'[m].phase # "queueing"
      BY <1>1 DEF StartSend, RetainedInv, TypeInv, Types
    <2> QED BY <1>0, <1>1, <2>1, <2>2, SenderKeeps DEF StartSend, history, env, Discharged
  <1>2. ASSUME NEW m \in Msgs, SendAccepted(m)
        PROVE  TurnInv' /\ CoverInv' /\ KeptInv' /\ FreshInv'
    <2> DEFINE r == IF snd[m].next = ChunksOf[m] THEN [phase |-> "sent", next |-> 0]
                    ELSE [phase |-> "sending", next |-> snd[m].next + 1]
    <2>1. r.phase \in {"sending", "sent"}
      OBVIOUS
    <2>2. snd' = [snd EXCEPT ![m] = r] /\ snd'[m] = r
      BY <1>2 DEF SendAccepted, RetainedInv, TypeInv, Types
    <2> HIDE DEF r
    <2>3. Discharged \subseteq Discharged' /\ handed \subseteq handed' /\ expired' = expired
      BY <1>2 DEF SendAccepted, Discharged
    <2> QED BY <1>0, <1>2, <2>1, <2>2, <2>3, SenderKeeps DEF SendAccepted, env
  <1>3. ASSUME NEW m \in Msgs, SendRejected(m)
        PROVE  TurnInv' /\ CoverInv' /\ KeptInv' /\ FreshInv'
    <2> DEFINE r == [phase |-> "queueing", next |-> 1]
    <2>1. r.phase = "queueing" /\ r.next = 1
      OBVIOUS
    <2>2. snd' = [snd EXCEPT ![m] = r]
      BY <1>3 DEF SendRejected
    <2> HIDE DEF r
    <2> QED BY <1>0, <1>3, <2>1, <2>2, SenderKeeps
            DEF SendRejected, history, env, Discharged
  <1>4. ASSUME NEW m \in Msgs, Enqueue(m)
        PROVE  TurnInv' /\ CoverInv' /\ KeptInv' /\ FreshInv'
    BY <1>4, EnqueueKeeps
  <1>5. ASSUME NEW d \in Drains, NEW p \in Peers, NEW todo \in SUBSET Peers,
               running, NoneQueueing, \A x \in Drains : x # d => job[x] = Idle,
               BeginDrain(d, p, todo)
        PROVE  TurnInv' /\ CoverInv' /\ KeptInv' /\ FreshInv'
    <2>1. UNCHANGED snd
      BY <1>5 DEF BeginDrain
    <2> QED BY <1>5, <2>1, BeginDrainKeeps, DrainKeepsFresh
  <1>6. ASSUME NEW d \in Drains, NEW p \in Peers, ProofOfLife(d, p)
        PROVE  TurnInv' /\ CoverInv' /\ KeptInv' /\ FreshInv'
    BY <1>0, <1>5, <1>6 DEF ProofOfLife
  <1>7. ASSUME NEW d \in Drains, PeriodicDrain(d)
        PROVE  TurnInv' /\ CoverInv' /\ KeptInv' /\ FreshInv'
    <2>1. PICK p \in Peers : BeginDrain(d, p, {x \in Peers \ {p} : queue[x] # <<>>})
      BY <1>7 DEF PeriodicDrain
    <2> QED BY <1>0, <1>5, <1>7, <2>1 DEF PeriodicDrain
  <1>8. ASSUME NEW d \in Drains, NextPeer(d)
        PROVE  TurnInv' /\ CoverInv' /\ KeptInv' /\ FreshInv'
    <2>1. /\ running /\ NoneQueueing /\ job[d].todo \subseteq Peers
          /\ job[d] # Idle /\ job[d].peer = NoPeer
      BY <1>8 DEF NextPeer, DrainTurn, RetainedInv, TypeInv, Types, Job, Idle, Sending
    <2>2. \A x \in Drains : x # d => job[x] = Idle
      BY <2>1, OnlyDrain DEF RetainedInv
    <2>3. PICK p \in job[d].todo :
            IF queue[p] # <<>>
            THEN BeginDrain(d, p, job[d].todo \ {p})
            ELSE /\ job' = [job EXCEPT ![d].todo = @ \ {p}]
                 /\ UNCHANGED <<queue, disk, snd, saveFailures, history, env>>
      BY <1>8 DEF NextPeer
    <2>4. CASE queue[p] # <<>>
      BY <1>5, <2>1, <2>2, <2>3, <2>4
    <2>5. CASE queue[p] = <<>>
      <3>1. /\ job' = [job EXCEPT ![d].todo = @ \ {p}]
            /\ UNCHANGED <<queue, disk, snd, saveFailures, history, env>>
        BY <2>3, <2>5
      <3>2. \A x \in Drains : x # d => job'[x] = Idle
        BY <2>2, <3>1 DEF RetainedInv, TypeInv, Types
      <3>3. job'[d].peer = NoPeer
        BY <2>1, <3>1 DEF RetainedInv, TypeInv, Types, Job
      <3>4. \A x \in Drains : ~Sending(x)'
        <4>1. Idle.peer = NoPeer
          BY DEF Idle
        <4> QED BY <3>2, <3>3, <4>1 DEF Sending
      <3>5. TurnInv'
        BY <2>1, <3>1, <3>2, <3>4 DEF TurnInv, NoneQueueing, env
      <3>6. CoverInv'
        BY <3>4 DEF CoverInv
      <3>7. LossFree /\ running'
        BY <2>1, <3>1 DEF LossFree, Discharged, history, env
      <3>8. KeptInv'
        BY <2>1, <3>1, <3>7, LossFreeKeptInv DEF RetainedInv
      <3>9. FreshInv'
        BY <3>1, <3>7, DrainKeepsFresh DEF OnlyLoses
      <3> QED BY <3>5, <3>6, <3>8, <3>9
    <2> QED BY <2>4, <2>5
  <1>9. ASSUME NEW d \in Drains, DrainStep(d)
        PROVE  TurnInv' /\ CoverInv' /\ KeptInv' /\ FreshInv'
    <2>1. UNCHANGED snd
      BY <1>9 DEF DrainStep
    <2> QED BY <1>9, <2>1, DrainStepKeeps, DrainKeepsFresh
  <1>10. CASE Crash
    <2>1. \A d \in Drains : job'[d] = Idle /\ ~Sending(d)'
      BY <1>10 DEF Crash, Sending, Idle
    <2>2. TurnInv' /\ CoverInv'
      BY <2>1 DEF TurnInv, CoverInv
    <2>3. ~running' /\ disk' = disk /\ Discharged' = Discharged
      BY <1>10 DEF Crash, Discharged, history
    <2>4. \A m \in Msgs : snd'[m] = IF snd[m].phase \in {"sending", "queueing"}
                                    THEN [phase |-> "lost", next |-> 0] ELSE snd[m]
      BY <1>10 DEF Crash
    <2>5. \A m \in Msgs : StashedChunks(m)' \subseteq StashedChunks(m) /\ snd'[m].phase # "queueing"
      BY <2>4 DEF StashedChunks
    <2>6. KeptInv'
      BY <2>3, <2>5 DEF RetainedInv, KeptInv, Kept
    <2>7. \A c \in Chunks : Stashed(c) => Stashed(c)'
      BY <2>4 DEF Stashed, Chunks
    <2>8. \A p \in Peers : Keys(queue'[p]) = {}
      BY <1>10 DEF Crash, Keys
    <2>9. FreshInv'
      BY <2>3, <2>7, <2>8, ShrinkKeepsFresh DEF RetainedInv
    <2> QED BY <2>2, <2>6, <2>9
  <1>11. CASE Restart
    <2>1. /\ ~running /\ queue' = disk /\ running'
          /\ UNCHANGED <<disk, job, snd>> /\ Discharged' = Discharged
      BY <1>11 DEF Restart, Discharged, history
    <2>2. \A d \in Drains : job[d] = Idle
      BY <2>1 DEF RetainedInv, TurnInv
    <2>3. TurnInv' /\ CoverInv'
      <3>1. \A d \in Drains : job'[d] = Idle /\ ~Sending(d)'
        <4>1. Idle.peer = NoPeer
          BY DEF Idle
        <4> QED BY <2>1, <2>2, <4>1 DEF Sending
      <3> QED BY <3>1 DEF TurnInv, CoverInv
    <2>4. KeptInv'
      BY <2>1 DEF RetainedInv, KeptInv, Kept, StashedChunks
    <2>5. FreshInv'
      <3>1. \A c \in Chunks : Stashed(c) => Stashed(c)'
        BY <2>1 DEF Stashed
      <3> QED BY <2>1, <3>1, ShrinkKeepsFresh DEF RetainedInv
    <2> QED BY <2>3, <2>4, <2>5
  <1>12. CASE UNCHANGED <<queue, disk, job, snd, running, handed, expired, evicted>>
    <2>1. TurnInv' /\ CoverInv'
      BY <1>12 DEF RetainedInv, TurnInv, NoneQueueing, CoverInv, Covers, Sending
    <2>2. KeptInv'
      BY <1>12 DEF RetainedInv, KeptInv, Kept, StashedChunks, Discharged
    <2>3. FreshInv'
      BY <1>12 DEF RetainedInv, FreshInv, Stashed
    <2> QED BY <2>1, <2>2, <2>3
  <1>13. ASSUME NEW p \in Peers, Flip(p)
         PROVE  TurnInv' /\ CoverInv' /\ KeptInv' /\ FreshInv'
    BY <1>12, <1>13 DEF Flip, history
  <1>14. CASE Tick
    BY <1>12, <1>14 DEF Tick, history
  <1>15. CASE UNCHANGED vars
    BY <1>12, <1>15 DEF vars
  <1> QED BY <1>1, <1>2, <1>3, <1>4, <1>6, <1>7, <1>8, <1>9, <1>10, <1>11,
             <1>13, <1>14, <1>15 DEF Next

\* Over a transport that settles in the turn, a message whose caller was told
\* "queued" is retained, in the file and in memory, across drains, evictions,
\* failed writes, crashes and restarts.
THEOREM PromisesRetained == ASSUME SettlesInTurn PROVE Spec => []Retained
  <1>1. RetainedInv => Retained
    <2> SUFFICES ASSUME RetainedInv, NEW m \in Msgs, Promised(m)
                 PROVE Kept(ChunksOfMsg(m), DestOf[m])
      BY DEF Retained, Kept
    <2>1. StashedChunks(m) = ChunksOfMsg(m)
      BY DEF Promised, StashedChunks
    <2> QED BY <2>1 DEF RetainedInv, KeptInv
  <1>2. RetainedInv /\ [Next]_vars => RetainedInv'
    BY NextRetained
  <1>3. Spec => []RetainedInv
    BY InitRetained, <1>2, PTL DEF Spec
  <1> QED BY <1>1, <1>3, PTL

-----------------------------------------------------------------------------
(***************************************************************************)
(* The outbox implements DurableQueue, over a transport that settles in    *)
(* the turn.  Every step that is not an Enqueue, a crash or a restart      *)
(* either offers a message or sheds items that are accounted for, which is *)
(* OnlyLoses; RetainedInv says so of the drains.  An Enqueue puts an item  *)
(* of its own message, for which the caller's position must be in range.   *)
(***************************************************************************)
LEMMA ListedItems ==
  ASSUME NEW lists
  PROVE  /\ \A p \in Peers : \A c : <<p, c>> \in Listed(lists) <=> c \in Keys(lists[p])
         /\ \A i \in Listed(lists) : \E p \in Peers : \E c \in Keys(lists[p]) : i = <<p, c>>
  BY DEF Listed

\* What is lost is accounted for, and what is gained is new.
LEMMA ChangesLists ==
  ASSUME LossFree, NEW new, new \subseteq Listed(queue') \cup (Peers \X Discharged'),
         \A p \in Peers : \A c \in Keys(queue'[p]) : c \in Keys(queue[p]) \/ <<p, c>> \in new
  PROVE  Durable!Changes(new)
  <1>1. Listed(queue') \subseteq Listed(queue) \cup new
    BY ListedItems
  <1>2. Listed(queue) \subseteq Listed(queue') \cup (Peers \X Discharged')
    <2> SUFFICES ASSUME NEW p \in Peers, NEW c \in Keys(queue[p])
                 PROVE  <<p, c>> \in Listed(queue') \cup (Peers \X Discharged')
      BY ListedItems
    <2>1. c \in Keys(queue'[p]) \/ c \in Discharged'
      BY DEF LossFree
    <2> QED BY <2>1, ListedItems
  <1>3. (Peers \X Discharged) \subseteq (Peers \X Discharged')
    BY DEF LossFree
  <1>4. /\ Listed(queue)' = Listed(queue')
        /\ (Peers \X Discharged)' = Peers \X Discharged'
    BY DEF Listed
  <1> QED BY <1>1, <1>2, <1>3, <1>4 DEF Durable!Changes

\* What DurableQueue sees of the senders.
SameAnswers == \A m \in Msgs : /\ snd'[m].phase = "queueing" <=> snd[m].phase = "queueing"
                               /\ snd'[m].phase = "queued" <=> snd[m].phase = "queued"

LEMMA Unanswered ==
  ASSUME SameAnswers
  PROVE  /\ { m \in Msgs : snd[m].phase = "queueing" }' = { m \in Msgs : snd[m].phase = "queueing" }
         /\ { m \in Msgs : Promised(m) }' = { m \in Msgs : Promised(m) }
  BY DEF SameAnswers, Promised

LEMMA Discharges ==
  ASSUME OnlyLoses, running, running', SameAnswers
  PROVE  Durable!Discharge
  <1>1. Durable!Changes({})
    BY ChangesLists DEF OnlyLoses
  <1>2. Listed(disk)' \in {Listed(disk), Listed(queue)'}
    BY DEF OnlyLoses, LossFree, Listed
  <1> QED BY <1>1, <1>2, Unanswered DEF Durable!Discharge

LEMMA Puts ==
  ASSUME RetainedInv, RetainedInv', Numbered, NEW m \in Msgs, Enqueue(m)
  PROVE  Durable!Put(m)
  <1> DEFINE p == DestOf[m]
             key == <<m, snd[m].next>>
             items == [x \in Msgs |-> {DestOf[x]} \X ChunksOfMsg(x)]
  <1>1. /\ running /\ running' /\ snd[m].phase = "queueing" /\ LossFree
        /\ key \in Keys(queue'[p]) \cup Discharged'
        /\ Keys(queue'[p]) \subseteq Keys(queue[p]) \cup {key}
        /\ \A x \in Peers : x # p => queue'[x] = queue[x]
        /\ \/ snd' = [snd EXCEPT ![m] = AfterEnqueue(m)] /\ disk' = queue'
           \/ snd' = [snd EXCEPT ![m] = [phase |-> "failed", next |-> 0]] /\ disk' = disk
    BY EnqueueLists
  <1>2. p \in Peers /\ items[m] = {p} \X ChunksOfMsg(m)
    BY OutboxAssumption
  <1>3. <<p, key>> \in items[m]
    BY <1>1, <1>2 DEF Numbered, ChunksOfMsg
  <1>4. Durable!Changes({<<p, key>>})
    <2>1. <<p, key>> \in Listed(queue') \cup (Peers \X Discharged')
      BY <1>1, <1>2, ListedItems
    <2> QED BY <1>1, <2>1, ChangesLists
  <1>5. \A x \in Msgs : x # m => snd'[x] = snd[x]
    BY <1>1 DEF RetainedInv, TypeInv, Types
  <1>6. CASE snd' = [snd EXCEPT ![m] = AfterEnqueue(m)] /\ disk' = queue'
    <2>1. Listed(disk)' = Listed(queue)'
      BY <1>6 DEF Listed
    <2>2. CASE snd[m].next = ChunksOf[m]
      <3>1. snd'[m].phase = "queued"
        BY <1>6, <2>2 DEF AfterEnqueue, RetainedInv, TypeInv, Types
      <3>2. ChunksOfMsg(m) \subseteq Keys(queue'[p]) \cup Discharged'
        <4>1. StashedChunks(m)' = ChunksOfMsg(m)
          BY <3>1 DEF StashedChunks, ChunksOfMsg
        <4> QED BY <1>1, <4>1 DEF RetainedInv, KeptInv, Kept, Discharged
      <3>3. items[m] \subseteq Listed(queue') \cup (Peers \X Discharged')
        BY <1>2, <3>2, ListedItems
      <3>4. /\ { x \in Msgs : snd'[x].phase = "queueing" } = { x \in Msgs : snd[x].phase = "queueing" } \ {m}
            /\ { x \in Msgs : snd'[x].phase = "queued" } = { x \in Msgs : snd[x].phase = "queued" } \cup {m}
        BY <1>5, <3>1
      <3>5. Durable!Promise(m)
        BY <3>3, <3>4 DEF Durable!Promise, Listed, Promised
      <3> QED BY <1>1, <1>3, <1>4, <2>1, <3>5 DEF Durable!Put
    <2>3. CASE snd[m].next # ChunksOf[m]
      <3>1. snd'[m].phase = "queueing"
        BY <1>6, <2>3 DEF AfterEnqueue, RetainedInv, TypeInv, Types
      <3>2. SameAnswers
        BY <1>1, <1>5, <3>1 DEF SameAnswers
      <3> QED BY <1>1, <1>3, <1>4, <2>1, <3>2, Unanswered DEF Durable!Put
    <2> QED BY <2>2, <2>3
  <1>7. CASE snd' = [snd EXCEPT ![m] = [phase |-> "failed", next |-> 0]] /\ disk' = disk
    <2>1. Listed(disk)' = Listed(disk)
      BY <1>7 DEF Listed
    <2>2. snd'[m].phase = "failed"
      BY <1>7 DEF RetainedInv, TypeInv, Types
    <2>3. /\ { x \in Msgs : snd'[x].phase = "queueing" } = { x \in Msgs : snd[x].phase = "queueing" } \ {m}
          /\ { x \in Msgs : snd'[x].phase = "queued" } = { x \in Msgs : snd[x].phase = "queued" }
      BY <1>1, <1>5, <2>2
    <2> QED BY <1>1, <1>3, <1>4, <2>1, <2>3 DEF Durable!Put, Promised
  <1> QED BY <1>1, <1>6, <1>7

\* The outbox is a durable queue: whatever the crashes, throwing saves and drains
\* of several peers, what a drain drops is sent or out of date, nothing comes
\* back, and enqueue returns only when the whole message is in the file.
THEOREM ImplementsDurableQueue == ASSUME SettlesInTurn PROVE Spec => KeepsPromises
  <1>1. Init => Durable!Init
    <2> SUFFICES ASSUME Init PROVE Durable!Init
      OBVIOUS
    <2>1. Listed(queue) = {} /\ Listed(disk) = {}
      BY DEF Init, Listed, Keys
    <2> QED BY <2>1 DEF Init, Durable!Init, Discharged, Promised
  <1>2. RetainedInv /\ RetainedInv' /\ Numbered /\ [Next]_vars => [Durable!Next]_Durable!vars
    <2> SUFFICES ASSUME RetainedInv, RetainedInv', Numbered, [Next]_vars
                 PROVE  [Durable!Next]_Durable!vars
      OBVIOUS
    <2>0. TurnFree => running /\ NoneQueueing /\ \A d \in Drains : job[d] = Idle
      BY DEF TurnFree, DrainsYield
    <2>1. ASSUME OnlyLoses, running, running', SameAnswers PROVE [Durable!Next]_Durable!vars
      BY <2>1, Discharges DEF Durable!Next
    <2>2. ASSUME UNCHANGED <<queue, disk>>, Discharged \subseteq Discharged' PROVE OnlyLoses
      BY <2>2 DEF OnlyLoses, LossFree
    <2>3. ASSUME NEW m \in Msgs, NEW r, snd' = [snd EXCEPT ![m] = r],
                 r.phase \notin {"queueing", "queued"}, snd[m].phase \notin {"queueing", "queued"}
          PROVE  SameAnswers
      BY <2>3 DEF SameAnswers, RetainedInv, TypeInv, Types
    <2>4. ASSUME NEW m \in Msgs, StartSend(m) PROVE [Durable!Next]_Durable!vars
      <3>1. SameAnswers
        BY <2>3, <2>4 DEF StartSend
      <3>2. OnlyLoses /\ running /\ running'
        BY <2>0, <2>2, <2>4 DEF StartSend, history, env, Discharged
      <3> QED BY <2>1, <3>1, <3>2
    <2>5. ASSUME NEW m \in Msgs, SendAccepted(m) PROVE [Durable!Next]_Durable!vars
      <3>1. SameAnswers
        BY <2>3, <2>5 DEF SendAccepted
      <3>2. OnlyLoses /\ running /\ running'
        BY <2>0, <2>2, <2>5 DEF SendAccepted, env, Discharged
      <3> QED BY <2>1, <3>1, <3>2
    <2>6. ASSUME NEW m \in Msgs, SendRejected(m) PROVE [Durable!Next]_Durable!vars
      <3>1. /\ running /\ snd[m].phase = "sending" /\ snd'[m].phase = "queueing"
            /\ \A x \in Msgs : x # m => snd'[x] = snd[x]
            /\ UNCHANGED <<queue, disk, running, handed, expired, evicted>>
        BY <2>0, <2>6 DEF SendRejected, history, env, RetainedInv, TypeInv, Types
      <3>2. /\ { x \in Msgs : snd'[x].phase = "queueing" } = { x \in Msgs : snd[x].phase = "queueing" } \cup {m}
            /\ { x \in Msgs : snd'[x].phase = "queued" } = { x \in Msgs : snd[x].phase = "queued" }
            /\ m \notin { x \in Msgs : Promised(x) }
        BY <3>1 DEF Promised
      <3>3. Durable!Offer(m)
        BY <3>1, <3>2 DEF Durable!Offer, Listed, Discharged, Promised
      <3> QED BY <3>3 DEF Durable!Next
    <2>7. ASSUME NEW m \in Msgs, Enqueue(m) PROVE [Durable!Next]_Durable!vars
      BY <2>7, Puts DEF Durable!Next
    <2>8. ASSUME UNCHANGED snd PROVE SameAnswers
      BY <2>8 DEF SameAnswers
    <2>9. ASSUME NEW d \in Drains, NEW p \in Peers, NEW todo \in SUBSET Peers,
                 running, NoneQueueing, \A x \in Drains : x # d => job[x] = Idle,
                 BeginDrain(d, p, todo)
          PROVE  [Durable!Next]_Durable!vars
      <3>1. UNCHANGED snd /\ running'
        BY <2>9 DEF BeginDrain, env
      <3> QED BY <2>1, <2>8, <2>9, <3>1, BeginDrainKeeps
    <2>10. ASSUME NEW d \in Drains, NEW p \in Peers, ProofOfLife(d, p)
           PROVE  [Durable!Next]_Durable!vars
      BY <2>0, <2>9, <2>10 DEF ProofOfLife
    <2>11. ASSUME NEW d \in Drains, PeriodicDrain(d) PROVE [Durable!Next]_Durable!vars
      <3>1. PICK p \in Peers : BeginDrain(d, p, {x \in Peers \ {p} : queue[x] # <<>>})
        BY <2>11 DEF PeriodicDrain
      <3> QED BY <2>0, <2>9, <2>11, <3>1 DEF PeriodicDrain
    <2>12. ASSUME NEW d \in Drains, NextPeer(d) PROVE [Durable!Next]_Durable!vars
      <3>0. job[d] \in Job
        BY DEF RetainedInv, TypeInv, Types
      <3>1. running /\ NoneQueueing /\ job[d].todo \subseteq Peers /\ job[d] # Idle
        BY <2>12, <3>0 DEF NextPeer, DrainTurn, Job, Idle
      <3>2. \A x \in Drains : x # d => job[x] = Idle
        BY <3>1, OnlyDrain DEF RetainedInv
      <3>3. PICK p \in job[d].todo :
              \/ BeginDrain(d, p, job[d].todo \ {p})
              \/ UNCHANGED <<queue, disk, snd, saveFailures, history, env>>
        BY <2>12 DEF NextPeer
      <3>4. CASE UNCHANGED <<queue, disk, snd, saveFailures, history, env>>
        BY <2>1, <2>2, <2>8, <3>1, <3>4 DEF history, env, Discharged
      <3> QED BY <2>9, <3>1, <3>2, <3>3, <3>4
    <2>13. ASSUME NEW d \in Drains, DrainStep(d) PROVE [Durable!Next]_Durable!vars
      <3>1. UNCHANGED snd /\ running /\ running'
        BY <2>13 DEF DrainStep, DrainTurn, env
      <3> QED BY <2>1, <2>8, <2>13, <3>1, DrainStepKeeps
    <2>14. CASE Crash
      <3>1. /\ ~running' /\ Listed(queue)' = {}
            /\ UNCHANGED <<disk, handed, expired, evicted>>
        BY <2>14 DEF Crash, Listed, Keys, history
      <3>2. /\ { x \in Msgs : snd'[x].phase = "queueing" } = {}
            /\ { x \in Msgs : snd'[x].phase = "queued" } = { x \in Msgs : snd[x].phase = "queued" }
        BY <2>14 DEF Crash
      <3>3. running' = FALSE
        BY <2>14 DEF Crash
      <3>4. Durable!Crash
        BY <3>1, <3>2, <3>3 DEF Durable!Crash, Listed, Discharged, Promised
      <3> QED BY <3>4 DEF Durable!Next
    <2>15. CASE Restart
      <3>1. Durable!Restart
        BY <2>15 DEF Restart, Durable!Restart, Listed, Discharged, Promised, history
      <3> QED BY <3>1 DEF Durable!Next
    <2>16. CASE UNCHANGED <<queue, disk, snd, running, history>>
      BY <2>16 DEF Durable!vars, Listed, Discharged, Promised, history
    <2>17. Tick \/ (\E p \in Peers : Flip(p)) \/ UNCHANGED vars
             => UNCHANGED <<queue, disk, snd, running, history>>
      BY DEF Tick, Flip, vars, history
    <2> QED BY <2>4, <2>5, <2>6, <2>7, <2>10, <2>11, <2>12, <2>13, <2>14, <2>15,
               <2>16, <2>17 DEF Next
  <1>3. Init => RetainedInv /\ Numbered
    BY InitRetained DEF Init, Numbered
  <1>4. RetainedInv /\ Numbered /\ [Next]_vars => RetainedInv' /\ Numbered'
    BY NextRetained, NextNumbered DEF RetainedInv
  <1> QED BY <1>1, <1>2, <1>3, <1>4, PTL DEF Spec, KeepsPromises, Durable!Spec

\* What DurableQueue is good for: whatever implements it loses no item of a
\* promised message, and of the outbox that is Retained.
THEOREM DurableQueueRetains == KeepsPromises => []Retained
  <1>1. Durable!Init => Durable!Kept
    BY DEF Durable!Init, Durable!Kept
  <1>2. Durable!Kept /\ [Durable!Next]_Durable!vars => Durable!Kept'
    <2> SUFFICES ASSUME Durable!Kept, [Durable!Next]_Durable!vars PROVE Durable!Kept'
      OBVIOUS
    <2>1. CASE \E m \in Msgs : Durable!Offer(m)
      BY <2>1 DEF Durable!Offer, Durable!Kept
    <2>2. ASSUME NEW m \in Msgs, Durable!Put(m) PROVE Durable!Kept'
      BY <2>2 DEF Durable!Put, Durable!Changes, Durable!Promise, Durable!Kept
    <2>3. CASE Durable!Discharge
      BY <2>3 DEF Durable!Discharge, Durable!Changes, Durable!Kept
    <2>4. CASE Durable!Crash
      BY <2>4 DEF Durable!Crash, Durable!Kept
    <2>5. CASE Durable!Restart
      BY <2>5 DEF Durable!Restart, Durable!Kept
    <2>6. CASE UNCHANGED Durable!vars
      BY <2>6 DEF Durable!vars, Durable!Kept
    <2> QED BY <2>1, <2>2, <2>3, <2>4, <2>5, <2>6 DEF Durable!Next
  <1>3. Durable!Kept => Retained
    <2> SUFFICES ASSUME Durable!Kept, NEW m \in Msgs, Promised(m)
                 PROVE  /\ ChunksOfMsg(m) \subseteq Keys(disk[DestOf[m]]) \cup Discharged
                        /\ running => ChunksOfMsg(m) \subseteq Keys(queue[DestOf[m]]) \cup Discharged
      BY DEF Retained
    <2>1. DestOf[m] \in Peers
      BY OutboxAssumption
    <2>2. /\ {DestOf[m]} \X ChunksOfMsg(m) \subseteq Listed(disk) \cup (Peers \X Discharged)
          /\ running => {DestOf[m]} \X ChunksOfMsg(m)
                          \subseteq Listed(queue) \cup (Peers \X Discharged)
      BY DEF Durable!Kept
    <2>3. ASSUME NEW lists,
                 {DestOf[m]} \X ChunksOfMsg(m) \subseteq Listed(lists) \cup (Peers \X Discharged)
          PROVE  ChunksOfMsg(m) \subseteq Keys(lists[DestOf[m]]) \cup Discharged
      <3> SUFFICES ASSUME NEW c \in ChunksOfMsg(m)
                   PROVE  c \in Keys(lists[DestOf[m]]) \cup Discharged
        OBVIOUS
      <3>1. <<DestOf[m], c>> \in Listed(lists) \cup (Peers \X Discharged)
        BY <2>3
      <3>2. <<DestOf[m], c>> \in Listed(lists) <=> c \in Keys(lists[DestOf[m]])
        BY <2>1, ListedItems
      <3> QED BY <3>1, <3>2
    <2> QED BY <2>2, <2>3
  <1> QED BY <1>1, <1>2, <1>3, PTL DEF KeepsPromises, Durable!Spec

-----------------------------------------------------------------------------
(***************************************************************************)
(* The cap, over any transport.  A drain's survivors are fewer than the    *)
(* entries it has read, and the array it reads never gets shorter while it *)
(* is read: a push at the cap replaces the entry it shifts out.            *)
(***************************************************************************)
LoopBound(j) ==
  /\ Len(j.survive) <= j.next - 2
  /\ j.next - 1 <= Len(Iterated(j))
  /\ Len(Iterated(j)) <= MaxPerPeer

CapInv == CapHolds /\ \A d \in Drains : Sending(d) => LoopBound(job[d])

\* Drains die with the process.
UpInv == \A d \in Drains : Sending(d) => running

LEMMA NextUp == UpInv /\ [Next]_vars => UpInv'
  <1> SUFFICES ASSUME UpInv, [Next]_vars PROVE UpInv'
    OBVIOUS
  <1>1. ASSUME running, UNCHANGED env PROVE UpInv'
    BY <1>1 DEF UpInv, env
  <1>2. (\E m \in Msgs : StartSend(m) \/ SendAccepted(m) \/ SendRejected(m) \/ Enqueue(m))
          => running /\ UNCHANGED env
    BY DEF StartSend, SendAccepted, SendRejected, Enqueue, TurnFree
  <1>3. \A d \in Drains : DrainStep(d) => running /\ UNCHANGED env
    BY DEF DrainStep, DrainTurn
  <1>4. \A d \in Drains : PeriodicDrain(d) \/ (\E p \in Peers : ProofOfLife(d, p))
          => running /\ UNCHANGED env
    BY DEF PeriodicDrain, ProofOfLife, TurnFree, BeginDrain
  <1>5. \A d \in Drains : NextPeer(d) => running /\ UNCHANGED env
    BY DEF NextPeer, DrainTurn, BeginDrain
  <1>6. CASE Crash
    <2>1. Idle.peer = NoPeer
      BY DEF Idle
    <2> QED BY <1>6, <2>1 DEF Crash, UpInv, Sending
  <1>7. CASE Restart
    BY <1>7 DEF Restart, UpInv
  <1>8. CASE Tick \/ (\E p \in Peers : Flip(p)) \/ UNCHANGED vars
    BY <1>8 DEF Tick, Flip, vars, UpInv, Sending
  <1> QED BY <1>1, <1>2, <1>3, <1>4, <1>5, <1>6, <1>7, <1>8 DEF Next

LEMMA AdvanceCap ==
  ASSUME TypeInv, CapInv, NEW d \in Drains, NEW j \in Job, j.peer \in Peers, j.next >= 1,
         Len(j.survive) <= j.next - 1, j.next - 1 <= Len(Iterated(j)),
         Len(Iterated(j)) <= MaxPerPeer, Advance(d, j)
  PROVE  CapInv'
  <1> DEFINE list == Iterated(j)
  <1>1. list \in Seq(Entry) /\ Len(list) \in Nat /\ j.next \in Nat /\ Len(j.survive) \in Nat
    <2>1. list \in Seq(Entry)
      BY IteratedType DEF TypeInv
    <2>2. j.next \in Nat /\ j.survive \in Seq(Entry)
      BY DEF Job
    <2> QED BY <2>1, <2>2
  <1>2. MaxPerPeer \in Nat
    BY OutboxAssumption
  <1>3. ASSUME FinishDrain(d, j) PROVE CapInv'
    <2>1. queue' = [queue EXCEPT ![j.peer] = j.survive] /\ (disk' = queue' \/ disk' = disk)
      BY <1>3 DEF FinishDrain, SaveOk, SaveThrows
    <2>2. Len(j.survive) <= MaxPerPeer
      BY <1>1, <1>2
    <2>3. \A p \in Peers : queue'[p] = IF p = j.peer THEN j.survive ELSE queue[p]
      BY <2>1 DEF TypeInv, Types
    <2>4. CapHolds'
      BY <2>1, <2>2, <2>3 DEF CapInv, CapHolds
    <2>5. PICK rest : job' = [Orphaned(d, j.peer) EXCEPT ![d] = [Idle EXCEPT !.todo = rest]]
      BY <1>3 DEF FinishDrain
    <2>6. ASSUME NEW x \in Drains, Sending(x)' PROVE LoopBound(job[x])'
      <3>1. x # d
        BY <2>5, <2>6, EndedJob DEF Sending, Orphaned
      <3>2. job'[x] = Orphaned(d, j.peer)[x]
        BY <2>5, <3>1 DEF Orphaned
      <3>3. job[x] \in Job
        BY DEF TypeInv, Types
      <3>4. CASE job[x].peer = j.peer /\ job[x].old = <<>>
        <4>1. job'[x] = [job[x] EXCEPT !.old = <<queue[j.peer]>>]
          BY <3>1, <3>2, <3>4 DEF Orphaned
        <4>2. /\ job'[x].old = <<queue[j.peer]>> /\ job'[x].peer = job[x].peer
              /\ job'[x].survive = job[x].survive /\ job'[x].next = job[x].next
          BY <3>3, <4>1 DEF Job
        <4>3. /\ <<queue[j.peer]>> # <<>> /\ <<queue[j.peer]>>[1] = queue[j.peer]
          OBVIOUS
        <4>4. Iterated(job[x])' = Iterated(job[x])
          BY <3>4, <4>2, <4>3 DEF Iterated
        <4>5. Sending(x)
          BY <2>6, <4>2 DEF Sending
        <4> QED BY <4>2, <4>4, <4>5 DEF CapInv, LoopBound
      <3>5. CASE ~(job[x].peer = j.peer /\ job[x].old = <<>>)
        <4>1. job'[x] = job[x]
          BY <3>1, <3>2, <3>5 DEF Orphaned
        <4>2. Sending(x) /\ job[x].peer \in Peers
          BY <2>6, <3>3, <4>1 DEF Sending, Job
        <4>3. Iterated(job[x])' = Iterated(job[x])
          BY <2>3, <3>5, <4>1, <4>2 DEF Iterated
        <4> QED BY <4>1, <4>2, <4>3 DEF CapInv, LoopBound
      <3> QED BY <3>4, <3>5
    <2> QED BY <2>4, <2>6 DEF CapInv
  <1>4. ASSUME NEW k \in Fresh(list, j.next, j.start),
               job' = [job EXCEPT ![d] =
                  [peer |-> j.peer, todo |-> j.todo, old |-> j.old, next |-> k + 1,
                   cur |-> list[k], survive |-> j.survive, start |-> j.start]],
               UNCHANGED <<queue, disk, saveFailures>>
        PROVE  CapInv'
    <2>1. k \in Nat /\ j.next <= k /\ k <= Len(list)
      BY <1>1 DEF Fresh
    <2>2. CapHolds'
      BY <1>4 DEF CapInv, CapHolds
    <2>3. /\ job'[d].peer = j.peer /\ job'[d].old = j.old /\ job'[d].next = k + 1
          /\ job'[d].survive = j.survive
      BY <1>4 DEF TypeInv, Types
    <2>4. Iterated(job[d])' = list
      BY <1>4, <2>3 DEF Iterated
    <2>5. LoopBound(job[d])'
      <3>1. k + 1 - 2 = k - 1 /\ k + 1 - 1 = k /\ Len(j.survive) <= k - 1
        BY <1>1, <2>1
      <3> QED BY <2>1, <2>3, <2>4, <3>1 DEF LoopBound
    <2>6. \A x \in Drains : x # d => job'[x] = job[x]
      BY <1>4 DEF TypeInv, Types
    <2>7. ASSUME NEW x \in Drains, x # d, Sending(x)' PROVE LoopBound(job[x])'
      BY <1>4, <2>6, <2>7 DEF CapInv, LoopBound, Iterated, Sending
    <2> QED BY <2>2, <2>5, <2>7 DEF CapInv
  <1> QED BY <1>3, <1>4 DEF Advance

LEMMA BeginDrainCap ==
  ASSUME TypeInv, CapInv, NEW d \in Drains, NEW p \in Peers, NEW todo \in SUBSET Peers,
         BeginDrain(d, p, todo)
  PROVE  CapInv'
  <1> DEFINE j == [peer |-> p, todo |-> todo, old |-> <<>>, next |-> 1,
                   cur |-> NoEntry, survive |-> <<>>, start |-> now]
  <1>1. /\ j \in Job /\ j.peer \in Peers /\ j.next = 1 /\ j.survive = <<>>
        /\ Iterated(j) = queue[p]
    BY EmptySeq DEF Job, TypeInv, Types, Iterated
  <1>2. Advance(d, j)
    BY DEF BeginDrain
  <1>3. Len(queue[p]) \in Nat /\ Len(queue[p]) <= MaxPerPeer /\ Len(<<>>) = 0
    BY EmptySeq DEF TypeInv, Types, CapInv, CapHolds
  <1> HIDE DEF j
  <1>4. /\ j.next >= 1 /\ Len(j.survive) <= j.next - 1 /\ j.next - 1 <= Len(Iterated(j))
        /\ Len(Iterated(j)) <= MaxPerPeer
    BY <1>1, <1>3
  <1> QED BY <1>1, <1>2, <1>4, AdvanceCap

LEMMA NextCap == TypeInv /\ CapInv /\ UpInv /\ [Next]_vars => CapInv'
  <1> SUFFICES ASSUME TypeInv, CapInv, UpInv, [Next]_vars PROVE CapInv'
    OBVIOUS
  <1>1. CASE UNCHANGED <<queue, disk, job>>
    BY <1>1 DEF CapInv, CapHolds, LoopBound, Iterated, Sending
  <1>2. ASSUME NEW m \in Msgs, Enqueue(m) PROVE CapInv'
    <2> DEFINE p == DestOf[m]
               e == [msg |-> m, seq |-> snd[m].next, at |-> now]
               list == IF IsDup(queue[p], Key(e)) THEN queue[p] ELSE Pushed(queue[p], e)
    <2>1. /\ p \in Peers /\ e \in Entry /\ queue[p] \in Seq(Entry) /\ Len(queue[p]) \in Nat
          /\ Len(queue[p]) <= MaxPerPeer
      <3>1. p \in Peers /\ e \in Entry /\ queue[p] \in Seq(Entry)
        BY OutboxAssumption DEF TypeInv, Types, Entry
      <3> QED BY <3>1 DEF CapInv, CapHolds
    <2>2. Len(list) <= MaxPerPeer /\ Len(list) >= Len(queue[p]) /\ list \in Seq(Entry)
      BY <2>1, PushedFacts
    <2>3. queue' = [queue EXCEPT ![p] = list] /\ job' = job /\ (disk' = disk \/ disk' = queue')
      BY <1>2 DEF Enqueue, SaveOk, SaveThrows
    <2> HIDE DEF list
    <2>4. \A x \in Peers : queue'[x] = IF x = p THEN list ELSE queue[x]
      BY <2>3 DEF TypeInv, Types
    <2>5. CapHolds'
      BY <2>2, <2>3, <2>4 DEF CapInv, CapHolds
    <2>6. ASSUME NEW x \in Drains, Sending(x)' PROVE LoopBound(job[x])'
      <3>1. Sending(x) /\ job[x] \in Job /\ job[x].peer \in Peers /\ job[x].next \in Nat
        BY <2>3, <2>6 DEF Sending, TypeInv, Types, Job
      <3>2. LoopBound(job[x])
        BY <3>1 DEF CapInv
      <3>3. CASE Iterated(job[x])' = Iterated(job[x])
        BY <2>3, <3>2, <3>3 DEF LoopBound
      <3>4. CASE job[x].old = <<>> /\ job[x].peer = p
        <4>1. Iterated(job[x]) = queue[p] /\ Iterated(job[x])' = list
          BY <2>3, <2>4, <3>4, <2>1 DEF Iterated
        <4>2. Len(list) \in Nat
          BY <2>2
        <4>3. job[x].next - 1 <= Len(list)
          BY <2>1, <2>2, <3>1, <3>2, <4>1, <4>2 DEF LoopBound
        <4> QED BY <2>2, <2>3, <3>2, <4>1, <4>3 DEF LoopBound
      <3>5. ~(job[x].old = <<>> /\ job[x].peer = p) => Iterated(job[x])' = Iterated(job[x])
        BY <2>3, <2>4, <3>1 DEF Iterated
      <3> QED BY <3>3, <3>4, <3>5
    <2> QED BY <2>5, <2>6 DEF CapInv
  <1>3. ASSUME NEW d \in Drains, NEW p \in Peers, ProofOfLife(d, p) PROVE CapInv'
    BY <1>3, BeginDrainCap DEF ProofOfLife
  <1>4. ASSUME NEW d \in Drains, PeriodicDrain(d) PROVE CapInv'
    <2>1. PICK p \in Peers : BeginDrain(d, p, {x \in Peers \ {p} : queue[x] # <<>>})
      BY <1>4 DEF PeriodicDrain
    <2> QED BY <2>1, BeginDrainCap
  <1>5. ASSUME NEW d \in Drains, NextPeer(d) PROVE CapInv'
    <2>1. job[d] \in Job /\ job[d].todo \subseteq Peers /\ job[d].peer = NoPeer
      BY <1>5 DEF NextPeer, Sending, TypeInv, Types, Job
    <2>2. PICK p \in job[d].todo :
            \/ BeginDrain(d, p, job[d].todo \ {p})
            \/ /\ job' = [job EXCEPT ![d].todo = @ \ {p}]
               /\ UNCHANGED <<queue, disk, snd, saveFailures, history, env>>
      BY <1>5 DEF NextPeer
    <2>3. CASE BeginDrain(d, p, job[d].todo \ {p})
      BY <2>1, <2>3, BeginDrainCap
    <2>4. CASE /\ job' = [job EXCEPT ![d].todo = @ \ {p}]
               /\ UNCHANGED <<queue, disk, snd, saveFailures, history, env>>
      <3>1. \A x \in Drains : x # d => job'[x] = job[x]
        BY <2>4 DEF TypeInv, Types
      <3>2. job'[d].peer = NoPeer
        BY <2>1, <2>4 DEF TypeInv, Types, Job
      <3>3. ASSUME NEW x \in Drains, Sending(x)' PROVE LoopBound(job[x])'
        BY <2>4, <3>1, <3>2, <3>3 DEF CapInv, LoopBound, Iterated, Sending
      <3>4. CapHolds'
        BY <2>4 DEF CapInv, CapHolds
      <3> QED BY <3>3, <3>4 DEF CapInv
    <2> QED BY <2>2, <2>3, <2>4
  <1>6. ASSUME NEW d \in Drains, DrainStep(d) PROVE CapInv'
    <2> DEFINE ok == job[d].peer \notin down
               j == [job[d] EXCEPT !.survive = Survivors(job[d], ok)]
    <2>1. /\ job[d] \in Job /\ job[d].cur \in Entry /\ job[d].peer \in Peers
          /\ job[d].next >= 1 /\ job[d].next \in Nat /\ Sending(d)
          /\ job[d].survive \in Seq(Entry) /\ LoopBound(job[d])
      BY <1>6 DEF DrainStep, TypeInv, Types, SendingOK, Sending, Job, CapInv
    <2>2. /\ Survivors(job[d], ok) \in Seq(Entry)
          /\ Len(Survivors(job[d], ok)) <= Len(job[d].survive) + 1
          /\ Len(Survivors(job[d], ok)) \in Nat /\ Len(job[d].survive) \in Nat
      BY <2>1, AppendProperties DEF Survivors
    <2>3. /\ j \in Job /\ j.peer = job[d].peer /\ j.next = job[d].next /\ j.old = job[d].old
          /\ j.survive = Survivors(job[d], ok)
      BY <2>1, <2>2 DEF Job
    <2>4. Advance(d, j)
      BY <1>6 DEF DrainStep
    <2> HIDE DEF j
    <2>5. Iterated(j) = Iterated(job[d])
      BY <2>3 DEF Iterated
    <2>6. /\ j.next >= 1 /\ j.peer \in Peers /\ j.next - 1 <= Len(Iterated(j))
          /\ Len(Iterated(j)) <= MaxPerPeer
      BY <2>1, <2>3, <2>5 DEF LoopBound
    <2>7. Len(j.survive) <= j.next - 1
      BY <2>1, <2>2, <2>3 DEF LoopBound
    <2> QED BY <2>3, <2>4, <2>6, <2>7, AdvanceCap
  <1>7. CASE Crash
    <2>1. \A d \in Drains : ~Sending(d)'
      <3>1. Idle.peer = NoPeer
        BY DEF Idle
      <3> QED BY <1>7, <3>1 DEF Crash, Sending
    <2>2. CapHolds'
      <3>1. Len(<<>>) = 0 /\ MaxPerPeer \in Nat
        BY OutboxAssumption
      <3>2. \A p \in Peers : queue'[p] = <<>> /\ disk'[p] = disk[p]
        BY <1>7 DEF Crash
      <3> QED BY <3>1, <3>2 DEF CapInv, CapHolds
    <2> QED BY <2>1, <2>2 DEF CapInv
  <1>8. (\E m \in Msgs : StartSend(m) \/ SendAccepted(m) \/ SendRejected(m))
          \/ Tick \/ (\E p \in Peers : Flip(p)) \/ UNCHANGED vars
        => UNCHANGED <<queue, disk, job>>
    BY DEF StartSend, SendAccepted, SendRejected, Tick, Flip, vars
  <1>9. CASE Restart
    BY <1>9 DEF Restart, UpInv, CapInv, CapHolds, Sending
  <1> QED BY <1>1, <1>2, <1>3, <1>4, <1>5, <1>6, <1>7, <1>8, <1>9 DEF Next

\* No list outgrows the cap, in memory or in the file, over any transport and
\* with any number of drains in progress.
THEOREM CapNeverExceeded == Spec => []CapHolds
  <1>1. Init => CapInv /\ UpInv
    <2> SUFFICES ASSUME Init PROVE CapInv /\ UpInv
      OBVIOUS
    <2>1. \A d \in Drains : ~Sending(d)
      BY DEF Init, Sending, Idle
    <2>2. Len(<<>>) = 0 /\ MaxPerPeer \in Nat
      BY OutboxAssumption
    <2>3. \A p \in Peers : queue[p] = <<>> /\ disk[p] = <<>>
      BY DEF Init
    <2> QED BY <2>1, <2>2, <2>3 DEF CapInv, CapHolds, UpInv
  <1>2. Spec => [](TypeInv /\ CapInv /\ UpInv)
    BY <1>1, InitTypes, NextTypes, NextCap, NextUp, PTL DEF Spec
  <1>3. CapInv => CapHolds
    BY DEF CapInv
  <1> QED BY <1>2, <1>3, PTL

-----------------------------------------------------------------------------
(***************************************************************************)
(* The age order, over any transport.  What a drain has kept is older than *)
(* the entry in flight, and that one older than whatever is still to be    *)
(* read: a push at the cap only moves younger entries under the index.     *)
(***************************************************************************)
Ordered(list) ==
  /\ \A a, b \in DOMAIN list : a < b => list[a].at <= list[b].at
  /\ \A a \in DOMAIN list : list[a].at <= now

Younger(e, list, n) == \A i \in n..Len(list) : e.at <= list[i].at

InOrder(j) ==
  /\ Ordered(Iterated(j))
  /\ Ordered(Append(j.survive, j.cur))
  /\ Younger(j.cur, Iterated(j), j.next)

AgeInv ==
  /\ \A p \in Peers : Ordered(queue[p]) /\ Ordered(disk[p])
  /\ \A d \in Drains : Sending(d) => InOrder(job[d])

LEMMA EntryAges ==
  ASSUME NEW list \in Seq(Entry) PROVE \A i \in DOMAIN list : list[i].at \in Nat
  <1>1. \A i \in DOMAIN list : list[i] \in Entry
    BY ElementOfSeq
  <1> QED BY <1>1 DEF Entry

\* Appending an entry to a list keeps it ordered just when the entry is the
\* youngest.
LEMMA AppendOrdered ==
  ASSUME NEW list \in Seq(Entry), NEW e \in Entry, now \in Nat
  PROVE  Ordered(Append(list, e)) <=>
           /\ Ordered(list) /\ e.at <= now
           /\ \A i \in DOMAIN list : list[i].at <= e.at
  <1> DEFINE app == Append(list, e)
             n == Len(list)
  <1>1. /\ n \in Nat /\ DOMAIN app = 1..(n + 1) /\ DOMAIN list = 1..n
        /\ app[n + 1] = e /\ \A i \in 1..n : app[i] = list[i]
    BY AppendProperties
  <1> HIDE DEF app, n
  <1>2. ASSUME Ordered(app)
        PROVE  Ordered(list) /\ e.at <= now /\ \A i \in DOMAIN list : list[i].at <= e.at
    <2>1. \A i \in 1..n : i \in 1..(n + 1) /\ i < n + 1
      BY <1>1
    <2>2. n + 1 \in 1..(n + 1)
      BY <1>1
    <2> QED BY <1>1, <1>2, <2>1, <2>2 DEF Ordered
  <1>3. ASSUME Ordered(list), e.at <= now, \A i \in DOMAIN list : list[i].at <= e.at
        PROVE  Ordered(app)
    <2>1. \A i \in 1..(n + 1) : i \in 1..n \/ i = n + 1
      BY <1>1
    <2>2. ASSUME NEW a \in 1..(n + 1), NEW b \in 1..(n + 1), a < b
          PROVE  app[a].at <= app[b].at
      <3>1. a \in 1..n
        BY <1>1, <2>2
      <3> QED BY <1>1, <1>3, <2>1, <2>2, <3>1 DEF Ordered
    <2>3. \A a \in 1..(n + 1) : app[a].at <= now
      BY <1>1, <1>3, <2>1 DEF Ordered
    <2> QED BY <1>1, <2>2, <2>3 DEF Ordered
  <1> QED BY <1>2, <1>3 DEF app

\* A push of an entry made now keeps the order, and what an index n of the list
\* still has before it, younger than some entry x, stays so.
LEMMA PushedOrdered ==
  ASSUME NEW list \in Seq(Entry), NEW e \in Entry, now \in Nat, e.at = now, Ordered(list)
  PROVE  /\ Ordered(Pushed(list, e))
         /\ \A x \in Entry, n \in Nat \ {0} :
              x.at <= now /\ Younger(x, list, n) => Younger(x, Pushed(list, e), n)
  <1> DEFINE app == Append(list, e)
             kept == KeepNewest(app)
  <1>1. /\ app \in Seq(Entry) /\ Len(list) \in Nat /\ Len(app) = Len(list) + 1
        /\ app[Len(list) + 1] = e /\ \A i \in 1..Len(list) : app[i] = list[i]
    BY AppendProperties
  <1>2. Ordered(app)
    BY AppendOrdered DEF Ordered
  <1> HIDE DEF app
  <1>3. kept \in Seq(Entry) /\ \E k \in Nat : \A i \in DOMAIN kept :
          i + k \in DOMAIN app /\ kept[i] = app[i + k]
    BY <1>1, KeepNewestFacts
  <1> HIDE DEF kept
  <1>4. PICK k \in Nat : \A i \in DOMAIN kept : i + k \in DOMAIN app /\ kept[i] = app[i + k]
    BY <1>3
  <1>5. DOMAIN kept = 1..Len(kept) /\ Len(kept) \in Nat /\ DOMAIN app = 1..Len(app)
    BY <1>1, <1>3
  <1>6. Ordered(kept)
    <2>1. \A a, b \in DOMAIN kept : a < b => a + k < b + k
      BY <1>5
    <2> QED BY <1>2, <1>4, <2>1 DEF Ordered
  <1>7. ASSUME NEW x \in Entry, NEW n \in Nat \ {0}, x.at <= now, Younger(x, list, n),
               NEW i \in n..Len(kept)
        PROVE  x.at <= kept[i].at
    <2>1. i \in DOMAIN kept
      BY <1>5
    <2>2. i + k \in 1..(Len(list) + 1) /\ i + k >= n /\ kept[i] = app[i + k]
      BY <1>1, <1>4, <1>5, <2>1
    <2>3. CASE i + k = Len(list) + 1
      BY <1>1, <1>7, <2>2, <2>3
    <2>4. CASE i + k # Len(list) + 1
      <3>1. i + k \in n..Len(list) /\ i + k \in 1..Len(list)
        BY <1>1, <2>2, <2>4
      <3> QED BY <1>1, <1>7, <2>2, <3>1 DEF Younger
    <2> QED BY <2>3, <2>4
  <1> QED BY <1>6, <1>7 DEF Younger, Pushed, kept, app

\* A drain that neither moves nor loses its array stays in order.
LEMMA StaysInOrder ==
  ASSUME NEW x \in Drains, now' = now, InOrder(job[x]),
         Iterated(job[x])' = Iterated(job[x]), job'[x].survive = job[x].survive,
         job'[x].cur = job[x].cur, job'[x].next = job[x].next
  PROVE  InOrder(job[x])'
  <1>1. Append(job[x].survive, job[x].cur)' = Append(job[x].survive, job[x].cur)
    OBVIOUS
  <1>2. Ordered(Iterated(job[x]))'
    BY DEF InOrder, Ordered
  <1>3. Ordered(Append(job[x].survive, job[x].cur))'
    BY <1>1 DEF InOrder, Ordered
  <1>4. Younger(job[x].cur, Iterated(job[x]), job[x].next)'
    BY DEF InOrder, Younger
  <1> QED BY <1>2, <1>3, <1>4 DEF InOrder

LEMMA AdvanceOrdered ==
  ASSUME TypeInv, AgeInv, now' = now,
         NEW d \in Drains, NEW j \in Job, j.peer \in Peers, j.next >= 1,
         Ordered(Iterated(j)), Ordered(j.survive),
         \A s \in DOMAIN j.survive : Younger(j.survive[s], Iterated(j), j.next),
         Advance(d, j)
  PROVE  AgeInv'
  <1> DEFINE list == Iterated(j)
  <1>1. /\ list \in Seq(Entry) /\ Len(list) \in Nat /\ DOMAIN list = 1..Len(list)
        /\ j.next \in Nat /\ j.survive \in Seq(Entry) /\ now \in Nat
    <2>1. list \in Seq(Entry)
      BY IteratedType DEF TypeInv
    <2> QED BY <2>1 DEF Job, TypeInv, Types
  <1>2. \A l : Ordered(l)' <=> Ordered(l)
    BY DEF Ordered
  <1>3. ASSUME FinishDrain(d, j) PROVE AgeInv'
    <2>1. queue' = [queue EXCEPT ![j.peer] = j.survive] /\ (disk' = queue' \/ disk' = disk)
      BY <1>3 DEF FinishDrain, SaveOk, SaveThrows
    <2>2. \A p \in Peers : queue'[p] = IF p = j.peer THEN j.survive ELSE queue[p]
      BY <2>1 DEF TypeInv, Types
    <2>3. ASSUME NEW p \in Peers PROVE (Ordered(queue[p]) /\ Ordered(disk[p]))'
      <3>1. Ordered(queue'[p]) /\ Ordered(disk'[p])
        BY <2>1, <2>2 DEF AgeInv
      <3> QED BY <3>1 DEF Ordered
    <2>4. PICK rest : job' = [Orphaned(d, j.peer) EXCEPT ![d] = [Idle EXCEPT !.todo = rest]]
      BY <1>3 DEF FinishDrain
    <2>5. ASSUME NEW x \in Drains, Sending(x)' PROVE InOrder(job[x])'
      <3>1. x # d
        BY <2>4, <2>5, EndedJob DEF Sending, Orphaned
      <3>2. job'[x] = Orphaned(d, j.peer)[x]
        BY <2>4, <3>1 DEF Orphaned
      <3>3. job[x] \in Job
        BY DEF TypeInv, Types
      <3>4. /\ Sending(x) /\ Iterated(job[x])' = Iterated(job[x])
            /\ job'[x].survive = job[x].survive /\ job'[x].cur = job[x].cur
            /\ job'[x].next = job[x].next
        <4>1. CASE job[x].peer = j.peer /\ job[x].old = <<>>
          <5>1. job'[x] = [job[x] EXCEPT !.old = <<queue[j.peer]>>]
            BY <3>1, <3>2, <4>1 DEF Orphaned
          <5>2. /\ job'[x].old = <<queue[j.peer]>> /\ job'[x].peer = job[x].peer
                /\ job'[x].survive = job[x].survive /\ job'[x].cur = job[x].cur
                /\ job'[x].next = job[x].next
            BY <3>3, <5>1 DEF Job
          <5>3. <<queue[j.peer]>> # <<>> /\ <<queue[j.peer]>>[1] = queue[j.peer]
            OBVIOUS
          <5>4. Iterated(job[x])' = Iterated(job[x])
            BY <4>1, <5>2, <5>3 DEF Iterated
          <5> QED BY <2>5, <5>2, <5>4 DEF Sending
        <4>2. CASE ~(job[x].peer = j.peer /\ job[x].old = <<>>)
          <5>1. job'[x] = job[x]
            BY <3>1, <3>2, <4>2 DEF Orphaned
          <5>2. Sending(x) /\ job[x].peer \in Peers
            BY <2>5, <3>3, <5>1 DEF Sending, Job
          <5>3. Iterated(job[x])' = Iterated(job[x])
            BY <2>2, <4>2, <5>1, <5>2 DEF Iterated
          <5> QED BY <5>1, <5>2, <5>3
        <4> QED BY <4>1, <4>2
      <3> QED BY <3>4, StaysInOrder DEF AgeInv
    <2> QED BY <2>3, <2>5 DEF AgeInv
  <1>4. ASSUME NEW k \in Fresh(list, j.next, j.start),
               job' = [job EXCEPT ![d] =
                  [peer |-> j.peer, todo |-> j.todo, old |-> j.old, next |-> k + 1,
                   cur |-> list[k], survive |-> j.survive, start |-> j.start]],
               UNCHANGED <<queue, disk, saveFailures>>
        PROVE  AgeInv'
    <2>1. k \in Nat /\ k \in j.next..Len(list) /\ k \in 1..Len(list) /\ list[k] \in Entry
      BY <1>1, ElementOfSeq DEF Fresh
    <2>2. /\ job'[d].peer = j.peer /\ job'[d].old = j.old /\ job'[d].next = k + 1
          /\ job'[d].cur = list[k] /\ job'[d].survive = j.survive
          /\ \A x \in Drains : x # d => job'[x] = job[x]
      BY <1>4 DEF TypeInv, Types
    <2>3. Iterated(job[d])' = list
      BY <1>4, <2>2 DEF Iterated
    <2> HIDE DEF list
    <2>4. Ordered(Append(j.survive, list[k]))
      <3>1. list[k].at <= now
        BY <1>1, <2>1 DEF Ordered, list
      <3>2. \A s \in DOMAIN j.survive : j.survive[s].at <= list[k].at
        BY <2>1 DEF Younger, list
      <3> QED BY <1>1, <2>1, <3>1, <3>2, AppendOrdered
    <2>5. Younger(list[k], list, k + 1)
      <3>1. \A i \in (k + 1)..Len(list) : i \in 1..Len(list) /\ k < i
        BY <1>1, <2>1
      <3> QED BY <1>1, <2>1, <3>1 DEF Younger, Ordered, list
    <2>6. InOrder(job[d])'
      BY <2>2, <2>3, <2>4, <2>5, <1>2 DEF InOrder, Younger, Ordered, list
    <2>7. ASSUME NEW x \in Drains, x # d, Sending(x)' PROVE InOrder(job[x])'
      <3>1. InOrder(job[x]) /\ job'[x] = job[x] /\ Iterated(job[x])' = Iterated(job[x])
        BY <1>4, <2>2, <2>7 DEF AgeInv, Iterated, Sending
      <3> QED BY <3>1, StaysInOrder
    <2>8. \A p \in Peers : (Ordered(queue[p]) /\ Ordered(disk[p]))'
      BY <1>4 DEF AgeInv, Ordered
    <2> QED BY <2>6, <2>7, <2>8 DEF AgeInv
  <1> QED BY <1>3, <1>4 DEF Advance

LEMMA BeginDrainOrdered ==
  ASSUME TypeInv, AgeInv, NEW d \in Drains, NEW p \in Peers, NEW todo \in SUBSET Peers,
         BeginDrain(d, p, todo)
  PROVE  AgeInv'
  <1> DEFINE j == [peer |-> p, todo |-> todo, old |-> <<>>, next |-> 1,
                   cur |-> NoEntry, survive |-> <<>>, start |-> now]
  <1>1. /\ j \in Job /\ j.peer \in Peers /\ j.next = 1 /\ j.survive = <<>>
        /\ Iterated(j) = queue[p]
    BY EmptySeq DEF Job, TypeInv, Types, Iterated
  <1>2. Advance(d, j) /\ now' = now
    BY DEF BeginDrain, env
  <1> HIDE DEF j
  <1>3. Ordered(Iterated(j)) /\ Ordered(j.survive)
    BY <1>1 DEF AgeInv, Ordered
  <1>4. \A s \in DOMAIN j.survive : Younger(j.survive[s], Iterated(j), j.next)
    BY <1>1
  <1>5. j.next >= 1
    BY <1>1
  <1> QED BY <1>1, <1>2, <1>3, <1>4, <1>5, AdvanceOrdered

LEMMA NextOrdered == TypeInv /\ AgeInv /\ UpInv /\ [Next]_vars => AgeInv'
  <1> SUFFICES ASSUME TypeInv, AgeInv, UpInv, [Next]_vars PROVE AgeInv'
    OBVIOUS
  <1>0. now \in Nat
    BY DEF TypeInv, Types
  <1>1. CASE UNCHANGED <<queue, disk, job>> /\ (now' = now \/ now' = now + 1)
    <2>1. ASSUME NEW list \in Seq(Entry), Ordered(list) PROVE Ordered(list)'
      <3>1. \A a \in DOMAIN list : list[a].at \in Nat
        BY EntryAges
      <3> QED BY <1>0, <1>1, <2>1, <3>1 DEF Ordered
    <2>2. \A p \in Peers : (Ordered(queue[p]) /\ Ordered(disk[p]))'
      <3>1. \A p \in Peers : queue[p] \in Seq(Entry) /\ disk[p] \in Seq(Entry)
        BY DEF TypeInv, Types
      <3> QED BY <1>1, <2>1, <3>1 DEF AgeInv, Ordered
    <2>3. ASSUME NEW d \in Drains, Sending(d)' PROVE InOrder(job[d])'
      <3>1. Sending(d) /\ job[d] \in Job /\ job[d].peer \in Peers /\ job[d].cur \in Entry
            /\ job[d].survive \in Seq(Entry)
        BY <1>1, <2>3 DEF Sending, TypeInv, Types, SendingOK, Job
      <3>2. Iterated(job[d]) \in Seq(Entry) /\ Append(job[d].survive, job[d].cur) \in Seq(Entry)
        BY <3>1, IteratedType, AppendProperties DEF TypeInv
      <3>3. Iterated(job[d])' = Iterated(job[d]) /\ job'[d] = job[d]
        BY <1>1 DEF Iterated
      <3>4. InOrder(job[d])
        BY <3>1 DEF AgeInv
      <3>5. Ordered(Iterated(job[d]))' /\ Ordered(Append(job[d].survive, job[d].cur))'
        BY <2>1, <3>2, <3>3, <3>4 DEF InOrder, Ordered
      <3> QED BY <3>3, <3>4, <3>5 DEF InOrder, Younger
    <2> QED BY <2>2, <2>3 DEF AgeInv
  <1>2. ASSUME NEW m \in Msgs, Enqueue(m) PROVE AgeInv'
    <2> DEFINE p == DestOf[m]
               e == [msg |-> m, seq |-> snd[m].next, at |-> now]
               list == IF IsDup(queue[p], Key(e)) THEN queue[p] ELSE Pushed(queue[p], e)
    <2>1. /\ p \in Peers /\ e \in Entry /\ e.at = now /\ queue[p] \in Seq(Entry)
          /\ Ordered(queue[p])
      BY OutboxAssumption DEF TypeInv, Types, Entry, AgeInv
    <2>2. /\ Ordered(list)
          /\ \A x \in Entry, n \in Nat \ {0} :
               x.at <= now /\ Younger(x, queue[p], n) => Younger(x, list, n)
      <3> HIDE DEF e
      <3> QED BY <1>0, <2>1, PushedOrdered
    <2>3. /\ queue' = [queue EXCEPT ![p] = list] /\ job' = job /\ now' = now
          /\ disk' = disk \/ disk' = queue'
      BY <1>2 DEF Enqueue, SaveOk, SaveThrows, env
    <2> HIDE DEF list
    <2>4. \A x \in Peers : queue'[x] = IF x = p THEN list ELSE queue[x]
      BY <2>3 DEF TypeInv, Types
    <2>5. ASSUME NEW x \in Peers PROVE (Ordered(queue[x]) /\ Ordered(disk[x]))'
      <3>1. Ordered(queue'[x]) /\ Ordered(disk'[x])
        BY <2>2, <2>3, <2>4 DEF AgeInv
      <3> QED BY <2>3, <3>1 DEF Ordered
    <2>6. ASSUME NEW d \in Drains, Sending(d)' PROVE InOrder(job[d])'
      <3>1. /\ Sending(d) /\ job'[d] = job[d] /\ job[d] \in Job /\ job[d].peer \in Peers
            /\ job[d].next \in Nat \ {0} /\ job[d].cur \in Entry /\ job[d].survive \in Seq(Entry)
        BY <2>3, <2>6 DEF Sending, TypeInv, Types, SendingOK, Job
      <3>2. InOrder(job[d])
        BY <3>1 DEF AgeInv
      <3>3. CASE ~(job[d].old = <<>> /\ job[d].peer = p)
        <4>1. Iterated(job[d])' = Iterated(job[d])
          BY <2>3, <2>4, <3>1, <3>3 DEF Iterated
        <4> QED BY <2>3, <3>1, <3>2, <4>1, StaysInOrder
      <3>4. CASE job[d].old = <<>> /\ job[d].peer = p
        <4>1. Iterated(job[d]) = queue[p] /\ Iterated(job[d])' = list
          BY <2>1, <2>3, <2>4, <3>4 DEF Iterated
        <4>2. job[d].cur.at <= now
          BY <1>0, <3>1, <3>2, AppendOrdered DEF InOrder
        <4>3. Younger(job[d].cur, list, job[d].next)
          BY <2>2, <3>1, <3>2, <4>1, <4>2 DEF InOrder
        <4>4. Ordered(Append(job[d].survive, job[d].cur))'
          BY <2>3, <3>1, <3>2 DEF InOrder, Ordered
        <4>5. Ordered(Iterated(job[d]))'
          BY <2>2, <2>3, <4>1 DEF Ordered
        <4>6. Younger(job[d].cur, Iterated(job[d]), job[d].next)'
          BY <3>1, <4>1, <4>3 DEF Younger
        <4> QED BY <4>4, <4>5, <4>6 DEF InOrder
      <3> QED BY <3>3, <3>4
    <2> QED BY <2>5, <2>6 DEF AgeInv
  <1>3. ASSUME NEW d \in Drains, NEW p \in Peers, ProofOfLife(d, p) PROVE AgeInv'
    BY <1>3, BeginDrainOrdered DEF ProofOfLife
  <1>4. ASSUME NEW d \in Drains, PeriodicDrain(d) PROVE AgeInv'
    <2>1. PICK p \in Peers : BeginDrain(d, p, {x \in Peers \ {p} : queue[x] # <<>>})
      BY <1>4 DEF PeriodicDrain
    <2> QED BY <2>1, BeginDrainOrdered
  <1>5. ASSUME NEW d \in Drains, NextPeer(d) PROVE AgeInv'
    <2>1. job[d] \in Job /\ job[d].todo \subseteq Peers /\ job[d].peer = NoPeer
      BY <1>5 DEF NextPeer, Sending, TypeInv, Types, Job
    <2>2. PICK p \in job[d].todo :
            \/ BeginDrain(d, p, job[d].todo \ {p})
            \/ /\ job' = [job EXCEPT ![d].todo = @ \ {p}]
               /\ UNCHANGED <<queue, disk, snd, saveFailures, history, env>>
      BY <1>5 DEF NextPeer
    <2>3. CASE BeginDrain(d, p, job[d].todo \ {p})
      BY <2>1, <2>3, BeginDrainOrdered
    <2>4. CASE /\ job' = [job EXCEPT ![d].todo = @ \ {p}]
               /\ UNCHANGED <<queue, disk, snd, saveFailures, history, env>>
      <3>1. \A x \in Drains : x # d => job'[x] = job[x]
        BY <2>4 DEF TypeInv, Types
      <3>2. job'[d].peer = NoPeer
        BY <2>1, <2>4 DEF TypeInv, Types, Job
      <3>3. ASSUME NEW x \in Drains, Sending(x)' PROVE InOrder(job[x])'
        <4>1. x # d /\ job'[x] = job[x] /\ Sending(x) /\ Iterated(job[x])' = Iterated(job[x])
          BY <2>4, <3>1, <3>2, <3>3 DEF Sending, Iterated
        <4> QED BY <2>4, <4>1, StaysInOrder DEF AgeInv, env
      <3>4. \A x \in Peers : (Ordered(queue[x]) /\ Ordered(disk[x]))'
        BY <2>4 DEF AgeInv, Ordered, env
      <3> QED BY <3>3, <3>4 DEF AgeInv
    <2> QED BY <2>2, <2>3, <2>4
  <1>6. ASSUME NEW d \in Drains, DrainStep(d) PROVE AgeInv'
    <2> DEFINE ok == job[d].peer \notin down
               j == [job[d] EXCEPT !.survive = Survivors(job[d], ok)]
               app == Append(job[d].survive, job[d].cur)
    <2>1. /\ job[d] \in Job /\ job[d].cur \in Entry /\ job[d].peer \in Peers
          /\ job[d].next >= 1 /\ job[d].next \in Nat /\ Sending(d)
          /\ job[d].survive \in Seq(Entry) /\ InOrder(job[d])
      BY <1>6 DEF DrainStep, TypeInv, Types, SendingOK, Sending, Job, AgeInv
    <2>2. Survivors(job[d], ok) \in Seq(Entry) /\ Survivors(job[d], ok) \in {job[d].survive, app}
      BY <2>1, AppendProperties DEF Survivors
    <2>3. /\ j \in Job /\ j.peer = job[d].peer /\ j.next = job[d].next /\ j.old = job[d].old
          /\ j.survive = Survivors(job[d], ok)
      BY <2>1, <2>2 DEF Job
    <2>4. Advance(d, j) /\ now' = now
      BY <1>6 DEF DrainStep, env
    <2> HIDE DEF j
    <2>5. Iterated(j) = Iterated(job[d]) /\ Iterated(j) \in Seq(Entry)
      BY <2>1, <2>3, IteratedType DEF Iterated, TypeInv
    <2>6. Ordered(job[d].survive) /\ \A s \in DOMAIN job[d].survive : job[d].survive[s].at <= job[d].cur.at
      BY <1>0, <2>1, AppendOrdered DEF InOrder
    <2>7. Ordered(j.survive)
      BY <2>1, <2>2, <2>3, <2>6 DEF InOrder
    <2>8. ASSUME NEW s \in DOMAIN app PROVE app[s] \in Entry /\ app[s].at <= job[d].cur.at
      <3>1. /\ Len(job[d].survive) \in Nat /\ app[Len(job[d].survive) + 1] = job[d].cur
            /\ \A i \in 1..Len(job[d].survive) : app[i] = job[d].survive[i]
            /\ DOMAIN app = 1..(Len(job[d].survive) + 1)
            /\ DOMAIN job[d].survive = 1..Len(job[d].survive)
            /\ app \in Seq(Entry)
        BY <2>1, AppendProperties
      <3>2. s \in 1..(Len(job[d].survive) + 1)
        BY <2>8, <3>1
      <3>3. app[s] \in Entry
        BY <2>8, <3>1, ElementOfSeq
      <3>4. job[d].cur.at \in Nat
        BY <2>1 DEF Entry
      <3> HIDE DEF app
      <3>5. CASE s = Len(job[d].survive) + 1
        BY <3>1, <3>3, <3>4, <3>5
      <3>6. CASE s # Len(job[d].survive) + 1
        <4>1. s \in 1..Len(job[d].survive)
          BY <3>1, <3>2, <3>6
        <4> QED BY <2>6, <3>1, <3>3, <4>1
      <3> QED BY <3>5, <3>6
    <2>9. ASSUME NEW s \in DOMAIN j.survive PROVE Younger(j.survive[s], Iterated(j), j.next)
      <3>1. j.survive[s] \in Entry /\ j.survive[s].at <= job[d].cur.at
        BY <2>1, <2>2, <2>3, <2>6, <2>8, ElementOfSeq
      <3>2. \A i \in j.next..Len(Iterated(j)) : Iterated(j)[i].at \in Nat
        <4>1. \A i \in j.next..Len(Iterated(j)) : i \in DOMAIN Iterated(j)
          BY <2>1, <2>3, <2>5
        <4> QED BY <2>5, <4>1, EntryAges
      <3>3. Younger(job[d].cur, Iterated(j), j.next)
        BY <2>1, <2>3, <2>5 DEF InOrder
      <3>4. j.survive[s].at \in Nat /\ job[d].cur.at \in Nat
        BY <2>1, <3>1 DEF Entry
      <3> QED BY <3>1, <3>2, <3>3, <3>4 DEF Younger
    <2>10. j.next >= 1 /\ j.peer \in Peers /\ Ordered(Iterated(j))
      BY <2>1, <2>3, <2>5 DEF InOrder
    <2> QED BY <2>3, <2>4, <2>7, <2>9, <2>10, AdvanceOrdered
  <1>7. CASE Crash
    <2>1. \A d \in Drains : ~Sending(d)'
      <3>1. Idle.peer = NoPeer
        BY DEF Idle
      <3> QED BY <1>7, <3>1 DEF Crash, Sending
    <2>2. \A p \in Peers : (Ordered(queue[p]) /\ Ordered(disk[p]))'
      BY <1>7 DEF Crash, AgeInv, Ordered
    <2> QED BY <2>1, <2>2 DEF AgeInv
  <1>8. CASE Restart
    <2>1. \A d \in Drains : ~Sending(d)'
      BY <1>8 DEF Restart, UpInv, Sending
    <2>2. \A p \in Peers : (Ordered(queue[p]) /\ Ordered(disk[p]))'
      BY <1>8 DEF Restart, AgeInv, Ordered
    <2> QED BY <2>1, <2>2 DEF AgeInv
  <1>9. (\E m \in Msgs : StartSend(m) \/ SendAccepted(m) \/ SendRejected(m))
          \/ Tick \/ (\E p \in Peers : Flip(p)) \/ UNCHANGED vars
        => UNCHANGED <<queue, disk, job>> /\ (now' = now \/ now' = now + 1)
    BY DEF StartSend, SendAccepted, SendRejected, Tick, Flip, vars, env
  <1> QED BY <1>1, <1>2, <1>3, <1>4, <1>5, <1>6, <1>7, <1>8, <1>9 DEF Next

\* The lists stay ordered by age over any transport, with any number of drains
\* in progress, so what the cap shifts out is the oldest.
THEOREM OldestFirst == Spec => []AgeOrdered
  <1>1. Init => AgeInv /\ UpInv
    BY DEF Init, AgeInv, UpInv, Ordered, Sending, Idle
  <1>3. Spec => [](TypeInv /\ AgeInv /\ UpInv)
    BY <1>1, InitTypes, NextTypes, NextOrdered, NextUp, PTL DEF Spec
  <1>4. AgeInv => AgeOrdered
    BY DEF AgeInv, AgeOrdered, Ordered
  <1> QED BY <1>3, <1>4, PTL
=============================================================================
