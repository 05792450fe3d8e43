---------------------------- MODULE InboundProofs ---------------------------
(***************************************************************************)
(* Proofs about Inbound, for any messages, chunkings, number of handlers   *)
(* in progress, clock skew and lifetimes.                                  *)
(*                                                                         *)
(* OncePerWindow is not inductive: it says nothing of what the pipeline    *)
(* remembers.  Remembered adds that an accepted id is in recent until its  *)
(* window is over, which needs that recentOrder names only ids of recent,  *)
(* each once, with the time of the id's last acceptance.                   *)
(***************************************************************************)
EXTENDS Inbound, SequenceTheorems, TLAPS

USE InboundAssumption

Parts == [Msgs -> [got : SUBSET (Nat \ {0}), first : Int, since : Nat]]

-----------------------------------------------------------------------------
\* Types.

LEMMA InitTypes == Init => TypeOK
<1> SUFFICES ASSUME Init PROVE TypeOK
  OBVIOUS
<1>1. parts \in Parts
  BY DEF Init, Nothing, Parts
<1>2. call \in [Calls -> CallState]
  BY DEF Init, Idle, CallState
<1> QED BY <1>1, <1>2 DEF Init, TypeOK, Parts

\* The state after one of the outcomes of the synchronous part of a handler.
HandledTypes ==
  /\ parts' \in Parts
  /\ recent' \subseteq Msgs
  /\ recentOrder' \in Seq(Acceptance)
  /\ call' \in [Calls -> CallState]
  /\ heard' \subseteq Msgs
  /\ writeFailures' \in Nat
  /\ accepted' \in Seq(Acceptance)
  /\ seen' \subseteq Chunk
  /\ acks' \subseteq Msgs /\ dispatched' \subseteq Msgs
  /\ blocked' \subseteq Msgs /\ unwritten' \subseteq Msgs

LEMMA CallTypes ==
  ASSUME TypeOK, NEW c \in Calls
  PROVE  /\ [call EXCEPT ![c] = Idle] \in [Calls -> CallState]
         /\ \A dg \in Datagram :
              [call EXCEPT ![c] = [pc |-> "verify", dg |-> dg]] \in [Calls -> CallState]
         /\ \A m \in Msgs :
              [call EXCEPT ![c] = [pc |-> "scan", msg |-> m]] \in [Calls -> CallState]
<1>1. /\ Idle \in CallState
      /\ \A dg \in Datagram : [pc |-> "verify", dg |-> dg] \in CallState
      /\ \A m \in Msgs : [pc |-> "scan", msg |-> m] \in CallState
  BY DEF Idle, CallState
<1> QED BY <1>1 DEF TypeOK

LEMMA HeldTypes ==
  ASSUME TypeOK, NEW dg \in Datagram
  PROVE  /\ Held(dg) \in [got : SUBSET (Nat \ {0}), first : Int, since : Nat]
         /\ Gathered(dg) \subseteq Nat \ {0}
<1>1. /\ dg.msg \in Msgs /\ dg.seq \in Nat \ {0} /\ dg.ts \in Int /\ now \in Nat
      /\ parts[dg.msg] \in [got : SUBSET (Nat \ {0}), first : Int, since : Nat]
  BY DEF TypeOK, Datagram
<1>2. Held(dg) \in [got : SUBSET (Nat \ {0}), first : Int, since : Nat]
  BY <1>1 DEF Held
<1> QED BY <1>1, <1>2 DEF Gathered

LEMMA RememberTypes ==
  ASSUME TypeOK, NEW m \in Msgs, Remember(m)
  PROVE  /\ recent' \subseteq Msgs
         /\ recentOrder' \in Seq(Acceptance)
         /\ accepted' \in Seq(Acceptance)
<1>1. [msg |-> m, at |-> now] \in Acceptance
  BY DEF TypeOK, Acceptance
<1> QED BY <1>1 DEF TypeOK, Remember

LEMMA HandleTypes ==
  ASSUME TypeOK, NEW c \in Calls, NEW dg \in Datagram, NEW ok,
         Handle(c, dg, ok)
  PROVE  HandledTypes
<1>1. /\ dg.msg \in Msgs /\ <<dg.msg, dg.seq>> \in Chunk
  BY DEF Datagram, Chunk
<1>2. Return(c) => call' \in [Calls -> CallState]
  BY CallTypes DEF Return
<1>3. parts \in Parts /\ Nothing \in [got : SUBSET (Nat \ {0}), first : Int, since : Nat]
  BY DEF TypeOK, Parts, Nothing
<1>4. CASE ~Authorized(dg, ok)
  BY <1>4, <1>2, <1>3 DEF Handle, HandledTypes, TypeOK, outcome
<1>5. CASE Authorized(dg, ok) /\ Dropped(dg)
  BY <1>5, <1>1, <1>2, <1>3 DEF Handle, HandledTypes, TypeOK, outcome
<1>6. CASE Authorized(dg, ok) /\ ~Dropped(dg)
  <2>1. /\ heard' = heard \cup {dg.msg}
        /\ seen' = seen \cup {<<dg.msg, dg.seq>>}
        /\ Keep(c, dg) \/ Accept(c, dg) \/ FailToWrite(c, dg)
    BY <1>6 DEF Handle
  <2>2. heard' \subseteq Msgs /\ seen' \subseteq Chunk
    BY <2>1, <1>1 DEF TypeOK
  <2>3. CASE Keep(c, dg)
    <3>1. [Held(dg) EXCEPT !.got = Gathered(dg)]
            \in [got : SUBSET (Nat \ {0}), first : Int, since : Nat]
      BY HeldTypes
    <3>2. parts' \in Parts
      BY <2>3, <3>1, <1>3 DEF Keep, Parts
    <3> QED BY <2>2, <2>3, <3>2, <1>2 DEF Keep, HandledTypes, TypeOK, outcome
  <2>4. CASE Accept(c, dg)
    <3>1. parts' \in Parts
      BY <2>4, <1>3 DEF Accept, Parts
    <3>2. /\ Remember(dg.msg) /\ SendAck(dg.msg) /\ Hand(c, dg.msg)
          /\ UNCHANGED <<unwritten, writeFailures>>
      BY <2>4 DEF Accept
    <3>3. acks' \subseteq Msgs
      BY <3>2, <1>1 DEF SendAck, TypeOK
    <3>4. /\ call' \in [Calls -> CallState]
          /\ dispatched' \subseteq Msgs /\ blocked' \subseteq Msgs
      <4>1. CASE dg.msg \in Worded
        <5>1. /\ call' = [call EXCEPT ![c] = [pc |-> "scan", msg |-> dg.msg]]
              /\ UNCHANGED <<dispatched, blocked>>
          BY <3>2, <4>1 DEF Hand
        <5> QED BY <5>1, <1>1, CallTypes DEF TypeOK
      <4>2. CASE dg.msg \notin Worded
        <5>1. /\ Return(c)
              /\ dispatched' = dispatched \cup {dg.msg}
              /\ UNCHANGED blocked
          BY <3>2, <4>2 DEF Hand
        <5> QED BY <5>1, <1>1, <1>2 DEF TypeOK
      <4> QED BY <4>1, <4>2
    <3> QED BY <2>2, <3>1, <3>2, <3>3, <3>4, <1>1, RememberTypes
            DEF HandledTypes, TypeOK
  <2>5. CASE FailToWrite(c, dg)
    <3>1. parts' \in Parts
      BY <2>5, <1>3 DEF FailToWrite, Parts
    <3>2. /\ Remember(dg.msg) /\ Return(c)
          /\ unwritten' = unwritten \cup {dg.msg}
          /\ writeFailures' = writeFailures + 1
          /\ UNCHANGED <<acks, dispatched, blocked>>
      BY <2>5 DEF FailToWrite
    <3> QED BY <2>2, <3>1, <3>2, <1>1, <1>2, RememberTypes DEF HandledTypes, TypeOK
  <2> QED BY <2>1, <2>3, <2>4, <2>5
<1> QED BY <1>4, <1>5, <1>6

LEMMA HandledIsTyped ==
  ASSUME TypeOK, HandledTypes, UNCHANGED <<phone, env, gcAt>>
  PROVE  TypeOK'
BY DEF TypeOK, HandledTypes, Parts, phone, env

\* A datagram in a handler came from the wire.
LEMMA CallHolds ==
  ASSUME TypeOK, NEW c \in Calls
  PROVE  /\ call[c].pc = "verify" => call[c].dg \in Datagram
         /\ call[c].pc = "scan" => call[c].msg \in Msgs
BY DEF TypeOK, CallState

LEMMA NextTypes == TypeOK /\ [Next]_vars => TypeOK'
<1> SUFFICES ASSUME TypeOK, [Next]_vars PROVE TypeOK'
  OBVIOUS
<1>1. ASSUME NEW m \in Msgs, Post(m) PROVE TypeOK'
  <2>1. { [msg |-> m, seq |-> s, ts |-> now - Lag] : s \in 1..ChunksOf[m] }
          \subseteq Datagram
    BY DEF Datagram, TypeOK
  <2> QED BY <1>1, <2>1 DEF Post, TypeOK, memory, outcome, env
<1>2. ASSUME NEW c \in Calls, NEW dg \in wire, Receive(c, dg) PROVE TypeOK'
  <2>1. dg \in Datagram
    BY DEF TypeOK
  <2>2. CASE HasSecret
    <3>1. call' \in [Calls -> CallState]
      BY <1>2, <2>1, <2>2, CallTypes DEF Receive
    <3> QED BY <1>2, <2>2, <3>1 DEF Receive, TypeOK, outcome, phone, env
  <2>3. CASE ~HasSecret
    <3>1. Handle(c, dg, FALSE) /\ UNCHANGED <<phone, env, gcAt>>
      BY <1>2, <2>3 DEF Receive
    <3> QED BY <3>1, <2>1, HandleTypes, HandledIsTyped
  <2> QED BY <2>2, <2>3
<1>3. ASSUME NEW c \in Calls, Verified(c) PROVE TypeOK'
  <2>1. /\ call[c].dg \in Datagram /\ UNCHANGED <<phone, env, gcAt>>
        /\ Handle(c, call[c].dg, call[c].dg.msg \in Signed)
    BY <1>3, CallHolds DEF Verified
  <2> QED BY <2>1, HandleTypes, HandledIsTyped
<1>4. ASSUME NEW c \in Calls, Scanned(c) PROVE TypeOK'
  <2>1. call[c].msg \in Msgs /\ call' \in [Calls -> CallState]
    BY <1>4, CallHolds, CallTypes DEF Scanned, Verdict, Return
  <2>2. blocked' \subseteq Msgs /\ dispatched' \subseteq Msgs
    BY <1>4, <2>1 DEF Scanned, Verdict, TypeOK
  <2> QED BY <1>4, <2>1, <2>2 DEF Scanned, Verdict, TypeOK, phone, env
<1>5. CASE Gc
  <2>1. parts' \in Parts
    BY <1>5 DEF Gc, TypeOK, Parts, Nothing
  <2>2. PICK k \in 0..Len(recentOrder) :
          /\ recentOrder' = SubSeq(recentOrder, k + 1, Len(recentOrder))
          /\ recent' = recent \ { recentOrder[i].msg : i \in 1..k }
    BY <1>5 DEF Gc
  <2>3. recentOrder' \in Seq(Acceptance)
    BY <2>2 DEF TypeOK
  <2> QED BY <1>5, <2>1, <2>2, <2>3 DEF Gc, TypeOK, Parts, phone, env, outcome
<1>6. CASE Tick
  BY <1>6 DEF Tick, TypeOK, phone, memory, outcome
<1>7. CASE Crash
  <2>1. parts' \in Parts /\ call' \in [Calls -> CallState]
    BY <1>7 DEF Crash, Parts, Nothing, Idle, CallState
  <2>2. accepted' \in Seq(Acceptance) /\ recentOrder' \in Seq(Acceptance)
    BY <1>7 DEF Crash
  <2>3. /\ recent' = {} /\ seen' = {} /\ heard' = {}
        /\ running' = FALSE /\ crashes' = crashes + 1
        /\ UNCHANGED <<phone, outcome>>
        /\ now' = now /\ gcAt' = gcAt /\ writeFailures' = writeFailures
    BY <1>7 DEF Crash
  <2>4. /\ crashes' \in Nat /\ now' \in Nat /\ gcAt' \in Nat
        /\ writeFailures' \in Nat
    BY <2>3 DEF TypeOK
  <2>5. /\ recent' \subseteq Msgs /\ heard' \subseteq Msgs /\ seen' \subseteq Chunk
        /\ running' \in BOOLEAN
    BY <2>3
  <2>6. /\ wire' \subseteq Datagram /\ posts' \in [Msgs -> Nat]
        /\ acks' \subseteq Msgs /\ dispatched' \subseteq Msgs
        /\ blocked' \subseteq Msgs /\ unwritten' \subseteq Msgs
    BY <2>3 DEF TypeOK, phone, outcome
  <2> QED BY <2>1, <2>2, <2>4, <2>5, <2>6 DEF TypeOK, Parts
<1>8. CASE Restart
  BY <1>8 DEF Restart, TypeOK, phone, outcome
<1>9. CASE UNCHANGED vars
  BY <1>9 DEF vars, TypeOK, phone, memory, outcome, env
<1> QED BY <1>1, <1>2, <1>3, <1>4, <1>5, <1>6, <1>7, <1>8, <1>9 DEF Next

\* The variables of the pipeline keep their types (TypeOK).
THEOREM TypeCorrect == Spec => []TypeOK
BY InitTypes, NextTypes, PTL DEF Spec

-----------------------------------------------------------------------------
\* What a step does to the memory of the pipeline: nothing, or a chunk is kept,
\* or a message is accepted, or the timer collects, or the process dies.

Rests == UNCHANGED <<parts, recent, recentOrder, accepted, seen>>

Admits(dg) == /\ dg.msg \notin recent
              /\ seen' = seen \cup {<<dg.msg, dg.seq>>}

Keeps(dg) ==
  /\ Admits(dg)
  /\ parts' = [parts EXCEPT ![dg.msg] =
       IF Overflows(dg) THEN Nothing
       ELSE [Held(dg) EXCEPT !.got = Gathered(dg)]]
  /\ UNCHANGED <<recent, recentOrder, accepted>>

Accepts(dg) ==
  /\ Admits(dg) /\ Whole(dg)
  /\ parts' = [parts EXCEPT ![dg.msg] = Nothing]
  /\ Remember(dg.msg)

LEMMA HandleCases ==
  ASSUME NEW c, NEW dg, NEW ok, Handle(c, dg, ok)
  PROVE  Rests \/ Keeps(dg) \/ Accepts(dg)
<1>1. CASE ~Authorized(dg, ok) \/ Dropped(dg)
  BY <1>1 DEF Handle, Rests
<1>2. CASE Authorized(dg, ok) /\ ~Dropped(dg)
  <2>1. Admits(dg) /\ (Keep(c, dg) \/ Accept(c, dg) \/ FailToWrite(c, dg))
    BY <1>2 DEF Handle, Dropped, Admits
  <2>2. CASE Keep(c, dg)
    BY <2>1, <2>2 DEF Keep, Keeps
  <2>3. CASE Accept(c, dg)
    BY <2>1, <2>3 DEF Accept, Accepts
  <2>4. CASE FailToWrite(c, dg)
    BY <2>1, <2>4 DEF FailToWrite, Accepts
  <2> QED BY <2>1, <2>2, <2>3, <2>4
<1> QED BY <1>1, <1>2

LEMMA StepCases ==
  ASSUME TypeOK, [Next]_vars
  PROVE  \/ Rests /\ now' \in {now, now + 1}
         \/ now' = now /\ \E dg \in Datagram : Keeps(dg) \/ Accepts(dg)
         \/ Gc
         \/ Crash
<1> DEFINE Goal == \/ Rests /\ now' \in {now, now + 1}
                   \/ now' = now /\ \E dg \in Datagram : Keeps(dg) \/ Accepts(dg)
                   \/ Gc
                   \/ Crash
<1>1. ASSUME NEW m \in Msgs, Post(m) PROVE Goal
  BY <1>1 DEF Post, Rests, memory, env
<1>2. ASSUME NEW c \in Calls, NEW dg \in wire, Receive(c, dg) PROVE Goal
  <2>1. dg \in Datagram /\ now' = now
    BY <1>2 DEF TypeOK, Receive, env
  <2>2. Rests \/ Handle(c, dg, FALSE)
    BY <1>2 DEF Receive, Rests
  <2> QED BY <2>1, <2>2, HandleCases
<1>3. ASSUME NEW c \in Calls, Verified(c) PROVE Goal
  <2>1. call[c].dg \in Datagram /\ now' = now
    BY <1>3, CallHolds DEF Verified, env
  <2>2. Handle(c, call[c].dg, call[c].dg.msg \in Signed)
    BY <1>3 DEF Verified
  <2>3. Rests \/ Keeps(call[c].dg) \/ Accepts(call[c].dg)
    BY <2>2, HandleCases
  <2> QED BY <2>1, <2>3
<1>4. ASSUME NEW c \in Calls, Scanned(c) PROVE Goal
  BY <1>4 DEF Scanned, Verdict, Rests, env
<1>5. CASE Tick
  BY <1>5 DEF Tick, Rests, memory
<1>6. CASE Restart
  BY <1>6 DEF Restart, Rests
<1>7. CASE UNCHANGED vars
  BY <1>7 DEF vars, Rests, memory, env
<1> QED BY <1>1, <1>2, <1>3, <1>4, <1>5, <1>6, <1>7 DEF Next

-----------------------------------------------------------------------------
\* No reassembly state for a message in the dedupe window.

\* NoGhostParts, for any messages and interleaving of the handlers: push runs in
\* the same turn as the recent.has test, and parts.delete precedes recent.add.
THEOREM LeavesNoGhosts == Spec => []NoGhostParts
<1>1. Init => NoGhostParts
  BY DEF Init, NoGhostParts
<1>2. TypeOK /\ NoGhostParts /\ [Next]_vars => NoGhostParts'
  <2> SUFFICES ASSUME TypeOK, NoGhostParts, [Next]_vars PROVE NoGhostParts'
    OBVIOUS
  <2>1. DOMAIN parts = Msgs /\ recent \subseteq Msgs
    BY DEF TypeOK
  <2>2. CASE Rests
    BY <2>2 DEF Rests, NoGhostParts
  <2>3. ASSUME NEW dg \in Datagram, Keeps(dg) PROVE NoGhostParts'
    <3>1. /\ recent' = recent /\ dg.msg \notin recent
          /\ \A m \in recent : parts'[m] = parts[m]
      BY <2>1, <2>3 DEF Keeps, Admits
    <3> QED BY <3>1 DEF NoGhostParts
  <2>4. ASSUME NEW dg \in Datagram, Accepts(dg) PROVE NoGhostParts'
    <3>1. /\ recent' = recent \cup {dg.msg}
          /\ dg.msg \in Msgs
          /\ parts' = [parts EXCEPT ![dg.msg] = Nothing]
      BY <2>4 DEF Accepts, Remember, Datagram
    <3>2. parts'[dg.msg] = Nothing
      BY <3>1, <2>1
    <3>3. \A m \in Msgs \ {dg.msg} : parts'[m] = parts[m]
      BY <3>1, <2>1
    <3> QED BY <2>1, <3>1, <3>2, <3>3 DEF NoGhostParts, Nothing
  <2>5. CASE Gc
    <3>1. recent' \subseteq recent
      BY <2>5 DEF Gc
    <3>2. \A m \in Msgs : parts'[m] = Nothing \/ parts'[m] = parts[m]
      BY <2>5 DEF Gc
    <3> QED BY <2>1, <3>1, <3>2 DEF NoGhostParts, Nothing
  <2>6. CASE Crash
    BY <2>6 DEF Crash, NoGhostParts
  <2> QED BY <2>2, <2>3, <2>4, <2>5, <2>6, StepCases
<1> QED BY <1>1, <1>2, TypeCorrect, PTL DEF Spec

-----------------------------------------------------------------------------
\* Only whole messages are accepted.

\* What a reassembler holds was admitted in this life of the process.
HeldWasSeen == \A m \in Msgs : \A s \in parts[m].got : <<m, s>> \in seen

LEMMA GatheredWasSeen ==
  ASSUME TypeOK, HeldWasSeen, NEW dg \in Datagram, Admits(dg)
  PROVE  \A s \in Gathered(dg) : <<dg.msg, s>> \in seen'
BY DEF HeldWasSeen, Gathered, Held, Admits, Datagram

\* AcceptedWhole, for any chunking and any order of arrival; HeldWasSeen ties
\* the chunks a reassembler counts to the ones that were delivered.
THEOREM AcceptsWhole == Spec => []AcceptedWhole
<1> DEFINE Inv == HeldWasSeen /\ AcceptedWhole
<1>1. Init => Inv
  BY DEF Init, HeldWasSeen, AcceptedWhole, Nothing
<1>2. TypeOK /\ Inv /\ [Next]_vars => Inv'
  <2> SUFFICES ASSUME TypeOK, Inv, [Next]_vars PROVE Inv'
    OBVIOUS
  <2>1. /\ DOMAIN parts = Msgs
        /\ accepted \in Seq(Acceptance)
    BY DEF TypeOK
  <2>2. CASE Rests
    BY <2>2 DEF Rests, HeldWasSeen, AcceptedWhole
  <2>3. ASSUME NEW dg \in Datagram, Keeps(dg) PROVE Inv'
    <3>1. \A s \in Gathered(dg) : <<dg.msg, s>> \in seen'
      BY <2>3, GatheredWasSeen DEF Keeps
    <3>2. parts'[dg.msg].got \in {{}, Gathered(dg)}
      BY <2>1, <2>3, HeldTypes DEF Keeps, Nothing, Datagram
    <3>3. \A m \in Msgs \ {dg.msg} : parts'[m] = parts[m]
      BY <2>1, <2>3 DEF Keeps
    <3>4. seen \subseteq seen' /\ accepted' = accepted
      BY <2>3 DEF Keeps, Admits
    <3>5. HeldWasSeen'
      BY <3>1, <3>2, <3>3, <3>4 DEF HeldWasSeen
    <3> QED BY <3>4, <3>5 DEF AcceptedWhole
  <2>4. ASSUME NEW dg \in Datagram, Accepts(dg) PROVE Inv'
    <3>1. \A s \in Gathered(dg) : <<dg.msg, s>> \in seen'
      BY <2>4, GatheredWasSeen DEF Accepts
    <3>2. seen \subseteq seen'
      BY <2>4 DEF Accepts, Admits
    <3>3. HeldWasSeen'
      BY <2>1, <2>4, <3>2 DEF Accepts, HeldWasSeen, Nothing, Datagram
    <3>4. accepted' = Append(accepted, [msg |-> dg.msg, at |-> now])
      BY <2>4 DEF Accepts, Remember
    <3>5. \A s \in 1..ChunksOf[dg.msg] : <<dg.msg, s>> \in seen'
      BY <2>4, <3>1 DEF Accepts, Whole
    <3>6. \A i \in DOMAIN accepted' :
            \/ accepted'[i].msg = dg.msg
            \/ i \in DOMAIN accepted /\ accepted'[i] = accepted[i]
      BY <2>1, <3>4
    <3> QED BY <3>2, <3>3, <3>5, <3>6 DEF AcceptedWhole
  <2>5. CASE Gc
    <3>1. \A m \in Msgs : parts'[m] = Nothing \/ parts'[m] = parts[m]
      BY <2>5 DEF Gc
    <3>2. seen' = seen /\ accepted' = accepted
      BY <2>5 DEF Gc
    <3> QED BY <3>1, <3>2 DEF HeldWasSeen, AcceptedWhole, Nothing
  <2>6. CASE Crash
    BY <2>6 DEF Crash, HeldWasSeen, AcceptedWhole, Nothing
  <2> QED BY <2>2, <2>3, <2>4, <2>5, <2>6, StepCases
<1> QED BY <1>1, <1>2, TypeCorrect, PTL DEF Spec

-----------------------------------------------------------------------------
\* One acceptance per window.

\* recentOrder names only ids of recent, and none twice.
OrderMatches ==
  /\ \A k \in DOMAIN recentOrder : recentOrder[k].msg \in recent
  /\ \A k, l \in DOMAIN recentOrder :
       recentOrder[k].msg = recentOrder[l].msg => k = l

\* An accepted id is remembered until its window is over.
Remembered ==
  \A i \in DOMAIN accepted :
    /\ accepted[i].at <= now
    /\ now - accepted[i].at > RecentTtl \/ accepted[i].msg \in recent

\* The time that decides when an id is forgotten is that of its last acceptance.
OrderIsLatest ==
  \A i \in DOMAIN accepted, k \in DOMAIN recentOrder :
    accepted[i].msg = recentOrder[k].msg => accepted[i].at <= recentOrder[k].at

Window == OrderMatches /\ Remembered /\ OrderIsLatest /\ OncePerWindow

LEMMA Times ==
  ASSUME NEW s \in Seq(Acceptance)
  PROVE  \A i \in DOMAIN s : i \in 1..Len(s) /\ s[i].at \in Nat
<1>1. \A i \in DOMAIN s : i \in 1..Len(s) /\ s[i] \in Acceptance
  OBVIOUS
<1>2. \A x \in Acceptance : x.at \in Nat
  BY DEF Acceptance
<1> QED BY <1>1, <1>2

LEMMA InitWindow == Init => Window
BY DEF Init, Window, OrderMatches, Remembered, OrderIsLatest, OncePerWindow

LEMMA RememberWindow ==
  ASSUME TypeOK, Window, NEW m \in Msgs, m \notin recent, Remember(m), now' = now
  PROVE  Window'
<1> DEFINE e == [msg |-> m, at |-> now]
<1>1. /\ accepted \in Seq(Acceptance) /\ recentOrder \in Seq(Acceptance)
      /\ now \in Nat /\ e \in Acceptance
  BY DEF TypeOK, Acceptance
<1>2. /\ recent' = recent \cup {m}
      /\ recentOrder' = Append(recentOrder, e) /\ accepted' = Append(accepted, e)
  BY DEF Remember
<1>3. \A k \in DOMAIN recentOrder' :
        \/ k \in DOMAIN recentOrder /\ recentOrder'[k] = recentOrder[k]
        \/ k = Len(recentOrder) + 1 /\ recentOrder'[k] = e
  BY <1>1, <1>2
<1>4. \A i \in DOMAIN accepted' :
        \/ i \in DOMAIN accepted /\ accepted'[i] = accepted[i]
        \/ i = Len(accepted) + 1 /\ accepted'[i] = e
  BY <1>1, <1>2
<1>5. e.msg = m /\ e.at = now
  OBVIOUS
<1>6. /\ \A i \in DOMAIN accepted : i \in 1..Len(accepted) /\ accepted[i].at \in Nat
      /\ \A k \in DOMAIN recentOrder : recentOrder[k].at \in Nat
  BY <1>1, Times
<1> HIDE DEF e
<1>7. OrderMatches'
  BY <1>2, <1>3, <1>5 DEF Window, OrderMatches
<1>8. Remembered'
  BY <1>1, <1>2, <1>4, <1>5, InboundAssumption DEF Window, Remembered
<1>9. OrderIsLatest'
  <2> SUFFICES ASSUME NEW i \in DOMAIN accepted', NEW k \in DOMAIN recentOrder',
                      accepted'[i].msg = recentOrder'[k].msg
               PROVE  accepted'[i].at <= recentOrder'[k].at
    BY DEF OrderIsLatest
  <2>1. CASE recentOrder'[k] = e /\ accepted'[i] = e
    BY <1>1, <1>5, <2>1
  <2>2. CASE recentOrder'[k] = e /\ i \in DOMAIN accepted /\ accepted'[i] = accepted[i]
    BY <1>5, <2>2 DEF Window, Remembered
  <2>3. CASE /\ k \in DOMAIN recentOrder /\ recentOrder'[k] = recentOrder[k]
             /\ accepted'[i] = e
    BY <1>5, <2>3 DEF Window, OrderMatches
  <2>4. CASE /\ k \in DOMAIN recentOrder /\ recentOrder'[k] = recentOrder[k]
             /\ i \in DOMAIN accepted /\ accepted'[i] = accepted[i]
    BY <2>4 DEF Window, OrderIsLatest
  <2> QED BY <1>3, <1>4, <2>1, <2>2, <2>3, <2>4
<1>10. OncePerWindow'
  <2> SUFFICES ASSUME NEW i \in DOMAIN accepted', NEW j \in DOMAIN accepted',
                      i < j, accepted'[i].msg = accepted'[j].msg
               PROVE  accepted'[j].at - accepted'[i].at > RecentTtl
    BY DEF OncePerWindow
  <2>1. i \in DOMAIN accepted /\ accepted'[i] = accepted[i]
    <3>1. j <= Len(accepted) + 1
      BY <1>1, <1>4, <1>6
    <3>2. i # Len(accepted) + 1
      BY <1>1, <1>4, <1>6, <3>1
    <3> QED BY <1>4, <3>2
  <2>2. CASE j \in DOMAIN accepted /\ accepted'[j] = accepted[j]
    BY <2>1, <2>2 DEF Window, OncePerWindow
  <2>3. CASE accepted'[j] = e
    BY <1>5, <2>1, <2>3 DEF Window, Remembered
  <2> QED BY <1>4, <2>2, <2>3
<1> QED BY <1>7, <1>8, <1>9, <1>10 DEF Window

LEMMA QuietWindow ==
  ASSUME TypeOK, Window, UNCHANGED <<recent, recentOrder, accepted>>,
         now' \in {now, now + 1}
  PROVE  Window'
<1>1. /\ now \in Nat /\ now' >= now /\ now' \in Nat
      /\ \A i \in DOMAIN accepted : accepted[i].at \in Nat
  BY Times DEF TypeOK
<1>2. Remembered'
  BY <1>1, InboundAssumption DEF Window, Remembered
<1> QED BY <1>2 DEF Window, OrderMatches, OrderIsLatest, OncePerWindow

LEMMA GcWindow ==
  ASSUME TypeOK, Window, Gc
  PROVE  Window'
<1>1. /\ accepted' = accepted /\ now' = now
      /\ recentOrder \in Seq(Acceptance) /\ now \in Nat
      /\ \A i \in DOMAIN accepted : accepted[i].at \in Nat
      /\ \A i \in DOMAIN recentOrder : recentOrder[i].at \in Nat
  BY Times DEF Gc, env, TypeOK
<1>2. PICK n \in 0..Len(recentOrder) :
        /\ \A i \in 1..n : Stale(i)
        /\ recentOrder' = SubSeq(recentOrder, n + 1, Len(recentOrder))
        /\ recent' = recent \ { recentOrder[i].msg : i \in 1..n }
  BY DEF Gc
<1>3. \A k \in DOMAIN recentOrder' :
        /\ k + n \in DOMAIN recentOrder /\ k + n \notin 1..n
        /\ recentOrder'[k] = recentOrder[k + n]
        /\ k \in Nat
  BY <1>1, <1>2
<1>4. 1..n \subseteq DOMAIN recentOrder
  BY <1>1
<1>5. OrderMatches'
  <2>1. \A k \in DOMAIN recentOrder' : recentOrder'[k].msg \in recent'
    BY <1>2, <1>3, <1>4 DEF Window, OrderMatches
  <2>2. \A k, l \in DOMAIN recentOrder' :
          recentOrder'[k].msg = recentOrder'[l].msg => k = l
    BY <1>3 DEF Window, OrderMatches
  <2> QED BY <2>1, <2>2 DEF OrderMatches
<1>6. Remembered'
  <2> SUFFICES ASSUME NEW i \in DOMAIN accepted,
                      accepted[i].msg \in recent, accepted[i].msg \notin recent'
               PROVE  now - accepted[i].at > RecentTtl
    BY <1>1 DEF Window, Remembered
  <2>1. PICK k \in 1..n : recentOrder[k].msg = accepted[i].msg
    BY <1>2
  <2>2. now - recentOrder[k].at > RecentTtl
    BY <1>2, <2>1 DEF Stale
  <2>3. accepted[i].at <= recentOrder[k].at
    BY <1>4, <2>1 DEF Window, OrderIsLatest
  <2> QED BY <1>1, <1>4, <2>2, <2>3, InboundAssumption
<1>7. OrderIsLatest'
  BY <1>1, <1>3 DEF Window, OrderIsLatest
<1> QED BY <1>1, <1>5, <1>6, <1>7 DEF Window, OncePerWindow

\* OncePerWindow, for any messages, lifetimes, number of handlers in progress
\* and copies on the network: the recent.has test and recent.add are in one turn,
\* and gcRecent forgets an id only when its last acceptance is out of the window.
THEOREM AcceptsOncePerWindow == Spec => []OncePerWindow
<1>1. TypeOK /\ Window /\ [Next]_vars => Window'
  <2> SUFFICES ASSUME TypeOK, Window, [Next]_vars PROVE Window'
    OBVIOUS
  <2>1. CASE Rests /\ now' \in {now, now + 1}
    BY <2>1, QuietWindow DEF Rests
  <2>2. ASSUME NEW dg \in Datagram, Keeps(dg), now' = now PROVE Window'
    BY <2>2, QuietWindow DEF Keeps
  <2>3. ASSUME NEW dg \in Datagram, Accepts(dg), now' = now PROVE Window'
    <3>1. dg.msg \in Msgs /\ dg.msg \notin recent /\ Remember(dg.msg)
      BY <2>3 DEF Accepts, Admits, Datagram
    <3> QED BY <2>3, <3>1, RememberWindow
  <2>4. CASE Gc
    BY <2>4, GcWindow
  <2>5. CASE Crash
    BY <2>5 DEF Crash, Window, OrderMatches, Remembered, OrderIsLatest, OncePerWindow
  <2> QED BY <2>1, <2>2, <2>3, <2>4, <2>5, StepCases
<1>2. Window => OncePerWindow
  BY DEF Window
<1> QED BY InitWindow, <1>1, <1>2, TypeCorrect, PTL DEF Spec

-----------------------------------------------------------------------------
\* Nothing that was accepted is swallowed.

Handled(m) == \/ m \in dispatched \cup blocked \cup unwritten
              \/ \E c \in Calls : call[c] = [pc |-> "scan", msg |-> m]

Taken == { accepted[i].msg : i \in DOMAIN accepted }

\* Who is handled stays handled, and only a handled message is accepted.
Careful ==
  /\ \A m : Handled(m) => Handled(m)'
  /\ \A m \in Taken' : m \in Taken \/ Handled(m)'

\* A step that takes nothing from the outcome and moves only a call that scans
\* nothing, or whose message has an outcome now.
LEMMA StaysHandled ==
  ASSUME TypeOK, NEW c \in Calls, DOMAIN call' = Calls,
         \A x \in Calls \ {c} : call'[x] = call[x],
         dispatched \subseteq dispatched', blocked \subseteq blocked',
         unwritten \subseteq unwritten',
         call[c].pc = "scan" => call[c].msg \in dispatched' \cup blocked'
  PROVE  \A m : Handled(m) => Handled(m)'
<1> SUFFICES ASSUME NEW m, Handled(m) PROVE Handled(m)' OBVIOUS
<1>1. CASE m \in dispatched \cup blocked \cup unwritten BY <1>1 DEF Handled
<1>2. ASSUME NEW x \in Calls, call[x] = [pc |-> "scan", msg |-> m] PROVE Handled(m)'
  <2>1. CASE x = c BY <1>2, <2>1 DEF Handled
  <2>2. CASE x # c BY <1>2, <2>2 DEF Handled
  <2> QED BY <2>1, <2>2
<1> QED BY <1>1, <1>2 DEF Handled

LEMMA AcceptedThen ==
  ASSUME TypeOK, NEW m, Remember(m)
  PROVE  Taken' \subseteq Taken \cup {m}
<1> DEFINE e == [msg |-> m, at |-> now]
<1>1. accepted \in Seq(Acceptance) /\ accepted' = Append(accepted, e)
  BY DEF TypeOK, Remember
<1>2. \A i \in DOMAIN accepted' :
        \/ i \in DOMAIN accepted /\ accepted'[i] = accepted[i]
        \/ accepted'[i] = e
  BY <1>1
<1>3. e.msg = m OBVIOUS
<1> QED BY <1>2, <1>3 DEF Taken

LEMMA HandleIsCareful ==
  ASSUME TypeOK, NEW c \in Calls, call[c].pc # "scan", NEW dg, NEW ok, Handle(c, dg, ok)
  PROVE  Careful
<1>1. DOMAIN call = Calls BY DEF TypeOK
<1>2. CASE Return(c) /\ UNCHANGED <<accepted, outcome>>
  <2>1. DOMAIN call' = Calls /\ \A x \in Calls \ {c} : call'[x] = call[x]
    BY <1>1, <1>2 DEF Return
  <2>2. \A m : Handled(m) => Handled(m)' BY <1>2, <2>1, StaysHandled DEF outcome
  <2> QED BY <1>2, <2>2 DEF Careful, Taken
<1>3. CASE Accept(c, dg)
  <2>1. /\ Remember(dg.msg) /\ Hand(c, dg.msg) /\ UNCHANGED unwritten
    BY <1>3 DEF Accept
  <2>2. /\ DOMAIN call' = Calls /\ \A x \in Calls \ {c} : call'[x] = call[x]
        /\ dispatched \subseteq dispatched' /\ blocked' = blocked
        /\ \/ dg.msg \in dispatched'
           \/ call'[c] = [pc |-> "scan", msg |-> dg.msg]
    BY <1>1, <2>1 DEF Hand, Return
  <2>3. Handled(dg.msg)' BY <2>2 DEF Handled
  <2>4. \A m : Handled(m) => Handled(m)' BY <2>1, <2>2, StaysHandled
  <2> QED BY <2>1, <2>3, <2>4, AcceptedThen DEF Careful
<1>4. CASE FailToWrite(c, dg)
  <2>1. /\ Remember(dg.msg) /\ Return(c) /\ unwritten' = unwritten \cup {dg.msg}
        /\ UNCHANGED <<dispatched, blocked>>
    BY <1>4 DEF FailToWrite
  <2>2. DOMAIN call' = Calls /\ \A x \in Calls \ {c} : call'[x] = call[x]
    BY <1>1, <2>1 DEF Return
  <2>3. Handled(dg.msg)' BY <2>1 DEF Handled
  <2>4. \A m : Handled(m) => Handled(m)' BY <2>1, <2>2, StaysHandled
  <2> QED BY <2>1, <2>3, <2>4, AcceptedThen DEF Careful
<1> QED BY <1>2, <1>3, <1>4 DEF Handle, Keep

\* Every accepted message comes to something: a handler that took one goes on
\* to its outcome, and no other touches the call it is in.
THEOREM SwallowsNone == Spec => []NoneSwallowed
<1>1. Init => NoneSwallowed BY DEF Init, NoneSwallowed
<1>2. ASSUME TypeOK, NoneSwallowed, Careful PROVE NoneSwallowed'
  <2>1. \A m \in Taken : Handled(m) BY <1>2 DEF NoneSwallowed, Handled, Taken
  <2>2. \A m \in Taken' : Handled(m)' BY <1>2, <2>1 DEF Careful
  <2> QED BY <2>2 DEF NoneSwallowed, Handled, Taken
<1>3. TypeOK /\ NoneSwallowed /\ [Next]_vars => NoneSwallowed'
  <2> SUFFICES ASSUME TypeOK, NoneSwallowed, [Next]_vars PROVE NoneSwallowed'
    OBVIOUS
  <2>1. DOMAIN call = Calls BY DEF TypeOK
  <2>2. CASE UNCHANGED <<accepted, call, dispatched, blocked, unwritten>>
    BY <2>2 DEF NoneSwallowed
  <2>3. ASSUME NEW c \in Calls, NEW dg \in wire, Receive(c, dg) PROVE NoneSwallowed'
    <3>1. call[c].pc # "scan" BY <2>3 DEF Receive
    <3>2. CASE Handle(c, dg, FALSE) BY <1>2, <3>1, <3>2, HandleIsCareful
    <3>3. CASE /\ call' = [call EXCEPT ![c] = [pc |-> "verify", dg |-> dg]]
               /\ UNCHANGED <<accepted, outcome>>
      <4>1. \A x \in Calls \ {c} : call'[x] = call[x] BY <2>1, <3>3
      <4>2. \A m : Handled(m) => Handled(m)'
        BY <2>1, <3>1, <3>3, <4>1, StaysHandled DEF outcome
      <4> QED BY <1>2, <3>3, <4>2 DEF Careful, Taken
    <3> QED BY <2>3, <3>2, <3>3 DEF Receive
  <2>4. ASSUME NEW c \in Calls, Verified(c) PROVE NoneSwallowed'
    BY <1>2, <2>4, HandleIsCareful DEF Verified
  <2>5. ASSUME NEW c \in Calls, Scanned(c) PROVE NoneSwallowed'
    <3>1. /\ UNCHANGED <<accepted, unwritten>> /\ Return(c)
          /\ dispatched \subseteq dispatched' /\ blocked \subseteq blocked'
          /\ call[c].msg \in dispatched' \cup blocked'
      BY <2>5 DEF Scanned, Verdict
    <3>2. DOMAIN call' = Calls /\ \A x \in Calls \ {c} : call'[x] = call[x]
      BY <2>1, <3>1 DEF Return
    <3>3. \A m : Handled(m) => Handled(m)' BY <3>1, <3>2, StaysHandled
    <3> QED BY <1>2, <3>1, <3>3 DEF Careful, Taken
  <2>6. CASE Crash BY <2>6 DEF Crash, NoneSwallowed
  <2>7. ASSUME NEW m \in Msgs, Post(m) PROVE NoneSwallowed'
    BY <2>2, <2>7 DEF Post, memory, outcome
  <2>8. CASE Gc \/ Tick \/ Restart \/ UNCHANGED vars
    BY <2>2, <2>8 DEF Gc, Tick, Restart, vars, memory, outcome
  <2> QED BY <2>3, <2>4, <2>5, <2>6, <2>7, <2>8 DEF Next
<1> QED BY <1>1, <1>3, TypeCorrect, PTL DEF Spec

-----------------------------------------------------------------------------
\* What is held and what is remembered goes with the timer.

\* When the timer last collected, or the process was started.
LastGc == gcAt - GcEvery

\* A datagram bears a time at which the phone's clock has stood.
Stamped(dg) == dg.ts + Lag <= now
OfThePast ==
  /\ \A dg \in wire : Stamped(dg)
  /\ \A c \in Calls : call[c].pc = "verify" => Stamped(call[c].dg)

\* The clock does not pass a timer that is due.
TimerSet == running => LastGc <= now /\ now <= gcAt

\* A text that was held at the last collection was not too old for it, by the
\* phone's clock; that clock tells how long it has been held, Ahead apart.
HeldInDate ==
  \A m \in Msgs : parts[m].got # {} =>
    /\ running
    /\ parts[m].since <= now
    /\ parts[m].first <= parts[m].since + Ahead
    /\ \/ KindOf[m] = "media"
       \/ parts[m].since >= LastGc
       \/ LastGc - parts[m].first <= ReassemblyTtl

\* The same of the remembered ids, which gcRecent removes from the front only:
\* their order by time makes those behind the first fresh one fresh.
OrderInDate ==
  /\ running \/ recentOrder = <<>>
  /\ \A i \in DOMAIN recentOrder :
       recentOrder[i].at <= now /\ LastGc - recentOrder[i].at <= RecentTtl
  /\ \A i, j \in DOMAIN recentOrder : i <= j => recentOrder[i].at <= recentOrder[j].at

InDate == OfThePast /\ TimerSet /\ HeldInDate /\ OrderInDate

LEMMA InitInDate == Init => InDate
<1> SUFFICES ASSUME Init PROVE InDate OBVIOUS
<1>1. OfThePast /\ HeldInDate /\ OrderInDate
  BY DEF Init, OfThePast, HeldInDate, OrderInDate, Nothing, Idle
<1>2. TimerSet BY DEF Init, TimerSet, LastGc
<1> QED BY <1>1, <1>2 DEF InDate

LEMMA InDateIsBrief == TypeOK /\ InDate => HeldBriefly
<1> SUFFICES ASSUME TypeOK, InDate, running PROVE HeldBriefly
  BY DEF HeldBriefly
<1>1. /\ now \in Nat /\ gcAt \in Nat /\ Ahead \in Nat
      /\ now - LastGc <= GcEvery /\ LastGc \in Int
  BY DEF TypeOK, InDate, TimerSet, LastGc, Ahead
<1>2. ASSUME NEW m \in Msgs, KindOf[m] # "media", parts[m].got # {}
      PROVE  Age(m) <= ReassemblyTtl + GcEvery + Ahead
  <2>1. parts[m].first \in Int /\ parts[m].since \in Nat
    BY DEF TypeOK
  <2>2. /\ parts[m].first <= parts[m].since + Ahead
        /\ parts[m].since >= LastGc \/ LastGc - parts[m].first <= ReassemblyTtl
    BY <1>2 DEF InDate, HeldInDate
  <2> QED BY <1>1, <2>1, <2>2 DEF Age
<1>3. ASSUME NEW i \in DOMAIN recentOrder
      PROVE  now - recentOrder[i].at <= RecentTtl + GcEvery
  <2>1. recentOrder[i].at \in Nat
    BY Times DEF TypeOK
  <2>2. LastGc - recentOrder[i].at <= RecentTtl
    BY DEF InDate, OrderInDate
  <2> QED BY <1>1, <2>1, <2>2
<1> QED BY <1>2, <1>3 DEF HeldBriefly

\* The times on wire and in calls, when the clock does not go back.
LEMMA StaysOfThePast ==
  ASSUME TypeOK, OfThePast, now' \in {now, now + 1},
         \A dg \in wire' : dg \in wire \/ dg.ts + Lag = now,
         \A c \in Calls : \/ call'[c].pc # "verify"
                          \/ call'[c] = call[c]
                          \/ call'[c].dg \in wire
  PROVE  OfThePast'
<1>1. now \in Nat /\ now' >= now
  BY DEF TypeOK
<1>2. \A dg \in Datagram : Stamped(dg) => dg.ts + Lag <= now'
  BY <1>1 DEF Stamped, Datagram
<1>3. \A dg \in wire : dg.ts + Lag <= now'
  BY <1>2 DEF OfThePast, TypeOK
<1>4. \A dg \in wire' : dg.ts + Lag <= now'
  BY <1>1, <1>3
<1>5. ASSUME NEW c \in Calls, call'[c].pc = "verify" PROVE call'[c].dg.ts + Lag <= now'
  <2>1. CASE call'[c] = call[c]
    BY <1>2, <1>5, <2>1, CallHolds DEF OfThePast
  <2>2. CASE call'[c].dg \in wire
    BY <1>3, <2>2
  <2> QED BY <1>5, <2>1, <2>2
<1> QED BY <1>4, <1>5 DEF OfThePast, Stamped

\* A handler puts no datagram into a call.
LEMMA HandleLeaves ==
  ASSUME TypeOK, NEW c \in Calls, NEW dg, NEW ok, Handle(c, dg, ok)
  PROVE  \A x \in Calls : call'[x] = call[x] \/ call'[x].pc # "verify"
<1>1. Return(c) \/ call' = [call EXCEPT ![c] = [pc |-> "scan", msg |-> dg.msg]]
  BY DEF Handle, Keep, Accept, Hand, FailToWrite
<1> QED BY <1>1 DEF Return, Idle, TypeOK

\* The synchronous part of a handler: what it begins to hold bears a time of
\* the past, and what it remembers the present time.
LEMMA HandleInDate ==
  ASSUME TypeOK, HeldInDate, OrderInDate, TimerSet, running,
         UNCHANGED <<now, gcAt, running>>,
         NEW dg \in Datagram, Stamped(dg),
         Rests \/ Keeps(dg) \/ Accepts(dg)
  PROVE  HeldInDate' /\ OrderInDate'
<1>1. /\ now \in Nat /\ gcAt \in Nat /\ LastGc' = LastGc /\ LastGc \in Int
      /\ dg.msg \in Msgs /\ dg.ts \in Int /\ DOMAIN parts = Msgs
      /\ LastGc <= now
      /\ recentOrder \in Seq(Acceptance)
  BY DEF TypeOK, LastGc, Datagram, TimerSet
<1>2. CASE Rests
  BY <1>1, <1>2 DEF Rests, HeldInDate, OrderInDate
<1>3. CASE Keeps(dg)
  <2>1. OrderInDate'
    BY <1>1, <1>3 DEF Keeps, OrderInDate
  <2>2. \A m \in Msgs \ {dg.msg} : parts'[m] = parts[m]
    BY <1>1, <1>3 DEF Keeps
  <2>3. \/ parts'[dg.msg] = Nothing
        \/ parts'[dg.msg] = [Held(dg) EXCEPT !.got = Gathered(dg)]
    BY <1>1, <1>3 DEF Keeps
  <2>4. /\ Held(dg).since <= now
        /\ Held(dg).first <= Held(dg).since + Ahead
        /\ \/ KindOf[dg.msg] = "media"
           \/ Held(dg).since >= LastGc
           \/ LastGc - Held(dg).first <= ReassemblyTtl
    <3>1. CASE parts[dg.msg].got # {}
      BY <1>1, <3>1 DEF Held, HeldInDate
    <3>2. CASE parts[dg.msg].got = {}
      <4>1. Held(dg).first = dg.ts /\ Held(dg).since = now
        BY <3>2 DEF Held
      <4>2. dg.ts <= now + Ahead
        BY <1>1 DEF Stamped, Ahead
      <4> QED BY <1>1, <4>1, <4>2
    <3> QED BY <3>1, <3>2
  <2>5. \/ parts'[dg.msg].got = {}
        \/ /\ parts'[dg.msg].since = Held(dg).since
           /\ parts'[dg.msg].first = Held(dg).first
    BY <2>3, HeldTypes DEF Nothing
  <2>6. HeldInDate'
    BY <1>1, <2>2, <2>4, <2>5 DEF HeldInDate, Ahead
  <2> QED BY <2>1, <2>6
<1>4. CASE Accepts(dg)
  <2> DEFINE e == [msg |-> dg.msg, at |-> now]
  <2>1. /\ recentOrder' = Append(recentOrder, e)
        /\ parts' = [parts EXCEPT ![dg.msg] = Nothing]
    BY <1>4 DEF Accepts, Remember
  <2>2. \A m \in Msgs : parts'[m] = parts[m] \/ parts'[m].got = {}
    BY <1>1, <2>1 DEF Nothing
  <2>3. HeldInDate'
    BY <1>1, <2>2 DEF HeldInDate, Ahead
  <2>4. \A i \in DOMAIN recentOrder' :
          \/ i \in DOMAIN recentOrder /\ recentOrder'[i] = recentOrder[i]
          \/ i = Len(recentOrder) + 1 /\ recentOrder'[i] = e
    BY <1>1, <2>1
  <2>5. e.at = now
    OBVIOUS
  <2>6. \A i \in DOMAIN recentOrder : i \in 1..Len(recentOrder) /\ recentOrder[i].at \in Nat
    BY <1>1, Times
  <2> HIDE DEF e
  <2>7. \A i \in DOMAIN recentOrder' :
          recentOrder'[i].at <= now /\ LastGc - recentOrder'[i].at <= RecentTtl
    BY <1>1, <2>4, <2>5 DEF OrderInDate
  <2>8. ASSUME NEW i \in DOMAIN recentOrder', NEW j \in DOMAIN recentOrder', i <= j
        PROVE  recentOrder'[i].at <= recentOrder'[j].at
    <3>1. CASE recentOrder'[j] = e
      BY <1>1, <2>5, <2>7, <3>1
    <3>2. CASE j \in DOMAIN recentOrder /\ recentOrder'[j] = recentOrder[j]
      <4>1. i # Len(recentOrder) + 1
        BY <1>1, <2>6, <2>8, <3>2
      <4>2. i \in DOMAIN recentOrder /\ recentOrder'[i] = recentOrder[i]
        BY <2>4, <4>1
      <4> QED BY <2>8, <3>2, <4>2 DEF OrderInDate
    <3> QED BY <2>4, <3>1, <3>2
  <2>9. OrderInDate'
    BY <1>1, <2>7, <2>8 DEF OrderInDate
  <2> QED BY <2>3, <2>9
<1> QED BY <1>2, <1>3, <1>4

LEMMA GcInDate ==
  ASSUME TypeOK, HeldInDate, OrderInDate, Gc
  PROVE  TimerSet' /\ HeldInDate' /\ OrderInDate'
<1>1. /\ now' = now /\ running /\ running' = running /\ gcAt' = now + GcEvery
      /\ now \in Nat /\ LastGc' = now /\ DOMAIN parts = Msgs
      /\ recentOrder \in Seq(Acceptance)
  BY DEF Gc, env, TypeOK, LastGc
<1>2. TimerSet'
  BY <1>1 DEF TimerSet
<1>3. HeldInDate'
  <2> SUFFICES ASSUME NEW m \in Msgs, parts'[m].got # {}
               PROVE  /\ parts'[m].since <= now
                      /\ parts'[m].first <= parts'[m].since + Ahead
                      /\ \/ KindOf[m] = "media"
                         \/ parts'[m].since >= now
                         \/ now - parts'[m].first <= ReassemblyTtl
    BY <1>1 DEF HeldInDate, Ahead
  <2>1. ~Collected(m) /\ parts'[m] = parts[m]
    BY DEF Gc, Nothing
  <2>2. parts[m].first \in Int
    BY DEF TypeOK
  <2> QED BY <1>1, <2>1, <2>2 DEF HeldInDate, Collected
<1>4. OrderInDate'
  <2>1. PICK n \in 0..Len(recentOrder) :
          /\ n < Len(recentOrder) => ~Stale(n + 1)
          /\ recentOrder' = SubSeq(recentOrder, n + 1, Len(recentOrder))
    BY DEF Gc
  <2>2. \A i \in DOMAIN recentOrder : recentOrder[i].at \in Nat
    BY <1>1, Times
  <2>3. \A i \in DOMAIN recentOrder' :
          /\ i \in Nat \ {0} /\ i + n \in DOMAIN recentOrder
          /\ n + 1 \in DOMAIN recentOrder /\ n + 1 <= i + n
          /\ n < Len(recentOrder)
          /\ recentOrder'[i] = recentOrder[i + n]
    <3>1. \A i \in DOMAIN recentOrder' :
            /\ i \in Nat \ {0} /\ i + n \in DOMAIN recentOrder
            /\ recentOrder'[i] = recentOrder[i + n]
      BY <1>1, <2>1
    <3>2. DOMAIN recentOrder = 1..Len(recentOrder) /\ Len(recentOrder) \in Nat
      BY <1>1
    <3> QED BY <2>1, <3>1, <3>2
  <2>4. ASSUME NEW i \in DOMAIN recentOrder'
        PROVE  recentOrder'[i].at <= now /\ now - recentOrder'[i].at <= RecentTtl
    <3>1. recentOrder[n + 1].at <= recentOrder[i + n].at
      BY <2>3 DEF OrderInDate
    <3>2. ~(now - recentOrder[n + 1].at > RecentTtl)
      BY <2>1, <2>3 DEF Stale
    <3>3. recentOrder[n + 1].at \in Nat /\ recentOrder[i + n].at \in Nat
      BY <2>2, <2>3
    <3>4. now - recentOrder[i + n].at <= RecentTtl
      <4>1. \A a, b \in Nat : a <= b /\ ~(now - a > RecentTtl) => now - b <= RecentTtl
        BY <1>1
      <4> QED BY <3>1, <3>2, <3>3, <4>1
    <3> QED BY <2>3, <3>4 DEF OrderInDate
  <2>5. \A i, j \in DOMAIN recentOrder' : i <= j => recentOrder'[i].at <= recentOrder'[j].at
    BY <2>3 DEF OrderInDate
  <2> QED BY <1>1, <2>4, <2>5 DEF OrderInDate
<1> QED BY <1>2, <1>3, <1>4

LEMMA NextInDate == TypeOK /\ InDate /\ [Next]_vars => InDate'
<1> SUFFICES ASSUME TypeOK, InDate, [Next]_vars PROVE InDate'
  OBVIOUS
<1> USE DEF InDate
<1>1. now \in Nat /\ gcAt \in Nat /\ DOMAIN call = Calls
  BY DEF TypeOK
<1>2. ASSUME NEW c \in Calls, running,
             NEW dg \in Datagram, Stamped(dg), NEW ok, Handle(c, dg, ok),
             UNCHANGED <<phone, env, gcAt>>
      PROVE  InDate'
  <2>1. UNCHANGED <<wire, now, running, gcAt>>
    BY <1>2 DEF phone, env
  <2>2. HeldInDate' /\ OrderInDate'
    BY <1>2, <2>1, HandleCases, HandleInDate
  <2>3. OfThePast'
    BY <1>2, <2>1, HandleLeaves, StaysOfThePast
  <2> QED BY <2>1, <2>2, <2>3 DEF TimerSet, LastGc
<1>3. ASSUME UNCHANGED <<parts, recentOrder, gcAt, now, running>>, OfThePast'
      PROVE  InDate'
  BY <1>3 DEF TimerSet, HeldInDate, OrderInDate, LastGc
<1>4. ASSUME NEW m \in Msgs, Post(m) PROVE InDate'
  <2>1. /\ wire' = wire \cup { [msg |-> m, seq |-> s, ts |-> now - Lag] : s \in 1..ChunksOf[m] }
        /\ UNCHANGED <<parts, recentOrder, gcAt, now, running, call>>
    BY <1>4 DEF Post, memory, env
  <2>2. \A dg \in wire' : dg \in wire \/ dg.ts + Lag = now
    BY <1>1, <2>1
  <2> QED BY <1>3, <2>1, <2>2, StaysOfThePast
<1>5. ASSUME NEW c \in Calls, NEW dg \in wire, Receive(c, dg) PROVE InDate'
  <2>1. /\ running /\ call[c].pc = "idle" /\ UNCHANGED <<phone, env, gcAt>>
        /\ dg \in Datagram /\ Stamped(dg)
    BY <1>5 DEF Receive, TypeOK, OfThePast
  <2>2. CASE HasSecret
    <3>1. /\ call' = [call EXCEPT ![c] = [pc |-> "verify", dg |-> dg]]
          /\ UNCHANGED <<wire, parts, recentOrder, gcAt, now, running>>
      BY <1>5, <2>1, <2>2 DEF Receive, phone, env
    <3>2. \A x \in Calls : call'[x] = call[x] \/ call'[x].dg \in wire
      BY <1>1, <3>1
    <3> QED BY <1>3, <3>1, <3>2, StaysOfThePast
  <2>3. CASE ~HasSecret
    BY <1>2, <1>5, <2>1, <2>3 DEF Receive
  <2> QED BY <2>2, <2>3
<1>6. ASSUME NEW c \in Calls, Verified(c) PROVE InDate'
  <2>1. /\ running /\ UNCHANGED <<phone, env, gcAt>>
        /\ call[c].dg \in Datagram /\ Stamped(call[c].dg)
        /\ Handle(c, call[c].dg, call[c].dg.msg \in Signed)
    BY <1>6, CallHolds DEF Verified, OfThePast
  <2> QED BY <1>2, <2>1
<1>7. ASSUME NEW c \in Calls, Scanned(c) PROVE InDate'
  <2>1. /\ UNCHANGED <<wire, parts, recentOrder, gcAt, now, running>>
        /\ call' = [call EXCEPT ![c] = Idle]
    BY <1>7 DEF Scanned, Return, phone, env
  <2>2. \A x \in Calls : call'[x] = call[x] \/ call'[x].pc # "verify"
    BY <1>1, <2>1 DEF Idle
  <2> QED BY <1>3, <2>1, <2>2, StaysOfThePast
<1>8. CASE Gc
  <2>1. UNCHANGED <<wire, call, now>>
    BY <1>8 DEF Gc, phone, env
  <2> QED BY <1>8, <2>1, GcInDate, StaysOfThePast
<1>9. CASE Tick
  <2>1. /\ now' = now + 1 /\ (running => now < gcAt)
        /\ UNCHANGED <<wire, call, parts, recentOrder, gcAt, running>>
    BY <1>9 DEF Tick, phone, memory
  <2>2. OfThePast'
    BY <2>1, StaysOfThePast
  <2>3. TimerSet'
    BY <1>1, <2>1 DEF TimerSet, LastGc
  <2>4. HeldInDate'
    <3>1. \A m \in Msgs : parts[m].since \in Nat
      BY DEF TypeOK
    <3> QED BY <1>1, <2>1, <3>1 DEF HeldInDate, LastGc, Ahead
  <2>5. OrderInDate'
    <3>1. \A i \in DOMAIN recentOrder : recentOrder[i].at \in Nat
      BY Times DEF TypeOK
    <3> QED BY <1>1, <2>1, <3>1 DEF OrderInDate, LastGc
  <2> QED BY <2>2, <2>3, <2>4, <2>5
<1>10. CASE Crash
  <2>1. /\ UNCHANGED <<wire, now>> /\ ~running'
        /\ \A c \in Calls : call'[c].pc # "verify"
        /\ \A m \in Msgs : parts'[m].got = {}
        /\ recentOrder' = <<>>
    BY <1>10 DEF Crash, phone, Idle, Nothing
  <2>2. OfThePast'
    BY <2>1, StaysOfThePast
  <2> QED BY <2>1, <2>2 DEF TimerSet, HeldInDate, OrderInDate
<1>11. CASE Restart
  <2>1. /\ ~running /\ gcAt' = now + GcEvery
        /\ UNCHANGED <<wire, call, parts, recentOrder, now>>
    BY <1>11 DEF Restart, phone
  <2>2. OfThePast'
    BY <2>1, StaysOfThePast
  <2>3. TimerSet'
    BY <1>1, <2>1 DEF TimerSet, LastGc
  <2>4. HeldInDate' /\ OrderInDate'
    BY <2>1 DEF HeldInDate, OrderInDate
  <2> QED BY <2>2, <2>3, <2>4
<1>12. CASE UNCHANGED vars
  <2>1. UNCHANGED <<wire, call, parts, recentOrder, gcAt, now, running>>
    BY <1>12 DEF vars, phone, memory, env
  <2> QED BY <1>3, <2>1, StaysOfThePast
<1> QED BY <1>4, <1>5, <1>6, <1>7, <1>8, <1>9, <1>10, <1>11, <1>12 DEF Next

\* HeldBriefly, for any clocks, lifetimes and interval: the collections are an
\* interval apart, and what one of them leaves was in date.
THEOREM HoldsBriefly == Spec => []HeldBriefly
BY InitInDate, NextInDate, InDateIsBrief, TypeCorrect, PTL DEF Spec
=============================================================================
