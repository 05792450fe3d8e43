------------------------------- MODULE Inbound ------------------------------
(***************************************************************************)
(* The plugin's receiving pipeline (plugin/src/inbound.ts) with the two    *)
(* reassemblers of wire.ts, fed by a network that loses, duplicates,       *)
(* delays and reorders datagrams.                                          *)
(*                                                                         *)
(* handleDatagram runs once per datagram.  It awaits twice before its last *)
(* act: the HMAC check (when a secret is configured) and the AEGIS scan.   *)
(* A step is the code between two awaits, so handlers of several datagrams *)
(* interleave at those two points.  What follows the call of dispatch only *)
(* logs, so a handler ends there.                                          *)
(***************************************************************************)
EXTENDS Integers, Sequences, FiniteSets

CONSTANTS
  Msgs,          \* messages a phone sends, each with its own id
  Calls,         \* bound: handleDatagram activations in progress at once
  KindOf,        \* [Msgs -> kinds]; "control" is an ack, error or agent one
  ChunksOf,      \* [Msgs -> Nat]: the number of envelopes it is cut into
  Worded,        \* messages with a text or caption for the scanner
  Signed,        \* messages whose envelopes carry a valid hmac
  Allowed,       \* messages whose sender is on the allowlist
  HasSecret,     \* account.sharedSecret is configured
  Lag,           \* how far the phone's clock is behind the plugin's
  MaxSkew,       \* hmacMaxSkewMs (120 s)
  ReassemblyTtl, \* reassemblyTtlMs (60 s)
  RecentTtl,     \* recentTtlMs (60 s)
  GcEvery,       \* the GC interval (30 s)
  MaxHeldText,   \* MAX_TEXT_REASSEMBLY_BYTES, in chunks
  MaxHeldMedia,  \* MAX_MEDIA_REASSEMBLY_BYTES, in chunks
  MaxMedia,      \* maxMediaBytes, in chunks
  MaxTime,       \* bound: the last instant of the clock
  MaxPosts,      \* bound: times the phone sends one message
  MaxCrashes,    \* bound: process crashes
  MaxWriteFailures  \* bound: attachment writes that throw

Kinds == {"text", "media", "control"}

ASSUME InboundAssumption ==
  /\ KindOf \in [Msgs -> Kinds]
  /\ ChunksOf \in [Msgs -> Nat \ {0}]
  /\ Worded \subseteq Msgs /\ Signed \subseteq Msgs /\ Allowed \subseteq Msgs
  /\ HasSecret \in BOOLEAN
  /\ Lag \in Int
  /\ MaxSkew \in Nat /\ ReassemblyTtl \in Nat /\ RecentTtl \in Nat
  /\ GcEvery \in Nat \ {0}
  /\ MaxHeldText \in Nat /\ MaxHeldMedia \in Nat /\ MaxMedia \in Nat
  /\ MaxTime \in Nat /\ MaxPosts \in Nat
  /\ MaxCrashes \in Nat /\ MaxWriteFailures \in Nat

VARIABLES
  wire,         \* datagrams the network holds and may deliver, repeatedly
  posts,        \* how often each message was sent
  parts,        \* Reassembler.parts and MediaReassembler.parts
  recent,       \* the ids the pipeline drops as duplicates
  recentOrder,  \* those ids with the time of their acceptance
  call,         \* the handleDatagram activations
  heard,        \* messages that gave proof of life of their sender
  now,          \* Date.now()
  gcAt,         \* when the GC timer fires next
  running,      \* the plugin process is up
  crashes, writeFailures,   \* the counters behind the bounds
  accepted,     \* history: acceptances since the start of the process
  seen,         \* history: chunks admitted since the start of the process
  acks,         \* history: messages whose ack the transport took
  dispatched,   \* history: messages handed to the agent
  blocked,      \* history: messages the scanner stopped
  unwritten     \* history: media whose file could not be written

memory == <<parts, recent, recentOrder, call, gcAt, accepted, seen>>
outcome == <<acks, dispatched, blocked, unwritten>>
phone == <<wire, posts>>
env == <<now, running, crashes>>
vars == <<phone, memory, outcome, env, heard, writeFailures>>

Datagram == [msg : Msgs, seq : Nat \ {0}, ts : Int]
Acceptance == [msg : Msgs, at : Nat]

\* No state is held for the message: the maps have no such key.
Nothing == [got |-> {}, first |-> 0, since |-> 0]
Idle == [pc |-> "idle"]

Init ==
  /\ wire = {}
  /\ posts = [m \in Msgs |-> 0]
  /\ parts = [m \in Msgs |-> Nothing]
  /\ recent = {} /\ recentOrder = <<>>
  /\ call = [c \in Calls |-> Idle]
  /\ heard = {}
  /\ now = 0 /\ gcAt = GcEvery
  /\ running = TRUE
  /\ crashes = 0 /\ writeFailures = 0
  /\ accepted = <<>> /\ seen = {}
  /\ acks = {} /\ dispatched = {} /\ blocked = {} /\ unwritten = {}

-----------------------------------------------------------------------------
\* The phone: drainOutbox and send give every resend the message's own id and
\* cut it the same way; the timestamp is the phone's clock at the time.

Post(m) ==
  /\ posts[m] < MaxPosts
  /\ posts' = [posts EXCEPT ![m] = @ + 1]
  /\ wire' = wire \cup
       { [msg |-> m, seq |-> s, ts |-> now - Lag] : s \in 1..ChunksOf[m] }
  /\ UNCHANGED <<memory, outcome, env, heard, writeFailures>>

-----------------------------------------------------------------------------
\* handleDatagram.

\* The envelope's ts lies inside the window in which its hmac is honoured.
Fresh(dg) == now - dg.ts \in -MaxSkew..MaxSkew

Authorized(dg, hmacOK) == \/ hmacOK /\ Fresh(dg)
                          \/ dg.msg \in Allowed

\* The first chunk of a media message announces its size, so an attachment
\* above the cap never completes and the second check of the size never fails.
TooLarge(dg) == /\ KindOf[dg.msg] = "media" /\ dg.seq = 1
                /\ ChunksOf[dg.msg] > MaxMedia

Held(dg) == IF parts[dg.msg].got = {}
              THEN [got |-> {}, first |-> dg.ts, since |-> now]
              ELSE parts[dg.msg]
\* Mutant: the held chunks are numbered from zero.
GatheredFromZero(dg) == Held(dg).got \cup {dg.seq - 1}
Gathered(dg) == Held(dg).got \cup {dg.seq}

\* A text in one envelope is returned without being held.
Overflows(dg) ==
  IF KindOf[dg.msg] = "media"
    THEN Cardinality(Gathered(dg)) > MaxHeldMedia
    ELSE /\ ChunksOf[dg.msg] > 1
         /\ Cardinality(Gathered(dg)) > MaxHeldText

\* Mutant: one missing chunk is not noticed.
WholeButOne(dg) == 2..ChunksOf[dg.msg] \subseteq Gathered(dg)
Whole(dg) == 1..ChunksOf[dg.msg] \subseteq Gathered(dg)

\* Mutant: duplicates are not looked for before push.
DuplicateCheckLost(dg) == KindOf[dg.msg] = "control" \/ TooLarge(dg)
Dropped(dg) == \/ KindOf[dg.msg] = "control"
               \/ TooLarge(dg)
               \/ dg.msg \in recent

Return(c) == call' = [call EXCEPT ![c] = Idle]

\* recent.add and recentOrder.push.
Remember(m) ==
  /\ recent' = recent \cup {m}
  /\ recentOrder' = Append(recentOrder, [msg |-> m, at |-> now])
  /\ accepted' = Append(accepted, [msg |-> m, at |-> now])

\* sendAck: the transport takes the ack or throws, and nobody tries again.
SendAck(m) == acks' \in {acks, acks \cup {m}}

\* What follows the ack: the scan when there are words, else the dispatch.
Hand(c, m) ==
  IF m \in Worded
    THEN /\ call' = [call EXCEPT ![c] = [pc |-> "scan", msg |-> m]]
         /\ UNCHANGED <<dispatched, blocked>>
    ELSE /\ Return(c)
         /\ dispatched' = dispatched \cup {m}
         /\ UNCHANGED blocked

\* The reassembler keeps the chunk, or forgets the message at its ceiling.
Keep(c, dg) ==
  /\ Overflows(dg) \/ ~Whole(dg)
  /\ parts' = [parts EXCEPT ![dg.msg] =
       IF Overflows(dg) THEN Nothing
       ELSE [Held(dg) EXCEPT !.got = Gathered(dg)]]
  /\ Return(c)
  /\ UNCHANGED <<recent, recentOrder, accepted, outcome, writeFailures>>

\* The last chunk arrived: the message is accepted, acknowledged and handed on.
Accept(c, dg) ==
  /\ ~Overflows(dg) /\ Whole(dg)
  /\ parts' = [parts EXCEPT ![dg.msg] = Nothing]
  /\ Remember(dg.msg)
  /\ SendAck(dg.msg)
  /\ Hand(c, dg.msg)
  /\ UNCHANGED <<unwritten, writeFailures>>

\* writeFileSync throws after recent.add: no ack, no dispatch.
FailToWrite(c, dg) ==
  /\ ~Overflows(dg) /\ Whole(dg)
  /\ KindOf[dg.msg] = "media"
  /\ writeFailures < MaxWriteFailures
  /\ writeFailures' = writeFailures + 1
  /\ parts' = [parts EXCEPT ![dg.msg] = Nothing]
  /\ Remember(dg.msg)
  /\ unwritten' = unwritten \cup {dg.msg}
  /\ Return(c)
  /\ UNCHANGED <<acks, dispatched, blocked>>

\* From the authorization to the next await or the end of the handler.
Handle(c, dg, hmacOK) ==
  \/ /\ ~Authorized(dg, hmacOK)
     /\ Return(c)
     /\ UNCHANGED <<heard, seen, parts, recent, recentOrder, accepted,
                    outcome, writeFailures>>
  \/ /\ Authorized(dg, hmacOK) /\ Dropped(dg)
     /\ heard' = heard \cup {dg.msg}
     /\ Return(c)
     /\ UNCHANGED <<seen, parts, recent, recentOrder, accepted, outcome,
                    writeFailures>>
  \/ /\ Authorized(dg, hmacOK) /\ ~Dropped(dg)
     /\ heard' = heard \cup {dg.msg}
     /\ seen' = seen \cup {<<dg.msg, dg.seq>>}
     /\ Keep(c, dg) \/ Accept(c, dg) \/ FailToWrite(c, dg)

\* A datagram arrives.  Without a secret the handler runs on at once, with one
\* it awaits verifyEnvelope.
Receive(c, dg) ==
  /\ running /\ call[c].pc = "idle"
  /\ \/ /\ HasSecret
        /\ call' = [call EXCEPT ![c] = [pc |-> "verify", dg |-> dg]]
        /\ UNCHANGED <<parts, recent, recentOrder, accepted, seen, outcome,
                       heard, writeFailures>>
     \/ /\ ~HasSecret
        /\ Handle(c, dg, FALSE)
  /\ UNCHANGED <<phone, env, gcAt>>

Verified(c) ==
  /\ running /\ call[c].pc = "verify"
  /\ Handle(c, call[c].dg, call[c].dg.msg \in Signed)
  /\ UNCHANGED <<phone, env, gcAt>>

\* Mutant: an outage of the scanner ends the handler.
VerdictOrOutage(m) == \/ blocked' = blocked \cup {m} /\ UNCHANGED dispatched
                      \/ UNCHANGED <<blocked, dispatched>>
\* The scanner fails open.
Verdict(m) == \/ blocked' = blocked \cup {m} /\ UNCHANGED dispatched
              \/ dispatched' = dispatched \cup {m} /\ UNCHANGED blocked

\* The scan answers, in any order among the scans in progress.
Scanned(c) ==
  /\ running /\ call[c].pc = "scan"
  /\ Verdict(call[c].msg)
  /\ Return(c)
  /\ UNCHANGED <<phone, env, parts, recent, recentOrder, accepted, seen, gcAt,
                 acks, unwritten, heard, writeFailures>>

-----------------------------------------------------------------------------
\* The timer of attach: Reassembler.gc and gcRecent.  The media reassembler has
\* a gc of its own that nothing calls.

\* Mutant: the age is compared with one interval more.
CollectedLate(m) == /\ KindOf[m] # "media"
                    /\ now - parts[m].first > ReassemblyTtl + GcEvery
Collected(m) == /\ KindOf[m] # "media"
                /\ now - parts[m].first > ReassemblyTtl

\* Mutant: an id leaves at the end of its window instead of after it.
StaleEarly(i) == now - recentOrder[i].at >= RecentTtl
Stale(i) == now - recentOrder[i].at > RecentTtl

Gc ==
  /\ running /\ now >= gcAt
  /\ gcAt' = now + GcEvery
  /\ parts' = [m \in Msgs |-> IF Collected(m) THEN Nothing ELSE parts[m]]
  /\ \E k \in 0..Len(recentOrder) :
       /\ \A i \in 1..k : Stale(i)
       /\ k < Len(recentOrder) => ~Stale(k + 1)
       /\ recentOrder' = SubSeq(recentOrder, k + 1, Len(recentOrder))
       /\ recent' = recent \ { recentOrder[i].msg : i \in 1..k }
  /\ UNCHANGED <<phone, env, call, accepted, seen, outcome, heard,
                 writeFailures>>

\* One unit is the GC interval's order of magnitude, so a due timer runs
\* before the clock moves on.
Tick ==
  /\ now < MaxTime
  /\ running => now < gcAt
  /\ now' = now + 1
  /\ UNCHANGED <<phone, memory, outcome, heard, running, crashes,
                 writeFailures>>

\* The pipeline keeps everything in memory.
Crash ==
  /\ running /\ crashes < MaxCrashes
  /\ running' = FALSE
  /\ crashes' = crashes + 1
  /\ parts' = [m \in Msgs |-> Nothing]
  /\ recent' = {} /\ recentOrder' = <<>>
  /\ call' = [c \in Calls |-> Idle]
  /\ accepted' = <<>> /\ seen' = {}
  /\ heard' = {}
  /\ UNCHANGED <<phone, outcome, now, gcAt, writeFailures>>

Restart ==
  /\ ~running
  /\ running' = TRUE
  /\ gcAt' = now + GcEvery
  /\ UNCHANGED <<phone, parts, recent, recentOrder, call, accepted, seen,
                 outcome, now, crashes, heard, writeFailures>>

Next ==
  \/ \E m \in Msgs : Post(m)
  \/ \E c \in Calls, dg \in wire : Receive(c, dg)
  \/ \E c \in Calls : Verified(c) \/ Scanned(c)
  \/ Gc \/ Tick \/ Crash \/ Restart

Spec == Init /\ [][Next]_vars

-----------------------------------------------------------------------------
\* Properties.

Chunk == Msgs \X Nat
CallState ==
  [pc : {"idle"}] \cup [pc : {"verify"}, dg : Datagram]
  \cup [pc : {"scan"}, msg : Msgs]

\* The kinds of values the pipeline's variables hold.
TypeOK ==
  /\ wire \subseteq Datagram
  /\ posts \in [Msgs -> Nat]
  /\ parts \in [Msgs -> [got : SUBSET (Nat \ {0}), first : Int, since : Nat]]
  /\ recent \subseteq Msgs
  /\ recentOrder \in Seq(Acceptance)
  /\ call \in [Calls -> CallState]
  /\ heard \subseteq Msgs
  /\ now \in Nat /\ gcAt \in Nat
  /\ running \in BOOLEAN
  /\ crashes \in Nat /\ writeFailures \in Nat
  /\ accepted \in Seq(Acceptance)
  /\ seen \subseteq Chunk
  /\ acks \subseteq Msgs /\ dispatched \subseteq Msgs
  /\ blocked \subseteq Msgs /\ unwritten \subseteq Msgs

\* Dedupe by id: while the process lives, the pipeline does not take the same
\* message twice within RecentTtl, whatever copies the network delivers and
\* however the handlers interleave around the HMAC check (recent, gcRecent).
OncePerWindow ==
  \A i, j \in DOMAIN accepted :
    /\ i < j
    /\ accepted[i].msg = accepted[j].msg
    => accepted[j].at - accepted[i].at > RecentTtl

\* The pipeline takes a message only when every chunk of it was admitted since
\* the process started: no acceptance, ack or dispatch rests on a part of a
\* message, through retries, GC, byte ceilings and crashes (Reassembler.push).
AcceptedWhole ==
  \A i \in DOMAIN accepted :
    \A s \in 1..ChunksOf[accepted[i].msg] : <<accepted[i].msg, s>> \in seen

\* A message in the dedupe window holds no reassembly state: late copies of a
\* finished message never start a second, partial one (the recent.has test
\* before push, parts.delete before recent.add).
NoGhostParts == \A m \in recent : parts[m].got = {}

Age(m) == now - parts[m].since
Ahead == IF Lag < 0 THEN -Lag ELSE 0

\* What the timer bounds: chunks of an unfinished text are kept for at most the
\* reassembly lifetime and one GC interval after they came, longer only by what
\* the phone's clock is ahead; and a message is remembered as a duplicate for
\* at most RecentTtl and one interval, so that a later resend is taken again.
HeldBriefly ==
  running =>
    /\ \A m \in Msgs :
         KindOf[m] # "media" /\ parts[m].got # {}
           => Age(m) <= ReassemblyTtl + GcEvery + Ahead
    /\ \A i \in DOMAIN recentOrder :
         now - recentOrder[i].at <= RecentTtl + GcEvery

\* No message is swallowed.  From its acceptance on the phone's resends of it are
\* dropped, so it must be with the agent, stopped by the scanner, logged as not
\* written, or still in a scan, whichever handlers and copies come in between.
NoneSwallowed ==
  \A i \in DOMAIN accepted :
    \/ accepted[i].msg \in dispatched \cup blocked \cup unwritten
    \/ \E c \in Calls : call[c] = [pc |-> "scan", msg |-> accepted[i].msg]
=============================================================================
