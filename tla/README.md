# claw-pilot in TLA+

claw-pilot connects a phone to an agent ("claw") over the Pilot overlay network.
An OpenClaw plugin (`src/plugin`, TypeScript) receives datagrams from phones,
reassembles and authorizes messages, hands them to the agent and sends its
replies; an iOS app (`src/ios`) is the other end. Both speak the JSON envelope
format of `src/shared/WIRE.md` over datagrams that the network may lose,
duplicate, delay and reorder. There is no connection and no transaction: what a
user may rely on comes from acks, retries, a persistent queue, a dedupe window
and timers. That is what this project specifies, checks with TLC and proves with
TLAPS.

Paths without a prefix are under `src/plugin/src/`; `.swift` files are under
`src/ios/ClawChat/Sources/ClawChat/`.

## Inventory

| Component | State | Operations | Correct when |
|---|---|---|---|
| **Outbox** (`outbox.ts`) | a list per peer, in memory and in a JSON file | enqueue, drain, drainAll, load, save | what a caller was told is queued stays until sent, expired or evicted; the cap holds; reachable peers are drained; nothing sent comes back |
| **Outbound adapter** (`outbound.ts`) | none | sendText, sendMedia: send each chunk, stash all of them when one fails | a message is either sent whole or queued whole |
| **Reply dispatcher** (`reply-dispatcher.ts`) | sends in progress, counters, idle waiters | sendBlockReply, sendFinalReply, waitForIdle | idle means every accepted reply was sent, queued or failed, and was counted |
| **Dispatch** (`dispatch.ts`) | none | a chain of ways to run an agent turn | one message, one turn |
| **InboundPipeline** (`inbound.ts`, reassemblers of `wire.ts`) | partial messages, recent ids, handlers in progress | handleDatagram, handleMedia, sendAck, gcRecent, stop | no message is taken twice in the window or with a hole; partial state goes away; an ack means something |
| **Lifecycle** (`lifecycle.ts`, `index.ts`, `channel-plugin-api.ts`) | accounts map, retry timers, watcher | startAll, startAccount, scheduleRetry, stopAll, reload | one pipeline per account, of the configuration on disk, in the end |
| **Wire codec** (`wire.ts`, `Wire.swift`) | none | chunkText, chunkMedia, encode, decode, sign, verify | every chunk fits an envelope and the pieces give the whole |
| **Addresses** (`peer-address.ts`, `resolver.ts`, `allowlist.ts`) | last network of each node | canonical forms, target resolution, allowlist | one peer, one key |
| **Transport and worker** (`pilot-transport.ts`, `pilot-worker.ts`) | worker thread, handlers | start, stop, send, on | a datagram accepted is a datagram handed to the daemon |
| **AEGIS scan** (`aegis-scan.ts`) | none | a subprocess that answers safe or blocked | external |
| **Phone conversation** (`Conversation.swift`) | messages and their delivery states | send, retry, drainOutbox, updateDelivery, watchdog | a delivered message stays delivered; an undelivered one is sent again |
| **Phone connection** (`PilotConnection.swift`) | socket state, reassemblers, seen ids | start, retryHandshake, receive loop, reconnect | ready means sending and receiving; one message is shown once |
| **Phone store** (`MessageStore.swift`) | the conversation on disk | load, save | what was pending is pending after a restart |
| Phone UI, profiles, notifications, plugin status | views, records | | no protocol of their own |

Interactions. The outbound adapter and the reply dispatcher call
`transport.send` and, when it throws, `Outbox.enqueue`. The pipeline's
`onPeerProofOfLife` calls `Outbox.drain` for the peer just heard; a timer of the
lifecycle calls `drainAll`. The lifecycle builds, for each account, transport,
outbox, pipeline and drain timer, and `stopAll` takes them down. The pipeline
calls the transport for acks and `dispatch` for the agent; dispatch builds a
reply dispatcher. The phone resends with the same id what is not acknowledged,
and the pipeline drops an id it has taken within the last minute.

What is hard: two drains of one list at the same awaits; pushes into the array a
loop is reading; handlers of several datagrams between their HMAC check, scan
and dispatch; chunks of one message from several resends; clocks of two devices;
retry timers and reloads that start one account at the same time; crashes
between a change and its save. Each is listed, at its line, under `hazards` in
`PROJECT.json` with the property that covers it, or with a note why none does.

## Plan

| | Module | State |
|---|---|---|
| 1 | **Outbox**: the queue with its senders and drains | done |
| 2 | **Inbound**: the pipeline with both reassemblers, the phone's resends, the network | done |
| 3 | **Lifecycle**: starts, retries, reloads, shutdown | done; `onAccountConfigChanged`, `onAccountRemoved`, `stopAccount` (`channel-plugin-api.ts`) are not called by the hosts this plugin runs in (`index.ts:83`) |
| 4 | **Reply**: strategy chain, reply dispatcher, waitForIdle | done |
| 5 | **Chunking**, implementing the abstract **Greedy** | done for both sides |
| 6 | **Connection** and **Conversation** | done; Conversation assumes of the connection what one recovery at a time gives |
| 7 | **PhoneInbound**: the receive loop, `seenIds` with its random eviction, the stream and its listener | done |
| 8 | **Delivery**: Conversation against Inbound's interface, end to end | to come |
| 9 | the abstract **DurableQueue**, which Outbox implements | done |
| 10 | **Worker**: the thread behind PilotTransport | to come |

Every safety property of a passing run, invariant or refinement, is a theorem;
to come are those of 8 and 10.

## The modules

A step of every module is the code between two awaits: JavaScript runs a turn to
its end, so what matters is which turns may come between. Environment actions
(crash, network, clock, daemon) are the only ones without lines of the source.

### Outbox

| Spec | Code |
|---|---|
| `queue`, `disk` | `Outbox.peers`, the JSON file |
| `job[d]` | the locals of one `drain` and of the `drainAll` around it |
| `snd[m]` | the loop of `sendOrEnqueue` / `sendChunks` for message m |
| `StartSend`, `SendAccepted`, `SendRejected` | the send loop and its catch |
| `Enqueue` | one `enqueue` of the stashing loop: duplicate test, push, cap, save |
| `ProofOfLife`, `PeriodicDrain`, `NextPeer` | the two callers of a drain, `drainAll`'s loop |
| `DrainStep`, `Advance`, `FinishDrain` | the for-of loop between awaits, its expiry test, the write-back and save |
| `Crash`, `Restart` | loss of memory, `load` |

The for-of loop of `drain` reads the live array by index. `job[d].old` is empty
while the map still holds that array and keeps the array once another drain has
replaced the map entry, so pushes and shifts during an await are seen exactly as
JavaScript shows them. `SettlesInTurn` says which transport is used.
`PilotTransport.send` (`pilot-transport.ts:113-117`) hands the datagram over and
settles in the same turn; a drain over it is not interrupted. The `Transport`
interface (`transport.ts`) only promises a Promise, and tests inject others.

`saveFailures`, `crashes` and `now` are bounded by constants. Only the chunk's
identity, age and position are kept; bytes, ports and file layout are not.

`DurableQueue` is what the queue owes its callers, without lists, indices, cap or
clock: items in memory and in a file that may lag behind, items accounted for,
messages offered and messages promised. `KeepsPromises` says that Outbox
implements it, where an item is a chunk of a peer's list, memory is `queue`, the
file is `disk`, accounted for are the chunks handed over, expired or evicted,
offered are the messages being stashed and promised those reported as queued. So
nothing comes back while the process lives, an item enters only as part of the
message being stashed, and an answer "queued" is given in a step that leaves nothing of
the message to memory alone.

### Inbound

| Spec | Code |
|---|---|
| `wire`, `posts` | datagrams the network may deliver (any number of times), sends of the phone |
| `parts` | both reassemblers' `parts` |
| `recent`, `recentOrder` | the fields of those names |
| `call[c]` | one `handleDatagram` activation and the await it is at |
| `Receive`, `Verified`, `Scanned` | the code before the HMAC await, from it to the scan, after the scan |
| `Handle` | allowlist and HMAC decision, proof of life, control kinds, duplicate test, reassembly, acceptance |
| `Keep`, `Accept`, `FailToWrite` | the outcomes of `push` and what follows it |
| `Gc` | the interval timer: `Reassembler.gc` and `gcRecent` |
| `Post` | the phone's send or resend of a message (`drainOutbox`) |

One time unit is about 30 s, the GC interval, so `Tick` waits for a timer that
is due; a chunk is the unit of size. Two branches are left out because no phone
of this repository reaches them: a `total` that contradicts an earlier one, and
an assembled size above what the first chunk announced. `accepted` and `seen`
are history variables of the life of the process. Digests are not modelled: a
message is `Signed` or not; the freshness window is.

### Lifecycle

| Spec | Code |
|---|---|
| `file`, `debounce` | openclaw.json, the watcher's timer |
| `reload[v]` | the `startAll` of edit v: the accounts its loop has left |
| `start[a, v]` | the chain of `startAccount` calls of account a with configuration v, and the pipeline it ends in |
| `accounts`, `currentCfg` | the fields of those names |
| `Fire`, `StartAll`, `Proceed` | the reload: `stopAll`, its await, the loop of `startAll` up to its next await |
| `Started`, `StartFails`, `Retry` | `transport.start` resolving or rejecting inside `startAccount`, the retry timer |
| `Deactivate` | `onShutdown`, `onDeactivate` |

Each edit leaves a valid file. Every `startAll` belongs to one edit, since the
debounce is armed by an edit and read once. `owed` is a history variable: the
accounts a `startAll` has dealt with since the last `stopAll`.

### Conversation

| Spec | Code |
|---|---|
| `delivery`, `saved` | the delivery state of each of the user's `messages`; the same in messages.json |
| `tasks` | how many send Tasks of a message have not begun, and how many ended in each way and have not reported |
| `link` | `connection` and its `isReady` |
| `DrainAgain` | a drain by hand, or by a recovery of a connection that was ready before or is gone |
| `due` | calls of `drainOutbox` that follow a success of `start`, `retryHandshake` or `reconnect` in a later turn |
| `Type` | `send`, `sendAttachment`, `testConnection` |
| `DrainOutbox`, `Pending`, `Resent` | `drainOutbox`, its snapshot, the Task it starts for each |
| `Transmit`, `Report` | `PilotConnection.send` in a Task; what the Task does next on the main actor |
| `UpdateDelivery`, `Rank`, `StateFor` | `updateDelivery`, its ranks, `deliveryStateForSendError` |
| `ClawReceives` | the claw takes a message and acknowledges it (`sendAck` of `inbound.ts`) |
| `AckArrives`, `ErrorArrives` | the listeners of `connect` |
| `Connect`, `LinkUp`, `LinkDown`, `Disconnect` | `connect`; a start or handshake that succeeds, begins, or is torn down; `disconnect` |
| `Kill` | the app killed and started again: `MessageStore.load` |

The outcome of a send is decided in one step; a send that throws half-way is one
that broke. `Disconnect` turns the sends that have not begun into refused ones,
since their Tasks keep the stopped connection. Whether a ping is saved matters:
`testConnection` does not save, so a kill may lose one, but the next change of
any message writes it too.

Conversation knows of its connection only `link` and `due`: whoever makes it
ready calls `drainOutbox` in a later turn. That is so while one recovery at a
time works on a connection. Two that overlap can leave it ready without a drain
(see Connection); Conversation assumes that away, so `Attended` and `Settles` say
nothing of such a connection.

The plugin of this repository acknowledges and never sends an error envelope
(media above its limit are logged and dropped, `inbound.ts:339-346`), but the
phone listens for them and `WIRE.md` has them, so `ErrorArrives` takes one of a
message the claw received, `MaxErrors` times in all.

### Reply

| Spec | Code |
|---|---|
| `offer` | what the host and the account have: the two inbound surfaces, transport wiring, outbox |
| `at`, `phase` | the closure's loop over the chain and the await it is at |
| `complete`, `failures` | the reply dispatcher's flag and failure counters |
| `part[r, k]` | the promise of the text (k = 0) or of the k-th file of reply r, and how it settled |
| `awaited` | the promises `waitForIdle` was called with |
| `Primary`, `Chain` | `pickDispatchStrategy`, `buildFallbackChain` |
| `Call`, `HostResolves`, `HostThrows`, `Idle` | `runStrategy` and the loop of `buildDispatcher` |
| `HandReply`, `Loaded`, `Sent` | a `send*Reply` of the host, `sendOneMedia` after its file is read, `sendChunks` |

The host is external: it hands replies whenever it holds the dispatcher, also
after its call has resolved or thrown. What sending does to the queue is Outbox.
`failures` is the sum over the three kinds; the queued counts are the accepted
calls.

### Chunking, Greedy

A text is known by its sizes: the UTF-8 bytes and the JSON-escaped bytes of each
prefix, and where a UTF-16 pair could be cut. A payload is its length, its
metadata's length and whether its base64 is escaped by the phone's encoder.
`Begin`, `Search` and `Cut` are the loop around the binary search of `chunkText`
and `Wire.chunk`, `Fill` the loop of both `chunkMedia`; `Room`, `FirstHead`,
`MediaRoom`, `SrcBytes` what they measure beforehand; `Envelope` what `encode`
sees in the end, with the digits of `seq` and `total` (`Numbers`) and the hmac
that `sendEnvelope` adds. A number has as many digits as there are `Powers` up
to it, so an instance may count in a small base and reach numbers longer than
the sample and the margin provide for (`Surplus`). In the code that takes 100000
pieces: 6 + 6 digits where the sample and the margin hold 3 + 8. The sides
differ in the unit they cut by (UTF-16 code units, characters), the upper bound
of the search, the margins and the least room. Everything numeric is a constant:
the instance has a limit of a few dozen bytes, the theorems hold for 1024.

`Greedy` is the definition of cutting: at any boundary the next piece is the
longest that fits, or one unit when none does. Chunking implements it.

### Connection

| Spec | Code |
|---|---|
| `conn`, `state`, `made` | `Conversation.connection`, `Conversation.state`, how many connections were made |
| `pilot`, `ready`, `gen` | `pilot`, `isReady`, `restartGeneration` of each PilotConnection |
| `begun`, `on` | the Tasks begun by `connect`, `refresh` and `forceReset`, and the connection each holds |
| `task`, `at`, `tries` | where a Task is, its local `p`, the attempts it has left |
| `live`, `wedged` | daemons that run, and those whose stop threw |
| `basename` | the generation in the socket name of each daemon |
| `Connect`, `Refresh`, `ForceReset`, `Disconnect` | the methods of those names, up to their Task |
| `Reconnect`, `Restart`, `Start` | `tearDownDaemon` and the grace period; `restartGeneration += 1`; `Pilot.start` |
| `Retry`, `Shake`, `Grant` | `retryHandshake` up to its loop; one attempt of either loop; `isReady = true` |
| `Won`, `Lost`, `Escalate` | the Task back on the main actor |
| `Ends` | it lets go of its connection; if nobody else holds that, `deinit` |

A Task survives `disconnect` and goes on with the object it holds. `refresh` and
`forceReset` ask only whether there is a connection, the menu's "Force restart
daemon" is never disabled (`ContentView.swift:198-202`), and the watchdog calls
`refresh` at any time. So several Tasks may start, tear down and restart the
daemon of one PilotConnection, and they do here. What then goes wrong in the code
goes wrong in the model. The second `start` overwrites `self.pilot`, and the first
daemon runs on with nobody to stop it (`overwritten` collects these). A grant that
comes after the other Task's teardown sets `isReady` on a connection without a
daemon, and the next start makes it one that is ready before its handshake and for
which no drain is due. And two restarts that both wait out their grace period
before either starts use the same generation, although the field is there to give
each daemon "a unique IPC socket basename" (`PilotConnection.swift:157-161`).

`PilotConnection`'s fields are not synchronised. The code a Task runs between two
calls of the SDK, sleeps or returns to the main actor is one step, so torn updates
within such a stretch are not shown. A stopped daemon is never counted as having
let go of its socket. The Tasks that send do hold their connection in the code,
but not here: `deinit` may come later than in the model.

Not modelled is the life of the receive loop. A start that is granted begins it,
and any error of `receive` ends it with `isReady` as it was
(`PilotConnection.swift:294-299`); after a `retryHandshake` of a failed start there
is none. So `ready` says that the phone sends, not that it hears. What the loop does
with a datagram is PhoneInbound.

### PhoneInbound

| Spec | Code |
|---|---|
| `conn`, `made` | `Conversation.connection`, how many were made |
| `parts`, `seen` | `reassembler` and `mediaReassembler`; `seenIds` |
| `stream`, `hand`, `listening` | the buffer of `incomingMessages`, the message its listener carries to the main actor, the listeners that iterate |
| `screen` | the claw's bubbles in `messages` |
| `Gather`, `Complete` | `handleDatagram` of a chunk that leaves its message incomplete, or completes it: `push`, the duplicate test, `markSeen`, `yield` |
| `MarkSeen` | `markSeen`, whose halving keeps an arbitrary half |
| `Take`, `AppendIncoming`, `Cease` | the `for await` of the listener, `appendIncoming`, the end of a cancelled iteration |
| `Connect`, `Disconnect` | what `connect` and `disconnect` do to these |

Texts and media differ only in their reassembler, and an id belongs to one kind.
AsyncStream is external: whether a cancelled listener still gets what is
buffered is left open. `heard` and `forgotten` are history variables.

## What is checked

Every passing run has properties that a named change of the code violates (the
`mutants` of `PROJECT.json`; the changed operators stand beside the originals,
marked "Mutant").

| Run | Instance | Shows |
|---|---|---|
| `outbox_pilot` | 2 peers, 3 messages, one of 2 chunks, cap 2, 1 crash, 1 throwing save, 1 drain | `TypeOK`, `Retained`, `KeepsPromises` (refinement) over PilotTransport |
| `outbox_any` | 1 peer, 2 messages (3 entries for a cap of 2), 2 concurrent drains, 1 crash | `CapHolds`, `AgeOrdered`, `EventuallyDrained` over any transport |
| `inbound_media` | 2 attachments, one above the caps, 2 handlers, no secret, 1 crash, 1 failing write | `TypeOK`, `AcceptedWhole`, `NoneSwallowed` |
| `inbound_text` | a text of 2 chunks sent twice, an allowlisted control envelope, 2 handlers under a secret, phone clock ahead | `OncePerWindow`, `NoGhostParts`, `HeldBriefly` |
| `lifecycle_starts` | 2 accounts, 2 edits, the second removes one | `MapIsLive`, `NeverForgotten`, `EventuallyRuns` |
| `lifecycle_twice` (violation) | 1 account, 1 edit | `OnePipeline` fails |
| `phone` | a typed message and a connection test, 2 drains, 1 error of the claw, 1 kill | `TypeOK`, `Attended`, `Honest`, `Persisted`, `NeverBack`, `Settles` |
| `reply` | two replies of text and one of two files, each with words or without, every host and wiring | `TypeOK`, `SettledAtReturn`, `NoLateAnswers` |
| `codec` | texts with wide, escaped and paired units and payloads, both sides, with and without a secret, numbers in base 2 | `TypeOK`, `Seamless`, `OverByUnmeasured`, `CutsGreedily` (refinement) |
| `codec_fits` (violation) | texts that are split, of plain units, so that nothing is escaped; an hmac of 6 bytes against a margin of 3, decimal numbers | `EnvelopesFit` fails |
| `connection` | 2 connections, 3 Tasks, 2 attempts, 1 stop that throws | `TypeOK`, `NoOrphans`, `FreshWithin`, `Concludes` |
| `phone_inbound` | 3 messages, one of 2 chunks, 2 remembered ids, 1 halving, 2 connections | `TypeOK`, `ShownWhole`, `ShownOnce`, `NoneMissed` |

The bounds. Overlap needs two of everything: two drains, two handlers, two
reloads (two edits) and two accounts in one loop. An eviction needs one entry
more than the cap, an expiry one instant more than the lifetime (`Ttl = 0` with
two instants), an index that skips needs a list of two with a push between. A
dedupe window of one unit with four instants lets an acceptance, its window, its
collection and a second acceptance happen. Two chunks are the least for which
reordering, loss and mixing of resends differ. Handler activations are
interchangeable and no property names one, so `inbound_*` use symmetry, and so
does `phone_inbound` for its messages of one chunk, all without liveness. On the
phone, two drains give a message two Tasks at once and a drain that meets the
Tasks of an earlier connection. Of replies it takes two single parts and one of
several for a late payload, an early one and a file that is still loading to
meet. The limit of `codec` is 44 bytes and its margins are scaled with it; a
text is up to three runs of six equal units, so that a run of wide, escaped or
paired units begins and ends anywhere in a piece, and a unit may be wider than
an envelope. In `codec_fits` a full chunk is 20 bytes of head, 2 digits, 18
bytes of text and the hmac's 6: 46 in all. Two connections let a Task outlive
its `disconnect` and meet the next connection's; three Tasks let two recoveries
of a connection overlap after its first start, with a daemon for each; two
attempts let a handshake fail once, and then for good. Three ids for a memory of
two make the phone forget one and show it again, and a second connection meets
the listener of the first. Every system may stop (bounded clock, edits, sends
and connections; a message dispatched, a text cut), so deadlock is not checked.

Fairness. Outbox: an awaited send settles and its loop goes on (weak fairness of
the sender and of the drain's steps), the interval timer keeps firing while a
drain pass is free (strong, since the turn is taken and freed again and again),
and a crashed process is started again. Nothing is assumed of the network; the
premise of `EventuallyDrained` says that the peer stays reachable, and the run
has no failing saves. Lifecycle: timers fire, an awaited stop ends, and a
transport that is started again and again starts in the end (strong fairness of
`Started`: the daemon comes up; a start may fail any finite number of times).
Inbound has safety properties only; its clock is urgent instead. Conversation:
turns that are due on the main actor run and a send ends (weak fairness); the
connection owes nothing, and the premise of `Settles` says that it stays ready.
Connection: a Task goes on, since the SDK's calls have timeouts and the sleeps
are finite; nothing is assumed of a handshake's answer. Reply, Chunking and
PhoneInbound have safety properties only.

Disagreements between the code and what its texts say, each with a run:

- `lifecycle_twice`: a start in flight at a reload ends in a second pipeline
  beside the one of the reload, with a second Outbox on the same file.
- `codec_fits`: the phone cuts a text to fill the limit but for 8 bytes and then
  signs each envelope, which takes about 54, so under a secret a full chunk of a
  split text is refused by `encode` and a long text cannot be sent. The run's texts
  have nothing to escape. That both sides measure a text's bytes before JSON
  escapes them is the other way to exceed the limit, and the digits beyond the
  margin the third: `OverByUnmeasured` says that there is no more to it.

Others met on the way have no run, and stand under `hazards` with a note: the ack
that precedes the scan, the media reassembler nobody collects, the retry timer
that keeps an old configuration, the reply that fails in no counter, the socket
of a new connection (its restart generation begins at 0, where a daemon of the
connection before may still be bound; `FreshWithin` is about one connection),
a delivered bubble that an error turns into a failed one, and all that
overlapping recoveries do (see Connection), of which `NoOrphans` says that a
displaced daemon is the only kind left running besides one whose stop threw.

## What is proved

For every value of the constants within the modules' named assumptions
(`OutboxAssumption`, `InboundAssumption`, `LifecycleAssumption`,
`ConversationAssumption`, `ReplyAssumption`, `ConnectionAssumption`,
`PhoneInboundAssumption`: typing of the constants, cap and GC interval positive,
at least one chunk per message; `ChunkingAssumption`: what the sizes of a text
are, and that the limit leaves room for the heads of the samples, the margins
and the least room).

`OutboxProofs`
- `TypeCorrect`: `TypeOK`, with `SendingOK` (a drain that awaits a send has an
  entry in flight).
- `PromisesRetained`, under `SettlesInTurn`: `Retained`. Not inductive, since a
  drain overwrites the list. `TurnInv` says a drain has the turn alone, with the
  live array; `CoverInv` that its survivors, the entry in flight, the rest of
  the array and what was discharged cover the list; `KeptInv` extends the
  promise to the chunks a caller has stashed so far; `FreshInv` that a list has
  only stashed chunks, so that the duplicate test never skips a save.
- `ImplementsDurableQueue`, under `SettlesInTurn`: `KeepsPromises`, from the same
  invariant. Each drain step only sheds what is accounted for (`OnlyLoses`); an
  enqueue puts one chunk of its own message (`EnqueueLists`, with `Numbered` for
  the caller's position), and by `FreshInv` never skips the save of the last one.
- `DurableQueueRetains`: whatever implements DurableQueue has `Retained`. The
  abstract invariant `Kept` is inductive there, which shows that the abstract
  specification promises no less than the property.
- `OldestFirst`, over any transport: `AgeOrdered`. `AgeInv` relates the three
  parts of a drain: what it has kept is older than the entry in flight, and that
  one than every position not yet read (`Younger`), although pushes shift the
  array meanwhile; it also orders the file, which a restart reads back.
- `CapNeverExceeded`, over any transport: `CapHolds`. `CapInv` adds that a
  drain's survivors are fewer than the positions it has read and that the array
  it reads is at least that long: a push at the cap replaces what it shifts out.

`InboundProofs`
- `TypeCorrect`: `TypeOK`.
- `AcceptsOncePerWindow`: `OncePerWindow`. `Window` adds that an accepted id is
  in `recent` until its window is over (`Remembered`), that `recentOrder` names
  only ids of `recent`, each once (`OrderMatches`), and that the time there is
  that of the id's last acceptance (`OrderIsLatest`), so that the collection of
  an entry cannot open a window too early.
- `AcceptsWhole`: `AcceptedWhole`, with `HeldWasSeen`: what a reassembler holds
  was delivered in this life of the process.
- `LeavesNoGhosts`: `NoGhostParts`, inductive with the types.
- `SwallowsNone`: `NoneSwallowed`, inductive with the types: every branch of
  `Handle` keeps what was handled and accepts only what it hands on
  (`HandleIsCareful`).
- `HoldsBriefly`: `HeldBriefly`. `InDate` says what the last collection left:
  nothing too old for it, by the phone's clock for a text and in the order of
  the ids for `gcRecent`, which stops at the first fresh one; `TimerSet` that the
  clock has not passed the next one; and `OfThePast` that a datagram bears a time
  at which the phone's clock has stood, so that a text cannot look younger than
  `Ahead` makes it.

`LifecycleProofs`
- `TypeCorrect`, `MapAlwaysLive`, `NobodyForgotten`: `TypeOK`, `MapIsLive` and
  `NeverForgotten` are inductive together; `ProceedKeeps` is the lemma about the
  loop of `startAll`, which deals with several accounts in one turn. `TypeOK` has
  no run of its own; these proofs need it.

`ConversationProofs`
- `TypeCorrect`: `TypeOK`, with its bound on the send Tasks of a message
  (`OneEach`): a step moves a Task on (`CountedMove`), or makes one and uses up a
  drain or the message's making.
- `NobodyLeftBehind`: `Attended` is inductive with the types.
- `TellsTheTruth`, `SurvivesKills`, `NoDowngrade`: `Honest`, `Persisted` and
  `NeverBack` from one invariant. It adds that a Task whose send was accepted
  has handed its message over (`Accepted`), that an id not typed is not in
  messages (`Untyped`), and that the file differs from the screen in new pings
  only (`FileLags`), without which a kill could take a delivered bubble back.

`ReplyProofs`
- `TypeCorrect`, `WaitsForAnswers`, `ClosedBehind`: `TypeOK`,
  `SettledAtReturn`, `NoLateAnswers` from one invariant. `Begun`
  says that the parts of a reply taken before the host's call resolved have
  begun, so the snapshot of `waitForIdle` covers them (`Covered`); `Placed` ties
  the flag to the place in the chain. `Chains` lists the four chains there are.

`ChunkingProofs`
- `TypeCorrect`, `Joins`: `TypeOK`, `Seamless`. `Searching` is the invariant of
  the binary search: the piece below `lo` fits and is `best`, and no
  piece above `hi` fits, by the monotony of a slice's bytes (`Slices`).
- `ImplementsGreedy`: `CutsGreedily`, from the same: when the range is empty,
  `best` is the longest that fits.
- `OverOnlyByUnmeasured`: `OverByUnmeasured`, for any limit and any number of
  pieces; `Base64Fits` bounds a payload's base64, `SurplusCounts` says that the
  digits are those provided for and the surplus.

`ConnectionProofs`
- `TypeCorrect`, `Accounted`: `TypeOK` and `NoOrphans`, inductive together with
  `Sound`. The lemma `Others` carries `NoOrphans` through a teardown: what runs after it
  belongs to other connections. A daemon is one of `pilot`, or was displaced there.
- `RestartsFresh`: `FreshWithin`, from `Sound`, which speaks of one Task at a time
  and so survives any overlap: a Task not begun has left no trace (`Known`), one
  before its start has no name yet (`Unnamed`), a name is of a generation there was
  (`Named`), and the names a restart found are of an earlier generation than the
  one it starts with (`Found`), whoever else has raised it meanwhile.

`PhoneInboundProofs`
- `TypeCorrect`, `ShowsWhole`, `ShowsOnce`, `MissesNone`: `TypeOK`, `ShownWhole`,
  `ShownOnce`, `NoneMissed` from one invariant. Of a message it has not passed on,
  the connection holds exactly the chunks it has heard (`Held`), and it knows
  every id it passed on or has forgotten it (`Known`), so a message is complete
  when its last chunk is heard and not before. `Single` says that between the
  loop and the screen a message is in one place, unless it was forgotten; the
  other conjuncts are about whole messages (`TellsWhole`) and connections still
  to be made (`Unmade`).

Only model-checked: `EventuallyDrained`, `EventuallyRuns`, `Settles` and
`Concludes`, since liveness under fairness is out of this prover's reach. The two
violated properties are checked only, of course.

## What is not modelled

The life of the phone's receive loop, the way of a message from one end to the
other with its ack, and the worker thread below PilotTransport are planned (see
above); what is known of their weak points stands under `hazards`. A write of
messages.json that fails is not modelled: `save` gives up and the next change
tries again.

Left out for good: address forms, target resolution and config parsing (functions
on strings, without state but a cached directory and a last-heard network),
HMAC digests, JSON and base64 beyond their sizes, file names and MIME types, the
AEGIS subprocess beyond its answer, the daemon and the overlay network beyond
loss, duplication and order, the phone's views, profiles and notifications, the
plugin's status report, and logging. An unreadable file in `Outbox.load` and an
invalid openclaw.json in the watcher are not modelled: the code logs and goes on
with an empty list, respectively the running accounts.
