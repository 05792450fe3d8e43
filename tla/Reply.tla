-------------------------------- MODULE Reply --------------------------------
(***************************************************************************)
(* How one accepted message is handed to the host and how the host's       *)
(* replies leave: the strategy chain of plugin/src/dispatch.ts and the     *)
(* per-message ReplyDispatcher of plugin/src/reply-dispatcher.ts.          *)
(*                                                                         *)
(* Every message gets a closure, a dispatcher and counters of its own, so  *)
(* one message is modelled.  The host (openclaw) is the environment: it    *)
(* may call the dispatcher from the moment it has it, also after its own   *)
(* call has settled or thrown.  A step is the code between two awaits.     *)
(* The chunk loop of a send is module Outbox; here only its outcome shows. *)
(***************************************************************************)
EXTENDS Integers, Sequences, FiniteSets

CONSTANTS
  Replies,    \* payloads the host may hand to the dispatcher, once each
  Urls        \* [Replies -> Nat]: the distinct media urls of a payload

ASSUME ReplyAssumption == Urls \in [Replies -> Nat]

\* What buildDispatcher may find: the two inbound surfaces of the host, the
\* transport wiring (replyDeps) and, in it, the outbox.
Surfaces == {"reply", "inject"}
Offers == Surfaces \cup {"wired", "outbox"}

VARIABLES
  offer,      \* what this host and account have, fixed at boot
  blank,      \* payloads without text
  at,         \* the closure's position in the chain
  phase,      \* "call": next strategy; "host": awaiting it; "idle"; "returned"
  complete,   \* the dispatcher's flag
  taken,      \* payloads whose send* call was accepted
  part,       \* the promises in pending, by part, and how they settled
  awaited,    \* the parts waitForIdle waits for
  failures,   \* getFailedCounts, summed over the kinds
  early       \* history: payloads taken before the host's call resolved

vars == <<offer, blank, at, phase, complete, taken, part, awaited, failures, early>>

(***************************************************************************)
(* pickDispatchStrategy and buildFallbackChain.                            *)
(***************************************************************************)
Primary == IF "reply" \in offer THEN "reply"
           ELSE IF "inject" \in offer THEN "inject" ELSE "log"
FallsBack == Primary = "reply" /\ "inject" \in offer
\* Mutant: log-only is not put at the end.
ChainOpenEnded == IF FallsBack THEN <<Primary, "inject">> ELSE <<Primary>>
Chain == IF Primary = "log" THEN <<"log">>
         ELSE IF FallsBack THEN <<Primary, "inject", "log">> ELSE <<Primary, "log">>
Strategy == Chain[at]

(***************************************************************************)
(* dispatch: a payload with urls makes one promise for each of them (the   *)
(* text travels as their caption), one with only text a single promise,    *)
(* and an empty one none.                                                  *)
(***************************************************************************)
Text(r) == <<r, 0>>
Parts == UNION { {r} \X (0..Urls[r]) : r \in Replies }
Medias(r) == {r} \X (1..Urls[r])
PartsOf(r) == IF Urls[r] > 0 THEN Medias(r)
              ELSE IF r \in blank THEN {} ELSE {Text(r)}
Pending == { p \in Parts : part[p] # "none" }
Settled(p) == part[p] \in {"sent", "queued", "failed"}

Init ==
  /\ offer \in SUBSET Offers
  /\ blank \in SUBSET Replies
  /\ at = 1 /\ phase = "call"
  /\ complete = FALSE
  /\ taken = {} /\ early = {}
  /\ part = [p \in Parts |-> "none"]
  /\ awaited = {}
  /\ failures = 0

\* The closure awaits the strategy at its position; log-only just returns.
Call ==
  /\ phase = "call"
  /\ phase' = IF Strategy = "log" THEN "returned" ELSE "host"
  /\ UNCHANGED <<offer, blank, at, complete, taken, part, awaited, failures, early>>

\* The host has the dispatcher once dispatchReplyFromConfig was called.
HasDispatcher == Primary = "reply" /\ (at > 1 \/ phase # "call")

\* A wired dispatcher takes no more once it is marked complete.
Open == complete => "wired" \notin offer

\* sendToolResult, sendBlockReply, sendFinalReply.  An encoding that throws
\* (an envelope above the limit) rejects a promise nobody looks at: the part
\* is over, and in no counter.  Without wiring the payload is dropped.
HandReply(r) ==
  /\ HasDispatcher /\ r \notin taken
  /\ Open
  /\ taken' = taken \cup {r}
  /\ early' = IF at = 1 /\ phase = "host" THEN early \cup {r} ELSE early
  /\ \/ /\ "wired" \notin offer \/ PartsOf(r) = {}
        /\ UNCHANGED part
     \/ /\ "wired" \in offer /\ PartsOf(r) # {}
        /\ \E first \in {"sending", "failed"} :
             part' = [p \in Parts |-> IF p \notin PartsOf(r) THEN part[p]
                                      ELSE IF p[2] = 0 THEN first ELSE "loading"]
  /\ UNCHANGED <<offer, blank, at, phase, complete, awaited, failures>>

\* sendOneMedia goes on after loadMediaBytes: a file that cannot be read is
\* counted, an envelope that cannot be encoded is not.
Loaded(p) ==
  /\ part[p] = "loading"
  /\ \/ part' = [part EXCEPT ![p] = "sending"] /\ UNCHANGED failures
     \/ part' = [part EXCEPT ![p] = "failed"] /\ failures' \in {failures, failures + 1}
  /\ UNCHANGED <<offer, blank, at, phase, complete, taken, awaited, early>>

\* sendChunks ends.  The first rejected send stashes the whole part when there
\* is an outbox (its save may throw, uncounted), and counts a failure if not.
Sent(p) ==
  /\ part[p] = "sending"
  /\ \/ part' = [part EXCEPT ![p] = "sent"] /\ UNCHANGED failures
     \/ /\ "outbox" \in offer
        /\ \E end \in {"queued", "failed"} : part' = [part EXCEPT ![p] = end]
        /\ UNCHANGED failures
     \/ /\ "outbox" \notin offer
        /\ part' = [part EXCEPT ![p] = "failed"] /\ failures' = failures + 1
  /\ UNCHANGED <<offer, blank, at, phase, complete, taken, awaited, early>>

(***************************************************************************)
(* runStrategy and the closure's loop.                                     *)
(***************************************************************************)
\* The awaited host call resolves; dispatchReplyFromConfig is followed by
\* waitForIdle, which waits for the promises pending now.
\* Mutant: the sends are not waited for.
SnapshotEmpty == {}
Snapshot == Pending
HostResolves ==
  /\ phase = "host"
  /\ \/ /\ Strategy = "reply"
        /\ phase' = "idle" /\ awaited' = Snapshot
     \/ /\ Strategy = "inject"
        /\ phase' = "returned" /\ UNCHANGED awaited
  /\ UNCHANGED <<offer, blank, at, complete, taken, part, failures, early>>

\* It throws: finally runs markComplete, waitForIdle is skipped, and the loop
\* falls through to the next strategy.
\* Mutant: markComplete stands after the try instead of in finally.
ClosedByThrowNever == complete
ClosedByThrow == complete \/ Strategy = "reply"
HostThrows ==
  /\ phase = "host"
  /\ complete' = ClosedByThrow
  /\ at' = at + 1 /\ phase' = "call"
  /\ UNCHANGED <<offer, blank, taken, part, awaited, failures, early>>

Idle ==
  /\ phase = "idle"
  /\ \A p \in awaited : Settled(p)
  /\ complete' = TRUE /\ phase' = "returned"
  /\ UNCHANGED <<offer, blank, at, taken, part, awaited, failures, early>>

Next ==
  \/ Call \/ HostResolves \/ HostThrows \/ Idle
  \/ \E r \in Replies : HandReply(r)
  \/ \E p \in Parts : Loaded(p) \/ Sent(p)

Spec == Init /\ [][Next]_vars

-----------------------------------------------------------------------------
(***************************************************************************)
(* Properties.                                                             *)
(***************************************************************************)
\* Every variable has its type; in particular the chain is never exhausted,
\* since it ends with a strategy that cannot throw.
TypeOK ==
  /\ offer \subseteq Offers /\ blank \subseteq Replies
  /\ at \in DOMAIN Chain
  /\ phase \in {"call", "host", "idle", "returned"}
  /\ complete \in BOOLEAN
  /\ taken \subseteq Replies /\ early \subseteq taken
  /\ part \in [Parts -> {"none", "loading", "sending", "sent", "queued", "failed"}]
  /\ awaited \subseteq Parts
  /\ failures \in Nat

\* When the dispatch of a message returns through the reply surface, nothing
\* the host handed over before its call resolved is still on its way: each
\* part was sent, stashed or given up ("so beacon logs / failure reporting see
\* the settled state"), although sends settle in any order and late payloads
\* are still taken while the earlier ones are waited for.
SettledAtReturn ==
  phase = "returned" /\ Strategy = "reply" =>
    \A r \in early : \A p \in PartsOf(r) : "wired" \in offer => Settled(p)

\* Once the closure has fallen through to another strategy, the run that threw
\* cannot start a reply beside it: the peer is not answered twice.
NoLateAnswers ==
  [][at > 1 => \A p \in Parts : part[p] = "none" => part'[p] = "none"]_vars
=============================================================================
