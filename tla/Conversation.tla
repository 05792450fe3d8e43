----------------------------- MODULE Conversation ---------------------------
(***************************************************************************)
(* The phone's side of a message: the delivery states of the user's        *)
(* messages, their sends and resends, and the history file                 *)
(* (Conversation.swift, MessageStore.swift).                               *)
(*                                                                         *)
(* Everything here runs on the main actor except PilotConnection.send,     *)
(* which each send awaits in a Task of its own.  So the Tasks of a message *)
(* report in any order among themselves, with the acks and the errors of   *)
(* the claw, and with the next drain.  The connection is reduced to what a *)
(* send sees of it: there is none, it is not ready, or it is ready.  The   *)
(* Task that makes it ready calls drainOutbox in a later turn.  That is so *)
(* when one Task at a time works on a connection; two that overlap (see    *)
(* Connection) can leave it ready without a drain, which is assumed away   *)
(* here.                                                                   *)
(***************************************************************************)
EXTENDS Naturals, FiniteSets

CONSTANTS
  Msgs,       \* messages of the user, each with its own id
  Pings,      \* those that testConnection makes
  MaxUps,     \* bound: times the connection becomes ready, or another drain is due
  MaxErrors,  \* bound: error envelopes that arrive
  MaxKills    \* bound: times the system kills the app

ASSUME ConversationAssumption ==
  /\ Pings \subseteq Msgs
  /\ MaxUps \in Nat /\ MaxErrors \in Nat /\ MaxKills \in Nat

VARIABLES
  delivery,   \* ChatMessage.delivery; "none" while messages has no such id
  saved,      \* the same in messages.json
  tasks,      \* how many send Tasks a message has in each stage
  link,       \* "absent": connection is nil; else whether conn.isReady
  due,        \* calls of drainOutbox on their way to the main actor
  handed,     \* messages the daemon took whole, so the network may deliver
  got,        \* messages the claw received, whose acks the network may deliver
  typed,      \* history: messages the user made
  ups, errors, kills  \* the counters behind the bounds

memory == <<delivery, tasks, link, due>>
network == <<handed, got>>
counters == <<ups, errors, kills>>
vars == <<memory, saved, network, typed, counters>>

States == {"none", "sending", "sent", "delivered", "failed"}
\* A Task before its send; and, until it reports, the send's outcome: every
\* envelope taken, notStarted thrown, or another error thrown.
Stages == {"queued", "accepted", "refused", "broken"}

Init ==
  /\ delivery = [m \in Msgs |-> "none"]
  /\ saved = delivery
  /\ tasks = [x \in Msgs \X Stages |-> 0]
  /\ link = "absent"
  /\ due = 0
  /\ handed = {} /\ got = {}
  /\ typed = {}
  /\ ups = 0 /\ errors = 0 /\ kills = 0

-----------------------------------------------------------------------------
\* The delivery state of a bubble.

\* Mutant: all states rank alike.
RankFlat(s) == 1
Rank(s) == CASE s = "sending" -> 1
             [] s = "sent" -> 2
             [] s = "delivered" -> 3
             [] s = "failed" -> 4
             [] OTHER -> 0

\* An id that is not in messages is ignored; a state never goes down.
Takes(m, s) == delivery[m] # "none" /\ Rank(s) >= Rank(delivery[m])

\* Mutant: the change is not written to the file.
UpdateUnsaved(m, s) ==
  IF Takes(m, s)
    THEN /\ delivery' = [delivery EXCEPT ![m] = s]
         /\ UNCHANGED saved
    ELSE UNCHANGED <<delivery, saved>>
UpdateDelivery(m, s) ==
  IF Takes(m, s)
    THEN /\ delivery' = [delivery EXCEPT ![m] = s]
         /\ saved' = delivery'
    ELSE UNCHANGED <<delivery, saved>>

\* Mutants: a send that found no connection counts as sent; one that threw
\* leaves the message waiting.
StateForAbsent(stage) ==
  [accepted |-> "sent", refused |-> "sent", broken |-> "failed"][stage]
StateForWaiting(stage) ==
  [accepted |-> "sent", refused |-> "sending", broken |-> "sending"][stage]
\* What a Task reports; notStarted leaves the message to the next drain
\* (deliveryStateForSendError).
StateFor(stage) ==
  [accepted |-> "sent", refused |-> "sending", broken |-> "failed"][stage]

-----------------------------------------------------------------------------
\* The user's messages.

\* send, sendAttachment and testConnection: append, save (not for a ping) and,
\* when the connection is ready, start a Task.
Type(m) ==
  /\ m \notin typed
  /\ m \in Pings => link = "up"
  /\ typed' = typed \cup {m}
  /\ delivery' = [delivery EXCEPT ![m] = "sending"]
  /\ saved' = IF m \in Pings THEN saved ELSE delivery'
  /\ tasks' = IF link = "up" THEN [tasks EXCEPT ![<<m, "queued">>] = @ + 1]
                             ELSE tasks
  /\ UNCHANGED <<link, due, network, counters>>

\* Mutant: only failed messages are sent again.
PendingFailed == { m \in Msgs : delivery[m] = "failed" }
Pending == { m \in Msgs : delivery[m] \in {"sending", "failed"} }

\* Mutant: a message with an attachment goes out on the text path, too.
ResentTwice ==
  [x \in Msgs \X Stages |->
     IF x[1] \in Pending /\ x[2] = "queued" THEN tasks[x] + 2 ELSE tasks[x]]
Resent ==
  [x \in Msgs \X Stages |->
     IF x[1] \in Pending /\ x[2] = "queued" THEN tasks[x] + 1 ELSE tasks[x]]

\* drainOutbox: back to sending, and one more Task for each.
DrainOutbox ==
  /\ due > 0
  /\ due' = due - 1
  /\ IF link = "up"
       THEN /\ delivery' = [m \in Msgs |-> IF m \in Pending THEN "sending"
                                                            ELSE delivery[m]]
            /\ saved' = IF Pending = {} THEN saved ELSE delivery'
            /\ tasks' = Resent
       ELSE UNCHANGED <<delivery, saved, tasks>>
  /\ UNCHANGED <<link, network, typed, counters>>

Moves(m, from, to) ==
  tasks' = [tasks EXCEPT ![<<m, from>>] = @ - 1, ![<<m, to>>] = @ + 1]

\* PilotConnection.send, off the main actor.  One that throws half-way leaves
\* the claw with a message that lacks its last chunk.
Transmit(m) ==
  /\ tasks[<<m, "queued">>] > 0
  /\ \/ /\ link = "up"
        /\ Moves(m, "queued", "accepted")
        /\ handed' = handed \cup {m}
     \/ /\ link = "up"
        /\ Moves(m, "queued", "broken")
        /\ UNCHANGED handed
     \/ /\ link # "up"
        /\ Moves(m, "queued", "refused")
        /\ UNCHANGED handed
  /\ UNCHANGED <<delivery, saved, link, due, got, typed, counters>>

\* The Task is back on the main actor.
Report(m, stage) ==
  /\ stage # "queued"
  /\ tasks[<<m, stage>>] > 0
  /\ tasks' = [tasks EXCEPT ![<<m, stage>>] = @ - 1]
  /\ UpdateDelivery(m, StateFor(stage))
  /\ UNCHANGED <<link, due, network, typed, counters>>

-----------------------------------------------------------------------------
\* The claw and the network.

\* The claw acknowledges a message it takes (sendAck).  An ack that is lost, or
\* not sent (a resend within its dedupe window), is one that never arrives.
ClawReceives(m) ==
  /\ m \in handed \ got
  /\ got' = got \cup {m}
  /\ UNCHANGED <<memory, saved, handed, typed, counters>>

\* The listener of connect takes an element of the ack stream.
AckArrives(m) ==
  /\ link # "absent" /\ m \in got
  /\ UpdateDelivery(m, "delivered")
  /\ UNCHANGED <<tasks, link, due, network, typed, counters>>

\* It takes one of the error stream.  This repository's plugin sends no error
\* envelope; the protocol lets a claw send one about a message it received.
ErrorArrives(m) ==
  /\ link # "absent" /\ m \in got
  /\ errors < MaxErrors
  /\ errors' = errors + 1
  /\ UpdateDelivery(m, "failed")
  /\ UNCHANGED <<tasks, link, due, network, typed, ups, kills>>

-----------------------------------------------------------------------------
\* The connection.

Connect ==
  /\ link = "absent"
  /\ link' = "down"
  /\ UNCHANGED <<delivery, tasks, due, saved, network, typed, counters>>

\* start, retryHandshake or reconnect succeeds; its caller drains the outbox.
LinkUp ==
  /\ link = "down" /\ ups < MaxUps
  /\ link' = "up"
  /\ ups' = ups + 1
  /\ due' = due + 1
  /\ UNCHANGED <<delivery, tasks, saved, network, typed, errors, kills>>

\* A drain by hand ("Retry all"), or by a recovery that ends when its
\* connection is no longer this one.
DrainAgain ==
  /\ ups < MaxUps
  /\ ups' = ups + 1
  /\ due' = due + 1
  /\ UNCHANGED <<delivery, tasks, link, saved, network, typed, errors, kills>>

\* retryHandshake begins, or reconnect tears the daemon down.
LinkDown ==
  /\ link = "up"
  /\ link' = "down"
  /\ UNCHANGED <<delivery, tasks, due, saved, network, typed, counters>>

\* disconnect: the Tasks keep the stopped connection, so their sends throw.
Disconnect ==
  /\ link # "absent"
  /\ link' = "absent"
  /\ tasks' = [x \in Msgs \X Stages |->
       CASE x[2] = "queued" -> 0
         [] x[2] = "refused" -> tasks[x] + tasks[<<x[1], "queued">>]
         [] OTHER -> tasks[x]]
  /\ UNCHANGED <<delivery, due, saved, network, typed, counters>>

\* The app is killed, launched again, and loads its history.
Kill ==
  /\ kills < MaxKills
  /\ kills' = kills + 1
  /\ delivery' = saved
  /\ tasks' = [x \in Msgs \X Stages |-> 0]
  /\ link' = "absent" /\ due' = 0
  /\ UNCHANGED <<saved, network, typed, ups, errors>>

Next ==
  \/ \E m \in Msgs : \/ Type(m) \/ Transmit(m)
                     \/ \E stage \in Stages : Report(m, stage)
                     \/ ClawReceives(m) \/ AckArrives(m) \/ ErrorArrives(m)
  \/ DrainOutbox
  \/ Connect \/ LinkUp \/ DrainAgain \/ LinkDown \/ Disconnect \/ Kill

\* Turns that are due run, and a send ends.
Fairness ==
  /\ WF_vars(DrainOutbox)
  /\ \A m \in Msgs : /\ WF_vars(Transmit(m))
                     /\ \A stage \in Stages : WF_vars(Report(m, stage))

Spec == Init /\ [][Next]_vars
FairSpec == Spec /\ Fairness

-----------------------------------------------------------------------------
\* Properties.

Types ==
  /\ delivery \in [Msgs -> States] /\ saved \in [Msgs -> States]
  /\ tasks \in [Msgs \X Stages -> Nat]
  /\ link \in {"absent", "down", "up"}
  /\ due \in Nat /\ ups \in Nat /\ errors \in Nat /\ kills \in Nat
  /\ handed \subseteq Msgs /\ got \subseteq Msgs
  /\ typed \subseteq Msgs

\* The Tasks of a message that have not reported.
Unreported(m) == tasks[<<m, "queued">>] + tasks[<<m, "accepted">>]
                 + tasks[<<m, "refused">>] + tasks[<<m, "broken">>]
OneEach == \A m \in Msgs :
  Unreported(m) + due <= ups + (IF m \in typed THEN 1 ELSE 0)

\* The variables have their types, and a message has no more Tasks than one for
\* its making and one for each drain there was.
TypeOK == Types /\ OneEach

\* No message is left behind: while the connection is ready and no drain is on
\* its way, a bubble that says "sending" has a Task that will settle it, after
\* any interleaving of sends, refusals, reconnects and drains (the notStarted
\* case of deliveryStateForSendError relies on it).
Attended ==
  link = "up" /\ due = 0 =>
    \A m \in Msgs : delivery[m] = "sending" =>
      \E stage \in {"queued", "accepted", "broken"} : tasks[<<m, stage>>] > 0

\* What a bubble says has happened: "sent" means that the daemon took every
\* envelope in one of the message's sends, "delivered" that the claw had it.
Honest ==
  \A m \in Msgs : /\ delivery[m] = "sent" => m \in handed
                  /\ delivery[m] = "delivered" => m \in got

\* A kill of the app loses no message and no progress of one: the file holds
\* what the screen shows of everything the user typed (saveToStore).
Persisted ==
  \A m \in typed \ Pings : saved[m] # "none" /\ saved[m] = delivery[m]

\* "Otherwise, never downgrade": no turn of the phone takes a delivered bubble
\* to anything but failed, late reports and drains included.
NeverBack ==
  [][\A m \in Msgs : delivery[m] = "delivered" =>
       delivery'[m] \in {"delivered", "failed"}]_vars

\* Once the connection stays ready, every message leaves "sending", also one
\* whose send was refused during an earlier outage.
Settles ==
  \A m \in Msgs : <>[](link = "up") => []<>(delivery[m] # "sending")
=============================================================================
