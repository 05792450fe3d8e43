---------------------------- MODULE DurableQueue ----------------------------
(***************************************************************************)
(* What the outbox owes its callers.  A message a caller offers is put     *)
(* item by item into a queue in memory, of which a file holds a copy that  *)
(* may lag behind.  An item leaves the queue only when it is accounted     *)
(* for: sent, out of date or pushed out.  The caller is told that its      *)
(* message is queued only when nothing of it depends on memory.            *)
(***************************************************************************)
CONSTANTS
  Msgs,     \* what callers offer
  ItemsOf   \* [Msgs -> sets]: what is queued of each

VARIABLES
  live,      \* items in memory
  file,      \* items in the file
  gone,      \* items accounted for
  offered,   \* messages whose callers wait for an answer
  promised,  \* messages whose callers were told they are queued
  up         \* the process runs

vars == <<live, file, gone, offered, promised, up>>

Init ==
  /\ live = {} /\ file = {} /\ gone = {}
  /\ offered = {} /\ promised = {}
  /\ up = TRUE

\* Memory gains nothing but new, and loses only what is accounted for.
Changes(new) ==
  /\ live' \subseteq live \cup new
  /\ (live \cup new) \ live' \subseteq gone'
  /\ gone \subseteq gone'

Offer(m) ==
  /\ up /\ m \notin promised
  /\ offered' = offered \cup {m}
  /\ UNCHANGED <<live, file, gone, promised, up>>

Promise(m) ==
  /\ ItemsOf[m] \subseteq live' \cup gone'
  /\ offered' = offered \ {m}
  /\ promised' = promised \cup {m}

\* One item of an offered message; when the write fails the caller is told so.
Put(m) ==
  /\ up /\ m \in offered
  /\ \E i \in ItemsOf[m] : Changes({i})
  /\ \/ file' = live' /\ (Promise(m) \/ UNCHANGED <<offered, promised>>)
     \/ file' = file /\ offered' = offered \ {m} /\ UNCHANGED promised
  /\ UNCHANGED up

Discharge ==
  /\ up
  /\ Changes({})
  /\ file' \in {file, live'}
  /\ UNCHANGED <<offered, promised, up>>

Crash ==
  /\ up' = FALSE
  /\ live' = {} /\ offered' = {}
  /\ UNCHANGED <<file, gone, promised>>

Restart ==
  /\ ~up /\ up' = TRUE
  /\ live' = file
  /\ UNCHANGED <<file, gone, offered, promised>>

Next == (\E m \in Msgs : Offer(m) \/ Put(m)) \/ Discharge \/ Crash \/ Restart

Spec == Init /\ [][Next]_vars

\* What callers get from it: no item of a promised message is lost, whether the
\* process lives on or crashes.
Kept ==
  \A m \in promised :
    /\ ItemsOf[m] \subseteq file \cup gone
    /\ up => ItemsOf[m] \subseteq live \cup gone
=============================================================================
