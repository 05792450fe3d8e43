----------------------------- MODULE Connection -----------------------------
(***************************************************************************)
(* How the phone makes, repairs and drops its connection to the claw       *)
(* (PilotConnection.swift and the connection part of Conversation.swift).  *)
(*                                                                         *)
(* connect, refresh, forceReset and disconnect run on the main actor, but  *)
(* the first three start a Task that runs PilotConnection's methods on     *)
(* other threads, blocks in calls of the Pilot SDK, sleeps, and comes back *)
(* to the main actor with its outcome.  Nothing keeps the Tasks apart:     *)
(* refresh and forceReset ask only for a connection, so several Tasks may  *)
(* start and tear down daemons of one PilotConnection; disconnect may stop *)
(* it under them, and connect may make another.  A Task goes on with the   *)
(* object it holds, and reports to the same Conversation.                  *)
(*                                                                         *)
(* What a Task does between two calls of the SDK, sleeps or returns to the *)
(* main actor is one step.  The SDK is external: a handshake can only      *)
(* succeed while its daemon lives, a stop may throw, and a stopped daemon  *)
(* may hold its socket for any time: none is ever counted as released.     *)
(* The receive loop, which the grant of a start begins and any error of    *)
(* receive ends, is not modelled.                                          *)
(***************************************************************************)
EXTENDS Integers, FiniteSets

CONSTANTS
  MaxConns,   \* bound: connections made
  MaxTasks,   \* bound: Tasks begun by connect, refresh and forceReset
  MaxTries,   \* handshakes of one start or retry (maxAttempts)
  MaxWedges   \* bound: stops of a daemon that throw

ASSUME ConnectionAssumption ==
  /\ MaxConns \in Nat /\ MaxTasks \in Nat /\ MaxWedges \in Nat
  /\ MaxTries \in Nat \ {0}

Conns == 1..MaxConns
\* A Task starts one daemon at most, and the daemon is known by it; 0 is none.
Tasks == 1..MaxTasks
None == -1

VARIABLES
  conn,       \* Conversation.connection, 0 for nil
  state,      \* Conversation.state
  made,       \* connections made so far
  begun,      \* Tasks begun so far
  pilot,      \* [Conns -> the daemon in self.pilot]
  ready,      \* [Conns -> isReady]
  gen,        \* [Conns -> restartGeneration]
  on,         \* [Tasks -> the connection it works on]
  task,       \* [Tasks -> where it is]
  at,         \* [Tasks -> the daemon it works on (the local p)]
  tries,      \* [Tasks -> handshakes it has left]
  live,       \* daemons that run
  wedged,     \* daemons whose stop threw
  basename,   \* [Tasks -> the generation in its daemon's socket name, or None]
  \* History:
  before,     \* [Tasks -> the daemons there were when it tore down its connection]
  overwritten \* daemons another start displaced from self.pilot

ui == <<conn, state, made, begun, on>>
fields == <<pilot, ready>>
steps == <<task, at, tries>>
daemons == <<live, wedged>>
names == <<gen, basename>>
history == <<before, overwritten>>
vars == <<ui, fields, steps, daemons, names, history>>

States == {"idle", "connecting", "ready", "error"}
Places == {"none", "start", "shake", "granted", "retry", "reshake", "escalate",
           "teardown", "grace", "won", "lost"}

Init ==
  /\ conn = 0 /\ state = "idle" /\ made = 0 /\ begun = 0
  /\ pilot = [c \in Conns |-> 0] /\ ready = [c \in Conns |-> FALSE]
  /\ gen = [c \in Conns |-> 0]
  /\ on = [t \in Tasks |-> 0] /\ task = [t \in Tasks |-> "none"]
  /\ at = [t \in Tasks |-> 0] /\ tries = [t \in Tasks |-> 0]
  /\ live = {} /\ wedged = {}
  /\ basename = [t \in Tasks |-> None]
  /\ before = [t \in Tasks |-> {}] /\ overwritten = {}

Goes(t, place) == task' = [task EXCEPT ![t] = place]

\* A new Task on connection c.
Begins(c, place) ==
  /\ begun < MaxTasks
  /\ begun' = begun + 1
  /\ on' = [on EXCEPT ![begun + 1] = c]
  /\ Goes(begun + 1, place)
  /\ UNCHANGED <<at, tries>>

-----------------------------------------------------------------------------
\* tearDownDaemon, and deinit.

\* Mutant: the daemon is dropped, not stopped.
NotStopped(d) == UNCHANGED daemons
Stopped(d) ==
  \/ live' = live \ {d} /\ UNCHANGED wedged
  \/ /\ Cardinality(wedged) < MaxWedges
     /\ wedged' = wedged \cup {d} /\ UNCHANGED live

TearDown(c) ==
  /\ IF pilot[c] # 0 THEN Stopped(pilot[c]) ELSE UNCHANGED daemons
  /\ pilot' = [pilot EXCEPT ![c] = 0]
  /\ ready' = [ready EXCEPT ![c] = FALSE]

-----------------------------------------------------------------------------
\* The main actor.

Connect ==
  /\ state = "idle" /\ made < MaxConns
  /\ state' = "connecting"
  /\ made' = made + 1 /\ conn' = made + 1
  /\ Begins(made + 1, "start")
  /\ UNCHANGED <<fields, daemons, names, history>>

\* By hand, or by the watchdog.
Refresh ==
  /\ conn # 0
  /\ state' = IF ready[conn] THEN state ELSE "connecting"
  /\ Begins(conn, "retry")
  /\ UNCHANGED <<conn, made, fields, daemons, names, history>>

ForceReset ==
  /\ conn # 0
  /\ state' = "connecting"
  /\ Begins(conn, "teardown")
  /\ UNCHANGED <<conn, made, fields, daemons, names, history>>

Disconnect ==
  /\ conn # 0 \/ state # "idle"
  /\ state' = "idle" /\ conn' = 0
  /\ IF conn # 0 THEN TearDown(conn) ELSE UNCHANGED <<fields, daemons>>
  /\ UNCHANGED <<made, begun, on, steps, names, history>>

\* A connection is held by Conversation and by the Tasks at work on it.
Held(c) == c = conn \/ \E t \in Tasks : on[t] = c /\ task'[t] # "none"

\* The Task ends; if that was the last reference, deinit stops the daemon.
Ends(t) ==
  /\ Goes(t, "none")
  /\ IF Held(on[t]) THEN UNCHANGED <<fields, daemons>> ELSE TearDown(on[t])
  /\ UNCHANGED <<conn, made, begun, on, at, tries, names, history>>

\* state = .ready, drainOutbox.
Won(t) == task[t] = "won" /\ state' = "ready" /\ Ends(t)
\* Mutant: the error is swallowed.
SwallowsError(t) == UNCHANGED state
ShowsError(t) == state' = "error"
Lost(t) == task[t] = "lost" /\ ShowsError(t) /\ Ends(t)

\* refresh: the handshake failed, rebuild the daemon.
Escalate(t) ==
  /\ task[t] = "escalate"
  /\ state' = "connecting"
  /\ Goes(t, "teardown")
  /\ UNCHANGED <<conn, made, begun, on, fields, at, tries, daemons, names, history>>

-----------------------------------------------------------------------------
\* PilotConnection, off the main actor.

\* reconnect tears down, and sleeps for its grace period.
Reconnect(t) ==
  /\ task[t] = "teardown"
  /\ TearDown(on[t])
  /\ before' = [before EXCEPT ![t] = {d \in Tasks : basename[d] # None /\ on[d] = on[t]}]
  /\ Goes(t, "grace")
  /\ UNCHANGED <<ui, at, tries, names, overwritten>>

\* Mutant: every restart uses the same basename.
NextSame(c) == UNCHANGED gen
NextGeneration(c) == gen' = [gen EXCEPT ![c] = @ + 1]

Restart(t) ==
  /\ task[t] = "grace"
  /\ NextGeneration(on[t])
  /\ Goes(t, "start")
  /\ UNCHANGED <<ui, fields, at, tries, daemons, basename, history>>

\* Pilot.start, which may throw.
Start(t) ==
  /\ task[t] = "start"
  /\ \/ /\ pilot' = [pilot EXCEPT ![on[t]] = t]
        /\ overwritten' = overwritten \cup ({pilot[on[t]]} \ {0})
        /\ at' = [at EXCEPT ![t] = t]
        /\ tries' = [tries EXCEPT ![t] = MaxTries]
        /\ live' = live \cup {t}
        /\ basename' = [basename EXCEPT ![t] = gen[on[t]]]
        /\ Goes(t, "shake")
     \/ /\ Goes(t, "lost")
        /\ UNCHANGED <<pilot, overwritten, at, tries, live, basename>>
  /\ UNCHANGED <<ui, ready, wedged, gen, before>>

\* retryHandshake begins, or throws notStarted.
Retry(t) ==
  /\ task[t] = "retry"
  /\ IF pilot[on[t]] = 0
     THEN Goes(t, "escalate") /\ UNCHANGED <<ready, at, tries>>
     ELSE /\ ready' = [ready EXCEPT ![on[t]] = FALSE]
          /\ at' = [at EXCEPT ![t] = pilot[on[t]]]
          /\ tries' = [tries EXCEPT ![t] = MaxTries]
          /\ Goes(t, "reshake")
  /\ UNCHANGED <<ui, pilot, daemons, names, history>>

\* Mutant: one more try than there are.
OutOfTriesLate(t) == tries[t] < 1
OutOfTries(t) == tries[t] <= 1

\* The handshakes of a start or retry are over; its locals go.
Leaves(t, place) ==
  /\ Goes(t, place)
  /\ at' = [at EXCEPT ![t] = 0] /\ tries' = [tries EXCEPT ![t] = 0]

\* One handshake and waitForTrust: trusted, or an error or a timeout.
Shake(t) ==
  /\ task[t] \in {"shake", "reshake"}
  /\ \/ at[t] \in live /\ Leaves(t, "granted")
     \/ /\ ~OutOfTries(t)
        /\ tries' = [tries EXCEPT ![t] = @ - 1] /\ UNCHANGED <<task, at>>
     \/ OutOfTries(t) /\ Leaves(t, IF task[t] = "shake" THEN "lost" ELSE "escalate")
  /\ UNCHANGED <<ui, fields, daemons, names, history>>

\* isReady = true, of a connection that may have been torn down meanwhile.
Grant(t) ==
  /\ task[t] = "granted"
  /\ ready' = [ready EXCEPT ![on[t]] = TRUE]
  /\ Goes(t, "won")
  /\ UNCHANGED <<ui, pilot, at, tries, daemons, names, history>>

Work(t) == \/ Won(t) \/ Lost(t) \/ Escalate(t) \/ Reconnect(t) \/ Restart(t)
           \/ Start(t) \/ Retry(t) \/ Shake(t) \/ Grant(t)

Next ==
  \/ Connect \/ Refresh \/ ForceReset \/ Disconnect
  \/ \E t \in Tasks : Work(t)

Spec == Init /\ [][Next]_vars

\* A Task goes on: the calls of the SDK and the sleeps are bounded in time.
FairSpec == Spec /\ \A t \in Tasks : WF_vars(Work(t))

-----------------------------------------------------------------------------
(***************************************************************************)
(* Properties.                                                             *)
(***************************************************************************)
\* The kinds of values the variables hold; a Task at a handshake has a try left.
TypeOK ==
  /\ conn \in 0..made /\ made \in 0..MaxConns /\ state \in States
  /\ begun \in 0..MaxTasks /\ on \in [Tasks -> 0..MaxConns]
  /\ pilot \in [Conns -> 0..MaxTasks] /\ ready \in [Conns -> BOOLEAN]
  /\ gen \in [Conns -> Nat] /\ basename \in [Tasks -> Nat \cup {None}]
  /\ task \in [Tasks -> Places]
  /\ at \in [Tasks -> 0..MaxTasks] /\ tries \in [Tasks -> 0..MaxTries]
  /\ \A t \in Tasks : task[t] \in {"shake", "reshake"} => tries[t] > 0
  /\ live \subseteq Tasks /\ wedged \subseteq Tasks
  /\ before \in [Tasks -> SUBSET Tasks] /\ overwritten \subseteq Tasks

\* Nobody's daemon: one that runs is the daemon of the connection on the
\* screen, or of one with a Task that will end and release it, however the
\* Tasks and disconnect come between each other's steps.  The exceptions are
\* what goes wrong in the code: a daemon whose stop threw, and one that a start
\* of an overlapping Task displaced from self.pilot, which nothing can stop.
NoOrphans ==
  \A d \in live \ (wedged \cup overwritten) :
    /\ pilot[on[d]] = d
    /\ on[d] = conn \/ \E t \in Tasks : on[t] = on[d] /\ task[t] # "none"

\* What a restart starts does not "collide with a stale unix-socket file held
\* by the previous" daemons (start): those of its connection it found and tore
\* down, however late they let go of their sockets, and whatever overlaps.
FreshWithin ==
  [][\A d \in live' \ live : \A e \in before[d] : basename'[e] # basename'[d]]_vars

\* The screen does not say "connecting" for ever.
Concludes == state = "connecting" ~> state # "connecting"
=============================================================================
