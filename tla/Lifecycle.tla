------------------------------ MODULE Lifecycle -----------------------------
(***************************************************************************)
(* Which accounts of the plugin run (plugin/src/lifecycle.ts), and under   *)
(* which configuration, while openclaw.json is edited (the watcher of      *)
(* index.ts).                                                              *)
(*                                                                         *)
(* startAll starts the accounts one after the other and awaits each        *)
(* transport; a start that fails leaves a retry timer.  A reload is        *)
(* stopAll, an await, then startAll.  Nothing keeps two reloads, or a      *)
(* reload and a retry, apart.  A step is the code between two awaits.      *)
(*                                                                         *)
(* Edits of the file are numbered, and the startAll that read edit v is    *)
(* called v.  It reaches an account at most once, and a retry keeps its    *)
(* account and configuration, so <<a, v>> names one chain of startAccount  *)
(* calls and the pipeline they end in.                                     *)
(***************************************************************************)
EXTENDS Naturals, Sequences

CONSTANTS
  Accounts,      \* account ids
  MaxEdits,      \* bound: edits of openclaw.json
  Configured     \* [0..MaxEdits -> Seq(Accounts)]: the enabled accounts

Versions == 0..MaxEdits
NoVersion == MaxEdits + 1

ASSUME LifecycleAssumption ==
  /\ MaxEdits \in Nat
  /\ Configured \in [Versions -> Seq(Accounts)]

VARIABLES
  file,        \* the edit that is on disk
  debounce,    \* the watcher's 500 ms timer is pending
  reload,      \* the startAll of each edit: where it is, what it has to do
  start,       \* the chain of each account and edit
  accounts,    \* PilotLifecycle.accounts: the edit of the account's pipeline
  currentCfg,  \* PilotLifecycle.currentCfg
  active,      \* the host has not shut the plugin down
  owed         \* history: accounts a startAll has dealt with since a stopAll

vars == <<file, debounce, reload, start, accounts, currentCfg, active, owed>>

Chains == Accounts \X Versions
Elements(s) == { s[i] : i \in DOMAIN s }

Init ==
  /\ file = 0
  /\ debounce = FALSE
  /\ reload = [v \in Versions |-> [pc |-> IF v = 0 THEN "start" ELSE "none",
                                   todo |-> <<>>]]
  /\ start = [x \in Chains |-> "none"]
  /\ accounts = [a \in Accounts |-> NoVersion]
  /\ currentCfg = NoVersion
  /\ active = TRUE
  /\ owed = {}

In(map, a) == map[a] # NoVersion
Has(a) == In(accounts, a)

-----------------------------------------------------------------------------
\* The file and its watcher.

\* Edit 0 is what the first startAll reads.
Edit ==
  /\ file < MaxEdits
  /\ reload[0].pc # "start"
  /\ file' = file + 1
  /\ debounce' = TRUE
  /\ UNCHANGED <<reload, start, accounts, currentCfg, active, owed>>

\* stopAll stops the pipelines the map knows, and empties it.
Stopped(chains) ==
  [x \in Chains |-> IF accounts[x[1]] = x[2] THEN "stopped" ELSE chains[x]]
\* Mutant: the map is left as it is.
EmptiedNever == accounts
Emptied == [a \in Accounts |-> NoVersion]

\* Mutant: the throw for a running account ends the loop.
AbsentUntilThrow(todo, map) ==
  { i \in DOMAIN todo : \A j \in 1..i : ~In(map, todo[j]) }
Absent(todo, map) == { i \in DOMAIN todo : ~In(map, todo[i]) }

\* The loop of startAll from here to its next await: for an account in the map
\* startAccount throws and scheduleRetry returns at once, for the first other
\* one a transport is started.
Proceed(v, todo, map, chains, done) ==
  LET absent == Absent(todo, map) IN
  \/ /\ absent = {}
     /\ reload' = [reload EXCEPT ![v] = [pc |-> "done", todo |-> <<>>]]
     /\ start' = chains
     /\ owed' = done \cup Elements(todo)
  \/ \E i \in absent :
       /\ \A j \in absent : i <= j
       /\ reload' = [reload EXCEPT ![v] =
            [pc |-> "await", todo |-> SubSeq(todo, i, Len(todo))]]
       /\ start' = [chains EXCEPT ![<<todo[i], v>>] = "starting"]
       /\ owed' = done \cup { todo[j] : j \in 1..i }

\* startAll, after the stopAll of its reload if it has one.
StartAll(v) ==
  /\ reload[v].pc = "start"
  /\ currentCfg' = v
  /\ Proceed(v, Configured[v], accounts, start, owed)
  /\ UNCHANGED <<file, debounce, accounts, active>>

\* The debounce timer fires: read the file, stop everything, and start again
\* when the transports that ran have stopped, at once if there was none.
Fire ==
  /\ debounce
  /\ debounce' = FALSE
  /\ accounts' = Emptied
  /\ IF \E a \in Accounts : Has(a)
       THEN /\ reload' = [reload EXCEPT ![file] = [pc |-> "start", todo |-> <<>>]]
            /\ start' = Stopped(start)
            /\ owed' = {}
            /\ UNCHANGED currentCfg
       ELSE /\ currentCfg' = file
            /\ Proceed(file, Configured[file], Emptied, start, {})
  /\ UNCHANGED <<file, active>>

\* onShutdown, onDeactivate: the process and its timers live on.
Deactivate ==
  /\ active
  /\ active' = FALSE
  /\ accounts' = Emptied
  /\ start' = Stopped(start)
  /\ owed' = {}
  /\ UNCHANGED <<file, debounce, reload, currentCfg>>

-----------------------------------------------------------------------------
\* startAccount, from the answer of transport.start on.

\* The caller goes on: the loop of startAll, or for a retry nobody.
Resume(a, v, map, chains) ==
  IF reload[v].todo # <<>> /\ Head(reload[v].todo) = a
    THEN Proceed(v, Tail(reload[v].todo), map, chains, owed)
    ELSE start' = chains /\ UNCHANGED <<reload, owed>>

\* transport.start resolves: the pipeline is attached, the timers are set, and
\* the map entry is written, over whatever it held.
Started(a, v) ==
  /\ start[<<a, v>>] = "starting"
  /\ accounts' = [accounts EXCEPT ![a] = v]
  /\ Resume(a, v, accounts', [start EXCEPT ![<<a, v>>] = "running"])
  /\ UNCHANGED <<file, debounce, currentCfg, active>>

\* Mutant: a failed start is logged and not retried.
AfterFailureNever(a) == "dropped"

\* scheduleRetry: a timer, unless the account came up meanwhile.
AfterFailure(a) == IF Has(a) THEN "dropped" ELSE "waiting"

StartFails(a, v) ==
  /\ start[<<a, v>>] = "starting"
  /\ Resume(a, v, accounts, [start EXCEPT ![<<a, v>>] = AfterFailure(a)])
  /\ UNCHANGED <<file, debounce, accounts, currentCfg, active>>

\* The retry timer fires, with the account of the startAll that set it.
Retry(a, v) ==
  /\ start[<<a, v>>] = "waiting"
  /\ start' = [start EXCEPT ![<<a, v>>] = IF Has(a) THEN "dropped"
                                                    ELSE "starting"]
  /\ UNCHANGED <<file, debounce, reload, accounts, currentCfg, active, owed>>

Next ==
  \/ Edit \/ Fire \/ Deactivate
  \/ \E v \in Versions : StartAll(v)
  \/ \E a \in Accounts, v \in Versions :
       Started(a, v) \/ StartFails(a, v) \/ Retry(a, v)

\* Timers fire and promises settle; a transport that is started again and
\* again starts in the end (the daemon comes up).
Fairness ==
  /\ WF_vars(Fire)
  /\ \A v \in Versions : WF_vars(StartAll(v))
  /\ \A a \in Accounts, v \in Versions :
       /\ WF_vars(Retry(a, v))
       /\ SF_vars(Started(a, v))

Spec == Init /\ [][Next]_vars
FairSpec == Spec /\ Fairness

-----------------------------------------------------------------------------
\* Properties.

\* The kinds of values the variables hold.
TypeOK ==
  /\ file \in Versions
  /\ debounce \in BOOLEAN /\ active \in BOOLEAN
  /\ reload \in [Versions -> [pc : {"none", "start", "await", "done"},
                              todo : Seq(Accounts)]]
  /\ start \in [Chains -> {"none", "starting", "waiting", "running",
                           "stopped", "dropped"}]
  /\ accounts \in [Accounts -> Versions \cup {NoVersion}]
  /\ currentCfg \in Versions \cup {NoVersion}
  /\ owed \subseteq Accounts

\* What the map hands to the outbound adapter is a running pipeline, never one
\* that was stopped or has not started, whichever starts and stops overlap.
MapIsLive ==
  \A a \in Accounts : Has(a) => start[<<a, accounts[a]>>] = "running"

\* No account is forgotten: once a startAll has dealt with it, and until the
\* next stopAll, it runs, a start of it is in flight, or a retry is pending,
\* also when a start fails while another one of the account succeeds.
NeverForgotten ==
  \A a \in owed :
    Has(a) \/ \E v \in Versions : start[<<a, v>>] \in {"starting", "waiting"}

\* A daemon that comes up late is enough: the accounts of the last edit run in
\* the end, and stay (startAll, scheduleRetry, the watcher).
EventuallyRuns ==
  \A v \in Versions : \A a \in Elements(Configured[v]) :
    <>[](file = v /\ active) => <>[]Has(a)

\* "account already running": startAccount refuses a second pipeline of an
\* account, and the retries are called idempotent.
OnePipeline ==
  \A a \in Accounts : \A v, w \in Versions :
    start[<<a, v>>] = "running" /\ start[<<a, w>>] = "running" => v = w
=============================================================================
