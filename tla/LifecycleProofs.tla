--------------------------- MODULE LifecycleProofs --------------------------
(***************************************************************************)
(* Proofs about Lifecycle, for any accounts and any number of edits:       *)
(* MapIsLive and NeverForgotten are inductive together with TypeOK.        *)
(***************************************************************************)
EXTENDS Lifecycle, SequenceTheorems, TLAPS

Phases == {"none", "starting", "waiting", "running", "stopped", "dropped"}
Reload == [pc : {"none", "start", "await", "done"}, todo : Seq(Accounts)]

USE LifecycleAssumption DEF Versions

LEMMA Values == /\ NoVersion \in Nat /\ NoVersion \notin Versions
                /\ 0 \in Versions
  BY DEF NoVersion

\* What Proceed leaves: typed variables, running chains untouched, and every
\* account it has dealt with in the map or being started.
LEMMA ProceedKeeps ==
  ASSUME TypeOK,
         NEW v \in Versions, NEW todo \in Seq(Accounts),
         NEW map \in [Accounts -> Versions \cup {NoVersion}],
         NEW chains \in [Chains -> Phases],
         NEW done \in SUBSET Accounts,
         \A a \in Accounts : In(map, a) => chains[<<a, map[a]>>] = "running",
         \A a \in done : In(map, a) \/ \E w \in Versions :
                           chains[<<a, w>>] \in {"starting", "waiting"},
         Proceed(v, todo, map, chains, done)
  PROVE  /\ reload' \in [Versions -> Reload]
         /\ start' \in [Chains -> Phases]
         /\ owed' \subseteq Accounts
         /\ \A a \in Accounts : In(map, a) => start'[<<a, map[a]>>] = "running"
         /\ \A a \in owed' : In(map, a) \/ \E w \in Versions :
                               start'[<<a, w>>] \in {"starting", "waiting"}
<1> DEFINE absent == Absent(todo, map)
<1>1. \A i \in DOMAIN todo : todo[i] \in Accounts
  OBVIOUS
<1>2. CASE absent = {}
  <2>1. /\ reload' = [reload EXCEPT ![v] = [pc |-> "done", todo |-> <<>>]]
        /\ start' = chains
        /\ owed' = done \cup Elements(todo)
    BY <1>2 DEF Proceed
  <2>2. reload' \in [Versions -> Reload]
    BY <2>1 DEF TypeOK, Reload
  <2>3. owed' \subseteq Accounts
    BY <2>1, <1>1 DEF Elements
  <2>4. \A a \in Elements(todo) : In(map, a)
    BY <1>2 DEF Absent, Elements
  <2> QED BY <2>1, <2>2, <2>3, <2>4
<1>3. CASE absent # {}
  <2>1. PICK i \in absent :
          /\ \A j \in absent : i <= j
          /\ reload' = [reload EXCEPT ![v] =
               [pc |-> "await", todo |-> SubSeq(todo, i, Len(todo))]]
          /\ start' = [chains EXCEPT ![<<todo[i], v>>] = "starting"]
          /\ owed' = done \cup { todo[j] : j \in 1..i }
    BY <1>3 DEF Proceed
  <2>2. /\ i \in 1..Len(todo) /\ i \in DOMAIN todo
        /\ todo[i] \in Accounts /\ ~In(map, todo[i])
    BY <1>1 DEF Absent
  <2>3. SubSeq(todo, i, Len(todo)) \in Seq(Accounts)
    BY <2>2
  <2>4. reload' \in [Versions -> Reload]
    BY <2>1, <2>3 DEF TypeOK, Reload
  <2>5. <<todo[i], v>> \in Chains
    BY <2>2 DEF Chains
  <2>6. start' \in [Chains -> Phases]
    BY <2>1, <2>5 DEF Phases
  <2>7. owed' \subseteq Accounts
    BY <2>1, <2>2, <1>1
  <2>8. \A a \in Accounts : In(map, a) => start'[<<a, map[a]>>] = "running"
    <3> SUFFICES ASSUME NEW a \in Accounts, In(map, a)
                 PROVE  start'[<<a, map[a]>>] = "running"
      OBVIOUS
    <3>1. a # todo[i] /\ map[a] \in Versions
      BY <2>2 DEF In
    <3> QED BY <2>1, <2>5, <3>1 DEF Chains
  <2>9. start'[<<todo[i], v>>] = "starting"
    BY <2>1, <2>5
  <2>10. \A a \in done : In(map, a) \/ \E w \in Versions :
                           start'[<<a, w>>] \in {"starting", "waiting"}
    <3> SUFFICES ASSUME NEW a \in done, ~In(map, a)
                 PROVE  \E w \in Versions :
                          start'[<<a, w>>] \in {"starting", "waiting"}
      OBVIOUS
    <3>1. PICK w \in Versions : chains[<<a, w>>] \in {"starting", "waiting"}
      OBVIOUS
    <3>2. start'[<<a, w>>] \in {"starting", "waiting"}
      BY <2>1, <3>1 DEF Chains
    <3> QED BY <3>2
  <2>11. \A j \in 1..i : In(map, todo[j]) \/ todo[j] = todo[i]
    <3> SUFFICES ASSUME NEW j \in 1..i, ~In(map, todo[j])
                 PROVE  todo[j] = todo[i]
      OBVIOUS
    <3>1. j \in absent
      BY <2>2 DEF Absent
    <3> QED BY <2>1, <2>2, <3>1
  <2>12. \A a \in owed' : In(map, a) \/ \E w \in Versions :
                            start'[<<a, w>>] \in {"starting", "waiting"}
    <3> SUFFICES ASSUME NEW a \in owed', ~In(map, a)
                 PROVE  \E w \in Versions :
                          start'[<<a, w>>] \in {"starting", "waiting"}
      OBVIOUS
    <3>1. a \in done \/ a = todo[i]
      BY <2>1, <2>11
    <3> QED BY <3>1, <2>9, <2>10
  <2> QED BY <2>4, <2>6, <2>7, <2>8, <2>12
<1> QED BY <1>2, <1>3

Inv == TypeOK /\ MapIsLive /\ NeverForgotten

LEMMA InitInv == Init => Inv
<1> SUFFICES ASSUME Init PROVE Inv
  OBVIOUS
<1>1. TypeOK
  <2>1. /\ reload \in [Versions -> Reload] /\ start \in [Chains -> Phases]
        /\ accounts \in [Accounts -> Versions \cup {NoVersion}]
    BY DEF Init, Reload, Phases
  <2> QED BY <2>1, Values DEF Init, TypeOK, Reload, Phases
<1>2. MapIsLive /\ NeverForgotten
  BY DEF Init, MapIsLive, NeverForgotten, Has, In
<1> QED BY <1>1, <1>2 DEF Inv

\* stopAll empties the map, and no chain it stops is in it afterwards.
LEMMA StopTypes ==
  ASSUME TypeOK
  PROVE  /\ Stopped(start) \in [Chains -> Phases]
         /\ Emptied \in [Accounts -> Versions \cup {NoVersion}]
         /\ \A a \in Accounts : ~In(Emptied, a)
<1>1. Stopped(start) \in [Chains -> Phases]
  BY DEF TypeOK, Stopped, Phases
<1> QED BY <1>1 DEF Emptied, In

LEMMA NextInv == Inv /\ [Next]_vars => Inv'
<1> SUFFICES ASSUME Inv, [Next]_vars PROVE Inv'
  OBVIOUS
<1> USE DEF Inv
<1>t. /\ TypeOK /\ start \in [Chains -> Phases]
      /\ reload \in [Versions -> Reload]
  BY DEF TypeOK, Phases, Reload
<1>m. \A a \in Accounts : In(accounts, a) => start[<<a, accounts[a]>>] = "running"
  BY DEF MapIsLive, Has
<1>n. \A a \in owed : In(accounts, a) \/ \E w \in Versions :
                        start[<<a, w>>] \in {"starting", "waiting"}
  BY DEF NeverForgotten, Has
<1> DEFINE Post ==
      /\ reload' \in [Versions -> Reload]
      /\ start' \in [Chains -> Phases]
      /\ owed' \subseteq Accounts
      /\ accounts' \in [Accounts -> Versions \cup {NoVersion}]
      /\ \A a \in Accounts : In(accounts', a) => start'[<<a, accounts'[a]>>] = "running"
      /\ \A a \in owed' : In(accounts', a) \/ \E w \in Versions :
                            start'[<<a, w>>] \in {"starting", "waiting"}
<1> DEFINE Rest ==
      /\ file' \in Versions /\ debounce' \in BOOLEAN /\ active' \in BOOLEAN
      /\ currentCfg' \in Versions \cup {NoVersion}
<1>q. ASSUME Post, Rest PROVE Inv'
  <2>1. TypeOK'
    BY <1>q DEF TypeOK, Phases, Reload
  <2>2. MapIsLive'
    BY <1>q DEF MapIsLive, Has
  <2>3. NeverForgotten'
    BY <1>q DEF NeverForgotten, Has
  <2> QED BY <2>1, <2>2, <2>3
<1>s. ASSUME UNCHANGED <<reload, start, accounts, owed>> PROVE Post
  BY <1>s, <1>t, <1>m, <1>n DEF TypeOK, In
<1>1. CASE Edit
  <2>1. Rest
    BY <1>1, <1>t DEF Edit, TypeOK
  <2> QED BY <1>1, <1>s, <1>q, <2>1 DEF Edit
<1>2. CASE Fire
  <2>0. file \in Versions /\ Configured[file] \in Seq(Accounts)
    BY <1>t DEF TypeOK
  <2>1. Rest
    BY <1>2, <1>t, <2>0 DEF Fire, TypeOK
  <2>2. CASE \E a \in Accounts : Has(a)
    <3>1. /\ reload' = [reload EXCEPT ![file] = [pc |-> "start", todo |-> <<>>]]
          /\ start' = Stopped(start) /\ owed' = {} /\ accounts' = Emptied
      BY <1>2, <2>2 DEF Fire
    <3>2. reload' \in [Versions -> Reload]
      BY <3>1, <1>t, <2>0 DEF Reload
    <3>3. Post
      BY <3>1, <3>2, <1>t, StopTypes
    <3> QED BY <3>3, <2>1, <1>q
  <2>3. CASE ~\E a \in Accounts : Has(a)
    <3>1. /\ Proceed(file, Configured[file], Emptied, start, {})
          /\ accounts' = Emptied
      BY <1>2, <2>3 DEF Fire
    <3>2. \A a \in Accounts : In(Emptied, a) => start[<<a, Emptied[a]>>] = "running"
      BY StopTypes, <1>t
    <3>3. {} \in SUBSET Accounts
      OBVIOUS
    <3>4. \A a \in {} : In(Emptied, a) \/ \E w \in Versions :
                         start[<<a, w>>] \in {"starting", "waiting"}
      OBVIOUS
    <3>5. Post
      <4>1. Emptied \in [Accounts -> Versions \cup {NoVersion}]
        BY StopTypes, <1>t
      <4>2. TypeOK /\ start \in [Chains -> Phases]
        BY <1>t
      <4>3. /\ reload' \in [Versions -> Reload]
            /\ start' \in [Chains -> Phases]
            /\ owed' \subseteq Accounts
            /\ \A a \in Accounts : In(Emptied, a) => start'[<<a, Emptied[a]>>] = "running"
            /\ \A a \in owed' : In(Emptied, a) \/ \E w \in Versions :
                                  start'[<<a, w>>] \in {"starting", "waiting"}
        <5> HIDE DEF Post, Rest
        <5>1. PICK map, done : map = Emptied /\ done = {}
          OBVIOUS
        <5>2. Proceed(file, Configured[file], map, start, done)
          BY <3>1, <5>1
        <5>3. /\ map \in [Accounts -> Versions \cup {NoVersion}]
              /\ done \in SUBSET Accounts
              /\ \A a \in Accounts : In(map, a) => start[<<a, map[a]>>] = "running"
              /\ \A a \in done : In(map, a) \/ \E w \in Versions :
                                  start[<<a, w>>] \in {"starting", "waiting"}
          BY <3>2, <4>1, <5>1
        <5>4. /\ reload' \in [Versions -> Reload]
              /\ start' \in [Chains -> Phases]
              /\ owed' \subseteq Accounts
              /\ \A a \in Accounts : In(map, a) => start'[<<a, map[a]>>] = "running"
              /\ \A a \in owed' : In(map, a) \/ \E w \in Versions :
                                    start'[<<a, w>>] \in {"starting", "waiting"}
          BY <5>2, <5>3, <4>2, <2>0, ProceedKeeps
        <5> QED BY <5>1, <5>4
      <4> QED BY <3>1, <4>1, <4>3
    <3> QED BY <3>5, <2>1, <1>q
  <2> QED BY <2>2, <2>3
<1>3. CASE Deactivate
  <2>1. Rest
    BY <1>3, <1>t DEF Deactivate, TypeOK
  <2>2. Post
    BY <1>3, <1>t, StopTypes DEF Deactivate
  <2> QED BY <2>1, <2>2, <1>q
<1>4. ASSUME NEW v \in Versions, StartAll(v) PROVE Inv'
  <2>1. Rest
    BY <1>4, <1>t DEF StartAll, TypeOK
  <2>2. /\ Proceed(v, Configured[v], accounts, start, owed)
        /\ accounts' = accounts /\ Configured[v] \in Seq(Accounts)
        /\ accounts \in [Accounts -> Versions \cup {NoVersion}]
        /\ owed \in SUBSET Accounts
    BY <1>4, <1>t DEF StartAll, TypeOK
  <2>3. Post
    BY <2>2, <1>t, <1>m, <1>n, ProceedKeeps
  <2> QED BY <2>1, <2>3, <1>q
<1>r. ASSUME NEW a \in Accounts, NEW v \in Versions,
             NEW map \in [Accounts -> Versions \cup {NoVersion}],
             NEW chains \in [Chains -> Phases],
             \A b \in Accounts : In(map, b) => chains[<<b, map[b]>>] = "running",
             \A b \in owed : In(map, b) \/ \E w \in Versions :
                               chains[<<b, w>>] \in {"starting", "waiting"},
             Resume(a, v, map, chains), accounts' = map
      PROVE  Post
  <2>0. owed \in SUBSET Accounts /\ reload[v] \in Reload
    BY <1>t DEF TypeOK
  <2>1. CASE reload[v].todo # <<>> /\ Head(reload[v].todo) = a
    <3>1. Proceed(v, Tail(reload[v].todo), map, chains, owed)
      BY <1>r, <2>1 DEF Resume
    <3>2. Tail(reload[v].todo) \in Seq(Accounts)
      BY <2>1, <2>0 DEF Reload
    <3> QED BY <3>1, <3>2, <2>0, <1>r, <1>t, ProceedKeeps
  <2>2. CASE ~(reload[v].todo # <<>> /\ Head(reload[v].todo) = a)
    <3>1. start' = chains /\ UNCHANGED <<reload, owed>>
      BY <1>r, <2>2 DEF Resume
    <3> QED BY <3>1, <2>0, <1>r, <1>t
  <2> QED BY <2>1, <2>2
<1>5. ASSUME NEW a \in Accounts, NEW v \in Versions, Started(a, v) PROVE Inv'
  <2> DEFINE map == [accounts EXCEPT ![a] = v]
             chains == [start EXCEPT ![<<a, v>>] = "running"]
  <2>1. Rest
    BY <1>5, <1>t DEF Started, TypeOK
  <2>2. map \in [Accounts -> Versions \cup {NoVersion}]
    BY <1>t DEF TypeOK
  <2>3. chains \in [Chains -> Phases]
    BY <1>t DEF Phases
  <2>4. \A b \in Accounts : In(map, b) => chains[<<b, map[b]>>] = "running"
    <3> SUFFICES ASSUME NEW b \in Accounts, In(map, b)
                 PROVE  chains[<<b, map[b]>>] = "running"
      OBVIOUS
    <3>1. CASE b = a
      BY <3>1, <1>t DEF Chains, TypeOK
    <3>2. CASE b # a
      <4>1. map[b] = accounts[b] /\ In(accounts, b) /\ accounts[b] \in Versions
        BY <3>2, <1>t DEF TypeOK, In
      <4>2. <<b, map[b]>> \in Chains /\ <<b, map[b]>> # <<a, v>>
        BY <4>1, <3>2 DEF Chains
      <4> QED BY <4>1, <4>2, <1>m, <1>t
    <3> QED BY <3>1, <3>2
  <2>5. \A b \in owed : In(map, b) \/ \E w \in Versions :
                          chains[<<b, w>>] \in {"starting", "waiting"}
    <3> SUFFICES ASSUME NEW b \in owed, ~In(map, b)
                 PROVE  \E w \in Versions :
                          chains[<<b, w>>] \in {"starting", "waiting"}
      OBVIOUS
    <3>0. b \in Accounts
      BY <1>t DEF TypeOK
    <3>1. b # a /\ ~In(accounts, b)
      BY <3>0, Values, <1>t DEF In, TypeOK
    <3>2. PICK w \in Versions : start[<<b, w>>] \in {"starting", "waiting"}
      BY <3>1, <1>n
    <3>3. <<b, w>> \in Chains /\ <<b, w>> # <<a, v>>
      BY <3>0, <3>1 DEF Chains
    <3>4. chains[<<b, w>>] \in {"starting", "waiting"}
      BY <3>2, <3>3, <1>t
    <3> QED BY <3>4
  <2>6. Resume(a, v, map, chains) /\ accounts' = map
    BY <1>5 DEF Started
  <2> HIDE DEF map, chains
  <2>7. Post
    BY <2>2, <2>3, <2>4, <2>5, <2>6, <1>r
  <2> QED BY <2>1, <2>7, <1>q
<1> DEFINE Kept(chains) ==
      /\ chains \in [Chains -> Phases]
      /\ \A b \in Accounts : In(accounts, b)
           => chains[<<b, accounts[b]>>] = "running"
      /\ \A b \in owed : In(accounts, b) \/ \E w \in Versions :
           chains[<<b, w>>] \in {"starting", "waiting"}
<1>k. ASSUME NEW a \in Accounts, NEW v \in Versions,
             NEW p \in {"starting", "waiting", "dropped"},
             start[<<a, v>>] \in {"starting", "waiting"},
             p = "dropped" => In(accounts, a)
      PROVE  Kept([start EXCEPT ![<<a, v>>] = p])
  <2> DEFINE chains == [start EXCEPT ![<<a, v>>] = p]
  <2>1. chains \in [Chains -> Phases]
    BY <1>t DEF Phases
  <2>2. <<a, v>> \in Chains
    BY DEF Chains
  <2>3. \A b \in Accounts : In(accounts, b)
          => chains[<<b, accounts[b]>>] = "running"
    <3> SUFFICES ASSUME NEW b \in Accounts, In(accounts, b)
                 PROVE  chains[<<b, accounts[b]>>] = "running"
      OBVIOUS
    <3>1. accounts[b] \in Versions
      BY <1>t DEF TypeOK, In
    <3>2. <<b, accounts[b]>> # <<a, v>>
      BY <1>m, <1>k
    <3> QED BY <3>1, <3>2, <1>m, <1>t, <1>k DEF Chains
  <2>4. \A b \in owed : In(accounts, b) \/ \E w \in Versions :
          chains[<<b, w>>] \in {"starting", "waiting"}
    <3> SUFFICES ASSUME NEW b \in owed, ~In(accounts, b)
                 PROVE  \E w \in Versions :
                          chains[<<b, w>>] \in {"starting", "waiting"}
      OBVIOUS
    <3>1. PICK w \in Versions : start[<<b, w>>] \in {"starting", "waiting"}
      BY <1>n
    <3>2. b \in Accounts /\ <<b, w>> \in Chains
      BY <1>t DEF TypeOK, Chains
    <3>3. chains[<<b, w>>] \in {"starting", "waiting"}
      BY <3>1, <3>2, <1>t, <1>k, <2>2
    <3> QED BY <3>3
  <2> QED BY <2>1, <2>3, <2>4
<1>6. ASSUME NEW a \in Accounts, NEW v \in Versions, StartFails(a, v) PROVE Inv'
  <2>1. Rest
    BY <1>6, <1>t DEF StartFails, TypeOK
  <2>2. /\ AfterFailure(a) \in {"starting", "waiting", "dropped"}
        /\ AfterFailure(a) = "dropped" => In(accounts, a)
    BY DEF AfterFailure, Has
  <2>3. /\ start[<<a, v>>] = "starting" /\ accounts' = accounts
        /\ Resume(a, v, accounts, [start EXCEPT ![<<a, v>>] = AfterFailure(a)])
        /\ accounts \in [Accounts -> Versions \cup {NoVersion}]
    BY <1>6, <1>t DEF StartFails, TypeOK
  <2>4. Kept([start EXCEPT ![<<a, v>>] = AfterFailure(a)])
    <3> HIDE DEF Kept, Post, Rest
    <3> QED BY <2>2, <2>3, <1>k
  <2>7. Post
    <3> DEFINE chains == [start EXCEPT ![<<a, v>>] = AfterFailure(a)]
    <3>1. /\ chains \in [Chains -> Phases]
          /\ \A b \in Accounts : In(accounts, b)
               => chains[<<b, accounts[b]>>] = "running"
          /\ \A b \in owed : In(accounts, b) \/ \E w \in Versions :
               chains[<<b, w>>] \in {"starting", "waiting"}
      BY <2>4
    <3>2. Resume(a, v, accounts, chains)
      BY <2>3
    <3> HIDE DEF Post, chains
    <3> QED BY <2>3, <3>1, <3>2, <1>r
  <2> QED BY <2>1, <2>7, <1>q
<1>7. ASSUME NEW a \in Accounts, NEW v \in Versions, Retry(a, v) PROVE Inv'
  <2> DEFINE p == IF Has(a) THEN "dropped" ELSE "starting"
  <2>1. Rest
    BY <1>7, <1>t DEF Retry, TypeOK
  <2>2. p \in {"starting", "waiting", "dropped"} /\ (p = "dropped" => In(accounts, a))
    BY DEF Has
  <2>3. /\ start[<<a, v>>] = "waiting" /\ UNCHANGED <<accounts, owed, reload>>
        /\ start' = [start EXCEPT ![<<a, v>>] = p]
    BY <1>7 DEF Retry
  <2> HIDE DEF p
  <2>5. Kept(start')
    <3>1. Kept([start EXCEPT ![<<a, v>>] = p])
      <4> HIDE DEF Kept, Post, Rest
      <4> QED BY <2>2, <2>3, <1>k
    <3> QED BY <2>3, <3>1
  <2>4. Post
    BY <2>3, <2>5, <1>t DEF TypeOK, In
  <2> QED BY <2>1, <2>4, <1>q
<1>8. CASE UNCHANGED vars
  <2>1. Rest
    BY <1>8, <1>t DEF vars, TypeOK
  <2> QED BY <1>8, <1>s, <1>q, <2>1 DEF vars
<1> QED BY <1>1, <1>2, <1>3, <1>4, <1>5, <1>6, <1>7, <1>8 DEF Next

LEMMA Inductive == Spec => []Inv
<1>1. Init => Inv
  BY InitInv
<1>2. Inv /\ [Next]_vars => Inv'
  BY NextInv
<1> QED BY <1>1, <1>2, PTL DEF Spec

\* The variables keep their types (TypeOK).
THEOREM TypeCorrect == Spec => []TypeOK
<1>1. Inv => TypeOK
  BY DEF Inv
<1> QED BY <1>1, Inductive, PTL

\* The map of accounts only ever holds running pipelines (MapIsLive).
THEOREM MapAlwaysLive == Spec => []MapIsLive
<1>1. Inv => MapIsLive
  BY DEF Inv
<1> QED BY <1>1, Inductive, PTL

\* From the startAll that deals with an account to the next stopAll, it runs,
\* is being started or is about to be retried (NeverForgotten).
THEOREM NobodyForgotten == Spec => []NeverForgotten
<1>1. Inv => NeverForgotten
  BY DEF Inv
<1> QED BY <1>1, Inductive, PTL
=============================================================================
