-------------------------- MODULE ConnectionProofs --------------------------
(***************************************************************************)
(* Proofs about Connection, for any number of connections, Tasks and       *)
(* tries.  What is inductive beside the properties speaks of one Task at a *)
(* time: what it cannot have done before its start, and how old the names  *)
(* of the sockets it found when it tore its connection down are.           *)
(***************************************************************************)
EXTENDS Connection, TLAPS

\* A Task works on a connection that was made; one not begun has left no trace.
Known(t) ==
  IF t <= begun THEN on[t] \in 1..made
  ELSE /\ on[t] = 0 /\ task[t] = "none" /\ basename[t] = None
       /\ before[t] = {} /\ t \notin live

\* The places before a Task's start of a daemon.
Early == {"start", "retry", "reshake", "escalate", "teardown", "grace"}
Unnamed(t) == task[t] \in Early => basename[t] = None

\* A name is of a generation there was; those a restart found are of an earlier
\* one than the one it will use.
Named(t) == basename[t] # None => basename[t] <= gen[on[t]]
Found(t) == \A d \in before[t] :
  /\ on[d] = on[t] /\ basename[d] # None
  /\ task[t] = "grace" => basename[d] <= gen[on[t]]
  /\ task[t] = "start" => basename[d] < gen[on[t]]

Sound(t) == Known(t) /\ Unnamed(t) /\ Named(t) /\ Found(t)

Inv ==
  /\ TypeOK
  /\ conn # 0 => state # "idle"
  /\ \A t \in Tasks : Sound(t)
  /\ NoOrphans

USE ConnectionAssumption

LEMMA Numbers == /\ Tasks \subseteq Nat /\ 0 \notin Tasks /\ Conns \subseteq Nat /\ 0 \notin Conns
                 /\ None \notin Nat /\ \A n \in 0..MaxTasks : n # 0 => n \in Tasks
BY DEF Tasks, Conns, None

\* A Task that is somewhere, or has a daemon, was begun and has its connection.
LEMMA Working ==
  ASSUME Inv, NEW t \in Tasks, task[t] # "none" \/ t \in live \/ basename[t] # None
  PROVE  t <= begun /\ on[t] \in Conns /\ on[t] <= made
<1>1. Known(t) /\ made \in 0..MaxConns BY DEF Inv, Sound, TypeOK
<1>2. t <= begun BY <1>1 DEF Known
<1> QED BY <1>1, <1>2 DEF Known, Conns

LEMMA Torn ==
  ASSUME TypeOK, NEW c \in Conns, TearDown(c)
  PROVE  /\ pilot' \in [Conns -> 0..MaxTasks] /\ ready' \in [Conns -> BOOLEAN]
         /\ live' \subseteq live /\ wedged' \subseteq Tasks
         /\ \A d \in live' \ wedged' : d \in live \ wedged /\ d # pilot[c]
         /\ \A x \in Conns \ {c} : pilot'[x] = pilot[x]
<1>1. /\ pilot' = [pilot EXCEPT ![c] = 0] /\ ready' = [ready EXCEPT ![c] = FALSE]
      /\ IF pilot[c] # 0 THEN Stopped(pilot[c]) ELSE UNCHANGED daemons
  BY DEF TearDown
<1>2. pilot[c] \in 0..MaxTasks /\ live \subseteq Tasks BY DEF TypeOK
<1>3. /\ live' \subseteq live /\ wedged' \subseteq Tasks
      /\ \A d \in live' \ wedged' : d \in live \ wedged /\ d # pilot[c]
  <2>1. CASE pilot[c] = 0 BY <2>1, <1>1, <1>2, Numbers DEF TypeOK, daemons
  <2>2. CASE pilot[c] # 0
    <3>1. pilot[c] \in Tasks BY <2>2, <1>2, Numbers
    <3> QED BY <2>2, <3>1, <1>1 DEF Stopped, TypeOK
  <2> QED BY <2>1, <2>2
<1> QED BY <1>1, <1>3 DEF TypeOK

\* After a teardown the daemons that run are those of other connections, each
\* still the one of its own.
LEMMA Others ==
  ASSUME Inv, NEW c \in Conns, TearDown(c), on' = on
  PROVE  \A d \in live' \ (wedged' \cup overwritten) :
           /\ d \in live \ (wedged \cup overwritten)
           /\ on[d] # c /\ pilot'[on[d]] = d
<1> SUFFICES ASSUME NEW d \in live' \ (wedged' \cup overwritten)
             PROVE  /\ d \in live \ (wedged \cup overwritten)
                    /\ on[d] # c /\ pilot'[on[d]] = d
  OBVIOUS
<1>1. TypeOK BY DEF Inv
<1>2. d \in live \ (wedged \cup overwritten) /\ d # pilot[c] BY <1>1, Torn
<1>3. d \in Tasks /\ pilot[on[d]] = d BY <1>1, <1>2 DEF Inv, NoOrphans, TypeOK
<1>4. on[d] \in Conns /\ on[d] # c BY <1>2, <1>3, Working
<1> QED BY <1>1, <1>2, <1>3, <1>4, Torn

-----------------------------------------------------------------------------
\* A step of a Task that is neither its end nor a teardown, restart or start.
LEMMA Moves ==
  ASSUME Inv, NEW t \in Tasks, NEW place \in Places \ {"none", "start", "grace"},
         task[t] # "none", Goes(t, place),
         place \in Early => basename[t] = None,
         UNCHANGED <<conn, made, begun, on, pilot, daemons, names, history>>,
         state' \in States, conn # 0 => state' # "idle",
         ready' \in [Conns -> BOOLEAN], at' \in [Tasks -> 0..MaxTasks],
         tries' \in [Tasks -> 0..MaxTries],
         place \in {"shake", "reshake"} => tries'[t] > 0,
         \A u \in Tasks \ {t} : tries'[u] = tries[u]
  PROVE  Inv'
<1>1. TypeOK BY DEF Inv
<1>2. /\ task' \in [Tasks -> Places] /\ task'[t] = place
      /\ \A u \in Tasks \ {t} : task'[u] = task[u]
  BY <1>1 DEF TypeOK, Goes
<1>3. UNCHANGED <<live, wedged, gen, basename, before, overwritten>>
  BY DEF daemons, names, history
<1>4. TypeOK'
  <2>1. \A u \in Tasks : task'[u] \in {"shake", "reshake"} => tries'[u] > 0
    BY <1>1, <1>2 DEF TypeOK
  <2> QED BY <1>1, <1>2, <1>3, <2>1 DEF TypeOK
<1>5. ASSUME NEW u \in Tasks PROVE Sound(u)'
  <2>1. Sound(u) BY DEF Inv
  <2>2. CASE u = t
    <3>1. t <= begun BY Working
    <3>2. Known(u)' BY <2>1, <2>2, <3>1 DEF Sound, Known
    <3>3. Unnamed(u)' BY <2>2, <1>2, <1>3 DEF Unnamed
    <3>4. Named(u)' BY <2>1, <1>3 DEF Sound, Named
    <3>5. Found(u)' BY <2>1, <2>2, <1>2, <1>3 DEF Sound, Found
    <3> QED BY <3>2, <3>3, <3>4, <3>5 DEF Sound
  <2>3. CASE u # t
    <3>1. task'[u] = task[u] BY <2>3, <1>2
    <3> QED BY <2>1, <3>1, <1>3 DEF Sound, Known, Unnamed, Named, Found
  <2> QED BY <2>2, <2>3
<1>6. NoOrphans'
  <2> SUFFICES ASSUME NEW d \in live \ (wedged \cup overwritten)
               PROVE  /\ pilot[on[d]] = d
                      /\ on[d] = conn \/ \E u \in Tasks : on[u] = on[d] /\ task'[u] # "none"
    BY <1>3 DEF NoOrphans
  <2>1. \A u \in Tasks : task[u] # "none" => task'[u] # "none" BY <1>2
  <2> QED BY <2>1 DEF Inv, NoOrphans
<1> QED BY <1>4, <1>5, <1>6 DEF Inv

\* A new Task, of connect, refresh or forceReset.
LEMMA BeginStep == Inv /\ (Connect \/ Refresh \/ ForceReset) => Inv'
<1> SUFFICES ASSUME Inv, Connect \/ Refresh \/ ForceReset PROVE Inv' OBVIOUS
<1> DEFINE n == begun + 1
<1>1. TypeOK BY DEF Inv
<1>2. PICK c \in Conns, place \in {"start", "retry", "teardown"} :
        /\ Begins(c, place) /\ conn' = c /\ c <= made' /\ made' >= made /\ made' \in 0..MaxConns
        /\ conn = 0 \/ conn = c
        /\ state' \in States \ {"idle"}
        /\ UNCHANGED <<fields, daemons, names, history>>
  <2>1. CASE Connect
    <3>1. conn = 0 /\ made \in Nat /\ made + 1 \in Conns /\ made' = made + 1
      BY <1>1, <2>1 DEF Inv, TypeOK, Connect, Conns
    <3>2. Begins(made + 1, "start") BY <2>1 DEF Connect
    <3> QED BY <2>1, <3>1, <3>2 DEF Connect, States, Conns
  <2>2. CASE Refresh \/ ForceReset
    <3>1. conn \in Conns /\ conn <= made /\ made' = made /\ made \in 0..MaxConns /\ conn' = conn
      BY <1>1, <2>2 DEF Refresh, ForceReset, TypeOK, Conns
    <3>2. Begins(conn, "retry") \/ Begins(conn, "teardown") BY <2>2 DEF Refresh, ForceReset
    <3>3. state' \in States \ {"idle"}
      BY <1>1, <2>2 DEF Refresh, ForceReset, Inv, TypeOK, States
    <3> QED BY <2>2, <3>1, <3>2, <3>3 DEF Refresh, ForceReset
  <2> QED BY <2>1, <2>2
<1>3. begun \in Nat /\ n \in Tasks /\ begun' = n /\ n <= MaxTasks
  BY <1>1, <1>2 DEF TypeOK, Begins, Tasks
<1>4. /\ task' \in [Tasks -> Places] /\ task'[n] = place
      /\ on' \in [Tasks -> 0..MaxConns] /\ on'[n] = c
      /\ \A u \in Tasks \ {n} : task'[u] = task[u] /\ on'[u] = on[u]
      /\ UNCHANGED <<at, tries, pilot, ready, live, wedged, gen, basename, before, overwritten>>
  <2>1. task' = [task EXCEPT ![n] = place] /\ on' = [on EXCEPT ![n] = c]
    BY <1>2 DEF Begins, Goes
  <2>2. place \in Places /\ c \in 0..MaxConns BY <1>2 DEF Places, Conns
  <2> QED BY <1>1, <1>2, <1>3, <2>1, <2>2
      DEF TypeOK, Begins, fields, daemons, names, history
<1>5. /\ on[n] = 0 /\ basename[n] = None /\ before[n] = {} /\ n \notin live
      /\ task[n] = "none"
  <2>1. Known(n) /\ ~(n <= begun) BY <1>3 DEF Inv, Sound
  <2> QED BY <2>1 DEF Known
<1>6. TypeOK'
  <2>1. conn' \in 0..made' /\ begun' \in 0..MaxTasks BY <1>2, <1>3, Numbers
  <2>2. \A u \in Tasks : task'[u] \in {"shake", "reshake"} => tries'[u] > 0
    BY <1>1, <1>2, <1>4 DEF TypeOK
  <2> QED BY <1>1, <1>2, <1>4, <2>1, <2>2 DEF TypeOK
<1>7. ASSUME NEW u \in Tasks PROVE Sound(u)'
  <2>1. Sound(u) /\ u \in Nat BY Numbers DEF Inv
  <2>2. CASE u = n
    <3>1. Known(u)' BY <2>2, <1>2, <1>3, <1>4, Numbers DEF Known
    <3>2. Unnamed(u)' /\ Named(u)' /\ Found(u)'
      BY <2>2, <1>4, <1>5 DEF Unnamed, Named, Found
    <3> QED BY <3>1, <3>2 DEF Sound
  <2>3. CASE u # n
    <3>1. task'[u] = task[u] /\ on'[u] = on[u] BY <2>3, <1>4
    <3>2. Known(u)'
      <4>1. u <= begun' <=> u <= begun BY <2>1, <2>3, <1>3
      <4>2. made \in Nat /\ made' \in Nat BY <1>1, <1>2 DEF TypeOK
      <4> QED BY <2>1, <3>1, <4>1, <4>2, <1>2, <1>4 DEF Sound, Known
    <3>3. Unnamed(u)' /\ Named(u)' BY <2>1, <3>1, <1>4 DEF Sound, Unnamed, Named
    <3>4. Found(u)'
      <4> SUFFICES ASSUME NEW d \in before[u]
                   PROVE  /\ on'[d] = on[u] /\ basename[d] # None
                          /\ task[u] = "grace" => basename[d] <= gen[on[u]]
                          /\ task[u] = "start" => basename[d] < gen[on[u]]
        BY <3>1, <1>4 DEF Found
      <4>1. d \in Tasks /\ d # n BY <2>1, <1>1, <1>5 DEF TypeOK, Sound, Found
      <4> QED BY <2>1, <4>1, <1>4 DEF Sound, Found
    <3> QED BY <3>2, <3>3, <3>4 DEF Sound
  <2> QED BY <2>2, <2>3
<1>8. NoOrphans'
  <2> SUFFICES ASSUME NEW d \in live \ (wedged \cup overwritten)
               PROVE  /\ pilot[on'[d]] = d
                      /\ on'[d] = conn' \/ \E u \in Tasks : on'[u] = on'[d] /\ task'[u] # "none"
    BY <1>4 DEF NoOrphans
  <2>1. d \in Tasks /\ d # n BY <1>1, <1>5 DEF TypeOK
  <2>2. on'[d] = on[d] /\ on[d] # 0 BY <2>1, <1>4, Working, Numbers
  <2>3. \A u \in Tasks : task[u] # "none" => on'[u] = on[u] /\ task'[u] = task[u]
    BY <1>4, <1>5
  <2> QED BY <2>2, <2>3, <1>2 DEF Inv, NoOrphans
<1> QED BY <1>2, <1>6, <1>7, <1>8 DEF Inv

-----------------------------------------------------------------------------
\* What a Task has left behind does not depend on where the others are.
LEMMA Stays ==
  ASSUME NEW u \in Tasks, Sound(u), task'[u] = task[u],
         UNCHANGED <<made, begun, on, gen, basename, before>>, live' \subseteq live
  PROVE  Sound(u)'
BY DEF Sound, Known, Unnamed, Named, Found

LEMMA DisconnectStep == Inv /\ Disconnect => Inv'
<1> SUFFICES ASSUME Inv, Disconnect PROVE Inv' OBVIOUS
<1>1. TypeOK BY DEF Inv
<1>2. /\ state' = "idle" /\ conn' = 0
      /\ UNCHANGED <<made, begun, on, task, at, tries, gen, basename, before, overwritten>>
  BY DEF Disconnect, steps, names, history
<1>3. made \in Nat BY <1>1 DEF TypeOK
<1>4. CASE conn = 0
  <2>1. UNCHANGED <<pilot, ready, live, wedged>> BY <1>4 DEF Disconnect, fields, daemons
  <2>2. TypeOK' BY <1>1, <1>2, <1>3, <2>1 DEF TypeOK, States
  <2>3. \A u \in Tasks : Sound(u)' BY <1>2, <2>1, Stays DEF Inv
  <2>4. NoOrphans' BY <1>2, <1>4, <2>1 DEF Inv, NoOrphans
  <2> QED BY <1>2, <2>2, <2>3, <2>4 DEF Inv
<1>5. CASE conn # 0
  <2>1. conn \in Conns /\ TearDown(conn) BY <1>1, <1>5 DEF Disconnect, TypeOK, Conns
  <2>2. /\ pilot' \in [Conns -> 0..MaxTasks] /\ ready' \in [Conns -> BOOLEAN]
        /\ live' \subseteq live /\ wedged' \subseteq Tasks
    BY <1>1, <2>1, Torn
  <2>3. TypeOK' BY <1>1, <1>2, <1>3, <2>2 DEF TypeOK, States
  <2>4. \A u \in Tasks : Sound(u)' BY <1>2, <2>2, Stays DEF Inv
  <2>5. NoOrphans'
    <3> SUFFICES ASSUME NEW d \in live' \ (wedged' \cup overwritten)
                 PROVE  /\ pilot'[on[d]] = d
                        /\ \E u \in Tasks : on[u] = on[d] /\ task[u] # "none"
      BY <1>2 DEF NoOrphans
    <3>1. /\ d \in live \ (wedged \cup overwritten) /\ on[d] # conn /\ pilot'[on[d]] = d
      BY <1>2, <2>1, Others
    <3> QED BY <3>1 DEF Inv, NoOrphans
  <2> QED BY <1>2, <2>3, <2>4, <2>5 DEF Inv
<1> QED BY <1>4, <1>5

LEMMA EndStep ==
  ASSUME Inv, NEW t \in Tasks, task[t] # "none", Ends(t), state' \in {"ready", "error"}
  PROVE  Inv'
<1>1. TypeOK BY DEF Inv
<1>2. UNCHANGED <<conn, made, begun, on, at, tries, gen, basename, before, overwritten>>
  BY DEF Ends, names, history
<1>3. /\ task' \in [Tasks -> Places] /\ task'[t] = "none"
      /\ \A u \in Tasks \ {t} : task'[u] = task[u]
  BY <1>1 DEF TypeOK, Ends, Goes, Places
<1>4. on[t] \in Conns BY Working
<1>5. /\ pilot' \in [Conns -> 0..MaxTasks] /\ ready' \in [Conns -> BOOLEAN]
      /\ live' \subseteq live /\ wedged' \subseteq Tasks
  <2>1. CASE TearDown(on[t]) BY <1>1, <1>4, <2>1, Torn
  <2>2. CASE UNCHANGED <<fields, daemons>> BY <1>1, <2>2 DEF TypeOK, fields, daemons
  <2> QED BY <2>1, <2>2 DEF Ends
<1>6. TypeOK'
  <2>1. \A u \in Tasks : task'[u] \in {"shake", "reshake"} => tries'[u] > 0
    BY <1>1, <1>2, <1>3 DEF TypeOK
  <2> QED BY <1>1, <1>2, <1>3, <1>5, <2>1 DEF TypeOK, States
<1>7. ASSUME NEW u \in Tasks PROVE Sound(u)'
  <2>1. Sound(u) BY DEF Inv
  <2>2. CASE u = t
    <3>1. t <= begun BY Working
    <3>2. Known(u)' BY <2>1, <2>2, <3>1, <1>2 DEF Sound, Known
    <3>3. Unnamed(u)' /\ Named(u)' /\ Found(u)'
      BY <2>1, <2>2, <1>2, <1>3 DEF Sound, Unnamed, Named, Found, Early
    <3> QED BY <3>2, <3>3 DEF Sound
  <2>3. CASE u # t BY <2>1, <2>3, <1>2, <1>3, <1>5, Stays
  <2> QED BY <2>2, <2>3
<1>8. NoOrphans'
  <2> SUFFICES ASSUME NEW d \in live' \ (wedged' \cup overwritten)
               PROVE  /\ pilot'[on[d]] = d
                      /\ on[d] = conn \/ \E u \in Tasks : on[u] = on[d] /\ task'[u] # "none"
    BY <1>2 DEF NoOrphans
  <2>1. CASE Held(on[t])
    <3>1. pilot' = pilot /\ live' = live /\ wedged' = wedged
      BY <2>1 DEF Ends, fields, daemons
    <3>2. /\ pilot[on[d]] = d
          /\ on[d] = conn \/ \E u \in Tasks : on[u] = on[d] /\ task[u] # "none"
      BY <3>1 DEF Inv, NoOrphans
    <3>3. CASE on[d] = on[t] BY <2>1, <3>1, <3>2, <3>3 DEF Held
    <3>4. CASE on[d] # on[t] BY <3>1, <3>2, <3>4, <1>3
    <3> QED BY <3>3, <3>4
  <2>2. CASE ~Held(on[t])
    <3>1. TearDown(on[t]) BY <2>2 DEF Ends
    <3>2. /\ d \in live \ (wedged \cup overwritten) /\ on[d] # on[t] /\ pilot'[on[d]] = d
      BY <1>2, <1>4, <3>1, Others
    <3>3. on[d] = conn \/ \E u \in Tasks : on[u] = on[d] /\ task[u] # "none"
      BY <3>2 DEF Inv, NoOrphans
    <3> QED BY <3>2, <3>3, <1>3
  <2> QED BY <2>1, <2>2
<1> QED BY <1>2, <1>6, <1>7, <1>8 DEF Inv

LEMMA ReconnectStep == ASSUME Inv, NEW t \in Tasks, Reconnect(t) PROVE Inv'
<1>1. TypeOK BY DEF Inv
<1>2. /\ task[t] = "teardown" /\ TearDown(on[t])
      /\ task' = [task EXCEPT ![t] = "grace"]
      /\ before' = [before EXCEPT ![t] = {d \in Tasks : basename[d] # None /\ on[d] = on[t]}]
      /\ UNCHANGED <<conn, state, made, begun, on, at, tries, gen, basename, overwritten>>
  BY DEF Reconnect, Goes, ui, names
<1>3. /\ task' \in [Tasks -> Places] /\ task'[t] = "grace"
      /\ \A u \in Tasks \ {t} : task'[u] = task[u]
  BY <1>1, <1>2 DEF TypeOK, Places
<1>4. /\ before' \in [Tasks -> SUBSET Tasks]
      /\ before'[t] = {d \in Tasks : basename[d] # None /\ on[d] = on[t]}
      /\ \A u \in Tasks \ {t} : before'[u] = before[u]
  BY <1>1, <1>2 DEF TypeOK
<1>5. on[t] \in Conns /\ t <= begun BY <1>2, Working
<1>6. /\ pilot' \in [Conns -> 0..MaxTasks] /\ ready' \in [Conns -> BOOLEAN]
      /\ live' \subseteq live /\ wedged' \subseteq Tasks
  BY <1>1, <1>2, <1>5, Torn
<1>7. TypeOK'
  <2>1. \A u \in Tasks : task'[u] \in {"shake", "reshake"} => tries'[u] > 0
    BY <1>1, <1>2, <1>3 DEF TypeOK
  <2> QED BY <1>1, <1>2, <1>3, <1>4, <1>6, <2>1 DEF TypeOK
<1>8. ASSUME NEW u \in Tasks PROVE Sound(u)'
  <2>1. Sound(u) BY DEF Inv
  <2>2. CASE u = t
    <3>1. Known(u)' BY <2>1, <2>2, <1>2, <1>5 DEF Sound, Known
    <3>2. Unnamed(u)' /\ Named(u)'
      BY <2>1, <2>2, <1>2, <1>3 DEF Sound, Unnamed, Named, Early
    <3>3. ASSUME NEW d \in before'[t]
          PROVE  on[d] = on[t] /\ basename[d] # None /\ basename[d] <= gen[on[t]]
      <4>1. d \in Tasks /\ on[d] = on[t] /\ basename[d] # None BY <1>4
      <4>2. Named(d) BY <4>1 DEF Inv, Sound
      <4> QED BY <4>1, <4>2 DEF Named
    <3>4. Found(u)' BY <2>2, <3>3, <1>2, <1>3 DEF Found
    <3> QED BY <3>1, <3>2, <3>4 DEF Sound
  <2>3. CASE u # t
    <3>1. task'[u] = task[u] /\ before'[u] = before[u] BY <2>3, <1>3, <1>4
    <3> QED BY <2>1, <3>1, <1>2, <1>6 DEF Sound, Known, Unnamed, Named, Found
  <2> QED BY <2>2, <2>3
<1>9. NoOrphans'
  <2> SUFFICES ASSUME NEW d \in live' \ (wedged' \cup overwritten)
               PROVE  /\ pilot'[on[d]] = d
                      /\ on[d] = conn \/ \E u \in Tasks : on[u] = on[d] /\ task'[u] # "none"
    BY <1>2 DEF NoOrphans
  <2>1. d \in live \ (wedged \cup overwritten) /\ pilot'[on[d]] = d
    BY <1>2, <1>5, Others
  <2>2. \A u \in Tasks : task[u] # "none" => task'[u] # "none" BY <1>3
  <2> QED BY <2>1, <2>2 DEF Inv, NoOrphans
<1> QED BY <1>2, <1>7, <1>8, <1>9 DEF Inv

LEMMA RestartStep == ASSUME Inv, NEW t \in Tasks, Restart(t) PROVE Inv'
<1>1. TypeOK BY DEF Inv
<1> DEFINE c == on[t]
<1>2. /\ task[t] = "grace" /\ task' = [task EXCEPT ![t] = "start"]
      /\ gen' = [gen EXCEPT ![c] = @ + 1]
      /\ UNCHANGED <<conn, state, made, begun, on, pilot, ready, at, tries, live, wedged,
                     basename, before, overwritten>>
  BY DEF Restart, NextGeneration, Goes, ui, fields, daemons, history
<1>3. /\ task' \in [Tasks -> Places] /\ task'[t] = "start"
      /\ \A u \in Tasks \ {t} : task'[u] = task[u]
  BY <1>1, <1>2 DEF TypeOK, Places
<1>4. c \in Conns /\ t <= begun BY <1>2, Working
<1>5. /\ gen' \in [Conns -> Nat] /\ gen[c] \in Nat /\ gen'[c] = gen[c] + 1
      /\ \A x \in Conns : gen[x] \in Nat /\ gen'[x] \in Nat /\ gen'[x] >= gen[x]
  BY <1>1, <1>2, <1>4 DEF TypeOK
<1>6. TypeOK'
  <2>1. \A u \in Tasks : task'[u] \in {"shake", "reshake"} => tries'[u] > 0
    BY <1>1, <1>2, <1>3 DEF TypeOK
  <2> QED BY <1>1, <1>2, <1>3, <1>5, <2>1 DEF TypeOK
<1>7. ASSUME NEW u \in Tasks PROVE Sound(u)'
  <2>1. Sound(u) /\ basename \in [Tasks -> Nat \cup {None}] BY <1>1 DEF Inv, TypeOK
  <2>2. Known(u)'
    <3>1. task'[u] = "none" <=> task[u] = "none" BY <1>2, <1>3
    <3> QED BY <2>1, <3>1, <1>2 DEF Sound, Known
  <2>3. Unnamed(u)'
    <3>1. task'[u] \in Early => task[u] \in Early BY <1>2, <1>3 DEF Early
    <3> QED BY <2>1, <3>1, <1>2 DEF Sound, Unnamed
  <2>4. Named(u)'
    <3> SUFFICES ASSUME basename[u] # None PROVE basename[u] <= gen'[on[u]]
      BY <1>2 DEF Named
    <3>1. on[u] \in Conns /\ basename[u] \in Nat /\ basename[u] <= gen[on[u]]
      BY <2>1, Working DEF Sound, Named
    <3> QED BY <3>1, <1>5
  <2>5. Found(u)'
    <3> SUFFICES ASSUME NEW d \in before[u]
                 PROVE  /\ on[d] = on[u] /\ basename[d] # None
                        /\ task'[u] = "grace" => basename[d] <= gen'[on[u]]
                        /\ task'[u] = "start" => basename[d] < gen'[on[u]]
      BY <1>2 DEF Found
    <3>1. /\ d \in Tasks /\ on[d] = on[u] /\ basename[d] # None
          /\ task[u] = "grace" => basename[d] <= gen[on[u]]
          /\ task[u] = "start" => basename[d] < gen[on[u]]
      BY <2>1, <1>1 DEF Sound, Found, TypeOK
    <3>2. on[u] \in Conns /\ basename[d] \in Nat BY <2>1, <3>1, Working
    <3>3. CASE u = t BY <3>1, <3>2, <3>3, <1>2, <1>3, <1>5
    <3>4. CASE u # t BY <3>1, <3>2, <3>4, <1>3, <1>5
    <3> QED BY <3>1, <3>3, <3>4
  <2> QED BY <2>2, <2>3, <2>4, <2>5 DEF Sound
<1>8. NoOrphans'
  <2>1. \A u \in Tasks : task[u] # "none" => task'[u] # "none" BY <1>3
  <2> QED BY <2>1, <1>2 DEF Inv, NoOrphans
<1> QED BY <1>2, <1>6, <1>7, <1>8 DEF Inv

\* The start of a daemon: the names its Task's teardown found are older.
LEMMA StartStep ==
  ASSUME Inv, NEW t \in Tasks, Start(t)
  PROVE  Inv' /\ \A d \in live' \ live : \A e \in before[d] : basename'[e] # basename'[d]
<1>1. TypeOK BY DEF Inv
<1> DEFINE c == on[t]
<1>2. task[t] = "start" /\ UNCHANGED <<conn, state, made, begun, on, ready, wedged, gen, before>>
  BY DEF Start, ui
<1>3. c \in Conns /\ t <= begun /\ basename[t] = None
  <2>1. Unnamed(t) BY DEF Inv, Sound
  <2> QED BY <2>1, <1>2, Working DEF Unnamed, Early
<1>4. CASE Goes(t, "lost") /\ UNCHANGED <<pilot, overwritten, at, tries, live, basename>>
  <2>1. "lost" \in Places \ {"none", "start", "grace"} /\ "lost" \notin Early
    BY DEF Places, Early
  <2>2. /\ state' \in States /\ (conn # 0 => state' # "idle")
        /\ ready' \in [Conns -> BOOLEAN] /\ at' \in [Tasks -> 0..MaxTasks]
        /\ tries' \in [Tasks -> 0..MaxTries] /\ tries' = tries
    BY <1>1, <1>2, <1>4 DEF Inv, TypeOK
  <2>3. UNCHANGED <<daemons, names, history>> BY <1>2, <1>4 DEF daemons, names, history
  <2>4. Inv' BY <1>2, <1>4, <2>1, <2>2, <2>3, Moves
  <2> QED BY <1>4, <2>4
<1>5. CASE /\ pilot' = [pilot EXCEPT ![c] = t]
           /\ overwritten' = overwritten \cup ({pilot[c]} \ {0})
           /\ at' = [at EXCEPT ![t] = t]
           /\ tries' = [tries EXCEPT ![t] = MaxTries]
           /\ live' = live \cup {t}
           /\ basename' = [basename EXCEPT ![t] = gen[c]]
           /\ Goes(t, "shake")
  <2>1. /\ task' \in [Tasks -> Places] /\ task'[t] = "shake"
        /\ \A u \in Tasks \ {t} : task'[u] = task[u]
    BY <1>1, <1>5 DEF TypeOK, Goes, Places
  <2>2. gen[c] \in Nat /\ gen[c] # None BY <1>1, <1>3, Numbers DEF TypeOK
  <2>3. /\ basename' \in [Tasks -> Nat \cup {None}] /\ basename'[t] = gen[c]
        /\ \A u \in Tasks \ {t} : basename'[u] = basename[u]
    BY <1>1, <1>5, <2>2 DEF TypeOK
  <2>4. /\ pilot' \in [Conns -> 0..MaxTasks] /\ pilot'[c] = t
        /\ \A x \in Conns \ {c} : pilot'[x] = pilot[x]
    BY <1>1, <1>3, <1>5 DEF TypeOK, Tasks
  <2>5. overwritten' \subseteq Tasks /\ at' \in [Tasks -> 0..MaxTasks]
    <3>1. pilot[c] \in 0..MaxTasks BY <1>1, <1>3 DEF TypeOK
    <3>2. pilot[c] # 0 => pilot[c] \in Tasks BY <3>1, Numbers
    <3>3. overwritten' \subseteq Tasks BY <1>1, <1>5, <3>2 DEF TypeOK
    <3>4. t \in 0..MaxTasks BY DEF Tasks
    <3> QED BY <1>1, <1>5, <3>3, <3>4 DEF TypeOK
  <2>6. TypeOK'
    <3>1. /\ tries' \in [Tasks -> 0..MaxTries] /\ tries'[t] > 0
          /\ \A u \in Tasks \ {t} : tries'[u] = tries[u]
      BY <1>1, <1>5 DEF TypeOK
    <3>2. \A u \in Tasks : task'[u] \in {"shake", "reshake"} => tries'[u] > 0
      BY <1>1, <2>1, <3>1 DEF TypeOK
    <3> QED BY <1>1, <1>2, <1>5, <2>1, <2>3, <2>4, <2>5, <3>1, <3>2 DEF TypeOK
  <2>7. \A u \in Tasks : \A d \in before[u] : d # t /\ basename'[d] = basename[d]
    <3> SUFFICES ASSUME NEW u \in Tasks, NEW d \in before[u]
                 PROVE  d # t /\ basename'[d] = basename[d]
      OBVIOUS
    <3>1. Found(u) BY DEF Inv, Sound
    <3>2. d \in Tasks /\ d # t BY <1>1, <1>3, <3>1 DEF Found, TypeOK
    <3> QED BY <3>2, <2>3
  <2>8. ASSUME NEW u \in Tasks PROVE Sound(u)'
    <3>1. Sound(u) BY DEF Inv
    <3>2. CASE u = t
      <4>1. Known(u)' BY <3>1, <3>2, <1>2, <1>3 DEF Sound, Known
      <4>2. Unnamed(u)' BY <3>2, <2>1 DEF Unnamed, Early
      <4>3. Named(u)' BY <3>2, <1>2, <2>2, <2>3 DEF Named
      <4>4. Found(u)' BY <3>1, <3>2, <1>2, <2>1, <2>7 DEF Sound, Found
      <4> QED BY <4>1, <4>2, <4>3, <4>4 DEF Sound
    <3>3. CASE u # t
      <4>1. /\ task'[u] = task[u] /\ basename'[u] = basename[u]
            /\ u \in live' <=> u \in live
        BY <3>3, <1>5, <2>1, <2>3
      <4>2. Known(u)' /\ Unnamed(u)' /\ Named(u)'
        BY <3>1, <4>1, <1>2 DEF Sound, Known, Unnamed, Named
      <4>3. Found(u)' BY <3>1, <4>1, <1>2, <2>7 DEF Sound, Found
      <4> QED BY <4>2, <4>3 DEF Sound
    <3> QED BY <3>2, <3>3
  <2>9. NoOrphans'
    <3> SUFFICES ASSUME NEW d \in live' \ (wedged \cup overwritten')
                 PROVE  /\ pilot'[on[d]] = d
                        /\ on[d] = conn \/ \E u \in Tasks : on[u] = on[d] /\ task'[u] # "none"
      BY <1>2 DEF NoOrphans
    <3>1. CASE d = t BY <3>1, <2>1, <2>4
    <3>2. CASE d # t
      <4>1. d \in live \ (wedged \cup overwritten) /\ d \in Tasks
        BY <3>2, <1>1, <1>5 DEF TypeOK
      <4>2. /\ pilot[on[d]] = d
            /\ on[d] = conn \/ \E u \in Tasks : on[u] = on[d] /\ task[u] # "none"
        BY <4>1 DEF Inv, NoOrphans
      <4>3. on[d] \in Conns BY <4>1, Working
      <4>4. on[d] # c BY <4>1, <4>2, <1>5, Numbers
      <4>5. \A u \in Tasks : task[u] # "none" => task'[u] # "none" BY <2>1
      <4> QED BY <4>2, <4>3, <4>4, <4>5, <2>4
    <3> QED BY <3>1, <3>2
  <2>10. ASSUME NEW d \in live' \ live, NEW e \in before[d] PROVE basename'[e] # basename'[d]
    <3>1. d = t BY <1>5
    <3>2. Found(t) BY DEF Inv, Sound
    <3>3. /\ e \in Tasks /\ on[e] = c /\ basename[e] # None /\ basename[e] < gen[c]
          /\ basename'[e] = basename[e]
      BY <3>1, <3>2, <1>1, <1>2, <2>7 DEF Found, TypeOK
    <3>4. basename[e] \in Nat BY <3>3, <1>1 DEF TypeOK
    <3> QED BY <3>1, <3>3, <3>4, <2>2, <2>3
  <2> QED BY <1>2, <2>6, <2>8, <2>9, <2>10 DEF Inv
<1> QED BY <1>4, <1>5 DEF Start

LEMMA EscalateStep == ASSUME Inv, NEW t \in Tasks, Escalate(t) PROVE Inv'
<1>1. /\ task[t] = "escalate" /\ Goes(t, "teardown") /\ state' = "connecting"
      /\ UNCHANGED <<conn, made, begun, on, pilot, ready, at, tries, daemons, names, history>>
  BY DEF Escalate, fields
<1>2. TypeOK /\ Unnamed(t) BY DEF Inv, Sound
<1>3. basename[t] = None BY <1>1, <1>2 DEF Unnamed, Early
<1>4. "teardown" \in Places \ {"none", "start", "grace"} /\ state' \in States
  BY <1>1 DEF Places, States
<1> QED BY <1>1, <1>2, <1>3, <1>4, Moves DEF TypeOK

LEMMA RetryStep == ASSUME Inv, NEW t \in Tasks, Retry(t) PROVE Inv'
<1>1. TypeOK /\ Unnamed(t) BY DEF Inv, Sound
<1>2. /\ task[t] = "retry"
      /\ UNCHANGED <<conn, state, made, begun, on, pilot, daemons, names, history>>
  BY DEF Retry, ui
<1>3. basename[t] = None BY <1>1, <1>2 DEF Unnamed, Early
<1>4. on[t] \in Conns BY <1>2, Working
<1>5. state' \in States /\ (conn # 0 => state' # "idle") BY <1>1, <1>2 DEF Inv, TypeOK
<1>6. {"escalate", "reshake"} \subseteq Places \ {"none", "start", "grace"} BY DEF Places
<1>7. CASE pilot[on[t]] = 0
  <2>1. Goes(t, "escalate") /\ UNCHANGED <<ready, at, tries>> BY <1>7 DEF Retry
  <2> QED BY <2>1, <1>1, <1>2, <1>3, <1>5, <1>6, Moves DEF TypeOK
<1>8. CASE pilot[on[t]] # 0
  <2>1. /\ Goes(t, "reshake") /\ ready' = [ready EXCEPT ![on[t]] = FALSE]
        /\ at' = [at EXCEPT ![t] = pilot[on[t]]] /\ tries' = [tries EXCEPT ![t] = MaxTries]
    BY <1>8 DEF Retry
  <2>2. /\ ready' \in [Conns -> BOOLEAN] /\ at' \in [Tasks -> 0..MaxTasks]
        /\ tries' \in [Tasks -> 0..MaxTries] /\ tries'[t] > 0
        /\ \A u \in Tasks \ {t} : tries'[u] = tries[u]
    BY <2>1, <1>1, <1>4 DEF TypeOK
  <2> QED BY <2>1, <2>2, <1>2, <1>3, <1>5, <1>6, Moves
<1> QED BY <1>7, <1>8

LEMMA ShakeStep == ASSUME Inv, NEW t \in Tasks, Shake(t) PROVE Inv'
<1>1. TypeOK /\ Unnamed(t) BY DEF Inv, Sound
<1>2. /\ task[t] \in {"shake", "reshake"}
      /\ UNCHANGED <<conn, state, made, begun, on, pilot, ready, daemons, names, history>>
  BY DEF Shake, ui, fields
<1>3. task[t] = "reshake" => basename[t] = None BY <1>1 DEF Unnamed, Early
<1>4. state' \in States /\ (conn # 0 => state' # "idle") /\ ready' \in [Conns -> BOOLEAN]
  BY <1>1, <1>2 DEF Inv, TypeOK
<1>5. CASE ~OutOfTries(t) /\ tries' = [tries EXCEPT ![t] = @ - 1] /\ UNCHANGED <<task, at>>
  <2>1. tries[t] \in 1..MaxTries /\ tries[t] > 1
    BY <1>1, <1>5 DEF TypeOK, OutOfTries
  <2>2. /\ tries' \in [Tasks -> 0..MaxTries] /\ tries'[t] > 0
        /\ \A u \in Tasks \ {t} : tries'[u] = tries[u]
    BY <1>1, <1>5, <2>1 DEF TypeOK
  <2>3. Goes(t, task[t]) /\ at' \in [Tasks -> 0..MaxTasks] BY <1>1, <1>5 DEF Goes, TypeOK
  <2>4. task[t] \in Places \ {"none", "start", "grace"}
        /\ (task[t] \in Early => basename[t] = None)
    BY <1>1, <1>2, <1>3 DEF Early, Places
  <2> QED BY <1>2, <1>4, <2>2, <2>3, <2>4, Moves
<1>6. ASSUME NEW place \in {"granted", "lost", "escalate"}, Leaves(t, place),
             place = "escalate" => task[t] = "reshake"
      PROVE  Inv'
  <2>1. /\ Goes(t, place) /\ at' = [at EXCEPT ![t] = 0] /\ tries' = [tries EXCEPT ![t] = 0]
    BY <1>6 DEF Leaves
  <2>2. /\ at' \in [Tasks -> 0..MaxTasks] /\ tries' \in [Tasks -> 0..MaxTries]
        /\ \A u \in Tasks \ {t} : tries'[u] = tries[u]
    BY <1>1, <2>1 DEF TypeOK
  <2>3. /\ place \in Places \ {"none", "start", "grace"} /\ place \notin {"shake", "reshake"}
        /\ (place \in Early => basename[t] = None)
    BY <1>3, <1>6 DEF Early, Places
  <2> QED BY <1>2, <1>4, <2>1, <2>2, <2>3, Moves
<1> QED BY <1>2, <1>5, <1>6 DEF Shake

LEMMA GrantStep == ASSUME Inv, NEW t \in Tasks, Grant(t) PROVE Inv'
<1>1. TypeOK BY DEF Inv
<1>2. /\ task[t] = "granted" /\ ready' = [ready EXCEPT ![on[t]] = TRUE] /\ Goes(t, "won")
      /\ UNCHANGED <<conn, state, made, begun, on, pilot, at, tries, daemons, names, history>>
  BY DEF Grant, ui
<1>3. on[t] \in Conns BY <1>2, Working
<1>4. ready' \in [Conns -> BOOLEAN] BY <1>1, <1>2, <1>3 DEF TypeOK
<1>5. "won" \in Places \ {"none", "start", "grace"} /\ "won" \notin Early BY DEF Places, Early
<1>6. state' \in States /\ (conn # 0 => state' # "idle") BY <1>1, <1>2 DEF Inv, TypeOK
<1> QED BY <1>1, <1>2, <1>4, <1>5, <1>6, Moves DEF TypeOK

-----------------------------------------------------------------------------
LEMMA Initially == Init => Inv
<1> SUFFICES ASSUME Init PROVE Inv OBVIOUS
<1>1. TypeOK BY DEF Init, TypeOK, States, Places
<1>2. ASSUME NEW t \in Tasks PROVE Sound(t)
  <2>1. t \in Nat /\ ~(t <= begun) BY Numbers DEF Init, Tasks
  <2> QED BY <2>1 DEF Init, Sound, Known, Unnamed, Named, Found
<1>3. NoOrphans BY DEF Init, NoOrphans
<1> QED BY <1>1, <1>2, <1>3 DEF Init, Inv

\* FreshWithin's step.
Fresh == \A d \in live' \ live : \A e \in before[d] : basename'[e] # basename'[d]

LEMMA WorkStep == ASSUME Inv, NEW t \in Tasks, Work(t) PROVE Inv' /\ Fresh
<1>1. CASE Start(t) BY <1>1, StartStep DEF Fresh
<1>2. CASE ~Start(t)
  <2>1. Inv'
    <3>1. CASE Won(t) BY <3>1, EndStep DEF Won
    <3>2. CASE Lost(t) BY <3>2, EndStep DEF Lost, ShowsError
    <3> QED BY <1>2, <3>1, <3>2, EscalateStep, ReconnectStep, RestartStep, RetryStep,
                ShakeStep, GrantStep
        DEF Work
  <2>2. live' \subseteq live
    <3>1. TypeOK BY DEF Inv
    <3>2. CASE TearDown(on[t]) /\ task[t] # "none"
      BY <3>1, <3>2, Torn, Working
    <3>3. CASE UNCHANGED daemons BY <3>3 DEF daemons
    <3>4. task[t] # "none" BY <1>2 DEF Work, Won, Lost, Escalate, Reconnect, Restart, Retry, Shake, Grant
    <3> QED BY <1>2, <3>2, <3>3, <3>4
        DEF Work, Won, Lost, Ends, Escalate, Reconnect, Restart, Retry, Shake, Grant
  <2> QED BY <2>1, <2>2 DEF Fresh
<1> QED BY <1>1, <1>2

LEMMA Step == Inv /\ [Next]_vars => Inv' /\ [Fresh]_vars
<1> SUFFICES ASSUME Inv, [Next]_vars PROVE Inv' /\ [Fresh]_vars OBVIOUS
<1>1. CASE Connect \/ Refresh \/ ForceReset
  <2>1. live' = live BY <1>1 DEF Connect, Refresh, ForceReset, daemons
  <2> QED BY <1>1, <2>1, BeginStep DEF Fresh
<1>2. CASE Disconnect
  <2>1. live' \subseteq live
    <3>1. TypeOK BY DEF Inv
    <3>2. CASE conn = 0 BY <1>2, <3>2 DEF Disconnect, daemons
    <3>3. CASE conn # 0
      <4>1. conn \in Conns /\ TearDown(conn) BY <1>2, <3>1, <3>3 DEF Disconnect, TypeOK, Conns
      <4> QED BY <3>1, <4>1, Torn
    <3> QED BY <3>2, <3>3
  <2> QED BY <1>2, <2>1, DisconnectStep DEF Fresh
<1>3. CASE \E t \in Tasks : Work(t) BY <1>3, WorkStep
<1>4. CASE UNCHANGED vars
  <2>1. UNCHANGED <<conn, state, made, begun, on, pilot, ready, task, at, tries, live, wedged,
                    gen, basename, before, overwritten>>
    BY <1>4 DEF vars, ui, fields, steps, daemons, names, history
  <2>2. TypeOK' BY <2>1 DEF Inv, TypeOK
  <2>3. \A u \in Tasks : Sound(u)' BY <2>1, Stays DEF Inv
  <2>4. NoOrphans' BY <2>1 DEF Inv, NoOrphans
  <2> QED BY <1>4, <2>1, <2>2, <2>3, <2>4 DEF Inv
<1> QED BY <1>1, <1>2, <1>3, <1>4 DEF Next

\* The invariant holds throughout.
THEOREM Invariant == Spec => []Inv
<1> QED BY Initially, Step, PTL DEF Spec

\* The variables keep their types, and a Task at a handshake has a try left.
THEOREM TypeCorrect == Spec => []TypeOK
<1>1. Inv => TypeOK BY DEF Inv
<1> QED BY <1>1, Invariant, PTL

\* Whatever overlaps, a daemon that runs is owned, unless its stop threw or
\* another start displaced it (tearDownDaemon, deinit, and start's self.pilot).
THEOREM Accounted == Spec => []NoOrphans
<1>1. Inv => NoOrphans BY DEF Inv
<1> QED BY <1>1, Invariant, PTL

\* Whatever overlaps, what a restart starts has a socket name of its own among
\* those of the daemons it found (reconnect, and the name start makes).
THEOREM RestartsFresh == Spec => FreshWithin
<1>1. [Fresh]_vars <=> [\A d \in live' \ live : \A e \in before[d] :
                          basename'[e] # basename'[d]]_vars
  BY DEF Fresh
<1> QED BY <1>1, Invariant, Step, PTL DEF Spec, FreshWithin
=============================================================================
