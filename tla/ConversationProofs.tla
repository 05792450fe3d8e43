------------------------- MODULE ConversationProofs -------------------------
(***************************************************************************)
(* Proofs about Conversation, for any messages and any bounds.  OneEach    *)
(* and Attended are inductive with the types.  Honest, Persisted and       *)
(* NeverBack need three more facts: an id that was not typed is not in     *)
(* messages, the file lags behind the screen by new pings only, and a Task *)
(* whose send was accepted has handed its message over.                    *)
(***************************************************************************)
EXTENDS Conversation, TLAPS

Tasks == Msgs \X Stages
Files == [Msgs -> States]

Untyped == \A m \in Msgs \ typed : delivery[m] = "none" /\ saved[m] = "none"
FileLags == \A m \in Msgs :
  \/ saved[m] = delivery[m]
  \/ m \in Pings /\ saved[m] = "none" /\ delivery[m] = "sending"
Accepted == \A m \in Msgs : tasks[<<m, "accepted">>] > 0 => m \in handed

IInv == Types /\ Untyped /\ FileLags /\ Accepted /\ Honest /\ Persisted

USE ConversationAssumption

\* What updateDelivery leaves, whatever it does: typed states, the same file as
\* screen wherever it wrote, and no message other than m touched.
LEMMA Updates ==
  ASSUME Types, NEW m \in Msgs, NEW s \in States, UpdateDelivery(m, s)
  PROVE  /\ delivery' \in Files /\ saved' \in Files
         /\ \A n \in Msgs : n # m => delivery'[n] = delivery[n]
         /\ \/ /\ delivery' = delivery /\ saved' = saved
            \/ /\ saved' = delivery' /\ delivery'[m] = s
               /\ delivery[m] # "none" /\ Rank(s) >= Rank(delivery[m])
  BY DEF Types, UpdateDelivery, Takes, Files

\* A Task that changes its stage keeps the counts typed; only the counts of its
\* own message change.
LEMMA Counts ==
  ASSUME Types, NEW m \in Msgs, NEW from \in Stages, NEW to \in Stages,
         from # to, tasks[<<m, from>>] > 0, Moves(m, from, to)
  PROVE  /\ tasks' \in [Tasks -> Nat]
         /\ tasks'[<<m, to>>] = tasks[<<m, to>>] + 1
         /\ \A x \in Tasks \ {<<m, from>>, <<m, to>>} : tasks'[x] = tasks[x]
<1>1. <<m, from>> \in Tasks /\ <<m, to>> \in Tasks /\ <<m, from>> # <<m, to>>
  BY DEF Tasks
<1>2. tasks \in [Tasks -> Nat]
  BY DEF Types, Tasks
<1> DEFINE x == <<m, from>>
           y == <<m, to>>
<1>3. tasks' = [tasks EXCEPT ![x] = @ - 1, ![y] = @ + 1]
  BY DEF Moves
<1>4. x \in Tasks /\ y \in Tasks /\ x # y /\ tasks[x] > 0
  BY <1>1
<1> HIDE DEF x, y
<1>5. /\ tasks' \in [Tasks -> Nat]
      /\ tasks'[y] = tasks[y] + 1
      /\ \A z \in Tasks \ {x, y} : tasks'[z] = tasks[z]
  BY <1>2, <1>3, <1>4
<1> QED BY <1>5 DEF x, y

\* The same for a Task that ends.
LEMMA Ends ==
  ASSUME Types, NEW m \in Msgs, NEW stage \in Stages,
         tasks[<<m, stage>>] > 0,
         tasks' = [tasks EXCEPT ![<<m, stage>>] = @ - 1]
  PROVE  /\ tasks' \in [Tasks -> Nat]
         /\ \A x \in Tasks \ {<<m, stage>>} : tasks'[x] = tasks[x]
         /\ \A x \in Tasks : tasks'[x] > 0 => tasks[x] > 0
<1> DEFINE x == <<m, stage>>
<1>1. x \in Tasks /\ tasks \in [Tasks -> Nat] /\ tasks[x] > 0
      /\ tasks' = [tasks EXCEPT ![x] = @ - 1]
  BY DEF Types, Tasks
<1> HIDE DEF x
<1>2. /\ tasks' \in [Tasks -> Nat]
      /\ \A z \in Tasks \ {x} : tasks'[z] = tasks[z]
      /\ \A z \in Tasks : tasks'[z] > 0 => tasks[z] > 0
  BY <1>1
<1> QED BY <1>2 DEF x

\* A count is what it was under each way a step may leave tasks.
LEMMA Stages4 == /\ Stages = {"queued", "accepted", "refused", "broken"}
                 /\ \A m \in Msgs, stage \in Stages : <<m, stage>> \in Tasks
  BY DEF Stages, Tasks

LEMMA Outcomes ==
  ASSUME NEW stage \in Stages, stage # "queued"
  PROVE  /\ StateFor(stage) \in {"sent", "sending", "failed"}
         /\ StateFor(stage) = "sent" <=> stage = "accepted"
         /\ StateFor(stage) = "sending" <=> stage = "refused"
  BY DEF StateFor, Stages

\* In the initial state everything holds.
LEMMA InitIInv == Init => IInv /\ Attended
<1> SUFFICES ASSUME Init PROVE IInv /\ Attended
  OBVIOUS
<1>1. /\ \A m \in Msgs : delivery[m] = "none" /\ saved[m] = "none"
      /\ \A x \in Tasks : tasks[x] = 0
      /\ tasks \in [Tasks -> Nat]
  BY DEF Init, Tasks
<1>2. Types
  BY <1>1 DEF Init, Types, States, Tasks
<1>3. Untyped /\ FileLags /\ Honest /\ Persisted /\ Attended
  BY <1>1 DEF Init, Untyped, FileLags, Honest, Persisted, Attended
<1>4. Accepted
  <2>1. \A m \in Msgs : tasks[<<m, "accepted">>] = 0
    BY <1>1, Stages4
  <2> QED BY <2>1 DEF Accepted
<1> QED BY <1>2, <1>3, <1>4 DEF IInv

-----------------------------------------------------------------------------
\* Every step keeps the types.
LEMMA TypeStep == Types /\ [Next]_vars => Types'
<1> SUFFICES ASSUME Types, [Next]_vars PROVE Types'
  OBVIOUS
<1> USE Stages4
<1>1. ASSUME NEW m \in Msgs, Type(m) PROVE Types'
  <2>1. /\ delivery' \in Files /\ typed' \subseteq Msgs
    BY <1>1 DEF Type, Types, Files, States
  <2>2. saved' \in Files
    BY <1>1, <2>1 DEF Type, Types, Files
  <2>3. <<m, "queued">> \in Tasks /\ tasks \in [Tasks -> Nat]
    BY DEF Types, Tasks, Stages
  <2>4. tasks' \in [Tasks -> Nat]
    <3> DEFINE x == <<m, "queued">>
    <3>1. tasks' = IF link = "up" THEN [tasks EXCEPT ![x] = @ + 1] ELSE tasks
      BY <1>1 DEF Type
    <3>2. x \in Tasks
      BY <2>3
    <3> HIDE DEF x
    <3> QED BY <2>3, <3>1, <3>2
  <2>5. /\ link' = link /\ due' = due /\ ups' = ups /\ kills' = kills
        /\ handed' = handed /\ got' = got /\ errors' = errors
    BY <1>1 DEF Type, network, counters
  <2> QED BY <2>1, <2>2, <2>4, <2>5 DEF Types, Files, Tasks
<1>2. ASSUME NEW m \in Msgs, Transmit(m) PROVE Types'
  <2>1. tasks[<<m, "queued">>] > 0 /\ handed' \subseteq Msgs
    BY <1>2 DEF Transmit, Types
  <2>2. PICK to \in {"accepted", "broken", "refused"} : Moves(m, "queued", to)
    BY <1>2 DEF Transmit
  <2>3. "queued" \in Stages /\ to \in Stages /\ "queued" # to
    BY DEF Stages
  <2>4. tasks' \in [Tasks -> Nat]
    BY <2>1, <2>2, <2>3, Counts
  <2> QED BY <1>2, <2>1, <2>4 DEF Transmit, Types, Tasks, counters
<1>3. ASSUME NEW m \in Msgs, NEW stage \in Stages, Report(m, stage)
      PROVE  Types'
  <2>1. StateFor(stage) \in States
    BY <1>3, Outcomes DEF Report, States
  <2>2. delivery' \in Files /\ saved' \in Files
    BY <1>3, <2>1, Updates DEF Report
  <2>3. tasks' \in [Tasks -> Nat]
    BY <1>3, Ends DEF Report
  <2> QED BY <1>3, <2>2, <2>3 DEF Report, Types, Tasks, Files, network, counters
<1>4. ASSUME NEW m \in Msgs, ClawReceives(m)
      PROVE  Types'
  BY <1>4 DEF ClawReceives, Types, memory, counters
<1>5. ASSUME NEW m \in Msgs, AckArrives(m) \/ ErrorArrives(m)
      PROVE  Types'
  <2>1. PICK s \in {"delivered", "failed"} : UpdateDelivery(m, s)
    BY <1>5 DEF AckArrives, ErrorArrives
  <2>2. delivery' \in Files /\ saved' \in Files
    BY <2>1, Updates DEF States
  <2> QED BY <1>5, <2>2 DEF AckArrives, ErrorArrives, Types, Files, network,
                             counters
<1>6. ASSUME DrainOutbox PROVE Types'
  <2>1. due' \in Nat
    BY <1>6 DEF DrainOutbox, Types
  <2>2. CASE link = "up"
    <3>1. delivery' \in Files
      BY <1>6, <2>2 DEF DrainOutbox, Types, Files, States
    <3>2. saved' \in Files
      BY <1>6, <2>2, <3>1 DEF DrainOutbox, Types, Files
    <3>3. \A x \in Tasks : tasks[x] \in Nat
      BY DEF Types, Tasks
    <3>4. tasks' \in [Tasks -> Nat]
      BY <1>6, <2>2, <3>3 DEF DrainOutbox, Resent, Tasks
    <3> QED BY <1>6, <2>1, <3>1, <3>2, <3>4 DEF DrainOutbox, Types, Files,
                                               Tasks, network, counters
  <2>3. CASE link # "up"
    BY <1>6, <2>1, <2>3 DEF DrainOutbox, Types, network, counters
  <2> QED BY <2>2, <2>3
<1>7. ASSUME Connect \/ LinkUp \/ DrainAgain \/ LinkDown PROVE Types'
  BY <1>7 DEF Connect, LinkUp, DrainAgain, LinkDown, Types, network, counters
<1>8. ASSUME Disconnect PROVE Types'
  <2>1. \A m \in Msgs : \A stage \in Stages : tasks[<<m, stage>>] \in Nat
    BY DEF Types
  <2>2. ASSUME NEW x \in Tasks
        PROVE  tasks[x] \in Nat /\ tasks[<<x[1], "queued">>] \in Nat
    <3>1. PICK m \in Msgs, stage \in Stages : x = <<m, stage>>
      BY DEF Tasks
    <3>2. x[1] = m
      BY <3>1
    <3>3. "queued" \in Stages
      BY DEF Stages
    <3> QED BY <2>1, <3>1, <3>2, <3>3
  <2>3. tasks' \in [Tasks -> Nat]
    BY <1>8, <2>2 DEF Disconnect, Tasks
  <2> QED BY <1>8, <2>3 DEF Disconnect, Types, Tasks, network, counters
<1>9. ASSUME Kill PROVE Types'
  BY <1>9 DEF Kill, Types, network
<1>10. CASE UNCHANGED vars
  BY <1>10 DEF vars, memory, network, counters, Types
<1> QED BY <1>1, <1>2, <1>3, <1>4, <1>5, <1>6, <1>7, <1>8, <1>9, <1>10
        DEF Next

\* The Tasks of one message that have not reported, under each way a step may
\* leave tasks.
LEMMA Counted ==
  ASSUME Types, NEW m \in Msgs
  PROVE  /\ \A stage \in Stages : tasks[<<m, stage>>] \in Nat
         /\ Unreported(m) \in Nat
<1>1. \A stage \in Stages : tasks[<<m, stage>>] \in Nat BY Stages4 DEF Types
<1> QED BY <1>1 DEF Unreported, Stages

LEMMA CountedMove ==
  ASSUME Types, NEW m \in Msgs, NEW to \in {"accepted", "refused", "broken"},
         tasks[<<m, "queued">>] > 0, Moves(m, "queued", to), NEW n \in Msgs
  PROVE  Unreported(n)' = Unreported(n)
<1> DEFINE Q == <<m, "queued">>
           T == <<m, to>>
<1>1. /\ tasks' = [tasks EXCEPT ![Q] = @ - 1, ![T] = @ + 1]
      /\ Q \in Tasks /\ T \in Tasks /\ Q # T /\ tasks \in [Tasks -> Nat]
  BY Stages4 DEF Moves, Types, Tasks
<1>2. /\ tasks'[Q] = tasks[Q] - 1 /\ tasks'[T] = tasks[T] + 1
      /\ \A x \in Tasks \ {Q, T} : tasks'[x] = tasks[x]
  <2> HIDE DEF Q, T
  <2> QED BY <1>1
<1>3. CASE n = m
  <2>1. \A stage \in Stages \ {"queued", to} : tasks'[<<m, stage>>] = tasks[<<m, stage>>]
    BY <1>2, Stages4
  <2>2. \A stage \in Stages : tasks[<<m, stage>>] \in Nat BY Counted
  <2> QED BY <1>2, <1>3, <2>1, <2>2 DEF Unreported, Stages
<1>4. CASE n # m
  <2>1. \A stage \in Stages : tasks'[<<n, stage>>] = tasks[<<n, stage>>]
    BY <1>2, <1>4, Stages4
  <2> QED BY <2>1 DEF Unreported, Stages
<1> QED BY <1>3, <1>4

\* Each Task was begun by the making of its message or by one of the drains.
LEMMA OneEachStep == Types /\ Types' /\ OneEach /\ [Next]_vars => OneEach'
<1> SUFFICES ASSUME Types, Types', OneEach, [Next]_vars, NEW n \in Msgs
             PROVE  (Unreported(n) + due <= ups + (IF n \in typed THEN 1 ELSE 0))'
  BY DEF OneEach
<1> DEFINE Made == IF n \in typed THEN 1 ELSE 0
           Kept == (Unreported(n) + due <= ups + Made)'
<1>0. /\ Unreported(n) \in Nat /\ Unreported(n)' \in Nat
      /\ due \in Nat /\ due' \in Nat /\ ups \in Nat /\ ups' \in Nat
      /\ Unreported(n) + due <= ups + Made
  <2>1. Unreported(n)' \in Nat
    <3>1. \A stage \in Stages : tasks'[<<n, stage>>] \in Nat BY Stages4 DEF Types, Tasks
    <3> QED BY <3>1 DEF Unreported, Stages
  <2> QED BY <2>1, Counted DEF Types, OneEach
<1>1. ASSUME tasks' = tasks PROVE Unreported(n)' = Unreported(n)
  BY <1>1 DEF Unreported
<1>2. ASSUME NEW m \in Msgs, Type(m) PROVE Kept
  <2> DEFINE x == <<m, "queued">>
  <2>1. /\ due' = due /\ ups' = ups /\ m \notin typed /\ typed' = typed \cup {m}
        /\ tasks' = IF link = "up" THEN [tasks EXCEPT ![x] = @ + 1] ELSE tasks
    BY <1>2 DEF Type, counters
  <2>2. x \in Tasks /\ tasks \in [Tasks -> Nat] BY Stages4 DEF Types, Tasks
  <2>3. /\ tasks'[x] \in {tasks[x], tasks[x] + 1}
        /\ \A y \in Tasks \ {x} : tasks'[y] = tasks[y]
    <3> HIDE DEF x
    <3> QED BY <2>1, <2>2
  <2>4. \A stage \in Stages : tasks[<<n, stage>>] \in Nat BY Counted
  <2>5. CASE n = m
    <3>1. \A stage \in Stages \ {"queued"} : tasks'[<<n, stage>>] = tasks[<<n, stage>>]
      BY <2>3, <2>5, Stages4
    <3>2. Unreported(n)' <= Unreported(n) + 1
      BY <2>3, <2>4, <2>5, <3>1 DEF Unreported, Stages
    <3> QED BY <1>0, <2>1, <2>5, <3>2
  <2>6. CASE n # m
    <3>1. \A stage \in Stages : tasks'[<<n, stage>>] = tasks[<<n, stage>>]
      BY <2>3, <2>6, Stages4
    <3>2. Unreported(n)' = Unreported(n) BY <3>1 DEF Unreported, Stages
    <3> QED BY <1>0, <2>1, <2>6, <3>2
  <2> QED BY <2>5, <2>6
<1>3. ASSUME NEW m \in Msgs, Transmit(m) PROVE Kept
  <2>1. PICK to \in {"accepted", "refused", "broken"} :
          tasks[<<m, "queued">>] > 0 /\ Moves(m, "queued", to)
    BY <1>3 DEF Transmit
  <2>2. Unreported(n)' = Unreported(n) BY <2>1, CountedMove
  <2> QED BY <1>0, <1>3, <2>2 DEF Transmit, counters
<1>4. ASSUME NEW m \in Msgs, NEW stage \in Stages, Report(m, stage) PROVE Kept
  <2> DEFINE x == <<m, stage>>
  <2>1. /\ due' = due /\ ups' = ups /\ typed' = typed /\ tasks[x] > 0
        /\ tasks' = [tasks EXCEPT ![x] = @ - 1]
    BY <1>4 DEF Report, counters
  <2>2. x \in Tasks /\ tasks \in [Tasks -> Nat] BY Stages4 DEF Types, Tasks
  <2>3. \A y \in Tasks : tasks'[y] \in Nat /\ tasks[y] \in Nat /\ tasks'[y] <= tasks[y]
    <3> HIDE DEF x
    <3> QED BY <2>1, <2>2
  <2>4. Unreported(n)' <= Unreported(n)
    <3>1. \A s \in Stages : /\ tasks'[<<n, s>>] \in Nat /\ tasks[<<n, s>>] \in Nat
                            /\ tasks'[<<n, s>>] <= tasks[<<n, s>>]
      BY <2>3, Stages4
    <3> QED BY <3>1 DEF Unreported, Stages
  <2> QED BY <1>0, <2>1, <2>4
<1>5. ASSUME NEW m \in Msgs, ClawReceives(m) \/ AckArrives(m) \/ ErrorArrives(m)
      PROVE  Kept
  <2>1. tasks' = tasks /\ due' = due /\ ups' = ups /\ typed' = typed
    BY <1>5 DEF ClawReceives, AckArrives, ErrorArrives, memory, counters
  <2> QED BY <1>0, <1>1, <2>1
<1>6. ASSUME DrainOutbox PROVE Kept
  <2>1. due > 0 /\ due' = due - 1 /\ ups' = ups /\ typed' = typed
    BY <1>6 DEF DrainOutbox, counters
  <2>2. Unreported(n)' <= Unreported(n) + 1
    <3>1. CASE link # "up" BY <1>0, <1>1, <1>6, <3>1 DEF DrainOutbox
    <3>2. CASE link = "up"
      <4>1. tasks' = Resent BY <1>6, <3>2 DEF DrainOutbox
      <4>2. \A stage \in Stages : tasks[<<n, stage>>] \in Nat BY Counted
      <4>3. /\ tasks'[<<n, "queued">>] \in {tasks[<<n, "queued">>], tasks[<<n, "queued">>] + 1}
            /\ \A stage \in Stages \ {"queued"} : tasks'[<<n, stage>>] = tasks[<<n, stage>>]
        <5>1. \A x \in Tasks :
                tasks'[x] = IF x[1] \in Pending /\ x[2] = "queued" THEN tasks[x] + 1 ELSE tasks[x]
          BY <4>1 DEF Resent, Tasks
        <5>2. \A stage \in Stages : <<n, stage>> \in Tasks /\ <<n, stage>>[2] = stage
          BY Stages4
        <5>3. "queued" \in Stages BY Stages4
        <5> QED BY <5>1, <5>2, <5>3
      <4> QED BY <4>2, <4>3 DEF Unreported, Stages
    <3> QED BY <3>1, <3>2
  <2> QED BY <1>0, <2>1, <2>2
<1>7. ASSUME Connect \/ LinkDown PROVE Kept
  <2>1. tasks' = tasks /\ due' = due /\ ups' = ups /\ typed' = typed
    BY <1>7 DEF Connect, LinkDown, counters
  <2> QED BY <1>0, <1>1, <2>1
<1>8. ASSUME LinkUp \/ DrainAgain PROVE Kept
  <2>1. tasks' = tasks /\ due' = due + 1 /\ ups' = ups + 1 /\ typed' = typed
    BY <1>8 DEF LinkUp, DrainAgain
  <2> QED BY <1>0, <1>1, <2>1
<1>9. ASSUME Disconnect PROVE Kept
  <2>1. due' = due /\ ups' = ups /\ typed' = typed BY <1>9 DEF Disconnect, counters
  <2>2. \A x \in Tasks : tasks'[x] = CASE x[2] = "queued" -> 0
                                      [] x[2] = "refused" -> tasks[x] + tasks[<<x[1], "queued">>]
                                      [] OTHER -> tasks[x]
    BY <1>9 DEF Disconnect, Tasks
  <2>3. \A stage \in Stages : /\ <<n, stage>> \in Tasks /\ <<n, stage>>[2] = stage
                              /\ <<n, stage>>[1] = n
    BY Stages4
  <2>4. /\ tasks'[<<n, "queued">>] = 0
        /\ tasks'[<<n, "refused">>] = tasks[<<n, "refused">>] + tasks[<<n, "queued">>]
        /\ tasks'[<<n, "accepted">>] = tasks[<<n, "accepted">>]
        /\ tasks'[<<n, "broken">>] = tasks[<<n, "broken">>]
    BY <2>2, <2>3 DEF Stages
  <2>5. \A stage \in Stages : tasks[<<n, stage>>] \in Nat BY Counted
  <2>6. Unreported(n)' = Unreported(n) BY <2>4, <2>5 DEF Unreported, Stages
  <2> QED BY <1>0, <2>1, <2>6
<1>10. ASSUME Kill PROVE Kept
  <2>1. due' = 0 /\ ups' = ups /\ typed' = typed /\ \A x \in Tasks : tasks'[x] = 0
    BY <1>10 DEF Kill, Tasks
  <2>2. \A stage \in Stages : tasks'[<<n, stage>>] = 0 BY <2>1, Stages4
  <2>3. Unreported(n)' = 0 BY <2>2 DEF Unreported, Stages
  <2> QED BY <1>0, <2>1, <2>3
<1>11. CASE UNCHANGED vars
  <2>1. tasks' = tasks /\ due' = due /\ ups' = ups /\ typed' = typed
    BY <1>11 DEF vars, memory, counters
  <2> QED BY <1>0, <1>1, <2>1
<1> QED BY <1>2, <1>3, <1>4, <1>5, <1>6, <1>7, <1>8, <1>9, <1>10, <1>11 DEF Next

\* The variables keep their types, and a message never has more unreported
\* Tasks than its making and the drains account for.
THEOREM TypeCorrect == Spec => []TypeOK
<1>1. Init => Types /\ OneEach
  <2> SUFFICES ASSUME Init PROVE Types /\ OneEach OBVIOUS
  <2>1. Types BY InitIInv DEF IInv
  <2>2. ASSUME NEW m \in Msgs PROVE Unreported(m) = 0
    <3>1. \A stage \in Stages : tasks[<<m, stage>>] = 0 BY Stages4 DEF Init, Tasks
    <3> QED BY <3>1 DEF Unreported, Stages
  <2>3. OneEach BY <2>2 DEF OneEach, Init
  <2> QED BY <2>1, <2>3
<1> QED BY <1>1, TypeStep, OneEachStep, PTL DEF Spec, TypeOK

-----------------------------------------------------------------------------
\* The invariant of the states themselves.

\* updateDelivery keeps what IInv says of the screen and the file, if the new
\* state is one that has happened.
LEMMA UpdateKeeps ==
  ASSUME IInv, NEW m \in Msgs, NEW s \in {"sending", "sent", "delivered",
                                          "failed"},
         UpdateDelivery(m, s),
         s = "sent" => m \in handed, s = "delivered" => m \in got,
         typed' = typed, handed' = handed, got' = got
  PROVE  Untyped' /\ FileLags' /\ Honest' /\ Persisted'
<1>1. s \in States
  BY DEF States
<1>2. /\ \A n \in Msgs : n # m => delivery'[n] = delivery[n]
      /\ \/ /\ delivery' = delivery /\ saved' = saved
         \/ /\ saved' = delivery' /\ delivery'[m] = s
            /\ delivery[m] # "none"
  BY <1>1, Updates DEF IInv
<1>3. \A n \in Msgs : delivery'[n] = "none" <=> delivery[n] = "none"
  BY <1>2
<1>4. Untyped' /\ FileLags'
  BY <1>2 DEF IInv, Untyped, FileLags
<1>5. Honest'
  BY <1>2 DEF IInv, Honest
<1>6. Persisted'
  BY <1>2, <1>3 DEF IInv, Types, Persisted
<1> QED BY <1>4, <1>5, <1>6

LEMMA IInvStep == IInv /\ [Next]_vars => IInv'
<1> SUFFICES ASSUME IInv, [Next]_vars PROVE IInv'
  OBVIOUS
<1>0. Types /\ Types'
  BY TypeStep DEF IInv
<1> DEFINE Rest == Untyped /\ FileLags /\ Accepted /\ Honest /\ Persisted
<1> SUFFICES Rest'
  BY <1>0 DEF IInv
<1> USE Stages4
<1>1. ASSUME NEW m \in Msgs, Type(m) PROVE Rest'
  <2>1. /\ delivery'[m] = "sending" /\ m \notin typed /\ typed' = typed \cup {m}
        /\ \A n \in Msgs \ {m} : delivery'[n] = delivery[n]
        /\ saved' = IF m \in Pings THEN saved ELSE delivery'
        /\ handed' = handed /\ got' = got
    BY <1>0, <1>1 DEF Type, Types, network
  <2>2. \A n \in Msgs : tasks'[<<n, "accepted">>] = tasks[<<n, "accepted">>]
    <3> DEFINE x == <<m, "queued">>
    <3>1. tasks' = IF link = "up" THEN [tasks EXCEPT ![x] = @ + 1] ELSE tasks
      BY <1>1 DEF Type
    <3>2. \A y \in Tasks : y # x => tasks'[y] = tasks[y]
      BY <1>0, <3>1 DEF Types, Tasks
    <3>3. \A n \in Msgs : <<n, "accepted">> \in Tasks /\ <<n, "accepted">> # x
      OBVIOUS
    <3> QED BY <3>2, <3>3
  <2>3. Untyped' /\ FileLags'
    BY <2>1 DEF IInv, Untyped, FileLags
  <2>4. Honest'
    BY <2>1 DEF IInv, Honest
  <2>5. Persisted'
    BY <2>1 DEF IInv, Types, Persisted
  <2>6. Accepted'
    BY <2>1, <2>2 DEF IInv, Accepted
  <2> QED BY <2>3, <2>4, <2>5, <2>6
<1>2. ASSUME NEW m \in Msgs, Transmit(m) PROVE Rest'
  <2>1. /\ delivery' = delivery /\ saved' = saved /\ typed' = typed
        /\ got' = got /\ handed \subseteq handed'
        /\ tasks[<<m, "queued">>] > 0
    BY <1>2 DEF Transmit
  <2>2. PICK to \in {"accepted", "broken", "refused"} :
          Moves(m, "queued", to) /\ (to = "accepted" => m \in handed')
    BY <1>2 DEF Transmit
  <2>3. \A x \in Tasks \ {<<m, "queued">>, <<m, to>>} : tasks'[x] = tasks[x]
    <3>1. "queued" \in Stages /\ to \in Stages /\ "queued" # to
      OBVIOUS
    <3>2. tasks[<<m, "queued">>] > 0 /\ Moves(m, "queued", to)
      BY <2>1, <2>2
    <3>3. Types
      BY <1>0
    <3> HIDE Stages4
    <3> QED BY <3>1, <3>2, <3>3, Counts
  <2>4. ASSUME NEW n \in Msgs, tasks'[<<n, "accepted">>] > 0
        PROVE  n \in handed'
    <3>1. CASE n = m /\ to = "accepted"
      BY <2>2, <3>1
    <3>2. CASE n # m \/ to # "accepted"
      <4>1. <<n, "accepted">> \in Tasks \ {<<m, "queued">>, <<m, to>>}
        BY <3>2
      <4> QED BY <2>1, <2>3, <2>4, <4>1 DEF IInv, Accepted
    <3> QED BY <3>1, <3>2
  <2>5. Untyped' /\ FileLags' /\ Honest' /\ Persisted'
    BY <2>1 DEF IInv, Untyped, FileLags, Honest, Persisted
  <2> QED BY <2>4, <2>5 DEF Accepted
<1>3. ASSUME NEW m \in Msgs, NEW stage \in Stages, Report(m, stage)
      PROVE  Rest'
  <2>1. /\ tasks[<<m, stage>>] > 0 /\ stage # "queued"
        /\ tasks' = [tasks EXCEPT ![<<m, stage>>] = @ - 1]
        /\ UpdateDelivery(m, StateFor(stage))
        /\ typed' = typed /\ handed' = handed /\ got' = got
    BY <1>3 DEF Report, network
  <2>2. stage = "accepted" => m \in handed
    BY <2>1 DEF IInv, Accepted
  <2>3. Untyped' /\ FileLags' /\ Honest' /\ Persisted'
    BY <2>1, <2>2, Outcomes, UpdateKeeps
  <2>4. \A x \in Tasks : tasks'[x] > 0 => tasks[x] > 0
    BY <1>0, <2>1, Ends
  <2>5. Accepted'
    BY <2>1, <2>4 DEF IInv, Accepted
  <2> QED BY <2>3, <2>5
<1>4. ASSUME NEW m \in Msgs, ClawReceives(m) PROVE Rest'
  BY <1>4 DEF ClawReceives, memory, IInv, Untyped, FileLags,
              Accepted, Honest, Persisted
<1>5. ASSUME NEW m \in Msgs, AckArrives(m) \/ ErrorArrives(m) PROVE Rest'
  <2>1. /\ typed' = typed /\ handed' = handed /\ got' = got /\ tasks' = tasks
        /\ \E s \in {"delivered", "failed"} :
             UpdateDelivery(m, s) /\ (s = "delivered" => m \in got)
    BY <1>5 DEF AckArrives, ErrorArrives, network
  <2>2. Untyped' /\ FileLags' /\ Honest' /\ Persisted'
    BY <2>1, UpdateKeeps
  <2> QED BY <2>1, <2>2 DEF IInv, Accepted
<1>6. ASSUME DrainOutbox PROVE Rest'
  <2>1. handed' = handed /\ got' = got /\ typed' = typed
    BY <1>6 DEF DrainOutbox, network
  <2>2. CASE link = "up"
    <3>1. /\ \A m \in Msgs :
               delivery'[m] = IF delivery[m] \in {"sending", "failed"}
                                THEN "sending" ELSE delivery[m]
          /\ \/ saved' = delivery'
             \/ saved' = saved /\ Pending = {}
      BY <1>6, <2>2 DEF DrainOutbox, Pending
    <3>2. Pending = {} => \A m \in Msgs : delivery'[m] = delivery[m]
      BY <3>1 DEF Pending
    <3>3. Untyped' /\ FileLags'
      BY <2>1, <3>1, <3>2 DEF IInv, Untyped, FileLags
    <3>4. Honest'
      BY <2>1, <3>1 DEF IInv, Honest
    <3>5. Persisted'
      BY <2>1, <3>1, <3>2 DEF IInv, Types, Persisted
    <3>6. \A m \in Msgs : tasks'[<<m, "accepted">>] = tasks[<<m, "accepted">>]
      <4>1. \A x \in Tasks : x[2] # "queued" => tasks'[x] = tasks[x]
        BY <1>6, <2>2 DEF DrainOutbox, Resent, Tasks
      <4>2. \A m \in Msgs : /\ <<m, "accepted">> \in Tasks
                            /\ <<m, "accepted">>[2] # "queued"
        OBVIOUS
      <4> QED BY <4>1, <4>2
    <3> QED BY <2>1, <3>3, <3>4, <3>5, <3>6 DEF IInv, Accepted
  <2>3. CASE link # "up"
    BY <1>6, <2>1, <2>3 DEF DrainOutbox, IInv, Untyped, FileLags, Accepted,
                            Honest, Persisted
  <2> QED BY <2>2, <2>3
<1>7. ASSUME Connect \/ LinkUp \/ DrainAgain \/ LinkDown PROVE Rest'
  BY <1>7 DEF Connect, LinkUp, DrainAgain, LinkDown, network, IInv, Untyped, FileLags,
              Accepted, Honest, Persisted
<1>8. ASSUME Disconnect PROVE Rest'
  <2>1. /\ delivery' = delivery /\ saved' = saved /\ typed' = typed
        /\ handed' = handed /\ got' = got
    BY <1>8 DEF Disconnect, network
  <2>2. ASSUME NEW m \in Msgs
        PROVE  tasks'[<<m, "accepted">>] = tasks[<<m, "accepted">>]
    <3>1. \A x \in Tasks : x[2] \notin {"queued", "refused"} =>
            tasks'[x] = tasks[x]
      BY <1>8 DEF Disconnect, Tasks
    <3>2. <<m, "accepted">> \in Tasks /\ <<m, "accepted">>[2] = "accepted"
      OBVIOUS
    <3> QED BY <3>1, <3>2
  <2> QED BY <2>1, <2>2 DEF IInv, Untyped, FileLags, Accepted, Honest,
                            Persisted
<1>9. ASSUME Kill PROVE Rest'
  <2>1. /\ delivery' = saved /\ saved' = saved /\ typed' = typed
        /\ handed' = handed /\ got' = got
        /\ \A x \in Tasks : tasks'[x] = 0
    BY <1>9 DEF Kill, network, Tasks
  <2>2. \A m \in Msgs : tasks'[<<m, "accepted">>] = 0
    BY <2>1
  <2> QED BY <2>1, <2>2 DEF IInv, Untyped, FileLags, Accepted, Honest,
                            Persisted
<1>10. CASE UNCHANGED vars
  BY <1>10 DEF vars, memory, network, IInv, Untyped, FileLags, Accepted,
               Honest, Persisted
<1> QED BY <1>1, <1>2, <1>3, <1>4, <1>5, <1>6, <1>7, <1>8, <1>9, <1>10
        DEF Next

\* A bubble that says sent or delivered tells the truth, for any messages and
\* any interleaving of sends, resends, acks, errors and kills of the app.
THEOREM TellsTheTruth == Spec => []Honest
<1>1. Init => IInv
  BY InitIInv
<1>2. IInv => Honest
  BY DEF IInv
<1> QED BY <1>1, <1>2, IInvStep, PTL DEF Spec

\* messages.json holds the state the screen shows of everything the user typed,
\* so that a kill of the app loses none of it.
THEOREM SurvivesKills == Spec => []Persisted
<1>1. Init => IInv
  BY InitIInv
<1>2. IInv => Persisted
  BY DEF IInv
<1> QED BY <1>1, <1>2, IInvStep, PTL DEF Spec

-----------------------------------------------------------------------------
\* What a step may not do.

Forward == \A m \in Msgs : delivery[m] = "delivered" =>
             delivery'[m] \in {"delivered", "failed"}

LEMMA ForwardStep == IInv /\ [Next]_vars => Forward
<1> SUFFICES ASSUME IInv, [Next]_vars,
                    NEW m \in Msgs, delivery[m] = "delivered"
             PROVE  delivery'[m] \in {"delivered", "failed"}
  BY DEF Forward
<1>0. Types /\ m \in typed /\ saved[m] = "delivered"
  BY DEF IInv, Untyped, FileLags
<1>1. ASSUME NEW n \in Msgs, NEW s \in States, UpdateDelivery(n, s)
      PROVE  delivery'[m] \in {"delivered", "failed"}
  <2>1. /\ m # n => delivery'[m] = delivery[m]
        /\ \/ delivery' = delivery
           \/ delivery'[n] = s /\ Rank(s) >= Rank(delivery[n])
    BY <1>0, <1>1, Updates
  <2>2. Rank(s) >= 3 => s \in {"delivered", "failed"}
    BY DEF Rank, States
  <2>3. Rank("delivered") = 3
    BY DEF Rank
  <2> QED BY <2>1, <2>2, <2>3
<1>2. ASSUME NEW n \in Msgs, Type(n)
      PROVE  delivery'[m] \in {"delivered", "failed"}
  BY <1>0, <1>2 DEF Type, Types
<1>3. ASSUME NEW n \in Msgs, NEW stage \in Stages, Report(n, stage)
      PROVE  delivery'[m] \in {"delivered", "failed"}
  BY <1>1, <1>3, Outcomes DEF Report, States
<1>4. ASSUME NEW n \in Msgs, AckArrives(n) \/ ErrorArrives(n)
      PROVE  delivery'[m] \in {"delivered", "failed"}
  BY <1>1, <1>4 DEF AckArrives, ErrorArrives, States
<1>5. ASSUME DrainOutbox
      PROVE  delivery'[m] \in {"delivered", "failed"}
  BY <1>5 DEF DrainOutbox, Pending
<1>6. ASSUME Kill PROVE delivery'[m] \in {"delivered", "failed"}
  BY <1>0, <1>6 DEF Kill
<1>7. CASE delivery' = delivery
  BY <1>7
<1> QED BY <1>2, <1>3, <1>4, <1>5, <1>6, <1>7
        DEF Next, Transmit, ClawReceives, Connect, LinkUp, DrainAgain,
            LinkDown, Disconnect, vars, memory

\* A bubble that says delivered only ever changes to failed in one turn, kills
\* of the app included (a change can be unsaved for a new ping only).
THEOREM NoDowngrade == Spec => NeverBack
<1>1. Init => IInv
  BY InitIInv
<1>2. IInv /\ [Next]_vars => [Forward]_vars
  BY ForwardStep
<1>3. Spec => [][Forward]_vars
  BY <1>1, <1>2, IInvStep, PTL DEF Spec
<1> QED BY <1>3 DEF NeverBack, Forward

-----------------------------------------------------------------------------
\* Nothing is left behind.

Active == {"queued", "accepted", "broken"}

LEMMA AttendedStep == Types /\ Attended /\ [Next]_vars => Attended'
<1> SUFFICES ASSUME Types, Attended, [Next]_vars, link' = "up", due' = 0,
                    NEW n \in Msgs, delivery'[n] = "sending"
             PROVE  \E stage \in Active : tasks'[<<n, stage>>] > 0
  BY DEF Attended, Active
<1> DEFINE Goal == \E stage \in Active : tasks'[<<n, stage>>] > 0
<1>a. Active \subseteq Stages
  BY DEF Active, Stages
<1>b. link = "up" /\ due = 0 /\ delivery[n] = "sending" =>
        \E stage \in Active : tasks[<<n, stage>>] > 0
  BY DEF Attended, Active
<1>c. tasks \in [Tasks -> Nat]
  BY DEF Types, Tasks
<1>1. ASSUME NEW m \in Msgs, Type(m) PROVE Goal
  <2> DEFINE x == <<m, "queued">>
  <2>1. link = "up" /\ due = 0
    BY <1>1 DEF Type
  <2>2. tasks' = [tasks EXCEPT ![x] = @ + 1] /\ x \in Tasks
    BY <1>1, <2>1, Stages4 DEF Type
  <2> HIDE DEF x
  <2>3. /\ tasks'[x] = tasks[x] + 1 /\ tasks[x] \in Nat
        /\ \A y \in Tasks \ {x} : tasks'[y] = tasks[y]
    BY <1>c, <2>2
  <2>4. \A y \in Tasks : tasks[y] > 0 => tasks'[y] > 0
    BY <2>3
  <2>5. CASE n = m
    <3>1. tasks'[<<n, "queued">>] > 0
      BY <2>3, <2>5 DEF x
    <3> QED BY <3>1 DEF Active
  <2>6. CASE n # m
    <3>1. delivery[n] = "sending"
      BY <1>1, <2>6 DEF Type, Types
    <3> QED BY <1>a, <1>b, <2>1, <2>4, <3>1, Stages4
  <2> QED BY <2>5, <2>6
<1>2. ASSUME NEW m \in Msgs, Transmit(m) PROVE Goal
  <2>1. /\ link = "up" /\ due = 0 /\ delivery[n] = "sending"
        /\ tasks[<<m, "queued">>] > 0
    BY <1>2 DEF Transmit
  <2>2. PICK to \in {"accepted", "broken"} : Moves(m, "queued", to)
    BY <1>2, <2>1 DEF Transmit
  <2>3. "queued" \in Stages /\ to \in Stages /\ "queued" # to
    BY Stages4
  <2>4. /\ tasks'[<<m, to>>] = tasks[<<m, to>>] + 1
        /\ \A x \in Tasks \ {<<m, "queued">>, <<m, to>>} : tasks'[x] = tasks[x]
    BY <2>1, <2>2, <2>3, Counts
  <2>5. tasks'[<<m, to>>] > 0
    <3>1. tasks[<<m, to>>] \in Nat
      BY <1>c, <2>3, Stages4
    <3> QED BY <2>4, <3>1
  <2>6. CASE n = m
    BY <2>5, <2>6 DEF Active
  <2>7. CASE n # m
    <3>1. PICK stage \in Active : tasks[<<n, stage>>] > 0
      BY <1>b, <2>1
    <3>2. <<n, stage>> \in Tasks \ {<<m, "queued">>, <<m, to>>}
      BY <1>a, <2>7, Stages4
    <3> QED BY <2>4, <3>1, <3>2
  <2> QED BY <2>6, <2>7
<1>3. ASSUME NEW m \in Msgs, NEW stage \in Stages, Report(m, stage)
      PROVE  Goal
  <2>1. /\ link = "up" /\ due = 0 /\ stage # "queued"
        /\ tasks[<<m, stage>>] > 0
        /\ tasks' = [tasks EXCEPT ![<<m, stage>>] = @ - 1]
        /\ UpdateDelivery(m, StateFor(stage))
    BY <1>3 DEF Report
  <2>2. StateFor(stage) \in States
    BY <2>1, Outcomes DEF States
  <2>3. /\ n # m => delivery'[n] = delivery[n]
        /\ \/ delivery' = delivery
           \/ /\ delivery'[m] = StateFor(stage)
              /\ Rank(StateFor(stage)) >= Rank(delivery[m])
              /\ delivery[m] # "none"
    BY <2>1, <2>2, Updates
  <2>4. \A x \in Tasks \ {<<m, stage>>} : tasks'[x] = tasks[x]
    BY <2>1, Ends
  <2>5. delivery[n] = "sending"
    <3>1. delivery[n] \in States
      BY DEF Types
    <3>2. \A s \in States : 1 >= Rank(s) => s \in {"none", "sending"}
      BY DEF Rank, States
    <3>3. Rank("sending") = 1
      BY DEF Rank
    <3> QED BY <2>3, <3>1, <3>2, <3>3
  <2>6. PICK other \in Active : tasks[<<n, other>>] > 0
    BY <1>b, <2>1, <2>5
  <2>7. CASE n # m \/ stage = "refused"
    <3>1. <<n, other>> \in Tasks \ {<<m, stage>>}
      BY <1>a, <2>7, Stages4 DEF Active
    <3> QED BY <2>4, <2>6, <3>1
  <2>8. CASE n = m /\ stage # "refused"
    <3>1. StateFor(stage) # "sending" /\ Rank(StateFor(stage)) >= 1
      BY <2>1, <2>8, Outcomes DEF Rank
    <3>2. Takes(m, StateFor(stage))
      BY <2>5, <2>8, <3>1 DEF Takes, Rank
    <3>3. delivery'[m] = StateFor(stage)
      BY <2>1, <3>2 DEF UpdateDelivery, Types
    <3> QED BY <2>8, <3>1, <3>3
  <2> QED BY <2>7, <2>8
<1>4. ASSUME NEW m \in Msgs, ClawReceives(m) PROVE Goal
  BY <1>4, <1>b DEF ClawReceives, memory
<1>5. ASSUME NEW m \in Msgs, AckArrives(m) \/ ErrorArrives(m) PROVE Goal
  <2>1. /\ link = "up" /\ due = 0 /\ tasks' = tasks
        /\ \E s \in {"delivered", "failed"} : UpdateDelivery(m, s)
    BY <1>5 DEF AckArrives, ErrorArrives
  <2>2. delivery[n] = "sending"
    BY <2>1, Updates DEF States
  <2> QED BY <1>b, <2>1, <2>2
<1>6. ASSUME DrainOutbox PROVE Goal
  <2>1. link = "up"
    BY <1>6 DEF DrainOutbox
  <2>2. n \in Pending
    BY <1>6, <2>1 DEF DrainOutbox, Pending
  <2> DEFINE x == <<n, "queued">>
  <2>3. x \in Tasks /\ x[1] \in Pending /\ x[2] = "queued"
    BY <2>2, Stages4
  <2>4. tasks'[x] = tasks[x] + 1
    <3>1. tasks' = [y \in Tasks |->
            IF y[1] \in Pending /\ y[2] = "queued" THEN tasks[y] + 1
                                                   ELSE tasks[y]]
      BY <1>6, <2>1 DEF DrainOutbox, Resent, Tasks
    <3> HIDE DEF x
    <3> QED BY <2>3, <3>1
  <2>5. tasks'[x] > 0
    <3> HIDE DEF x
    <3> QED BY <1>c, <2>3, <2>4
  <2> QED BY <2>5 DEF Active
<1>7. ASSUME Connect \/ LinkDown \/ Disconnect \/ Kill PROVE FALSE
  BY <1>7 DEF Connect, LinkDown, Disconnect, Kill
<1>8. ASSUME LinkUp \/ DrainAgain PROVE FALSE
  BY <1>8 DEF LinkUp, DrainAgain, Types
<1>9. CASE UNCHANGED vars
  BY <1>9, <1>b DEF vars, memory
<1> QED BY <1>1, <1>2, <1>3, <1>4, <1>5, <1>6, <1>7, <1>8, <1>9 DEF Next

\* While the connection is ready and no drain is due, each bubble that says
\* sending has a Task that settles it, however sends, refusals, reconnects and
\* drains interleave.
THEOREM NobodyLeftBehind == Spec => []Attended
<1>1. Init => Types /\ Attended
  BY InitIInv DEF IInv
<1> QED BY <1>1, TypeStep, AttendedStep, PTL DEF Spec
=============================================================================
