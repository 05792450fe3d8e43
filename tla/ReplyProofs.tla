---------------------------- MODULE ReplyProofs ----------------------------
(***************************************************************************)
(* Proofs about Reply, for any payloads and any host.  What the waiting    *)
(* guarantees rests on three facts that are inductive with TypeOK: a       *)
(* payload taken while the host's call was awaited has all its promises in *)
(* pending, they are all in the snapshot waitForIdle took, and a settled   *)
(* promise stays settled.                                                  *)
(***************************************************************************)
EXTENDS Reply, TLAPS

Ends == {"sent", "queued", "failed"}
Shapes == {<<"log">>, <<"inject", "log">>, <<"reply", "log">>, <<"reply", "inject", "log">>}

\* The closure awaits nothing in log-only, waits for idleness only after the
\* reply surface, and has closed the dispatcher once it is past that surface.
Placed ==
  /\ phase = "host" => Strategy # "log"
  /\ phase = "idle" => Strategy = "reply"
  /\ phase = "returned" /\ Strategy = "reply" => complete
  /\ at > 1 /\ Primary = "reply" => complete

Begun == \A r \in early : "wired" \in offer => PartsOf(r) \subseteq Pending
Covered == phase = "idle" => \A r \in early : "wired" \in offer => PartsOf(r) \subseteq awaited

IInv == TypeOK /\ Placed /\ Begun /\ Covered /\ SettledAtReturn

USE ReplyAssumption

\* The four chains buildFallbackChain makes.
LEMMA Chains ==
  /\ Chain \in Shapes
  /\ Chain[1] = Primary
  /\ Primary = "reply" <=> "reply" \in offer
  /\ \A i \in DOMAIN Chain : Chain[i] = "reply" => i = 1
  /\ \A i \in DOMAIN Chain : Chain[i] # "log" => i + 1 \in DOMAIN Chain
  /\ \A i \in DOMAIN Chain : Chain[i] = "log" =>
       \A s \in offer \cap Surfaces : \E j \in 1..(i - 1) : Chain[j] = s
<1>1. CASE "reply" \in offer /\ "inject" \in offer
  <2>1. Primary = "reply" /\ Chain = <<"reply", "inject", "log">>
    BY <1>1 DEF Chain, Primary, FallsBack
  <2> QED BY <1>1, <2>1 DEF Shapes, Surfaces
<1>2. CASE "reply" \in offer /\ "inject" \notin offer
  <2>1. Primary = "reply" /\ Chain = <<"reply", "log">>
    BY <1>2 DEF Chain, Primary, FallsBack
  <2> QED BY <1>2, <2>1 DEF Shapes, Surfaces
<1>3. CASE "reply" \notin offer /\ "inject" \in offer
  <2>1. Primary = "inject" /\ Chain = <<"inject", "log">>
    BY <1>3 DEF Chain, Primary, FallsBack
  <2> QED BY <1>3, <2>1 DEF Shapes, Surfaces
<1>4. CASE "reply" \notin offer /\ "inject" \notin offer
  <2>1. Primary = "log" /\ Chain = <<"log">>
    BY <1>4 DEF Chain, Primary, FallsBack
  <2> QED BY <1>4, <2>1 DEF Shapes, Surfaces
<1> QED BY <1>1, <1>2, <1>3, <1>4

\* The parts of a payload are parts.
LEMMA PartsArePairs == \A r \in Replies : PartsOf(r) \subseteq Parts
<1> SUFFICES ASSUME NEW r \in Replies PROVE PartsOf(r) \subseteq Parts
  OBVIOUS
<1>1. Urls[r] \in Nat
  OBVIOUS
<1>2. Medias(r) \subseteq {r} \X (0..Urls[r]) /\ Text(r) \in {r} \X (0..Urls[r])
  BY <1>1 DEF Medias, Text
<1>3. {r} \X (0..Urls[r]) \subseteq Parts
  BY DEF Parts
<1> QED BY <1>2, <1>3 DEF PartsOf

LEMMA InitIInv == Init => IInv
<1> SUFFICES ASSUME Init PROVE IInv
  OBVIOUS
<1>1. at \in DOMAIN Chain
  <2>1. Chain \in Shapes /\ at = 1
    BY Chains DEF Init
  <2> QED BY <2>1 DEF Shapes
<1>2. TypeOK
  BY <1>1 DEF Init, TypeOK
<1>3. Placed /\ Begun /\ Covered /\ SettledAtReturn
  BY DEF Init, Placed, Begun, Covered, SettledAtReturn
<1> QED BY <1>2, <1>3 DEF IInv

\* A step that keeps the offer keeps the chain.
LEMMA Frame ==
  ASSUME UNCHANGED <<offer, blank>>
  PROVE  /\ Chain' = Chain /\ Primary' = Primary
         /\ \A r : PartsOf(r)' = PartsOf(r)
  BY DEF Chain, Primary, FallsBack, PartsOf, Medias, Text

LEMMA NextIInv == IInv /\ [Next]_vars => IInv'
<1> SUFFICES ASSUME IInv, [Next]_vars PROVE IInv'
  OBVIOUS
<1> USE DEF IInv
<1>f. UNCHANGED <<offer, blank>>
  BY DEF Next, vars, Call, HandReply, Loaded, Sent, HostResolves, HostThrows, Idle
<1>g. /\ Chain' = Chain /\ Primary' = Primary
      /\ \A r : PartsOf(r)' = PartsOf(r)
  BY <1>f, Frame
<1>1. CASE Call
  <2>1. /\ phase = "call"
        /\ phase' = IF Strategy = "log" THEN "returned" ELSE "host"
        /\ UNCHANGED <<offer, blank, at, complete, taken, part, awaited, failures, early>>
    BY <1>1 DEF Call
  <2>2. Strategy' = Strategy
    BY <2>1, <1>g DEF Strategy
  <2>3. TypeOK'
    BY <2>1, <1>g DEF TypeOK
  <2>4. Placed' /\ Begun' /\ Covered' /\ SettledAtReturn'
    BY <2>1, <2>2, <1>g DEF Placed, Begun, Covered, SettledAtReturn, Pending
  <2> QED BY <2>3, <2>4
<1>2. ASSUME NEW r \in Replies, HandReply(r) PROVE IInv'
  <2>1. /\ UNCHANGED <<offer, blank, at, phase, complete, awaited, failures>>
        /\ taken' = taken \cup {r}
        /\ early' = IF at = 1 /\ phase = "host" THEN early \cup {r} ELSE early
    BY <1>2 DEF HandReply
  <2>2. Strategy' = Strategy
    BY <2>1, <1>g DEF Strategy
  <2>3. /\ part' \in [Parts -> {"none", "loading", "sending", "sent", "queued", "failed"}]
        /\ \A p \in Parts : part[p] # "none" /\ p \notin PartsOf(r) => part'[p] = part[p]
        /\ "wired" \in offer => \A p \in PartsOf(r) : part'[p] # "none"
        /\ "wired" \notin offer => part' = part
    BY <1>2, PartsArePairs DEF HandReply, TypeOK
  <2>4. TypeOK'
    BY <2>1, <2>3, <1>g DEF TypeOK
  <2>5. Placed'
    BY <2>1, <2>2, <1>g DEF Placed
  <2>6. Begun'
    <3>1. \A q \in Replies : PartsOf(q) \subseteq Parts
      BY PartsArePairs
    <3>2. early' \subseteq early \cup {r}
      BY <2>1
    <3>3. \A q \in early \cup {r} : \A p \in PartsOf(q) : "wired" \in offer => part'[p] # "none"
      BY <2>3, <3>1 DEF Begun, Pending, TypeOK
    <3> QED BY <2>1, <3>1, <3>2, <3>3, <1>g DEF Begun, Pending, TypeOK
  <2>7. Covered'
    BY <2>1, <1>g DEF Covered
  <2>8. SettledAtReturn'
    <3>1. (phase # "host" /\ early' = early) \/ phase = "host"
      BY <2>1
    <3>2. ASSUME phase = "returned", Strategy = "reply", "wired" \in offer PROVE FALSE
      <4>1. at \in DOMAIN Chain /\ Chain[at] = "reply"
        BY <3>2 DEF TypeOK, Strategy
      <4> QED BY <4>1, <3>2, <1>2 DEF HandReply, Open, Placed
    <3> QED BY <2>1, <2>2, <3>1, <3>2, <1>g DEF SettledAtReturn
  <2> QED BY <2>4, <2>5, <2>6, <2>7, <2>8
<1>5. CASE HostResolves
  <2>1. /\ phase = "host" /\ UNCHANGED <<offer, blank, at, complete, taken, part, failures, early>>
        /\ \/ Strategy = "reply" /\ phase' = "idle" /\ awaited' = Pending
           \/ Strategy = "inject" /\ phase' = "returned" /\ UNCHANGED awaited
    BY <1>5 DEF HostResolves, Snapshot
  <2>2. Strategy' = Strategy
    BY <2>1, <1>g DEF Strategy
  <2>3. TypeOK'
    BY <2>1, <1>g DEF TypeOK, Pending
  <2>4. Placed' /\ Begun' /\ Covered' /\ SettledAtReturn'
    BY <2>1, <2>2, <1>g DEF Placed, Begun, Covered, SettledAtReturn, Pending
  <2> QED BY <2>3, <2>4
<1>6. CASE HostThrows
  <2>1. /\ phase = "host" /\ phase' = "call" /\ at' = at + 1
        /\ complete' = (complete \/ Strategy = "reply")
        /\ UNCHANGED <<offer, blank, taken, part, awaited, failures, early>>
    BY <1>6 DEF HostThrows, ClosedByThrow
  <2>2. at + 1 \in DOMAIN Chain
    BY <2>1, Chains DEF TypeOK, Placed, Strategy
  <2>3. TypeOK'
    BY <2>1, <2>2, <1>g DEF TypeOK
  <2>4. ASSUME Primary = "reply" PROVE complete'
    <3>1. at \in Nat /\ at >= 1
      BY Chains DEF TypeOK, Shapes
    <3>2. CASE at = 1
      BY <3>2, <2>1, <2>4, Chains DEF Strategy
    <3>3. CASE at > 1
      BY <3>3, <2>1, <2>4 DEF Placed
    <3> QED BY <3>1, <3>2, <3>3
  <2>5. Placed' /\ Begun' /\ Covered' /\ SettledAtReturn'
    BY <2>1, <2>4, <1>g DEF Placed, Begun, Covered, SettledAtReturn, Pending
  <2> QED BY <2>3, <2>5
<1>7. CASE Idle
  <2>1. /\ phase = "idle" /\ phase' = "returned" /\ complete' = TRUE
        /\ \A p \in awaited : Settled(p)
        /\ UNCHANGED <<offer, blank, at, taken, part, awaited, failures, early>>
    BY <1>7 DEF Idle
  <2>2. Strategy' = Strategy
    BY <2>1, <1>g DEF Strategy
  <2>3. TypeOK'
    BY <2>1, <1>g DEF TypeOK
  <2>4. Placed' /\ Begun' /\ Covered'
    BY <2>1, <2>2, <1>g DEF Placed, Begun, Covered, Pending
  <2>5. SettledAtReturn'
    BY <2>1, <2>2, <1>g DEF Covered, SettledAtReturn, Settled
  <2> QED BY <2>3, <2>4, <2>5
<1>8. ASSUME NEW p \in Parts, Loaded(p) \/ Sent(p) PROVE IInv'
  <2>1. /\ UNCHANGED <<offer, blank, at, phase, complete, taken, awaited, early>>
        /\ failures' \in {failures, failures + 1}
        /\ part[p] \in {"loading", "sending"}
        /\ \E end \in {"sending", "sent", "queued", "failed"} : part' = [part EXCEPT ![p] = end]
    BY <1>8 DEF Loaded, Sent
  <2>2. Strategy' = Strategy
    BY <2>1, <1>g DEF Strategy
  <2>3. failures' \in Nat
    BY <2>1 DEF TypeOK
  <2>4. TypeOK'
    BY <2>1, <2>3, <1>g DEF TypeOK
  <2>5. \A q \in Parts : /\ part[q] # "none" => part'[q] # "none"
                         /\ part[q] \in Ends => part'[q] = part[q]
    BY <2>1 DEF TypeOK, Ends
  <2>6. Placed' /\ Begun' /\ Covered'
    BY <2>1, <2>2, <2>5, <1>g DEF Placed, Begun, Covered, Pending
  <2>7. SettledAtReturn'
    <3>1. \A r \in early : PartsOf(r) \subseteq Parts
      BY PartsArePairs DEF TypeOK
    <3> QED BY <2>1, <2>2, <2>5, <3>1, <1>g DEF SettledAtReturn, Settled, Ends
  <2> QED BY <2>4, <2>6, <2>7
<1>9. CASE UNCHANGED vars
  <2>1. Strategy' = Strategy
    BY <1>9, <1>g DEF Strategy, vars
  <2> QED
    BY <1>9, <2>1, <1>g DEF vars, TypeOK, Placed, Begun, Covered, SettledAtReturn, Pending, Settled
<1> QED BY <1>1, <1>2, <1>5, <1>6, <1>7, <1>8, <1>9 DEF Next

\* The strengthened invariant holds in every reachable state.
THEOREM Inductive == Spec => []IInv
  BY InitIInv, NextIInv, PTL DEF Spec

\* Types are kept, and the closure never runs past the end of its chain.
THEOREM TypeCorrect == Spec => []TypeOK
<1>1. IInv => TypeOK
  BY DEF IInv
<1> QED BY Inductive, <1>1, PTL

\* Everything handed over before the host's call resolved has settled when the
\* dispatch returns, for any payloads and any order of sends.
THEOREM WaitsForAnswers == Spec => []SettledAtReturn
<1>1. IInv => SettledAtReturn
  BY DEF IInv
<1> QED BY Inductive, <1>1, PTL

\* No reply begins once the closure has fallen through.
THEOREM ClosedBehind == Spec => NoLateAnswers
<1>1. IInv /\ [Next]_vars =>
        [at > 1 => \A p \in Parts : part[p] = "none" => part'[p] = "none"]_vars
  <2> SUFFICES ASSUME IInv, [Next]_vars, at > 1,
                      NEW p \in Parts, part[p] = "none"
               PROVE  part'[p] = "none"
    OBVIOUS
  <2>1. CASE \E r \in Replies : HandReply(r)
    <3>1. Primary = "reply"
      BY <2>1 DEF HandReply, HasDispatcher
    <3>2. complete
      BY <3>1 DEF IInv, Placed
    <3> QED BY <2>1, <3>2 DEF HandReply, Open
  <2>2. CASE \E q \in Parts : Loaded(q) \/ Sent(q)
    <3>1. PICK q \in Parts : Loaded(q) \/ Sent(q)
      BY <2>2
    <3>2. part[q] # "none" /\ \E end : part' = [part EXCEPT ![q] = end]
      BY <3>1 DEF Loaded, Sent
    <3> QED BY <3>2 DEF IInv, TypeOK
  <2>3. CASE Call \/ HostResolves \/ HostThrows \/ Idle \/ UNCHANGED vars
    BY <2>3 DEF Call, HostResolves, HostThrows, Idle, vars
  <2> QED BY <2>1, <2>2, <2>3 DEF Next
<1> QED BY Inductive, <1>1, PTL DEF Spec, NoLateAnswers
=============================================================================
