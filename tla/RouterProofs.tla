---------------------------- MODULE RouterProofs ----------------------------
(***************************************************************************)
(* Proofs about Router, for every number of clients and endpoints: its     *)
(* type invariant, what the two strategies return, and that no record      *)
(* changes under a pick.                                                   *)
(***************************************************************************)
EXTENDS Router, Induction

-----------------------------------------------------------------------------
(* The least-load pick                                                     *)

Slots == 0 .. NumEndpoints

\* One round of pickLeastLoad's loop.
Better(n, best) == IF healthy[n] /\ (best = 0 \/ load[n] < load[best]) THEN n ELSE best

\* The loop is well defined.
LEMMA BestDef ==
    Best \in [Slots -> Slots] /\ \A n \in Slots : Best[n] = IF n = 0 THEN 0 ELSE Better(n, Best[n - 1])
<1> DEFINE F == [n \in 1 .. NumEndpoints |-> [best \in Slots |-> Better(n, best)]]
           Loop(g) == [n \in Slots |-> IF n = 0 THEN 0 ELSE Better(n, g[n - 1])]
<1>1. NumEndpoints \in Nat /\ 0 \in Slots
  BY RouterAssumption DEF Slots
<1>2. F \in [1 .. NumEndpoints -> [Slots -> Slots]]
  BY <1>1 DEF Slots, Better
<1>3. PICK g \in [Slots -> Slots] :
        \A n \in Slots : g[n] = IF n = 0 THEN 0 ELSE F[n][g[n - 1]]
  <2> HIDE DEF F
  <2>1. PICK g \in [Slots -> Slots] : Iterates(g, F, 0, NumEndpoints)
    BY <1>1, <1>2, Iteration DEF Slots
  <2>2. QED
    BY <2>1 DEF Iterates, Slots
<1>4. \A n \in Slots : n # 0 => n \in 1 .. NumEndpoints /\ g[n - 1] \in Slots
  <2>1. \A n \in Slots : n # 0 => n \in 1 .. NumEndpoints /\ n - 1 \in Slots
    BY <1>1 DEF Slots
  <2>2. QED
    BY <1>3, <2>1
<1>5. \A n \in Slots : n # 0 => F[n][g[n - 1]] = Better(n, g[n - 1])
  BY <1>4
<1>6. g = Loop(g)
  <2> HIDE DEF F
  <2>1. QED
    BY <1>3, <1>5
<1>7. Best = Loop(Best)
  BY <1>6 DEF Best, Slots, Better
<1> HIDE DEF Loop
<1>8. DOMAIN Best = Slots /\ \A n \in Slots : Best[n] = IF n = 0 THEN 0 ELSE Better(n, Best[n - 1])
  BY <1>7 DEF Loop
<1>9. Slots \subseteq {n \in Slots : Best[n] \in Slots}
  <2> DEFINE S == {n \in Slots : Best[n] \in Slots}
  <2>1. 0 \in S
    BY <1>1, <1>8
  <2>2. ASSUME NEW n \in 0 .. NumEndpoints - 1, n \in S PROVE n + 1 \in S
    <3>1. n + 1 \in Slots /\ n + 1 # 0 /\ n + 1 - 1 = n
      BY <1>1 DEF Slots
    <3>2. Best[n + 1] = Better(n + 1, Best[n])
      BY <1>8, <3>1
    <3>3. QED
      BY <2>2, <3>1, <3>2 DEF Better
  <2> HIDE DEF S
  <2>3. 0 .. NumEndpoints \subseteq S
    BY <1>1, <2>1, <2>2, UpTo
  <2>4. QED
    BY <2>3 DEF S, Slots
<1>10. Best \in [Slots -> Slots]
  BY <1>7, <1>9 DEF Loop
<1>11. QED
  BY <1>8, <1>10

-----------------------------------------------------------------------------
(* The type invariant                                                      *)

LEMMA TypeInit == Init => TypeOK
<1> SUFFICES ASSUME Init PROVE TypeOK
  OBVIOUS
<1>1. 0 \in 0 .. MaxLoad /\ 0 \in 0 .. NumEndpoints /\ 0 \in 0 .. NumEndpoints - 1
  BY RouterAssumption
<1>2. /\ healthy \in [Endpoints -> BOOLEAN]
      /\ load \in [Endpoints -> 0 .. MaxLoad]
  BY <1>1 DEF Init
<1>3. /\ pc \in [Clients -> PC]
      /\ tries \in [Clients -> 0 .. NumEndpoints - 1]
      /\ ep \in [Clients -> Endpoints \cup {None}]
      /\ crossed \in [Clients -> BOOLEAN]
  BY <1>1 DEF Init, PC
<1>4. QED
  BY <1>1, <1>2, <1>3 DEF Init, TypeOK

LEMMA TypeStep == TypeOK /\ [Next]_vars => TypeOK'
<1> SUFFICES ASSUME TypeOK, [Next]_vars PROVE TypeOK'
  OBVIOUS
<1> USE RouterAssumption DEF TypeOK, PC, Endpoints, Sweepers, records, locks, sweep, client
<1>1. ASSUME NEW c \in Clients, ClientStep(c) PROVE TypeOK'
  <2>1. CASE Create(c)
    BY <2>1 DEF Create, Goto
  <2>2. CASE PickLeastLoad(c)
    <3>1. (IF LeastLoad = 0 THEN 1 ELSE LeastLoad) \in Endpoints
      BY BestDef DEF LeastLoad, Slots
    <3> HIDE DEF Endpoints
    <3>2. QED
      BY <2>2, <3>1 DEF PickLeastLoad, Picked
  <2>3. CASE EnterRoundRobin(c)
    BY <2>3 DEF EnterRoundRobin
  <2>4. rrIndex + 1 \in 1 .. NumEndpoints /\ (rrIndex + 1) % NumEndpoints \in 0 .. NumEndpoints - 1
    OBVIOUS
  <2>5. CASE TakeDrawn(c)
    <3>1. crossed' \in [Clients -> BOOLEAN] /\ rrIndex' \in 0 .. NumEndpoints - 1
      BY <2>4, <2>5 DEF TakeDrawn, Draw
    <3>2. ep' \in [Clients -> Endpoints \cup {None}] /\ pc' \in [Clients -> PC]
      BY <2>4, <2>5 DEF TakeDrawn, Drawn, Picked
    <3>3. tries' \in [Clients -> 0 .. NumEndpoints - 1] /\ readers' \in SUBSET Clients
      BY <2>4, <2>5 DEF TakeDrawn, Picked
    <3> HIDE DEF PC, Endpoints
    <3>4. QED
      BY <2>5, <3>1, <3>2, <3>3 DEF TakeDrawn
  <2>6. CASE SkipDrawn(c)
    <3>1. crossed' \in [Clients -> BOOLEAN] /\ rrIndex' \in 0 .. NumEndpoints - 1
      BY <2>4, <2>6 DEF SkipDrawn, Draw
    <3>2. tries' \in [Clients -> 0 .. NumEndpoints - 1]
      BY <2>6 DEF SkipDrawn
    <3> HIDE DEF PC, Endpoints
    <3>3. QED
      BY <2>6, <3>1, <3>2 DEF SkipDrawn
  <2>7. CASE FallBack(c)
    <3>1. crossed' \in [Clients -> BOOLEAN] /\ rrIndex' \in 0 .. NumEndpoints - 1
      BY <2>4, <2>7 DEF FallBack, Draw
    <3>2. /\ ep' \in [Clients -> Endpoints \cup {None}] /\ pc' \in [Clients -> PC]
          /\ tries' \in [Clients -> 0 .. NumEndpoints - 1] /\ readers' \in SUBSET Clients
      BY <2>4, <2>7 DEF FallBack, Picked
    <3> HIDE DEF PC, Endpoints
    <3>3. QED
      BY <2>7, <3>1, <3>2 DEF FallBack
  <2>8. CASE CapacityOK(c) \/ CapacityFails(c) \/ ConnectFails(c)
    BY <2>8 DEF CapacityOK, CapacityFails, ConnectFails, Goto
  <2>9. CASE CreateReturns(c)
    BY <2>9 DEF CreateReturns, Leave
  <2>10. CASE LockForMark(c)
    BY <2>10 DEF LockForMark, Goto
  <2>11. CASE MarkUnhealthy(c)
    BY <2>11 DEF MarkUnhealthy, Leave
  <2>12. QED
    BY <1>1, <2>1, <2>2, <2>3, <2>5, <2>6, <2>7, <2>8, <2>9, <2>10, <2>11 DEF ClientStep
<1>2. ASSUME NEW h \in Sweepers, SweepBegin(h) \/ ProbeAnswered(h) \/ ProbeFails(h)
      PROVE  TypeOK'
  <2>1. CASE SweepBegin(h)
    BY <2>1 DEF SweepBegin
  <2>2. ASSUME NEW alive \in BOOLEAN, Advance(alive)
        PROVE  /\ sweepAt' \in 0 .. NumEndpoints /\ sweepOK' \in BOOLEAN
               /\ writer' \in Clients \cup Sweepers \cup {None}
    <3>1. CASE sweepAt = NumEndpoints
      BY <2>2, <3>1 DEF Advance
    <3>2. CASE sweepAt # NumEndpoints
      <4>1. sweepAt + 1 \in 0 .. NumEndpoints
        BY <3>2
      <4>2. QED
        BY <2>2, <3>2, <4>1 DEF Advance
    <3>3. QED
      BY <3>1, <3>2
  <2>3. CASE ProbeAnswered(h)
    <3>1. /\ healthy' \in [Endpoints -> BOOLEAN]
          /\ load' \in [Endpoints -> 0 .. MaxLoad]
      BY <2>3 DEF ProbeAnswered
    <3>2. QED
      BY <2>2, <2>3, <3>1 DEF ProbeAnswered
  <2>4. CASE ProbeFails(h)
    <3>1. healthy' \in [Endpoints -> BOOLEAN]
      BY <2>4 DEF ProbeFails
    <3>2. PICK alive \in BOOLEAN : Advance(alive)
      BY <2>4 DEF ProbeFails
    <3>3. QED
      BY <2>2, <2>4, <3>1, <3>2 DEF ProbeFails
  <2>5. QED
    BY <1>2, <2>1, <2>3, <2>4
<1>3. CASE SweepCancelled \/ Stop
  BY <1>3 DEF SweepCancelled, Stop
<1>4. CASE \E e \in Endpoints, r \in Real : Become(e, r)
  BY <1>4 DEF Become
<1>5. CASE UNCHANGED vars
  BY <1>5 DEF vars
<1>6. QED
  BY <1>1, <1>2, <1>3, <1>4, <1>5 DEF Next

\* Every endpoint that is picked exists, whichever strategy picks it, the
\* shared counter and the position of a sweep stay in range, and the lock has
\* a writer that can give it back.
THEOREM RouterTypeOK == Spec => []TypeOK
<1>1. TypeOK /\ UNCHANGED vars => TypeOK'
  BY TypeStep
<1>2. QED
  BY <1>1, TypeInit, TypeStep, PTL DEF Spec

-----------------------------------------------------------------------------
(* The lock                                                                *)

LEMMA LocksInit == Init => LocksHeld
BY RouterAssumption DEF Init, LocksHeld

LEMMA LocksStep == TypeOK /\ LocksHeld /\ [Next]_vars => LocksHeld'
<1> SUFFICES ASSUME TypeOK, LocksHeld, [Next]_vars PROVE LocksHeld'
  OBVIOUS
<1>1. None \notin Clients \cup Sweepers /\ Clients \cap Sweepers = {} /\ NumEndpoints \in Nat \ {0}
  BY RouterAssumption
<1>2. pc \in [Clients -> PC] /\ sweepAt \in 0 .. NumEndpoints
  BY DEF TypeOK
<1> USE DEF LocksHeld, locks, sweep, client
\* A step of one client outside the lock.
<1>3. ASSUME NEW c \in Clients, NEW l, l \notin {"pick", "marking"}, pc[c] \notin {"pick", "marking"},
             pc' = [pc EXCEPT ![c] = l], UNCHANGED <<locks, sweepAt>>
      PROVE  LocksHeld'
  BY <1>2, <1>3
<1>4. ASSUME NEW c \in Clients, ClientStep(c) PROVE LocksHeld'
  <2>1. CASE Create(c) \/ CapacityOK(c) \/ CapacityFails(c) \/ ConnectFails(c)
    BY <1>3, <2>1 DEF Create, CapacityOK, CapacityFails, ConnectFails, Goto
  <2>2. CASE PickLeastLoad(c) \/ CreateReturns(c)
    BY <1>3, <2>2 DEF PickLeastLoad, CreateReturns, Picked, Leave
  <2>3. CASE EnterRoundRobin(c)
    BY <1>2, <2>3 DEF EnterRoundRobin
  <2>4. CASE TakeDrawn(c) \/ FallBack(c)
    BY <1>2, <2>4 DEF TakeDrawn, FallBack, Picked, Draw
  <2>5. CASE SkipDrawn(c)
    BY <2>5 DEF SkipDrawn
  <2>6. CASE LockForMark(c)
    BY <1>1, <1>2, <2>6 DEF LockForMark, Goto
  <2>7. CASE MarkUnhealthy(c)
    BY <1>1, <1>2, <2>7 DEF MarkUnhealthy, Leave
  <2>8. QED
    BY <1>4, <2>1, <2>2, <2>3, <2>4, <2>5, <2>6, <2>7 DEF ClientStep
<1>5. ASSUME NEW h \in Sweepers, SweepBegin(h) PROVE LocksHeld'
  BY <1>1, <1>5 DEF SweepBegin
<1>6. ASSUME NEW h \in Sweepers, ProbeAnswered(h) \/ ProbeFails(h) PROVE LocksHeld'
  <2>1. writer = h /\ sweepAt # 0 /\ UNCHANGED <<readers, pc>>
    BY <1>6 DEF ProbeAnswered, ProbeFails, Probing
  <2>2. \/ sweepAt' = 0 /\ writer' = None
        \/ sweepAt' = sweepAt + 1 /\ writer' = writer
    BY <1>6 DEF ProbeAnswered, ProbeFails, Advance
  <2>3. sweepAt + 1 # 0
    BY <1>2
  <2>4. QED
    BY <1>1, <2>1, <2>2, <2>3
<1>7. CASE SweepCancelled \/ Stop \/ UNCHANGED vars
  BY <1>7 DEF SweepCancelled, Stop, vars
<1>8. CASE \E e \in Endpoints, r \in Real : Become(e, r)
  BY <1>8 DEF Become
<1>9. QED
  BY <1>4, <1>5, <1>6, <1>7, <1>8 DEF Next

\* The lock is never left taken: whoever has it, or has asked for it to write,
\* is in the code that gives it back (router.go:67-69, 121-123, 134-150).
THEOREM RouterLocksHeld == Spec => []LocksHeld
<1>1. Init => TypeOK /\ LocksHeld
  BY TypeInit, LocksInit
<1>2. TypeOK /\ LocksHeld /\ [Next]_vars => TypeOK' /\ LocksHeld'
  BY TypeStep, LocksStep
<1>3. QED
  BY <1>1, <1>2, PTL DEF Spec

-----------------------------------------------------------------------------
(* What pickLeastLoad returns                                              *)

\* b is a healthy one of the first n endpoints than which no healthy one of
\* them is less loaded, or 0 if none of them is healthy.
BestOf(n, b) ==
    IF \E e \in 1 .. n : healthy[e]
    THEN /\ b \in 1 .. n /\ healthy[b]
         /\ \A e \in 1 .. n : healthy[e] => load[b] <= load[e]
    ELSE b = 0

LEMMA BestIsBest == TypeOK => BestOf(NumEndpoints, LeastLoad)
<1> SUFFICES ASSUME TypeOK PROVE BestOf(NumEndpoints, LeastLoad)
  OBVIOUS
<1> DEFINE S == {n \in Slots : BestOf(n, Best[n])}
<1>1. NumEndpoints \in Nat /\ 0 \in Slots
  BY RouterAssumption DEF Slots
<1>2. 0 \in S
  BY <1>1, BestDef DEF BestOf
<1>3. ASSUME NEW n \in 0 .. NumEndpoints - 1, n \in S PROVE n + 1 \in S
  <2>1. n \in Nat /\ n + 1 \in Slots /\ n + 1 # 0 /\ (n + 1) - 1 = n /\ n + 1 \in Endpoints
    BY <1>1 DEF Slots, Endpoints
  <2>2. Best[n + 1] = Better(n + 1, Best[n])
    BY <2>1, BestDef
  <2>3. \A e \in 1 .. n + 1 : e \in Endpoints /\ load[e] \in Nat /\ (e = n + 1 \/ e \in 1 .. n)
    BY <1>1, <2>1, RouterAssumption DEF TypeOK, Endpoints
  <2>4. \A e \in 1 .. n : e \in 1 .. n + 1 /\ e # 0
    BY <2>1
  <2>5. BestOf(n, Best[n])
    BY <1>3
  <2>6. n + 1 \in 1 .. n + 1
    BY <2>1
  <2>7. BestOf(n + 1, Best[n + 1])
    <3>1. CASE Better(n + 1, Best[n]) = n + 1
      BY <2>2, <2>3, <2>4, <2>5, <2>6, <3>1 DEF BestOf, Better
    <3>2. CASE Better(n + 1, Best[n]) # n + 1
      BY <2>2, <2>3, <2>4, <2>5, <2>6, <3>2 DEF BestOf, Better
    <3>3. QED
      BY <3>1, <3>2
  <2>8. QED
    BY <2>1, <2>7
<1>4. 0 .. NumEndpoints \subseteq S
  <2> HIDE DEF S
  <2>1. QED
    BY <1>1, <1>2, <1>3, UpTo
<1>5. QED
  BY <1>1, <1>4 DEF LeastLoad

-----------------------------------------------------------------------------
(* The round-robin pick                                                    *)

\* How many draws before the counter stood at r it stood at index e (index 0
\* is endpoint 1).
Behind(r, e) == IF e < r THEN r - e ELSE r + NumEndpoints - e

Indices == 0 .. NumEndpoints - 1

Shape ==
    /\ rrIndex \in Indices
    /\ pc \in [Clients -> PC]
    /\ tries \in [Clients -> Indices]
    /\ crossed \in [Clients -> BOOLEAN]

\* The read lock is held by the clients in pickRoundRobin's loop.
Reading == readers = {c \in Clients : pc[c] = "pick"}

\* Outside the loop nothing has been drawn.
Undrawn == \A c \in Clients : pc[c] # "pick" => tries[c] = 0

\* The last tries[c] indices before the counter, which an uncrossed pick of c
\* has drawn itself, are those of unhealthy endpoints.
DrawnUnhealthy ==
    \A c \in Clients : pc[c] = "pick" /\ ~crossed[c] =>
        \A e \in Indices : Behind(rrIndex, e) <= tries[c] => ~healthy[e + 1]

\* Only the round-robin strategy has a loop that draws.
Looping == \A c \in Clients : pc[c] = "pick" => strategy = "round-robin"

PickInv == Shape /\ Reading /\ Looping /\ Undrawn /\ DrawnUnhealthy

\* After a draw the index drawn is one behind, any other one more than before.
LEMMA DrawEffect ==
    ASSUME NEW r \in Indices, NEW s, s = (r + 1) % NumEndpoints
    PROVE  /\ s \in Indices
           /\ \A e \in Indices :
                 /\ Behind(r, e) \in 1 .. NumEndpoints
                 /\ e # r => Behind(s, e) = Behind(r, e) + 1
                 /\ e = r <=> Behind(r, e) = NumEndpoints
<1>1. NumEndpoints \in Nat \ {0}
  BY RouterAssumption
<1>2. s = IF r + 1 = NumEndpoints THEN 0 ELSE r + 1
  BY <1>1 DEF Indices
<1>3. QED
  BY <1>1, <1>2 DEF Behind, Indices

LEMMA PickInit == Init => PickInv
<1> SUFFICES ASSUME Init PROVE PickInv
  OBVIOUS
<1>1. 0 \in Indices
  BY RouterAssumption DEF Indices
<1>2. Shape
  BY <1>1 DEF Init, Shape, PC
<1>3. Reading /\ Looping /\ Undrawn /\ DrawnUnhealthy
  BY DEF Init, Reading, Looping, Undrawn, DrawnUnhealthy
<1>4. QED
  BY <1>2, <1>3 DEF PickInv

\* A client draws an index: the picks of the others are crossed, and if its
\* own goes on, it has drawn one unhealthy endpoint more.
LEMMA PickDraw ==
    ASSUME PickInv, NEW c \in Clients, TakeDrawn(c) \/ SkipDrawn(c) \/ FallBack(c)
    PROVE  PickInv'
<1> USE DEF PickInv
<1>1. /\ pc[c] = "pick" /\ rrIndex' = (rrIndex + 1) % NumEndpoints
      /\ crossed' = [d \in Clients |-> d \in readers /\ (d # c \/ crossed[c])]
      /\ UNCHANGED <<strategy, healthy>>
  BY DEF TakeDrawn, SkipDrawn, FallBack, Draw, records
<1>2. /\ rrIndex \in Indices /\ rrIndex' \in Indices
      /\ \A e \in Indices : /\ Behind(rrIndex, e) \in 1 .. NumEndpoints
                            /\ e # rrIndex => Behind(rrIndex', e) = Behind(rrIndex, e) + 1
  BY <1>1, DrawEffect DEF Shape
<1>3. crossed' \in [Clients -> BOOLEAN]
  BY <1>1
<1>4. \A d \in Clients : pc[d] = "pick" /\ d # c => crossed'[d]
  BY <1>1 DEF Reading
<1>5. CASE TakeDrawn(c) \/ FallBack(c)
  <2>1. /\ pc' = [pc EXCEPT ![c] = "check"] /\ tries' = [tries EXCEPT ![c] = 0]
        /\ readers' = readers \ {c}
    BY <1>5 DEF TakeDrawn, FallBack, Picked
  <2>2. \A d \in Clients : pc'[d] = IF d = c THEN "check" ELSE pc[d]
    BY <2>1 DEF Shape
  <2>3. Shape'
    BY <1>2, <1>3, <2>1, RouterAssumption DEF Shape, PC, Indices
  <2>4. Reading' /\ Looping'
    BY <1>1, <2>1, <2>2 DEF Reading, Looping
  <2>5. Undrawn'
    BY <2>1, <2>2 DEF Shape, Undrawn
  <2>6. DrawnUnhealthy'
    BY <1>4, <2>2 DEF DrawnUnhealthy
  <2>7. QED
    BY <2>3, <2>4, <2>5, <2>6
<1>6. CASE SkipDrawn(c)
  <2>1. /\ tries' = [tries EXCEPT ![c] = @ + 1] /\ tries[c] + 1 < NumEndpoints
        /\ ~healthy[rrIndex + 1] /\ UNCHANGED <<pc, readers>>
    BY <1>6 DEF SkipDrawn, Drawn, locks
  <2>2. tries[c] \in Nat /\ tries[c] + 1 \in Indices /\ tries'[c] = tries[c] + 1
    BY <2>1, RouterAssumption DEF Shape, Indices
  <2>3. Shape'
    BY <1>2, <1>3, <2>1, <2>2 DEF Shape
  <2>4. Reading' /\ Looping' /\ Undrawn'
    BY <1>1, <2>1 DEF Shape, Reading, Looping, Undrawn
  <2>5. DrawnUnhealthy'
    <3> SUFFICES ASSUME NEW d \in Clients, pc'[d] = "pick", ~crossed'[d],
                        NEW e \in Indices, Behind(rrIndex', e) <= tries'[d]
                 PROVE  ~healthy'[e + 1]
      BY DEF DrawnUnhealthy
    <3>1. d = c /\ ~crossed[c]
      BY <1>1, <1>4, <2>1 DEF Reading
    <3>2. CASE e = rrIndex
      BY <1>1, <2>1, <3>2
    <3>3. CASE e # rrIndex
      <4>1. Behind(rrIndex, e) <= tries[c]
        BY <1>2, <2>2, <3>1, <3>3, RouterAssumption
      <4>2. QED
        BY <1>1, <3>1, <4>1 DEF DrawnUnhealthy
    <3>4. QED
      BY <3>2, <3>3
  <2>6. QED
    BY <2>3, <2>4, <2>5
<1>7. QED
  BY <1>5, <1>6

\* A step that nobody takes inside the loop, and in which the records stay as
\* they are as long as anybody is inside.
LEMMA PickFrame ==
    ASSUME PickInv, UNCHANGED <<strategy, rrIndex, readers, tries, crossed>>, Shape',
           \A d \in Clients : pc'[d] = "pick" <=> pc[d] = "pick",
           readers # {} => UNCHANGED healthy
    PROVE  PickInv'
<1>1. Reading' /\ Looping' /\ Undrawn'
  BY DEF PickInv, Reading, Looping, Undrawn
<1>2. DrawnUnhealthy'
  BY DEF PickInv, Reading, DrawnUnhealthy
<1>3. QED
  BY <1>1, <1>2 DEF PickInv

LEMMA PickStep == PickInv /\ [Next]_vars => PickInv'
<1> SUFFICES ASSUME PickInv, [Next]_vars PROVE PickInv'
  OBVIOUS
<1> USE DEF client, locks, records, sweep, vars
\* Steps of one client between places outside the loop.
<1>1. ASSUME NEW c \in Clients, NEW l \in PC \ {"pick"}, pc[c] # "pick",
             pc' = [pc EXCEPT ![c] = l],
             UNCHANGED <<strategy, rrIndex, readers, crossed>>,
             UNCHANGED tries \/ tries' = [tries EXCEPT ![c] = 0],
             readers # {} => UNCHANGED healthy
      PROVE  PickInv'
  <2>1. UNCHANGED tries
    BY <1>1 DEF PickInv, Shape, Undrawn
  <2>2. Shape'
    BY <1>1, <2>1 DEF PickInv, Shape
  <2>3. \A d \in Clients : pc'[d] = "pick" <=> pc[d] = "pick"
    BY <1>1 DEF PickInv, Shape
  <2>4. QED
    BY <1>1, <2>1, <2>2, <2>3, PickFrame
\* Steps that no client takes.
<1>2. ASSUME UNCHANGED <<strategy, rrIndex, readers, client>>, readers # {} => UNCHANGED healthy
      PROVE  PickInv'
  <2>1. Shape'
    BY <1>2 DEF PickInv, Shape
  <2>2. QED
    BY <1>2, <2>1, PickFrame
<1>3. ASSUME NEW c \in Clients, EnterRoundRobin(c) PROVE PickInv'
  <2>1. /\ pc[c] = "start" /\ pc' = [pc EXCEPT ![c] = "pick"]
        /\ readers' = readers \cup {c}
        /\ crossed' = [crossed EXCEPT ![c] = FALSE]
        /\ strategy = "round-robin"
        /\ UNCHANGED <<strategy, rrIndex, tries, healthy>>
    BY <1>3 DEF EnterRoundRobin
  <2>2. Shape'
    BY <2>1 DEF PickInv, Shape, PC
  <2>3. \A d \in Clients : pc'[d] = IF d = c THEN "pick" ELSE pc[d]
    BY <2>1 DEF PickInv, Shape
  <2>4. Reading' /\ Looping' /\ Undrawn'
    BY <2>1, <2>3 DEF PickInv, Reading, Looping, Undrawn
  <2>5. \A e \in Indices : ~(Behind(rrIndex, e) <= tries[c])
    <3>1. \A e \in Indices : Behind(rrIndex, e) \in 1 .. NumEndpoints
      BY DrawEffect DEF PickInv, Shape
    <3>2. tries[c] = 0
      BY <2>1 DEF PickInv, Undrawn
    <3>3. QED
      BY <3>1, <3>2
  <2>6. \A d \in Clients : d # c => crossed'[d] = crossed[d]
    BY <2>1 DEF PickInv, Shape
  <2>7. DrawnUnhealthy'
    BY <2>1, <2>3, <2>5, <2>6 DEF PickInv, DrawnUnhealthy
  <2>8. QED
    BY <2>2, <2>4, <2>7 DEF PickInv
<1>4. ASSUME NEW c \in Clients, TakeDrawn(c) \/ SkipDrawn(c) \/ FallBack(c) PROVE PickInv'
  BY <1>4, PickDraw
<1>5. ASSUME NEW c \in Clients,
             \/ Create(c) \/ PickLeastLoad(c) \/ CapacityOK(c) \/ CapacityFails(c)
             \/ ConnectFails(c) \/ CreateReturns(c) \/ LockForMark(c) \/ MarkUnhealthy(c)
      PROVE  PickInv'
  <2>1. CASE Create(c)
    BY <1>1, <2>1 DEF Create, Goto, PC
  <2>2. CASE PickLeastLoad(c)
    BY <1>1, <2>2 DEF PickLeastLoad, Picked, PC
  <2>3. CASE CapacityOK(c) \/ CapacityFails(c)
    BY <1>1, <2>3 DEF CapacityOK, CapacityFails, Goto, PC
  <2>4. CASE ConnectFails(c) \/ CreateReturns(c)
    BY <1>1, <2>4 DEF ConnectFails, CreateReturns, Goto, Leave, PC
  <2>5. CASE LockForMark(c) \/ MarkUnhealthy(c)
    BY <1>1, <2>5 DEF LockForMark, MarkUnhealthy, Goto, Leave, PC
  <2>6. QED
    BY <1>5, <2>1, <2>2, <2>3, <2>4, <2>5
<1>6. ASSUME NEW h \in Sweepers, SweepBegin(h) \/ ProbeAnswered(h) \/ ProbeFails(h)
      PROVE  PickInv'
  BY <1>2, <1>6 DEF SweepBegin, ProbeAnswered, ProbeFails, Probing
<1>7. CASE \/ SweepCancelled \/ Stop
           \/ \E e \in Endpoints, r \in Real : Become(e, r)
           \/ UNCHANGED vars
  BY <1>2, <1>7 DEF SweepCancelled, Stop, Become
<1>8. QED
  BY <1>3, <1>4, <1>5, <1>6, <1>7 DEF Next, ClientStep

\* If nobody crosses it, a round-robin pick falls back only when all endpoints
\* are unhealthy: it has drawn each of them.
LEMMA FallBackLast ==
    ASSUME PickInv, NEW c \in Clients, FallBack(c), ~crossed[c]
    PROVE  ~SomeHealthy
<1>1. /\ pc[c] = "pick" /\ ~healthy[rrIndex + 1] /\ tries[c] + 1 = NumEndpoints
      /\ rrIndex \in Indices /\ tries[c] \in Indices
  BY DEF PickInv, Shape, FallBack, Draw, Drawn
<1>2. NumEndpoints \in Nat \ {0}
  BY RouterAssumption
<1>3. ASSUME NEW e \in Indices PROVE ~healthy[e + 1]
  <2>1. CASE e = rrIndex
    BY <1>1, <2>1
  <2>2. CASE e # rrIndex
    <3>1. Behind(rrIndex, e) \in 1 .. NumEndpoints /\ Behind(rrIndex, e) # NumEndpoints
      BY <1>1, <2>2, DrawEffect
    <3>2. Behind(rrIndex, e) <= tries[c]
      BY <1>1, <1>2, <3>1 DEF Indices
    <3>3. QED
      BY <1>1, <3>2 DEF PickInv, DrawnUnhealthy
  <2>3. QED
    BY <2>1, <2>2
<1>4. ASSUME NEW n \in Endpoints PROVE ~healthy[n]
  <2>1. n - 1 \in Indices /\ (n - 1) + 1 = n
    BY <1>2 DEF Endpoints, Indices
  <2>2. ~healthy[(n - 1) + 1]
    BY <1>3, <2>1
  <2>3. QED
    BY <2>1, <2>2
<1>5. QED
  BY <1>4 DEF SomeHealthy

-----------------------------------------------------------------------------
(* The action properties                                                   *)

\* How a Pick ends under each strategy.
LEMMA PickEnding ==
    ASSUME PickInv, [Next]_vars, NEW c \in Clients, PickEnds(c)
    PROVE  IF strategy = "round-robin" THEN TakeDrawn(c) \/ FallBack(c) ELSE PickLeastLoad(c)
<1> USE DEF PickEnds
<1>0. pc \in [Clients -> PC]
  BY DEF PickInv, Shape
<1>1. pc'[c] # pc[c]
  OBVIOUS
<1>2. ~UNCHANGED pc
  BY <1>1
<1>3. ASSUME NEW d \in Clients, ClientStep(d) PROVE TakeDrawn(c) \/ FallBack(c) \/ PickLeastLoad(c)
  <2>1. ASSUME NEW l, pc' = [pc EXCEPT ![d] = l], l # "check" PROVE FALSE
    BY <1>0, <1>1, <2>1
  <2>2. d = c \/ ~(TakeDrawn(d) \/ FallBack(d) \/ PickLeastLoad(d))
    BY <1>0, <1>1 DEF TakeDrawn, FallBack, PickLeastLoad, Picked
  <2>3. ~(Create(d) \/ EnterRoundRobin(d))
    BY <2>1 DEF Create, EnterRoundRobin, Goto
  <2>4. ~(CapacityOK(d) \/ CapacityFails(d) \/ ConnectFails(d) \/ LockForMark(d))
    BY <2>1 DEF CapacityOK, CapacityFails, ConnectFails, LockForMark, Goto
  <2>5. ~(CreateReturns(d) \/ MarkUnhealthy(d))
    BY <2>1 DEF CreateReturns, MarkUnhealthy, Leave
  <2>6. ~SkipDrawn(d)
    BY <1>2 DEF SkipDrawn
  <2>7. QED
    BY <1>3, <2>2, <2>3, <2>4, <2>5, <2>6 DEF ClientStep
<1>4. ASSUME NEW h \in Sweepers PROVE ~(SweepBegin(h) \/ ProbeAnswered(h) \/ ProbeFails(h))
  BY <1>2 DEF SweepBegin, ProbeAnswered, ProbeFails, client
<1>5. ~(SweepCancelled \/ Stop) /\ ~ \E e \in Endpoints, r \in Real : Become(e, r)
  BY <1>2 DEF SweepCancelled, Stop, Become, client
<1>6. TakeDrawn(c) \/ FallBack(c) \/ PickLeastLoad(c)
  BY <1>2, <1>3, <1>4, <1>5 DEF Next, vars, client
<1>7. TakeDrawn(c) \/ FallBack(c) => strategy = "round-robin"
  BY DEF TakeDrawn, FallBack, Draw, PickInv, Looping
<1>8. QED
  BY <1>6, <1>7 DEF PickLeastLoad

\* A least-load Pick returns a healthy endpoint than which no healthy one is
\* less loaded if the records show a healthy one (router.go:83-97), for any
\* number of endpoints and any loads.
THEOREM RouterLeastLoadPicksBest == Spec => LeastLoadPicksBest
<1> DEFINE A == \A c \in Clients : PickEnds(c) /\ strategy = "least-load" /\ SomeHealthy =>
                   /\ healthy[ep'[c]]
                   /\ \A e \in Endpoints : healthy[e] => load[ep'[c]] <= load[e]
           Inv == PickInv /\ TypeOK
<1>1. Inv /\ [Next]_vars => A
  <2> SUFFICES ASSUME PickInv, TypeOK, [Next]_vars, NEW c \in Clients, PickEnds(c),
                      strategy = "least-load", SomeHealthy
               PROVE  /\ healthy[ep'[c]]
                      /\ \A e \in Endpoints : healthy[e] => load[ep'[c]] <= load[e]
    OBVIOUS
  <2>1. PickLeastLoad(c)
    BY PickEnding
  <2>2. /\ LeastLoad \in Endpoints /\ healthy[LeastLoad]
        /\ \A e \in Endpoints : healthy[e] => load[LeastLoad] <= load[e]
    BY BestIsBest DEF BestOf, SomeHealthy, Endpoints
  <2>3. LeastLoad # 0
    BY <2>2, RouterAssumption DEF Endpoints
  <2>4. ep'[c] = LeastLoad
    BY <2>1, <2>3 DEF PickLeastLoad, Picked, TypeOK
  <2>5. QED
    BY <2>2, <2>4
<1>2. Init => Inv
  BY PickInit, TypeInit
<1>3. Inv /\ [Next]_vars => Inv'
  BY PickStep, TypeStep
<1>4. QED
  BY <1>1, <1>2, <1>3, PTL DEF Spec, LeastLoadPicksBest

\* A round-robin Pick that no other crosses returns a healthy endpoint if the
\* records show one (router.go:105-119), for any number of endpoints.
THEOREM RouterLonePickHealthy == Spec => LonePickHealthy
<1> DEFINE A == \A c \in Clients :
                   PickEnds(c) /\ strategy = "round-robin" /\ ~crossed[c] /\ SomeHealthy =>
                      healthy[ep'[c]]
           Inv == PickInv /\ TypeOK
<1>1. Inv /\ [Next]_vars => A
  <2> SUFFICES ASSUME PickInv, TypeOK, [Next]_vars, NEW c \in Clients, PickEnds(c),
                      strategy = "round-robin", ~crossed[c], SomeHealthy
               PROVE  healthy[ep'[c]]
    OBVIOUS
  <2>1. TakeDrawn(c)
    BY PickEnding, FallBackLast
  <2>2. ep'[c] = Drawn /\ healthy[Drawn]
    BY <2>1 DEF TakeDrawn, Picked, TypeOK
  <2>3. QED
    BY <2>2
<1>2. Init => Inv
  BY PickInit, TypeInit
<1>3. Inv /\ [Next]_vars => Inv'
  BY PickStep, TypeStep
<1>4. QED
  BY <1>1, <1>2, <1>3, PTL DEF Spec, LonePickHealthy
=============================================================================
