------------------------- MODULE RodProviderProofs -------------------------
(***************************************************************************)
(* Proofs about RodProvider, for any finite sets of clients and            *)
(* connections and any bound on the toll.                                  *)
(***************************************************************************)
EXTENDS RodProvider, FiniteSetTheorems, TLAPS

\* The mutex is held by whoever is inside, and nothing is shared while a new
\* connection is being made.
Mutex ==
    /\ \A c \in Clients : pc[c] \in UnderMutex <=> mu = c
    /\ \A c \in Clients : pc[c] \in UnderMutex \ {"check"} => shared = None
    /\ mu = Closer => shared # None

\* A connection that is being made is known to its maker only, and until it
\* is made it has no pages.
Private ==
    \A c \in Clients : pc[c] \in {"connect", "verify"} =>
        \A d \in Clients \ {c} : conn[d] # conn[c]
Untouched ==
    \A c \in Clients : pc[c] = "connect" =>
        /\ state[conn[c]] \in {"free", "cut"}
        /\ \A d \in Clients : <<d, conn[c]>> \notin open

Control == TypeOK /\ Mutex /\ Private /\ Untouched

LEMMA ControlInit == Init => Control
<1> SUFFICES ASSUME Init PROVE Control
  OBVIOUS
<1> USE RodAssumption DEF Init
<1>1. TypeOK
  BY DEF TypeOK, State, PC, UnderMutex, HasPage
<1>2. Mutex
  BY DEF Mutex, UnderMutex
<1>3. Private /\ Untouched
  BY DEF Private, Untouched
<1>4. QED
  BY <1>1, <1>2, <1>3 DEF Control

LEMMA GotoStep ==
    ASSUME TypeOK, NEW d \in Clients, NEW l \in PC, NEW k, Goto(d, l, k)
    PROVE  /\ pc' \in [Clients -> PC]
           /\ pc'[d] = l /\ conn'[d] = k
           /\ \A c \in Clients \ {d} : pc'[c] = pc[c] /\ conn'[c] = conn[c]
           /\ k \in Conns \cup {None} => conn' \in [Clients -> Conns \cup {None}]
BY DEF TypeOK, Goto

\* The exit of a Chrome.
LEMMA ExitEffect ==
    ASSUME TypeOK, NEW k \in Conns, Exit(k)
    PROVE  /\ state' \in [Conns -> State]
           /\ state'[k] = "free"
           /\ \A j \in Conns : state'[j] \in {"free", state[j]}
           /\ ~remote => \A j \in Conns \ {k} : state'[j] = state[j]
           /\ open' \subseteq open
           /\ ~remote => \A p \in open : p[2] # k => p \in open'
           /\ \A c \in Clients : <<c, k>> \notin open'
BY DEF TypeOK, Exit, State

-----------------------------------------------------------------------------
(* Control                                                                 *)

\* The steps of a client that leave the mutex, the shared connection and all
\* Chromes alone.
LEMMA QuietStep ==
    ASSUME Control, NEW d \in Clients, NEW l \in PC \ UnderMutex, NEW k \in Conns \cup {None},
           pc[d] \notin UnderMutex,
           Goto(d, l, k), UNCHANGED <<remote, mu, shared, state>>, toll' \in 0 .. MaxToll,
           open' \in SUBSET (Clients \X Conns),
           open' \subseteq open \cup {<<d, conn[d]>>},
           k \in {None, conn[d]} \/ (k = shared /\ mu = None),
           l \in HasPage \cup {"page", "probe"} => k \in Conns
    PROVE  Control'
<1> USE DEF Control
<1>1. /\ pc' \in [Clients -> PC] /\ pc'[d] = l /\ conn'[d] = k
      /\ \A c \in Clients \ {d} : pc'[c] = pc[c] /\ conn'[c] = conn[c]
      /\ conn' \in [Clients -> Conns \cup {None}]
  BY GotoStep
<1>2. TypeOK'
  BY <1>1 DEF TypeOK, UnderMutex
<1>3. Mutex'
  BY <1>1 DEF Mutex
<1>4. \A c \in Clients : pc[c] \in {"connect", "verify"} =>
          shared = None /\ mu # None /\ conn[c] \in Conns
  BY RodAssumption DEF Mutex, UnderMutex, TypeOK
<1>5. Private'
  BY <1>1, <1>4, RodAssumption DEF Private, UnderMutex
<1>6. Untouched'
  BY <1>1, <1>4 DEF Private, Untouched, UnderMutex
<1>7. QED
  BY <1>2, <1>3, <1>5, <1>6

LEMMA ClientControl ==
    ASSUME Control, NEW d \in Clients, ClientStep(d)
    PROVE  Control'
<1> USE DEF Control
<1>1. CASE Create(d) \/ PageOpens(d) \/ PageFails(d) \/ SetupDone(d) \/ ProbeOpens(d) \/ ProbeFails(d)
           \/ HealthCheck(d)
  BY <1>1, QuietStep
     DEF TypeOK, Create, PageOpens, PageFails, SetupDone, ProbeOpens, ProbeFails, HealthCheck,
         Return, PC, UnderMutex, HasPage
<1>2. CASE SetupFails(d) \/ Release(d) \/ ProbeCloses(d)
  BY <1>2, QuietStep
     DEF TypeOK, SetupFails, Release, ProbeCloses, ClosePage, Return, PC, UnderMutex, HasPage
<1>3. CASE Lock(d)
  <2> USE <1>3 DEF Lock
  <2>1. /\ pc' \in [Clients -> PC] /\ pc'[d] = "check" /\ conn'[d] = None
        /\ \A c \in Clients \ {d} : pc'[c] = pc[c] /\ conn'[c] = conn[c]
        /\ conn' \in [Clients -> Conns \cup {None}]
    BY GotoStep DEF PC, UnderMutex
  <2>2. TypeOK'
    BY <2>1 DEF TypeOK, HasPage
  <2>3. Mutex'
    BY <2>1, RodAssumption DEF Mutex, UnderMutex
  <2>4. Private' /\ Untouched'
    BY <2>1, RodAssumption DEF Private, Untouched, Mutex, UnderMutex
  <2>5. QED
    BY <2>2, <2>3, <2>4
<1>4. CASE SharedAnswers(d) \/ SharedStale(d) \/ NoShared(d)
  <2> USE <1>4 DEF SharedAnswers, SharedStale, NoShared, Toll
  <2>1. PICK l \in {"page", "launch"} :
           /\ Goto(d, l, IF l = "page" THEN shared ELSE None)
           /\ l = "page" => shared # None /\ shared' = shared /\ mu' = None
           /\ l = "launch" => shared' = None /\ mu' = mu
    OBVIOUS
  <2>2. /\ pc' \in [Clients -> PC] /\ pc'[d] = l
        /\ conn'[d] = IF l = "page" THEN shared ELSE None
        /\ \A c \in Clients \ {d} : pc'[c] = pc[c] /\ conn'[c] = conn[c]
        /\ conn' \in [Clients -> Conns \cup {None}]
    BY <2>1, GotoStep DEF PC, UnderMutex, TypeOK
  <2>3. /\ mu = d /\ l \in {"page", "launch"}
        /\ UNCHANGED <<remote, state, open>> /\ toll' \in 0 .. MaxToll
    BY DEF Mutex, UnderMutex, TypeOK
  <2>4. TypeOK'
    BY <2>1, <2>2, <2>3, RodAssumption DEF TypeOK, HasPage
  <2>5. Mutex'
    BY <2>1, <2>2, <2>3, RodAssumption DEF Mutex, UnderMutex, TypeOK
  <2>6. Private' /\ Untouched'
    BY <2>2, <2>3, RodAssumption DEF Private, Untouched, Mutex, UnderMutex
  <2>7. QED
    BY <2>4, <2>5, <2>6
<1>5. CASE Launched(d)
  <2> DEFINE k == CHOOSE j \in Conns : Fresh(j)
  <2> USE <1>5 DEF Launched
  <2>1. k \in Conns /\ Fresh(k)
    OBVIOUS
  <2> HIDE DEF k
  <2>2. /\ state' = [state EXCEPT ![k] = "cut"]
        /\ open' = {p \in open : p[2] # k}
        /\ Goto(d, "connect", k)
    BY DEF k
  <2>3. /\ pc' \in [Clients -> PC] /\ pc'[d] = "connect" /\ conn'[d] = k
        /\ \A c \in Clients \ {d} : pc'[c] = pc[c] /\ conn'[c] = conn[c]
        /\ conn' \in [Clients -> Conns \cup {None}]
    BY <2>1, <2>2, GotoStep DEF PC, UnderMutex
  <2>4. TypeOK'
    BY <2>1, <2>2, <2>3 DEF TypeOK, State
  <2>5. Mutex'
    BY <2>3 DEF Mutex, UnderMutex
  <2>6. Private'
    BY <2>1, <2>3 DEF Private, Fresh
  <2>7. Untouched'
    BY <2>1, <2>2, <2>3 DEF Untouched, Fresh, TypeOK
  <2>8. QED
    BY <2>4, <2>5, <2>6, <2>7
<1>6. CASE LaunchFails(d) \/ Connected(d) \/ ConnectFails(d) \/ VerifyOK(d) \/ VerifyFails(d)
  <2> USE <1>6 DEF LaunchFails, Connected, ConnectFails, VerifyOK, VerifyFails, Return
  <2>1. PICK l \in {"idle", "verify", "page"} :
           /\ Goto(d, l, IF l = "idle" THEN None ELSE conn[d])
           /\ mu' = IF l = "verify" THEN mu ELSE None
           /\ shared' = IF l = "page" THEN conn[d] ELSE shared
           /\ l # "idle" => pc[d] \in {"connect", "verify"}
    OBVIOUS
  <2>2. /\ pc' \in [Clients -> PC] /\ pc'[d] = l
        /\ conn'[d] = IF l = "idle" THEN None ELSE conn[d]
        /\ \A c \in Clients \ {d} : pc'[c] = pc[c] /\ conn'[c] = conn[c]
        /\ conn' \in [Clients -> Conns \cup {None}]
    BY <2>1, GotoStep DEF PC, UnderMutex, TypeOK
  <2>3. mu = d /\ mu' = (IF l = "verify" THEN d ELSE None)
    BY <2>1 DEF Mutex, UnderMutex
  <2>4. /\ l # "idle" => conn[d] \in Conns
        /\ shared' = IF l = "page" THEN conn[d] ELSE shared
    BY <2>1 DEF TypeOK
  <2>5. /\ state' \in [Conns -> State] /\ open' \subseteq open /\ toll' \in 0 .. MaxToll
        /\ remote' = remote
        /\ \A c \in Clients \ {d} : pc[c] \notin UnderMutex
    BY <2>2, <2>3, ExitEffect DEF TypeOK, Toll, State, Mutex, UnderMutex
  <2>6. TypeOK'
    BY <2>2, <2>3, <2>4, <2>5 DEF TypeOK, HasPage
  <2>7. Mutex'
    BY <2>2, <2>3, <2>4, RodAssumption DEF Mutex, UnderMutex
  <2>8. Private' /\ Untouched'
    BY <2>1, <2>2, <2>5 DEF Private, Untouched, UnderMutex
  <2>9. QED
    BY <2>6, <2>7, <2>8
<1>7. CASE Panic(d) \/ Recover(d)
  <2> USE <1>7 DEF Panic, Recover, Return, Toll
  <2>1. PICK l \in {"recover", "idle"} : Goto(d, l, None)
    OBVIOUS
  <2>2. /\ pc' \in [Clients -> PC] /\ pc'[d] = l /\ conn'[d] = None
        /\ \A c \in Clients \ {d} : pc'[c] = pc[c] /\ conn'[c] = conn[c]
        /\ conn' \in [Clients -> Conns \cup {None}]
    BY <2>1, GotoStep DEF PC
  <2>3. /\ state' = state /\ open' = open /\ remote' = remote /\ toll' \in 0 .. MaxToll
        /\ mu' = IF mu = d THEN None ELSE mu
        /\ shared' \in {None, shared} /\ (shared' = shared \/ mu = None)
    BY RodAssumption DEF TypeOK, Mutex, UnderMutex
  <2>4. TypeOK'
    BY <2>2, <2>3 DEF TypeOK, HasPage
  <2>5. Mutex'
    BY <2>2, <2>3, RodAssumption DEF Mutex, UnderMutex
  <2>6. Private' /\ Untouched'
    BY <2>2, <2>3, RodAssumption DEF Private, Untouched, TypeOK
  <2>7. QED
    BY <2>4, <2>5, <2>6
<1>8. QED
  BY <1>1, <1>2, <1>3, <1>4, <1>5, <1>6, <1>7 DEF ClientStep, GoOn

LEMMA ControlStep == Control /\ [Next]_vars => Control'
<1> SUFFICES ASSUME Control, [Next]_vars PROVE Control'
  OBVIOUS
<1> USE DEF Control
<1>1. ASSUME NEW d \in Clients, ClientStep(d) PROVE Control'
  BY <1>1, ClientControl
<1>2. CASE CloseLock
  BY <1>2, RodAssumption DEF CloseLock, TypeOK, Mutex, Private, Untouched
<1>3. CASE CloseShared
  <2> USE <1>3 DEF CloseShared
  <2>1. /\ state' \in [Conns -> State] /\ open' \subseteq open
        /\ \A j \in Conns : state'[j] \in {"free", state[j]}
    BY ExitEffect, RodAssumption DEF TypeOK, Mutex
  <2>2. TypeOK'
    BY <2>1, RodAssumption DEF TypeOK
  <2>3. Mutex'
    BY RodAssumption DEF Mutex
  <2>4. Private' /\ Untouched'
    BY <2>1 DEF Private, Untouched, TypeOK
  <2>5. QED
    BY <2>2, <2>3, <2>4
<1>4. ASSUME NEW k \in Conns, Crash(k) \/ Cut(k) \/ Hang(k) \/ Answer(k) PROVE Control'
  <2> USE <1>4 DEF Crash, Cut, Hang, Answer, Become, Toll
  <2>1. /\ state' \in [Conns -> State] /\ open' \subseteq open /\ toll' \in 0 .. MaxToll
        /\ \A j \in Conns : state[j] \in {"free", "cut"} => state'[j] \in {"free", "cut"}
        /\ UNCHANGED <<remote, mu, shared, pc, conn>>
    BY ExitEffect DEF TypeOK, State
  <2>2. TypeOK' /\ Mutex'
    BY <2>1 DEF TypeOK, Mutex
  <2>3. Private' /\ Untouched'
    BY <2>1 DEF Private, Untouched, TypeOK
  <2>4. QED
    BY <2>2, <2>3
<1>5. CASE UNCHANGED vars
  BY <1>5 DEF vars, TypeOK, Mutex, Private, Untouched
<1>6. QED
  BY <1>1, <1>2, <1>3, <1>4, <1>5 DEF Next, Environment

THEOREM RodControl == Spec => []Control
BY ControlInit, ControlStep, PTL DEF Spec

\* Every variable keeps its type; in particular whoever has got beyond
\* ensureBrowser has a connection (provider.go:196-270).
THEOREM RodTypeOK == Spec => []TypeOK
<1>1. Control => TypeOK
  BY DEF Control
<1>2. QED
  BY <1>1, RodControl, PTL

-----------------------------------------------------------------------------
(* OthersUndisturbed                                                       *)

LEMMA Undisturbed ==
    ASSUME Control, NEW d \in Clients, ClientStep(d), ~(remote /\ VerifyFails(d)),
           NEW c \in Clients \ {d}, Works(c)
    PROVE  Works(c)'
<1> USE DEF Control, Works
<1>1. state[conn[c]] = "up" /\ <<c, conn[c]>> \in open /\ conn[c] \in Conns
  BY DEF TypeOK, HasPage
<1>2. ASSUME NEW l, NEW k, Goto(d, l, k) PROVE pc'[c] = pc[c] /\ conn'[c] = conn[c]
  BY <1>2 DEF Goto, TypeOK
<1>3. CASE Create(d) \/ Lock(d) \/ SharedAnswers(d) \/ SharedStale(d) \/ NoShared(d) \/ LaunchFails(d)
           \/ VerifyOK(d) \/ PageFails(d) \/ SetupDone(d) \/ HealthCheck(d) \/ ProbeFails(d)
           \/ Panic(d) \/ Recover(d)
  BY <1>1, <1>2, <1>3
     DEF Create, Lock, SharedAnswers, SharedStale, NoShared, LaunchFails, VerifyOK, PageFails,
         SetupDone, HealthCheck, ProbeFails, Panic, Recover, Return
<1>4. CASE PageOpens(d) \/ ProbeOpens(d) \/ SetupFails(d) \/ Release(d) \/ ProbeCloses(d)
  BY <1>1, <1>2, <1>4
     DEF PageOpens, ProbeOpens, SetupFails, Release, ProbeCloses, ClosePage, Return
<1>5. CASE Launched(d)
  <2> DEFINE k == CHOOSE j \in Conns : Fresh(j)
  <2> USE <1>5 DEF Launched
  <2>1. k \in Conns /\ Fresh(k)
    OBVIOUS
  <2> HIDE DEF k
  <2>2. /\ state' = [state EXCEPT ![k] = "cut"]
        /\ open' = {p \in open : p[2] # k}
        /\ Goto(d, "connect", k)
    BY DEF k
  <2>3. conn[c] # k
    BY <2>1 DEF Fresh
  <2>4. QED
    BY <1>1, <1>2, <2>2, <2>3
<1>6. CASE Connected(d) \/ ConnectFails(d)
  <2>1. conn[d] # conn[c]
    BY <1>6 DEF Connected, ConnectFails, Private
  <2>2. state'[conn[c]] = "up" /\ open' = open
    BY <1>1, <1>6, <2>1 DEF Connected, ConnectFails, TypeOK
  <2>3. pc'[c] = pc[c] /\ conn'[c] = conn[c]
    BY <1>2, <1>6 DEF Connected, ConnectFails, Return
  <2>4. QED
    BY <1>1, <2>2, <2>3
<1>7. CASE VerifyFails(d)
  <2>1. conn[d] # conn[c] /\ ~remote
    BY <1>7 DEF VerifyFails, Private
  <2>2. conn[d] \in Conns
    BY <1>7 DEF VerifyFails, TypeOK
  <2>3. state'[conn[c]] = "up" /\ <<c, conn[c]>> \in open'
    BY <1>1, <1>7, <2>1, <2>2, ExitEffect DEF VerifyFails
  <2>4. QED
    BY <1>2, <1>7, <2>3 DEF VerifyFails, Return
<1>8. QED
  BY <1>3, <1>4, <1>5, <1>6, <1>7 DEF ClientStep, GoOn

\* No call of another client takes a page away (provider.go:62-290), for any
\* number of clients and connections.
THEOREM RodOthersUndisturbed == Spec => OthersUndisturbed
<1>1. Control /\ [Next]_vars =>
          [\A d \in Clients : ClientStep(d) /\ ~(remote /\ VerifyFails(d)) =>
              \A c \in Clients \ {d} : Works(c) => Works(c)']_vars
  BY Undisturbed
<1>2. QED
  BY <1>1, RodControl, PTL DEF Spec, OthersUndisturbed

-----------------------------------------------------------------------------
(* LeaksPaidFor                                                            *)

\* A Chrome that its provider or a call will still hand over, replace or close
\* without a further fault.
Safe(k) ==
    \/ state[k] = "free"
    \/ k = shared /\ state[k] # "cut"
    \/ \E c \in Clients : /\ conn[c] = k
                          /\ pc[c] = "connect" \/ (pc[c] = "verify" /\ state[k] # "cut")
Doomed == {k \in Conns : ~Safe(k)}

\* Each of these may still clear the reference to one more Chrome.
Recovering == {c \in Clients : pc[c] = "recover"}

\* Clients with a page in k that they have left open.
Left(k) == {c \in Clients : <<c, k>> \in open /\ ~(pc[c] \in HasPage /\ conn[c] = k)}

Paid ==
    /\ ~remote => Cardinality(Doomed) + Cardinality(Recovering) <= toll
    /\ \A k \in Conns : state[k] \in {"up", "hung"} => Cardinality(Left(k)) <= toll

LEMMA Finite ==
    /\ IsFiniteSet(Doomed) /\ Cardinality(Doomed) \in Nat
    /\ IsFiniteSet(Recovering) /\ Cardinality(Recovering) \in Nat
    /\ \A k : IsFiniteSet(Left(k)) /\ Cardinality(Left(k)) \in Nat
<1>1. Doomed \subseteq Conns /\ Recovering \subseteq Clients /\ \A k : Left(k) \subseteq Clients
  BY DEF Doomed, Recovering, Left
<1>2. ASSUME NEW S, NEW T \in SUBSET S, IsFiniteSet(S) PROVE IsFiniteSet(T) /\ Cardinality(T) \in Nat
  BY <1>2, FS_Subset, FS_CardinalityType
<1>3. QED
  BY <1>1, <1>2, RodAssumption

LEMMA Growth ==
    ASSUME NEW S, IsFiniteSet(S), NEW T
    PROVE  /\ T \subseteq S =>
                Cardinality(T) \in Nat /\ Cardinality(T) <= Cardinality(S)
           /\ \A x : T \subseteq S \cup {x} =>
                Cardinality(T) \in Nat /\ Cardinality(T) <= Cardinality(S) + 1
           /\ \A x \in S : T \subseteq S \ {x} =>
                Cardinality(T) \in Nat /\ Cardinality(T) <= Cardinality(S) - 1
<1>1. ASSUME NEW U, IsFiniteSet(U), T \subseteq U
      PROVE  Cardinality(T) \in Nat /\ Cardinality(T) <= Cardinality(U)
  BY <1>1, FS_Subset, FS_CardinalityType
<1>2. Cardinality(S) \in Nat
  BY FS_CardinalityType
<1>3. ASSUME NEW x, T \subseteq S \cup {x}
      PROVE  Cardinality(T) \in Nat /\ Cardinality(T) <= Cardinality(S) + 1
  <2>1. IsFiniteSet(S \cup {x}) /\ Cardinality(S \cup {x}) \in {Cardinality(S), Cardinality(S) + 1}
    BY FS_AddElement
  <2>2. QED
    BY <1>1, <1>2, <1>3, <2>1
<1>4. ASSUME NEW x \in S, T \subseteq S \ {x}
      PROVE  Cardinality(T) \in Nat /\ Cardinality(T) <= Cardinality(S) - 1
  <2>1. IsFiniteSet(S \ {x}) /\ Cardinality(S \ {x}) = Cardinality(S) - 1
    BY FS_RemoveElement
  <2>2. QED
    BY <1>1, <1>4, <2>1
<1>5. QED
  BY <1>1, <1>3, <1>4

\* What a step may do to the two counts.
NoFault == toll' = toll /\ Doomed' \subseteq Doomed /\ Recovering' \subseteq Recovering
OneFault == toll' = toll + 1 /\ Recovering' \subseteq Recovering /\ \E x : Doomed' \subseteq Doomed \cup {x}
APanic ==
    \E c : /\ Recovering' \subseteq Recovering \cup {c}
           /\ \/ toll' = toll + 1 /\ Doomed' \subseteq Doomed
              \/ toll' = toll + 2 /\ \E x : Doomed' \subseteq Doomed \cup {x}
ARecovery ==
    /\ toll' = toll
    /\ \E c \in Recovering : Recovering' \subseteq Recovering \ {c}
    /\ \E x : Doomed' \subseteq Doomed \cup {x}

LEMMA Balance ==
    ASSUME TypeOK, Cardinality(Doomed) + Cardinality(Recovering) <= toll,
           NoFault \/ OneFault \/ APanic \/ ARecovery
    PROVE  Cardinality(Doomed') + Cardinality(Recovering') <= toll'
<1> DEFINE D == Cardinality(Doomed)   E == Cardinality(Doomed')
           R == Cardinality(Recovering)   Q == Cardinality(Recovering')
<1>1. toll \in Nat /\ D \in Nat /\ R \in Nat
  BY Finite, RodAssumption DEF TypeOK
<1>2. CASE NoFault
  <2>1. E \in Nat /\ E <= D /\ Q \in Nat /\ Q <= R
    BY <1>2, Finite, Growth DEF NoFault
  <2>2. QED
    BY <1>1, <1>2, <2>1 DEF NoFault
<1>3. CASE OneFault
  <2>1. E \in Nat /\ E <= D + 1 /\ Q \in Nat /\ Q <= R
    BY <1>3, Finite, Growth DEF OneFault
  <2>2. QED
    BY <1>1, <1>3, <2>1 DEF OneFault
<1>4. CASE APanic
  <2>1. Q \in Nat /\ Q <= R + 1
    BY <1>4, Finite, Growth DEF APanic
  <2>2. \/ toll' = toll + 1 /\ E \in Nat /\ E <= D
        \/ toll' = toll + 2 /\ E \in Nat /\ E <= D + 1
    BY <1>4, Finite, Growth DEF APanic
  <2>3. QED
    BY <1>1, <2>1, <2>2
<1>5. CASE ARecovery
  <2>1. E \in Nat /\ E <= D + 1 /\ Q \in Nat /\ Q <= R - 1
    BY <1>5, Finite, Growth DEF ARecovery
  <2>2. QED
    BY <1>1, <1>5, <2>1 DEF ARecovery
<1>6. QED
  BY <1>2, <1>3, <1>4, <1>5

\* A step that takes d to l, leaves d's old connection no worse and keeps the
\* state of the others, dooms no Chrome.
LEMMA SafeStep ==
    ASSUME Control, NEW d \in Clients, NEW l, NEW m, Goto(d, l, m), NEW k \in Conns, Safe(k),
           state'[k] = state[k], shared' = shared,
           ~(pc[d] \in {"connect", "verify"} /\ conn[d] = k)
    PROVE  Safe(k)'
<1>1. \A c \in Clients \ {d} : pc'[c] = pc[c] /\ conn'[c] = conn[c]
  BY DEF Goto, Control, TypeOK
<1>2. QED
  BY <1>1 DEF Safe

\* The fates of other clients' connections and recoveries.
LEMMA RecoveringStep ==
    ASSUME Control, NEW d \in Clients, NEW l, NEW m, Goto(d, l, m)
    PROVE  /\ l # "recover" => Recovering' \subseteq Recovering \ {d}
           /\ Recovering' \subseteq Recovering \cup {d}
<1>1. /\ pc'[d] = l
      /\ \A c \in Clients \ {d} : pc'[c] = pc[c]
  BY DEF Goto, Control, TypeOK
<1>2. QED
  BY <1>1 DEF Recovering

LEMMA ClientBalance ==
    ASSUME Control, ~remote, NEW d \in Clients, ClientStep(d)
    PROVE  NoFault \/ OneFault \/ APanic \/ ARecovery
<1> USE DEF Control
<1>1. CASE Create(d) \/ Lock(d) \/ SharedAnswers(d) \/ NoShared(d) \/ LaunchFails(d)
           \/ PageOpens(d) \/ PageFails(d) \/ SetupDone(d) \/ SetupFails(d) \/ Release(d)
           \/ HealthCheck(d) \/ ProbeOpens(d) \/ ProbeFails(d) \/ ProbeCloses(d)
  <2> USE <1>1 DEF Create, Lock, SharedAnswers, NoShared, LaunchFails, PageOpens, PageFails,
          SetupDone, SetupFails, Release, HealthCheck, ProbeOpens, ProbeFails, ProbeCloses,
          ClosePage, Return
  <2>1. PICK l, m : Goto(d, l, m) /\ l # "recover"
    OBVIOUS
  <2>2. /\ UNCHANGED <<state, shared, toll>>
        /\ pc[d] \notin {"connect", "verify"}
    OBVIOUS
  <2>3. \A k \in Conns : Safe(k) => Safe(k)'
    BY <2>1, <2>2, SafeStep
  <2>4. QED
    BY <2>1, <2>2, <2>3, RecoveringStep DEF NoFault, Doomed
<1>2. CASE SharedStale(d)
  <2> USE <1>2 DEF SharedStale, Toll
  <2> PICK k \in Conns : k = shared
    BY DEF TypeOK
  <2>1. /\ Goto(d, "launch", None) /\ UNCHANGED state /\ shared' = None
    OBVIOUS
  <2>2. ASSUME NEW j \in Conns \ {k}, Safe(j) PROVE Safe(j)'
    <3>1. \A c \in Clients \ {d} : pc'[c] = pc[c] /\ conn'[c] = conn[c]
      BY <2>1 DEF Goto, TypeOK
    <3>2. QED
      BY <2>1, <2>2, <3>1 DEF Safe
  <2>3. CASE state[k] = "up"
    <3>1. Doomed' \subseteq Doomed \cup {k} /\ toll' = toll + 1
      BY <2>2, <2>3 DEF Doomed
    <3>2. QED
      BY <2>1, <3>1, RecoveringStep DEF OneFault
  <2>4. CASE state[k] # "up"
    <3>1. \A c \in Clients : pc[c] \notin {"connect", "verify"}
      BY DEF Mutex, UnderMutex
    <3>2. Safe(k) => Safe(k)'
      BY <2>1, <2>4, <3>1 DEF Safe
    <3>3. Doomed' \subseteq Doomed /\ toll' = toll
      BY <2>2, <2>4, <3>2 DEF Doomed
    <3>4. QED
      BY <2>1, <3>3, RecoveringStep DEF NoFault
  <2>5. QED
    BY <2>3, <2>4
<1>3. CASE Launched(d)
  <2>1. PICK k \in Conns :
           /\ Fresh(k)
           /\ state' = [state EXCEPT ![k] = "cut"]
           /\ Goto(d, "connect", k)
           /\ UNCHANGED <<shared, toll>>
           /\ pc[d] = "launch"
    <3>1. PICK k \in Conns : k = CHOOSE j \in Conns : Fresh(j)
      BY <1>3 DEF Launched
    <3>2. Fresh(k)
      BY <1>3, <3>1 DEF Launched
    <3>3. QED
      BY <1>3, <3>1, <3>2 DEF Launched
  <2>3. Safe(k)'
    BY <2>1 DEF Safe, Goto, TypeOK
  <2>4. ASSUME NEW j \in Conns \ {k}, Safe(j) PROVE Safe(j)'
    BY <2>1, <2>4, SafeStep DEF TypeOK
  <2>5. QED
    BY <2>1, <2>3, <2>4, RecoveringStep DEF NoFault, Doomed
<1>4. CASE Connected(d)
  <2> USE <1>4 DEF Connected
  <2> PICK k \in Conns : k = conn[d]
    BY DEF TypeOK
  <2>1. Safe(k)'
    BY DEF Safe, Goto, TypeOK
  <2>2. ASSUME NEW j \in Conns \ {k}, Safe(j) PROVE Safe(j)'
    BY <2>2, SafeStep DEF TypeOK
  <2>3. QED
    BY <2>1, <2>2, RecoveringStep DEF NoFault, Doomed
<1>5. CASE ConnectFails(d)
  <2> USE <1>5 DEF ConnectFails, Toll, Return
  <2> PICK k \in Conns : k = conn[d]
    BY DEF TypeOK
  <2>1. ASSUME NEW j \in Conns \ {k}, Safe(j) PROVE Safe(j)'
    BY <2>1, SafeStep
  <2>2. CASE state[k] = "cut"
    <3>1. Doomed' \subseteq Doomed \cup {k} /\ toll' = toll + 1
      BY <2>1, <2>2 DEF Doomed
    <3>2. QED
      BY <3>1, RecoveringStep DEF OneFault
  <2>3. CASE state[k] # "cut"
    <3>1. state'[k] = "free"
      BY <2>3 DEF Untouched
    <3>2. Safe(k)'
      BY <3>1 DEF Safe, Goto
    <3>3. QED
      BY <2>1, <2>3, <3>2, RecoveringStep DEF NoFault, Doomed
  <2>4. QED
    BY <2>2, <2>3
<1>6. CASE VerifyOK(d)
  <2> USE <1>6 DEF VerifyOK
  <2> PICK k \in Conns : k = conn[d]
    BY DEF TypeOK
  <2>1. Safe(k)'
    BY DEF Safe
  <2>2. shared = None /\ None \notin Conns
    BY RodAssumption DEF Mutex, UnderMutex
  <2>3. \A c \in Clients \ {d} : pc'[c] = pc[c] /\ conn'[c] = conn[c]
    BY DEF Goto, TypeOK
  <2>4. ASSUME NEW j \in Conns \ {k}, Safe(j) PROVE Safe(j)'
    BY <2>2, <2>3, <2>4 DEF Safe
  <2>5. QED
    BY <2>1, <2>4, RecoveringStep DEF NoFault, Doomed
<1>7. CASE VerifyFails(d)
  <2> USE <1>7 DEF VerifyFails, Return
  <2> PICK k \in Conns : k = conn[d]
    BY DEF TypeOK
  <2>1. conn[d] = k
    OBVIOUS
  <2>2. ASSUME NEW j \in Conns \ {k}, Safe(j) PROVE Safe(j)'
    <3>1. state'[j] = state[j]
      BY <2>1, ExitEffect
    <3>2. QED
      BY <2>2, <3>1, SafeStep
  <2>3. Safe(k) => Safe(k)'
    <3>1. CASE state[k] = "cut"
      <4>1. shared = None /\ k # None
        BY <2>1, RodAssumption DEF Mutex, UnderMutex
      <4>2. ~Safe(k)
        BY <3>1, <4>1 DEF Safe, Private
      <4>3. QED
        BY <4>2
    <3>2. CASE state[k] # "cut"
      <4>1. state'[k] = "free"
        BY <2>1, <3>2, ExitEffect
      <4>2. QED
        BY <4>1 DEF Safe, Goto
    <3>3. QED
      BY <3>1, <3>2
  <2>4. QED
    BY <2>2, <2>3, RecoveringStep DEF NoFault, Doomed
<1>8. CASE Panic(d)
  <2> USE <1>8 DEF Panic, Toll
  <2>1. ASSUME NEW j \in Conns, ~(pc[d] \in {"connect", "verify"} /\ conn[d] = j), Safe(j)
        PROVE  Safe(j)'
    BY <2>1, SafeStep
  <2>2. CASE pc[d] \in {"connect", "verify"}
    <3> PICK k \in Conns : k = conn[d]
      BY <2>2 DEF TypeOK
    <3>1. Doomed' \subseteq Doomed \cup {k} /\ toll' = toll + 2
      BY <2>1, <2>2 DEF Doomed
    <3>2. QED
      BY <3>1, RecoveringStep DEF APanic
  <2>3. CASE pc[d] \notin {"connect", "verify"}
    <3>1. Doomed' \subseteq Doomed /\ toll' = toll + 1
      BY <2>1, <2>3 DEF Doomed
    <3>2. QED
      BY <3>1, RecoveringStep DEF APanic
  <2>4. QED
    BY <2>2, <2>3
<1>9. CASE Recover(d)
  <2> USE <1>9 DEF Recover, Return
  <2> PICK k : k = shared
    OBVIOUS
  <2>1. \A c \in Clients \ {d} : pc'[c] = pc[c] /\ conn'[c] = conn[c]
    BY DEF Goto, TypeOK
  <2>2. ASSUME NEW j \in Conns \ {k}, Safe(j) PROVE Safe(j)'
    BY <2>1, <2>2 DEF Safe
  <2>3. Doomed' \subseteq Doomed \cup {k}
    BY <2>2 DEF Doomed
  <2>4. d \in Recovering
    BY DEF Recovering
  <2>5. QED
    BY <2>3, <2>4, RecoveringStep DEF ARecovery
<1>10. QED
  BY <1>1, <1>2, <1>3, <1>4, <1>5, <1>6, <1>7, <1>8, <1>9 DEF ClientStep, GoOn

LEMMA ChromesPaid ==
    ASSUME Control, [Next]_vars, ~remote,
           Cardinality(Doomed) + Cardinality(Recovering) <= toll
    PROVE  Cardinality(Doomed') + Cardinality(Recovering') <= toll'
<1> USE DEF Control
<1>1. ASSUME NEW d \in Clients, ClientStep(d) PROVE NoFault \/ OneFault \/ APanic \/ ARecovery
  BY <1>1, ClientBalance
<1>2. ASSUME CloseLock \/ UNCHANGED vars PROVE NoFault
  BY <1>2 DEF CloseLock, vars, NoFault, Doomed, Safe, Recovering
<1>3. ASSUME CloseShared PROVE NoFault
  <2> USE <1>3 DEF CloseShared
  <2> PICK k \in Conns : k = shared
    BY DEF Mutex, TypeOK
  <2>1. shared = k /\ UNCHANGED <<pc, conn, toll>>
    OBVIOUS
  <2>2. \A c \in Clients : pc[c] \notin {"connect", "verify"}
    BY <2>1, RodAssumption DEF Mutex, UnderMutex
  <2>3. ASSUME NEW j \in Conns \ {k}, Safe(j) PROVE Safe(j)'
    <3>1. state'[j] = state[j]
      BY <2>1, ExitEffect
    <3>2. QED
      BY <2>1, <2>2, <2>3, <3>1 DEF Safe
  <2>4. Safe(k) => Safe(k)'
    <3>1. state[k] # "cut" => state'[k] = "free"
      BY <2>1, ExitEffect DEF TypeOK, State
    <3>2. QED
      BY <2>2, <3>1 DEF Safe
  <2>5. Doomed' \subseteq Doomed
    BY <2>3, <2>4 DEF Doomed
  <2>6. QED
    BY <2>1, <2>5 DEF NoFault, Recovering
<1>4. ASSUME NEW k \in Conns, Crash(k) \/ Hang(k) \/ Answer(k) PROVE NoFault
  <2> USE <1>4 DEF Crash, Hang, Answer, Become
  <2>1. UNCHANGED <<shared, pc, conn, toll>>
    OBVIOUS
  <2>2. ASSUME NEW j \in Conns
        PROVE  state'[j] = "free" \/ state'[j] = state[j]
               \/ (state[j] # "cut" /\ state'[j] # "cut")
    BY ExitEffect DEF TypeOK
  <2>3. ASSUME NEW j \in Conns, state[j] = "free" PROVE state'[j] = "free"
    BY <2>3, ExitEffect DEF TypeOK
  <2>4. \A j \in Conns : Safe(j) => Safe(j)'
    BY <2>1, <2>2, <2>3 DEF Safe
  <2>5. QED
    BY <2>1, <2>4 DEF NoFault, Doomed, Recovering
<1>5. ASSUME NEW k \in Conns, Cut(k) PROVE OneFault
  <2> USE <1>5 DEF Cut, Become, Toll
  <2>1. \A j \in Conns \ {k} : Safe(j) => Safe(j)'
    BY DEF TypeOK, Safe
  <2>2. Doomed' \subseteq Doomed \cup {k}
    BY <2>1 DEF Doomed
  <2>3. QED
    BY <2>2 DEF OneFault, Recovering
<1>6. NoFault \/ OneFault \/ APanic \/ ARecovery
  BY <1>1, <1>2, <1>3, <1>4, <1>5 DEF Next, Environment
<1>7. QED
  BY <1>6, Balance

\* The pages left open in a Chrome that answers, or will.
LEMMA PagesLeft ==
    ASSUME Control, [Next]_vars, NEW k \in Conns, state'[k] \in {"up", "hung"}
    PROVE  /\ toll' \in Nat /\ toll <= toll'
           /\ \/ Left(k)' = {}
              \/ /\ state[k] \in {"up", "hung"}
                 /\ \/ Left(k)' \subseteq Left(k)
                    \/ toll + 1 <= toll' /\ \E d : Left(k)' \subseteq Left(k) \cup {d}
<1> USE DEF Control
<1>1. toll \in Nat
  BY RodAssumption DEF TypeOK
<1>2. ASSUME NEW d \in Clients, NEW l, NEW m, Goto(d, l, m)
      PROVE  /\ pc'[d] = l /\ conn'[d] = m
             /\ \A c \in Clients \ {d} : pc'[c] = pc[c] /\ conn'[c] = conn[c]
  BY <1>2 DEF Goto, TypeOK
<1>3. ASSUME NEW d \in Clients,
             Create(d) \/ Lock(d) \/ SharedAnswers(d) \/ SharedStale(d) \/ NoShared(d)
             \/ LaunchFails(d) \/ VerifyOK(d) \/ PageFails(d) \/ HealthCheck(d) \/ ProbeFails(d)
             \/ Recover(d) \/ ConnectFails(d) \/ VerifyFails(d)
      PROVE  /\ toll' \in Nat /\ toll <= toll' /\ state[k] \in {"up", "hung"}
             /\ Left(k)' \subseteq Left(k)
  <2> USE <1>3 DEF Create, Lock, SharedAnswers, SharedStale, NoShared, LaunchFails, VerifyOK,
          PageFails, HealthCheck, ProbeFails, Recover, ConnectFails, VerifyFails, Return, Toll
  <2>1. pc[d] \notin HasPage
    BY DEF HasPage
  <2>2. \A c \in Clients \ {d} : pc'[c] = pc[c] /\ conn'[c] = conn[c]
    BY <1>2
  <2>3. open' \subseteq open /\ state'[k] \in {"free", state[k]}
    BY ExitEffect DEF TypeOK
  <2>4. toll' \in Nat /\ toll <= toll'
    BY <1>1
  <2>5. Left(k)' \subseteq Left(k)
    BY <2>1, <2>2, <2>3 DEF Left
  <2>6. QED
    BY <2>3, <2>4, <2>5
<1>4. ASSUME NEW d \in Clients, PageOpens(d) \/ SetupDone(d) \/ ProbeOpens(d)
      PROVE  UNCHANGED <<state, toll>> /\ Left(k)' \subseteq Left(k)
  <2> USE <1>4 DEF PageOpens, SetupDone, ProbeOpens
  <2>1. /\ pc'[d] \in HasPage /\ conn'[d] = conn[d]
        /\ \A c \in Clients \ {d} : pc'[c] = pc[c] /\ conn'[c] = conn[c]
    BY <1>2 DEF HasPage
  <2>2. open' \subseteq open \cup {<<d, conn[d]>>}
    OBVIOUS
  <2>3. pc[d] \in HasPage => <<d, conn[d]>> \in open
    BY DEF HasPage
  <2>4. ASSUME NEW c \in Clients, c \in Left(k)' PROVE c \in Left(k)
    BY <2>1, <2>2, <2>3, <2>4 DEF Left
  <2>5. QED
    BY <2>4 DEF Left
<1>5. ASSUME NEW d \in Clients, SetupFails(d) \/ Release(d) \/ ProbeCloses(d)
      PROVE  UNCHANGED <<state, toll>> /\ Left(k)' \subseteq Left(k)
  <2> USE <1>5 DEF SetupFails, Release, ProbeCloses, ClosePage, Return
  <2>1. \A c \in Clients \ {d} : pc'[c] = pc[c] /\ conn'[c] = conn[c]
    BY <1>2
  <2>2. /\ state' = state /\ toll' = toll /\ open' \subseteq open
        /\ conn[d] = k => <<d, k>> \notin open'
    OBVIOUS
  <2>3. QED
    BY <2>1, <2>2 DEF Left
<1>6. ASSUME NEW d \in Clients, Launched(d)
      PROVE  toll' = toll /\ state[k] = state'[k] /\ Left(k)' \subseteq Left(k)
  <2>1. PICK j \in Conns :
           /\ state' = [state EXCEPT ![j] = "cut"]
           /\ open' = {p \in open : p[2] # j}
           /\ Goto(d, "connect", j)
           /\ toll' = toll
           /\ pc[d] = "launch"
    BY <1>6 DEF Launched
  <2>2. /\ pc[d] \notin HasPage
        /\ \A c \in Clients \ {d} : pc'[c] = pc[c] /\ conn'[c] = conn[c]
    BY <1>2, <2>1 DEF HasPage
  <2>3. QED
    BY <2>1, <2>2 DEF Left, TypeOK
<1>7. ASSUME NEW d \in Clients, Connected(d)
      PROVE  /\ toll' = toll
             /\ Left(k)' = {} \/ (state[k] = state'[k] /\ Left(k)' \subseteq Left(k))
  <2> USE <1>7 DEF Connected
  <2>1. /\ pc[d] \notin HasPage
        /\ \A c \in Clients \ {d} : pc'[c] = pc[c] /\ conn'[c] = conn[c]
    BY <1>2 DEF HasPage
  <2>2. CASE conn[d] = k
    BY <2>2 DEF Untouched, Left
  <2>3. CASE conn[d] # k
    BY <2>1, <2>3 DEF Left, TypeOK
  <2>4. QED
    BY <2>2, <2>3
<1>8. ASSUME NEW d \in Clients, Panic(d)
      PROVE  toll' \in Nat /\ toll + 1 <= toll' /\ state' = state /\ Left(k)' \subseteq Left(k) \cup {d}
  <2> USE <1>8 DEF Panic, Toll
  <2>1. \A c \in Clients \ {d} : pc'[c] = pc[c] /\ conn'[c] = conn[c]
    BY <1>2
  <2>2. QED
    BY <1>1, <2>1 DEF Left
<1>9. ASSUME CloseLock \/ CloseShared \/ UNCHANGED vars
             \/ \E j \in Conns : Crash(j) \/ Cut(j) \/ Hang(j) \/ Answer(j)
      PROVE  /\ toll' \in Nat /\ toll <= toll' /\ state[k] \in {"up", "hung"}
             /\ Left(k)' \subseteq Left(k)
  <2> USE <1>9 DEF CloseLock, CloseShared, Crash, Cut, Hang, Answer, Become, Toll, vars
  <2>1. /\ pc' = pc /\ conn' = conn /\ open' \subseteq open /\ toll' \in Nat /\ toll <= toll'
        /\ state[k] \in {"up", "hung"}
    BY <1>1, ExitEffect DEF TypeOK, Mutex
  <2>2. QED
    BY <2>1 DEF Left
<1>10. CASE \E d \in Clients : ClientStep(d)
  <2> PICK d \in Clients : ClientStep(d)
    BY <1>10
  <2>1. CASE Panic(d)
    BY <1>1, <1>8, <2>1
  <2>2. CASE ~Panic(d)
    BY <1>1, <1>3, <1>4, <1>5, <1>6, <1>7, <2>2 DEF ClientStep, GoOn
  <2>3. QED
    BY <2>1, <2>2
<1>11. QED
  BY <1>9, <1>10 DEF Next, Environment

LEMMA PaidInit == Init => Paid
<1> SUFFICES ASSUME Init PROVE Paid
  OBVIOUS
<1>1. Doomed = {} /\ Recovering = {}
  BY DEF Init, Doomed, Safe, Recovering
<1>2. \A k \in Conns : state[k] = "free"
  BY DEF Init
<1>3. toll = 0
  BY DEF Init
<1>4. QED
  BY <1>1, <1>2, <1>3, FS_EmptySet DEF Paid

LEMMA PaidStep == Control /\ Paid /\ [Next]_vars => Paid'
<1> SUFFICES ASSUME Control, Paid, [Next]_vars PROVE Paid'
  OBVIOUS
<1>1. remote' = remote
  BY DEF Next, vars, ClientStep, GoOn, Environment, Create, Lock, SharedAnswers, SharedStale,
         NoShared, LaunchFails, Launched, Connected, ConnectFails, VerifyOK, VerifyFails,
         PageOpens, PageFails, SetupDone, SetupFails, Release, ProbeCloses, ClosePage, HealthCheck,
         ProbeOpens, ProbeFails, Panic, Recover, CloseLock, CloseShared, Crash, Cut, Hang, Answer,
         Become
<1>2. ~remote' => Cardinality(Doomed') + Cardinality(Recovering') <= toll'
  BY <1>1, ChromesPaid DEF Paid
<1>3. ASSUME NEW k \in Conns, state'[k] \in {"up", "hung"}
      PROVE  Cardinality(Left(k)') <= toll'
  <2>1. toll \in Nat
    BY RodAssumption DEF Control, TypeOK
  <2>2. CASE Left(k)' = {}
    BY <1>3, <2>2, PagesLeft, FS_EmptySet
  <2>3. CASE state[k] \in {"up", "hung"} /\ Left(k)' \subseteq Left(k)
    <3>1. Cardinality(Left(k)') \in Nat /\ Cardinality(Left(k)') <= Cardinality(Left(k))
      BY <2>3, Finite, Growth
    <3>2. Cardinality(Left(k)) <= toll /\ toll' \in Nat /\ toll <= toll'
      BY <1>3, <2>3, PagesLeft DEF Paid
    <3>3. QED
      BY <2>1, <3>1, <3>2, Finite
  <2>4. CASE /\ state[k] \in {"up", "hung"}
             /\ toll + 1 <= toll'
             /\ \E d : Left(k)' \subseteq Left(k) \cup {d}
    <3>1. Cardinality(Left(k)') \in Nat /\ Cardinality(Left(k)') <= Cardinality(Left(k)) + 1
      BY <2>4, Finite, Growth
    <3>2. Cardinality(Left(k)) <= toll /\ toll' \in Nat
      BY <1>3, <2>4, PagesLeft DEF Paid
    <3>3. QED
      BY <2>1, <2>4, <3>1, <3>2, Finite
  <2>5. QED
    BY <1>3, <2>2, <2>3, <2>4, PagesLeft
<1>4. QED
  BY <1>2, <1>3 DEF Paid

LEMMA PaidImplies == Control /\ Paid => LeaksPaidFor
<1> SUFFICES ASSUME Control, Paid PROVE LeaksPaidFor
  OBVIOUS
<1>1. toll \in Nat
  BY RodAssumption DEF Control, TypeOK
<1>2. ASSUME ~remote PROVE Cardinality(Orphans) <= toll
  <2>1. Orphans \subseteq Doomed
    BY DEF Orphans, Doomed, Safe
  <2>2. Cardinality(Orphans) \in Nat /\ Cardinality(Orphans) <= Cardinality(Doomed)
    BY <2>1, Finite, Growth
  <2>3. QED
    BY <1>1, <1>2, <2>2, Finite DEF Paid
<1>3. ASSUME shared # None, state[shared] = "up" PROVE Cardinality(Strays) <= toll
  <2>1. PICK k \in Conns : k = shared
    BY <1>3 DEF Control, TypeOK
  <2>2. Strays = Left(k)
    BY <2>1 DEF Strays, Left
  <2>3. QED
    BY <1>3, <2>1, <2>2 DEF Paid
<1>4. QED
  BY <1>2, <1>3 DEF LeaksPaidFor

\* Nothing but a fault leaves a Chrome or a page behind (provider.go:62-317), for
\* any number of clients, connections and faults.
THEOREM RodLeaksPaidFor == Spec => []LeaksPaidFor
<1>1. Control /\ Paid /\ [Next]_vars => Control' /\ Paid'
  BY ControlStep, PaidStep
<1>2. QED
  BY <1>1, ControlInit, PaidInit, PaidImplies, PTL DEF Spec
=============================================================================
