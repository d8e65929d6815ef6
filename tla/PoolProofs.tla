----------------------------- MODULE PoolProofs -----------------------------
(***************************************************************************)
(* Proofs about Pool, for every set of clients, browsers and types and     *)
(* every value of MaxInstances and IdleTimeout.                            *)
(***************************************************************************)
EXTENDS Pool, FiniteSetTheorems, TLAPS

-----------------------------------------------------------------------------
(* Sequences: what pushing, popping and removing an entry does.            *)

\* Without(s, i) is a sequence over the same set, one shorter.
LEMMA WithoutSeq ==
    ASSUME NEW S, NEW s \in Seq(S), NEW i \in 1 .. Len(s)
    PROVE  /\ Without(s, i) \in Seq(S)
           /\ Len(Without(s, i)) = Len(s) - 1
           /\ \A k \in 1 .. Len(s) - 1 :
                 Without(s, i)[k] = IF k < i THEN s[k] ELSE s[k + 1]
<1>1. Len(s) - 1 \in Nat
  OBVIOUS
<1>2. \A k \in 1 .. Len(s) - 1 : (IF k < i THEN s[k] ELSE s[k + 1]) \in S
  OBVIOUS
<1>3. Without(s, i) \in [1 .. Len(s) - 1 -> S]
  BY <1>2 DEF Without
<1>4. Without(s, i) \in Seq(S)
  BY <1>1, <1>3
<1>5. QED
  BY <1>1, <1>3, <1>4 DEF Without

\* Popping the top of a stack removes its last entry.
LEMMA FrontIsWithout ==
    ASSUME NEW S, NEW s \in Seq(S), s # <<>>
    PROVE  /\ Len(s) \in 1 .. Len(s)
           /\ Last(s) = s[Len(s)] /\ Last(s) \in S
           /\ Front(s) = Without(s, Len(s))
<1>1. Len(s) \in Nat \ {0}
  OBVIOUS
<1>2. Last(s) = s[Len(s)] /\ Last(s) \in S
  BY <1>1 DEF Last
<1>3. Front(s) = [k \in 1 .. Len(s) - 1 |-> s[k]]
  BY <1>1 DEF Front
<1>4. QED
  BY <1>1, <1>2, <1>3 DEF Without

\* What is idle in a map of stacks, and that no browser is in it twice.
IdleIn(I) == UNION {ToSet(I[t]) : t \in Types}
Distinct(I) ==
    \A t, u \in Types : \A i \in DOMAIN I[t], j \in DOMAIN I[u] :
        I[t][i] = I[u][j] => t = u /\ i = j

\* J is I without the i-th entry of stack t; J is I with b on top of stack t.
Removes(I, J, t, i) == J = [I EXCEPT ![t] = Without(@, i)]
Pushes(I, J, t, b) == J = [I EXCEPT ![t] = Append(@, b)]

\* Taking one entry off a stack takes one browser out of the idle set.
LEMMA IdleRemove ==
    ASSUME NEW I \in [Types -> Seq(Browsers)], Distinct(I),
           NEW t \in Types, NEW i \in 1 .. Len(I[t]),
           NEW J, Removes(I, J, t, i)
    PROVE  /\ J \in [Types -> Seq(Browsers)]
           /\ Distinct(J)
           /\ I[t][i] \in IdleIn(I) /\ I[t][i] \in Browsers
           /\ \A x : x \in IdleIn(J) <=> x \in IdleIn(I) /\ x # I[t][i]
<1> USE DEF Removes
<1> DEFINE b == I[t][i]
<1>1. /\ Without(I[t], i) \in Seq(Browsers)
      /\ Len(Without(I[t], i)) = Len(I[t]) - 1
      /\ \A k \in 1 .. Len(I[t]) - 1 :
            Without(I[t], i)[k] = IF k < i THEN I[t][k] ELSE I[t][k + 1]
  BY WithoutSeq
<1>2. J \in [Types -> Seq(Browsers)]
  BY <1>1
<1>3. J[t] = Without(I[t], i) /\ \A u \in Types : u # t => J[u] = I[u]
  OBVIOUS
<1>4. \A u \in Types : DOMAIN I[u] = 1 .. Len(I[u]) /\ DOMAIN J[u] = 1 .. Len(J[u])
  BY <1>2
<1> DEFINE Old(u, k) == IF u = t /\ k >= i THEN k + 1 ELSE k
\* Every entry that is left was there before, at the place Old names.
<1>5. \A u \in Types : \A k \in DOMAIN J[u] :
         /\ Old(u, k) \in DOMAIN I[u] /\ J[u][k] = I[u][Old(u, k)]
         /\ ~(u = t /\ Old(u, k) = i)
  <2> TAKE u \in Types
  <2> TAKE k \in DOMAIN J[u]
  <2>1. Len(I[u]) \in Nat /\ Len(I[t]) \in Nat
    OBVIOUS
  <2>2. CASE u = t
    BY <1>1, <1>3, <1>4, <2>1, <2>2
  <2>3. CASE u # t
    BY <1>3, <1>4, <2>1, <2>3
  <2>4. QED
    BY <2>2, <2>3
\* Every other entry is left.
<1>6. \A u \in Types : \A k \in DOMAIN I[u] :
         ~(u = t /\ k = i) => \E m \in DOMAIN J[u] : J[u][m] = I[u][k]
  <2> SUFFICES ASSUME NEW u \in Types, NEW k \in DOMAIN I[u], ~(u = t /\ k = i)
               PROVE  \E m \in DOMAIN J[u] : J[u][m] = I[u][k]
    OBVIOUS
  <2>1. Len(I[u]) \in Nat /\ Len(I[t]) \in Nat
    OBVIOUS
  <2>2. CASE u # t
    BY <1>3, <2>2
  <2>3. CASE u = t /\ k < i
    <3>1. k \in DOMAIN J[u] /\ J[u][k] = I[u][k]
      BY <1>1, <1>3, <1>4, <2>1, <2>3
    <3>2. QED
      BY <3>1
  <2>4. CASE u = t /\ k > i
    <3>1. k - 1 \in DOMAIN J[u] /\ J[u][k - 1] = I[u][k]
      BY <1>1, <1>3, <1>4, <2>1, <2>4
    <3>2. QED
      BY <3>1
  <2>5. QED
    BY <1>4, <2>1, <2>2, <2>3, <2>4
<1>7. Distinct(J)
  <2> SUFFICES ASSUME NEW u \in Types, NEW v \in Types,
                      NEW k \in DOMAIN J[u], NEW m \in DOMAIN J[v],
                      J[u][k] = J[v][m]
               PROVE  u = v /\ k = m
    BY DEF Distinct
  <2>1. u = v /\ Old(u, k) = Old(v, m)
    BY <1>5 DEF Distinct
  <2>2. k \in Nat /\ m \in Nat /\ i \in Nat
    BY <1>2, <1>4
  <2>3. QED
    BY <2>1, <2>2
<1>8. b \in IdleIn(I) /\ b \in Browsers
  BY <1>4 DEF IdleIn, ToSet
<1>9. \A x : x \in IdleIn(J) => x \in IdleIn(I) /\ x # b
  <2> SUFFICES ASSUME NEW u \in Types, NEW k \in DOMAIN J[u]
               PROVE  J[u][k] \in IdleIn(I) /\ J[u][k] # b
    BY DEF IdleIn, ToSet
  <2>1. J[u][k] \in ToSet(I[u])
    BY <1>5 DEF ToSet
  <2>2. J[u][k] # b
    BY <1>4, <1>5 DEF Distinct
  <2>3. QED
    BY <2>1, <2>2 DEF IdleIn
<1>10. \A x : x \in IdleIn(I) /\ x # b => x \in IdleIn(J)
  <2> SUFFICES ASSUME NEW u \in Types, NEW k \in DOMAIN I[u], I[u][k] # b
               PROVE  I[u][k] \in IdleIn(J)
    BY DEF IdleIn, ToSet
  <2>1. PICK m \in DOMAIN J[u] : J[u][m] = I[u][k]
    BY <1>6
  <2>2. I[u][k] \in ToSet(J[u])
    BY <2>1 DEF ToSet
  <2>3. QED
    BY <2>2 DEF IdleIn
<1>11. QED
  BY <1>2, <1>7, <1>8, <1>9, <1>10

\* Pushing a browser that is not idle adds it to the idle set.
LEMMA IdlePush ==
    ASSUME NEW I \in [Types -> Seq(Browsers)], Distinct(I),
           NEW t \in Types, NEW b \in Browsers, b \notin IdleIn(I),
           NEW J, Pushes(I, J, t, b)
    PROVE  /\ J \in [Types -> Seq(Browsers)]
           /\ Distinct(J)
           /\ \A x : x \in IdleIn(J) <=> x \in IdleIn(I) \/ x = b
<1> USE DEF Pushes
<1>1. J \in [Types -> Seq(Browsers)]
  OBVIOUS
<1>2. \A u \in Types : DOMAIN I[u] = 1 .. Len(I[u]) /\ DOMAIN J[u] = 1 .. Len(J[u])
  BY <1>1
<1>3. \A u \in Types : u # t => J[u] = I[u]
  OBVIOUS
<1>4. /\ Len(J[t]) = Len(I[t]) + 1 /\ J[t][Len(I[t]) + 1] = b
      /\ \A k \in 1 .. Len(I[t]) : J[t][k] = I[t][k]
      /\ Len(I[t]) \in Nat
  OBVIOUS
<1>5. \A u \in Types : \A k \in DOMAIN I[u] : I[u][k] # b /\ I[u][k] \in IdleIn(I)
  BY DEF IdleIn, ToSet
<1>6. \A u \in Types : \A k \in DOMAIN J[u] :
         \/ k \in DOMAIN I[u] /\ J[u][k] = I[u][k]
         \/ u = t /\ k = Len(I[t]) + 1 /\ J[u][k] = b
  BY <1>2, <1>3, <1>4
<1>7. Distinct(J)
  BY <1>5, <1>6 DEF Distinct
<1>8. \A x : x \in IdleIn(J) => x \in IdleIn(I) \cup {b}
  <2> SUFFICES ASSUME NEW u \in Types, NEW k \in DOMAIN J[u]
               PROVE  J[u][k] \in IdleIn(I) \cup {b}
    BY DEF IdleIn, ToSet
  <2>1. QED
    BY <1>5, <1>6
<1>9. \A x : x \in IdleIn(I) => x \in IdleIn(J)
  <2> SUFFICES ASSUME NEW u \in Types, NEW k \in DOMAIN I[u]
               PROVE  I[u][k] \in IdleIn(J)
    BY DEF IdleIn, ToSet
  <2>1. k \in DOMAIN J[u] /\ J[u][k] = I[u][k]
    BY <1>2, <1>3, <1>4
  <2>2. QED
    BY <2>1 DEF IdleIn, ToSet
<1>10. b \in IdleIn(J)
  <2>1. Len(I[t]) + 1 \in DOMAIN J[t]
    BY <1>2, <1>4
  <2>2. b \in ToSet(J[t])
    BY <1>4, <2>1 DEF ToSet
  <2>3. QED
    BY <2>2 DEF IdleIn
<1>11. QED
  BY <1>1, <1>7, <1>8, <1>9, <1>10

-----------------------------------------------------------------------------
(* Control: the part of the inductive invariant that counts nothing.       *)

\* TypeOK without the sign of the counters, which only SlotsCovered gives.
Shape ==
    /\ closed \in BOOLEAN /\ drained \in BOOLEAN
    /\ providers \in SUBSET Types
    /\ instances \in [Types -> Seq(Browsers)]
    /\ age \in [Browsers -> Ages]
    /\ inUse \in Int /\ total \in Int
    /\ mu \in Clients \cup {HealthLoop, None}
    /\ pc \in [Clients -> PC]
    /\ want \in [Clients -> Types \cup {None}]
    /\ held \in [Clients -> Browsers \cup {None}]
    /\ ctxDone \in [Clients -> BOOLEAN]
    /\ page \in [Browsers -> Page]

Control == Shape /\ ClientState /\ MutexDiscipline /\ DrainedEmpty

\* The pool starts in control.
LEMMA ControlInit == Init => Control
<1> SUFFICES ASSUME Init PROVE Control
  OBVIOUS
<1> USE PoolAssumption DEF Init
<1>1. instances \in [Types -> Seq(Browsers)]
  <2>1. <<>> \in Seq(Browsers)
    OBVIOUS
  <2>2. QED
    BY <2>1
<1>2. age \in [Browsers -> Ages]
  BY DEF Ages
<1>3. Shape
  <2>1. closed \in BOOLEAN /\ drained \in BOOLEAN /\ providers \in SUBSET Types
    OBVIOUS
  <2>2. inUse \in Int /\ total \in Int /\ mu \in Clients \cup {HealthLoop, None}
    OBVIOUS
  <2>3. pc \in [Clients -> PC] /\ page \in [Browsers -> Page]
    BY DEF PC, Page
  <2>4. want \in [Clients -> Types \cup {None}] /\ held \in [Clients -> Browsers \cup {None}]
    OBVIOUS
  <2>5. ctxDone \in [Clients -> BOOLEAN]
    OBVIOUS
  <2>6. QED
    BY <1>1, <1>2, <2>1, <2>2, <2>3, <2>4, <2>5 DEF Shape
<1>4. ClientState /\ DrainedEmpty
  BY DEF ClientState, DrainedEmpty
<1>5. MutexDiscipline
  BY DEF MutexDiscipline, Scanning
<1>6. QED
  BY <1>3, <1>4, <1>5 DEF Control

\* Close leaves every browser a page of one of the four kinds.
LEMMA DrainTypes ==
    ASSUME Control, Drain
    PROVE  page' \in [Browsers -> Page]
<1>1. PICK ended \in SUBSET Exposed : page' = [b \in Browsers |-> PageAfter(ended, b)]
  BY DEF Drain
<1>2. \A b \in Browsers : PageAfter(ended, b) \in Page
  BY DEF Control, Shape, PageAfter, Page
<1>3. QED
  BY <1>1, <1>2

\* Every step of a client keeps it so.
LEMMA ControlClient ==
    ASSUME Control, NEW c \in Clients, ClientStep(c)
    PROVE  Control'
<1> USE PoolAssumption DEF Control, Shape, ClientState, MutexDiscipline, DrainedEmpty,
        PC, Page, Scanning, pool, vars, Goto, Leave, Receive
<1>0. \A t \in Types : instances[t] # <<>> =>
         /\ Last(instances[t]) \in Browsers
         /\ Front(instances[t]) \in Seq(Browsers)
  BY FrontIsWithout, WithoutSeq
<1>00. 0 \in Ages
  BY DEF Ages
<1>1. ASSUME NEW t \in Types, Acquire(c, t) PROVE Control'
  BY <1>1 DEF Acquire
<1>2. CASE AcquireClosed(c)
  BY <1>2 DEF AcquireClosed
<1>3. CASE ProviderNotFound(c)
  BY <1>3 DEF ProviderNotFound
<1>4. CASE LockForScan(c)
  BY <1>4 DEF LockForScan
<1>5. CASE Reuse(c)
  BY <1>5, <1>0, <1>00 DEF Reuse
<1>6. CASE Discard(c)
  BY <1>6, <1>0, <1>00 DEF Discard
<1>7. CASE Reserve(c)
  BY <1>7 DEF Reserve
<1>8. CASE PoolFull(c)
  BY <1>8 DEF PoolFull
<1>9. ASSUME NEW b \in Browsers, CreateOK(c, b) PROVE Control'
  BY <1>9 DEF CreateOK
<1>10. CASE CreateFails(c)
  BY <1>10 DEF CreateFails
<1>11. CASE UndoReserve(c)
  BY <1>11 DEF UndoReserve
<1>12. CASE WaitTimeout(c)
  BY <1>12 DEF WaitTimeout
<1>13. CASE WaitTick(c)
  BY <1>13 DEF WaitTick
<1>14. CASE WaitAgain(c)
  BY <1>14 DEF WaitAgain
<1>15. CASE ReleaseClosed(c)
  BY <1>15 DEF ReleaseClosed
<1>16. CASE ReleaseBroken(c)
  BY <1>16 DEF ReleaseBroken
<1>17. CASE Retire(c)
  BY <1>17 DEF Retire
<1>18. CASE ReleaseHealthy(c)
  BY <1>18 DEF ReleaseHealthy
<1>19. CASE Return(c)
  BY <1>19 DEF Return
<1>20. CASE ReturnPanics(c)
  BY <1>20 DEF ReturnPanics
<1>21. CASE Cancel(c)
  BY <1>21 DEF Cancel
<1>22. QED
  BY <1>1, <1>2, <1>3, <1>4, <1>5, <1>6, <1>7, <1>8, <1>9, <1>10, <1>11, <1>12,
     <1>13, <1>14, <1>15, <1>16, <1>17, <1>18, <1>19, <1>20, <1>21 DEF ClientStep

\* So does every other step.
LEMMA ControlStep == Control /\ [Next]_vars => Control'
<1> SUFFICES ASSUME Control, [Next]_vars PROVE Control'
  OBVIOUS
<1> USE PoolAssumption DEF Control, Shape, ClientState, MutexDiscipline, DrainedEmpty,
        PC, Page, Scanning, pool, vars
<1>1. ASSUME NEW c \in Clients, ClientStep(c) PROVE Control'
  BY <1>1, ControlClient
<1>2. ASSUME NEW t \in Types, Register(t) PROVE Control'
  BY <1>2 DEF Register
<1>3. CASE EvictLock
  BY <1>3 DEF EvictLock
<1>4. ASSUME NEW t \in Types, NEW i \in DOMAIN instances[t], Evict(t, i) PROVE Control'
  <2>1. /\ i \in 1 .. Len(instances[t])
        /\ instances[t][i] \in Browsers
        /\ instances[t] # <<>>
    OBVIOUS
  <2>2. Without(instances[t], i) \in Seq(Browsers)
    BY <2>1, WithoutSeq
  <2>3. QED
    BY <1>4, <2>1, <2>2 DEF Evict, Ages
<1>5. CASE EvictDone
  BY <1>5 DEF EvictDone
<1>6. CASE SetClosed
  BY <1>6 DEF SetClosed
<1>7. CASE Drain
  <2>1. page' \in [Browsers -> Page]
    BY <1>7, DrainTypes
  <2>2. QED
    BY <1>7, <2>1 DEF Drain, Ages
<1>8. ASSUME NEW b \in Browsers, Break(b) PROVE Control'
  BY <1>8 DEF Break
<1>9. CASE Tick
  <2>1. age' \in [Browsers -> Ages]
    BY <1>9 DEF Tick, Ages, Expired
  <2>2. QED
    BY <1>9, <2>1 DEF Tick
<1>10. CASE UNCHANGED vars
  BY <1>10
<1>11. QED
  BY <1>1, <1>2, <1>3, <1>4, <1>5, <1>6, <1>7, <1>8, <1>9, <1>10 DEF Next

-----------------------------------------------------------------------------
(* Ownership: where every browser is.                                      *)

Ownership == ExclusiveLease /\ OpenInUse /\ NothingLost

\* The definitions about stacks, in terms of the operators of the lemmas.
LEMMA IdleIsIdleIn ==
    /\ Idle = IdleIn(instances)
    /\ ExclusiveLease <=>
         /\ \A c, d \in Clients : held[c] = held[d] /\ held[c] # None => c = d
         /\ \A c \in Clients : held[c] \notin Idle
         /\ Distinct(instances)
BY DEF Idle, Entries, IdleIn, ExclusiveLease, Distinct

LEMMA IdleIsIdleInPrimed ==
    /\ Idle' = IdleIn(instances')
    /\ ExclusiveLease' <=>
         /\ \A c, d \in Clients : held'[c] = held'[d] /\ held'[c] # None => c = d
         /\ \A c \in Clients : held'[c] \notin Idle'
         /\ Distinct(instances')
BY DEF Idle, Entries, IdleIn, ExclusiveLease, Distinct

\* Popping the stack of client c's type.
LEMMA PopEffect ==
    ASSUME Control, Distinct(instances), NEW c \in Clients, Scanning(c),
           instances[want[c]] # <<>>,
           instances' = [instances EXCEPT ![want[c]] = Front(@)]
    PROVE  /\ Last(instances[want[c]]) \in Idle
           /\ Last(instances[want[c]]) \in Browsers
           /\ Idle' = Idle \ {Last(instances[want[c]])}
           /\ Distinct(instances')
<1> DEFINE t == want[c]
<1>1. t \in Types /\ instances \in [Types -> Seq(Browsers)]
  BY DEF Control, Shape, ClientState, Scanning
<1>2. /\ Len(instances[t]) \in 1 .. Len(instances[t])
      /\ Last(instances[t]) = instances[t][Len(instances[t])]
      /\ Front(instances[t]) = Without(instances[t], Len(instances[t]))
  BY <1>1, FrontIsWithout
<1>3. instances' = [instances EXCEPT ![t] = Without(@, Len(instances[t]))]
  BY <1>1, <1>2
<1> DEFINE n == Len(instances[t])
<1>4. /\ instances[t][n] \in IdleIn(instances) /\ instances[t][n] \in Browsers
      /\ \A x : x \in IdleIn(instances') <=> x \in IdleIn(instances) /\ x # instances[t][n]
      /\ Distinct(instances')
  <2>1. n \in 1 .. Len(instances[t])
    BY <1>2
  <2>2. Removes(instances, instances', t, n)
    BY <1>3 DEF Removes
  <2> HIDE DEF n, t
  <2>3. QED
    BY <1>1, <2>1, <2>2, IdleRemove
<1>5. QED
  BY <1>2, <1>4, IdleIsIdleIn, IdleIsIdleInPrimed

\* Removing the i-th entry of type t's stack.
LEMMA EvictEffect ==
    ASSUME Control, Distinct(instances), NEW t \in Types, NEW i \in DOMAIN instances[t],
           instances' = [instances EXCEPT ![t] = Without(@, i)]
    PROVE  /\ instances[t][i] \in Idle
           /\ instances[t][i] \in Browsers
           /\ Idle' = Idle \ {instances[t][i]}
           /\ Distinct(instances')
<1>1. instances \in [Types -> Seq(Browsers)] /\ i \in 1 .. Len(instances[t])
  BY DEF Control, Shape
<1>2. Removes(instances, instances', t, i)
  BY DEF Removes
<1>3. /\ instances[t][i] \in IdleIn(instances) /\ instances[t][i] \in Browsers
      /\ \A x : x \in IdleIn(instances') <=> x \in IdleIn(instances) /\ x # instances[t][i]
      /\ Distinct(instances')
  BY <1>1, <1>2, IdleRemove
<1>4. QED
  BY <1>3, IdleIsIdleIn, IdleIsIdleInPrimed

\* Pushing the browser c holds on the stack of its type.
LEMMA PushEffect ==
    ASSUME Control, ExclusiveLease, NEW c \in Clients, pc[c] = "return",
           instances' = [instances EXCEPT ![want[c]] = Append(@, held[c])]
    PROVE  /\ held[c] \in Browsers /\ held[c] \notin Idle
           /\ Idle' = Idle \cup {held[c]}
           /\ Distinct(instances')
<1>1. /\ want[c] \in Types /\ held[c] \in Browsers
      /\ instances \in [Types -> Seq(Browsers)]
  BY DEF Control, Shape, ClientState
<1>2. held[c] \notin IdleIn(instances) /\ Distinct(instances)
  BY IdleIsIdleIn
<1>3. Pushes(instances, instances', want[c], held[c])
  BY DEF Pushes
<1>4. /\ \A x : x \in IdleIn(instances') <=> x \in IdleIn(instances) \/ x = held[c]
      /\ Distinct(instances')
  BY <1>1, <1>2, <1>3, IdlePush
<1>5. QED
  BY <1>1, <1>2, <1>4, IdleIsIdleIn, IdleIsIdleInPrimed

\* A step that moves no browser and closes or opens no page.
LEMMA OwnershipFrame ==
    ASSUME Ownership, UNCHANGED <<instances, held>>, Unclosed' = Unclosed
    PROVE  Ownership'
BY DEF Ownership, ExclusiveLease, OpenInUse, NothingLost, Idle, Entries

LEMMA OwnershipInit == Init => Ownership
<1> SUFFICES ASSUME Init PROVE Ownership
  OBVIOUS
<1>1. Idle = {}
  BY DEF Init, Idle, Entries, ToSet
<1>2. Unclosed = {}
  BY DEF Init, Unclosed
<1>3. ExclusiveLease
  BY <1>1, PoolAssumption DEF Init, ExclusiveLease
<1>4. QED
  BY <1>1, <1>2, <1>3 DEF Init, Ownership, OpenInUse, NothingLost

LEMMA OwnershipClient ==
    ASSUME Control, Ownership, NEW c \in Clients, ClientStep(c)
    PROVE  Ownership'
<1> USE DEF pool, vars, Goto, Leave, Receive
<1>0. /\ held \in [Clients -> Browsers \cup {None}] /\ None \notin Browsers
      /\ page \in [Browsers -> Page]
      /\ \A d \in Clients : held[d] # None <=> pc[d] \in {"using", "return", "panicked"}
      /\ Distinct(instances) /\ Idle \subseteq Unclosed
      /\ \A d, e \in Clients : held[d] = held[e] /\ held[d] # None => d = e
      /\ \A d \in Clients : held[d] \notin Idle
      /\ \A d \in Clients : held[d] # None => held[d] \in Unclosed
      /\ Unclosed \subseteq Idle \cup {held[d] : d \in Clients}
      /\ None \notin Idle /\ None \notin Unclosed
  BY PoolAssumption, IdleIsIdleIn
     DEF Control, Shape, ClientState, Ownership, OpenInUse, NothingLost, Unclosed
\* What remains to be shown of the state after the step.
<1>00. ASSUME Distinct(instances'),
              \A d, e \in Clients : held'[d] = held'[e] /\ held'[d] # None => d = e,
              \A d \in Clients : held'[d] \notin Idle',
              Idle' \subseteq Unclosed',
              \A d \in Clients : held'[d] # None => held'[d] \in Unclosed',
              Unclosed' \subseteq Idle' \cup {held'[d] : d \in Clients}
       PROVE  Ownership'
  BY <1>00, IdleIsIdleInPrimed DEF Ownership, OpenInUse, NothingLost
<1>01. UNCHANGED instances => Idle' = Idle /\ Distinct(instances')
  BY <1>0, IdleIsIdleIn, IdleIsIdleInPrimed
<1>02. UNCHANGED page => Unclosed' = Unclosed
  BY DEF Unclosed
\* A page that is closed leaves Unclosed, and no other does.
<1>03. \A b \in Browsers : page' = [page EXCEPT ![b] = "closed"] => Unclosed' = Unclosed \ {b}
  BY <1>0 DEF Unclosed
\* Steps that touch neither instances nor held nor page.
<1>1. CASE UNCHANGED <<instances, held, page>>
  BY <1>1, <1>02, OwnershipFrame
<1>2. CASE UNCHANGED <<instances, page>> /\ held[c] = None /\ Leave(c)
  BY <1>0, <1>1, <1>2
<1>3. CASE Reuse(c)
  <2> DEFINE b == Last(instances[want[c]])
  <2>1. /\ b \in Idle /\ b \in Browsers /\ Idle' = Idle \ {b} /\ Distinct(instances')
    BY <1>0, <1>3, PopEffect DEF Reuse
  <2>2. /\ held[c] = None /\ held' = [held EXCEPT ![c] = b]
        /\ Unclosed' = Unclosed /\ b \in Unclosed
    BY <1>0, <1>02, <1>3, <2>1 DEF Reuse, Scanning
  <2>3. \A d \in Clients : held'[d] = IF d = c THEN b ELSE held[d]
    BY <1>0, <2>2
  <2>4. Unclosed' \subseteq Idle' \cup {held'[d] : d \in Clients}
    <3>1. held'[c] \in {held'[d] : d \in Clients}
      OBVIOUS
    <3>2. \A d \in Clients : d # c => held[d] \in {held'[e] : e \in Clients}
      BY <2>3
    <3>3. b \in {held'[d] : d \in Clients}
      BY <2>3, <3>1
    <3>4. QED
      BY <1>0, <2>1, <2>2, <3>2, <3>3
  <2> HIDE DEF b
  <2>5. QED
    BY <1>0, <1>00, <2>1, <2>2, <2>3, <2>4
<1>4. CASE Discard(c)
  <2> DEFINE b == Last(instances[want[c]])
  <2>1. /\ b \in Idle /\ b \in Browsers /\ Idle' = Idle \ {b} /\ Distinct(instances')
    BY <1>0, <1>4, PopEffect DEF Discard
  <2>2. UNCHANGED held /\ Unclosed' = Unclosed \ {b}
    BY <1>03, <1>4, <2>1 DEF Discard
  <2> HIDE DEF b
  <2>3. QED
    BY <1>0, <1>00, <2>1, <2>2
<1>5. ASSUME NEW b \in Browsers, CreateOK(c, b) PROVE Ownership'
  <2>1. /\ Idle' = Idle /\ Distinct(instances') /\ held[c] = None
        /\ held' = [held EXCEPT ![c] = b] /\ b \notin Unclosed
    BY <1>0, <1>01, <1>5 DEF CreateOK, Unclosed
  <2>2. Unclosed' = Unclosed \cup {b}
    BY <1>0, <1>5 DEF CreateOK, Unclosed
  <2>3. \A d \in Clients : held'[d] = IF d = c THEN b ELSE held[d]
    BY <1>0, <2>1
  <2>4. Unclosed' \subseteq Idle' \cup {held'[d] : d \in Clients}
    <3>1. held'[c] \in {held'[d] : d \in Clients}
      OBVIOUS
    <3>2. \A d \in Clients : d # c => held[d] \in {held'[e] : e \in Clients}
      BY <2>3
    <3>3. b \in {held'[d] : d \in Clients}
      BY <2>3, <3>1
    <3>4. QED
      BY <1>0, <2>1, <2>2, <3>2, <3>3
  <2>5. QED
    BY <1>0, <1>00, <2>1, <2>2, <2>3, <2>4
<1>6. ASSUME pc[c] = "using", UNCHANGED instances,
             page' = [page EXCEPT ![held[c]] = "closed"],
             held' = [held EXCEPT ![c] = None]
      PROVE  Ownership'
  <2>1. /\ Idle' = Idle /\ Distinct(instances')
        /\ held[c] \in Browsers /\ held[c] \notin Idle
    BY <1>0, <1>01, <1>6
  <2>2. Unclosed' = Unclosed \ {held[c]}
    BY <1>03, <1>6, <2>1
  <2>3. \A d \in Clients : held'[d] = IF d = c THEN None ELSE held[d]
    BY <1>0, <1>6
  <2>4. Unclosed' \subseteq Idle' \cup {held'[d] : d \in Clients}
    <3>1. held'[c] \in {held'[d] : d \in Clients}
      OBVIOUS
    <3>2. \A d \in Clients : d # c => held[d] \in {held'[e] : e \in Clients}
      BY <2>3
    <3>3. QED
      BY <1>0, <2>1, <2>2, <2>3, <3>1, <3>2
  <2>5. QED
    BY <1>0, <1>00, <2>1, <2>2, <2>3, <2>4
<1>7. CASE Return(c)
  <2>1. /\ held[c] \in Browsers /\ held[c] \notin Idle
        /\ Idle' = Idle \cup {held[c]} /\ Distinct(instances')
    BY <1>7, PushEffect DEF Return, Ownership
  <2>2. Unclosed' = Unclosed /\ held' = [held EXCEPT ![c] = None]
    BY <1>02, <1>7 DEF Return
  <2>3. \A d \in Clients : held'[d] = IF d = c THEN None ELSE held[d]
    BY <1>0, <2>2
  <2>4. Unclosed' \subseteq Idle' \cup {held'[d] : d \in Clients}
    <3>1. held'[c] \in {held'[d] : d \in Clients}
      OBVIOUS
    <3>2. \A d \in Clients : d # c => held[d] \in {held'[e] : e \in Clients}
      BY <2>3
    <3>3. QED
      BY <1>0, <2>1, <2>2, <2>3, <3>1, <3>2
  <2>5. QED
    BY <1>0, <1>00, <2>1, <2>2, <2>3, <2>4
<1>8. CASE ReleaseClosed(c) \/ ReleaseBroken(c)
  BY <1>6, <1>8 DEF ReleaseClosed, ReleaseBroken
<1>9. CASE ProviderNotFound(c) \/ UndoReserve(c) \/ WaitTimeout(c) \/ Retire(c)
  BY <1>0, <1>2, <1>9 DEF ProviderNotFound, UndoReserve, WaitTimeout, Retire
<1>10. CASE \/ \E t \in Types : Acquire(c, t)
            \/ AcquireClosed(c) \/ LockForScan(c) \/ Reserve(c) \/ PoolFull(c)
            \/ CreateFails(c) \/ WaitTick(c) \/ WaitAgain(c) \/ ReleaseHealthy(c)
            \/ ReturnPanics(c) \/ Cancel(c)
  BY <1>1, <1>10
     DEF Acquire, AcquireClosed, LockForScan, Reserve, PoolFull, CreateFails, WaitTick,
         WaitAgain, ReleaseHealthy, ReturnPanics, Cancel
<1>11. QED
  BY <1>3, <1>4, <1>5, <1>7, <1>8, <1>9, <1>10 DEF ClientStep

\* Close calls Close on the idle browsers and on no other; those its providers
\* end were in somebody's hands.
LEMMA DrainEffect ==
    ASSUME Control, Ownership, Drain
    PROVE  /\ Unclosed' = Unclosed \ Idle
           /\ \A b \in Browsers : page'[b] = "gone" => page[b] = "gone" \/ b \in Exposed
<1>1. PICK ended \in SUBSET Exposed : page' = [b \in Browsers |-> PageAfter(ended, b)]
  BY DEF Drain
<1>2. Exposed \subseteq Unclosed
  BY DEF Ownership, OpenInUse, Exposed
<1>3. \A b \in Browsers :
        /\ b \in Idle => page'[b] = "closed"
        /\ b \notin Idle /\ b \in ended => page'[b] = "gone"
        /\ b \notin Idle /\ b \notin ended => page'[b] = page[b]
  BY <1>1 DEF PageAfter
<1>4. Unclosed' = Unclosed \ Idle
  BY <1>1, <1>2, <1>3 DEF Unclosed
<1>5. QED
  BY <1>1, <1>3, <1>4

LEMMA OwnershipStep == Control /\ Ownership /\ [Next]_vars => Ownership'
<1> SUFFICES ASSUME Control, Ownership, [Next]_vars PROVE Ownership'
  OBVIOUS
<1> USE DEF pool, vars
<1>0. /\ Distinct(instances) /\ Idle \subseteq Unclosed /\ Idle \subseteq Browsers
      /\ \A d, e \in Clients : held[d] = held[e] /\ held[d] # None => d = e
      /\ \A d \in Clients : held[d] \notin Idle
      /\ \A d \in Clients : held[d] # None => held[d] \in Unclosed
      /\ Unclosed \subseteq Idle \cup {held[d] : d \in Clients}
      /\ page \in [Browsers -> Page]
  BY IdleIsIdleIn DEF Control, Shape, Ownership, OpenInUse, NothingLost, Unclosed
<1>1. ASSUME NEW c \in Clients, ClientStep(c) PROVE Ownership'
  BY <1>1, OwnershipClient
<1>2. ASSUME UNCHANGED <<instances, held, page>> PROVE Ownership'
  <2>1. Unclosed' = Unclosed
    BY <1>2 DEF Unclosed
  <2>2. QED
    BY <1>2, <2>1, OwnershipFrame
<1>3. ASSUME NEW t \in Types, NEW i \in DOMAIN instances[t], Evict(t, i)
      PROVE  Ownership'
  <2> DEFINE b == instances[t][i]
  <2>1. /\ b \in Idle /\ b \in Browsers /\ Idle' = Idle \ {b} /\ Distinct(instances')
    BY <1>0, <1>3, EvictEffect DEF Evict
  <2>2. UNCHANGED held /\ Unclosed' = Unclosed \ {b}
    BY <1>0, <1>3, <2>1 DEF Evict, Unclosed
  <2> HIDE DEF b
  <2>3. ExclusiveLease'
    BY <1>0, <2>1, <2>2, IdleIsIdleInPrimed
  <2>4. OpenInUse' /\ NothingLost'
    BY <1>0, <2>1, <2>2 DEF OpenInUse, NothingLost
  <2>5. QED
    BY <2>3, <2>4 DEF Ownership
<1>4. CASE Drain
  <2>1. \A t \in Types : instances'[t] = <<>>
    BY <1>4 DEF Drain
  <2>2. Idle' = {}
    BY <2>1 DEF Idle, Entries, ToSet
  <2>3. UNCHANGED held /\ Unclosed' = Unclosed \ Idle
    BY <1>4, DrainEffect DEF Drain
  <2>4. ExclusiveLease'
    BY <1>0, <2>1, <2>2, <2>3 DEF ExclusiveLease
  <2>5. OpenInUse' /\ NothingLost'
    BY <1>0, <2>2, <2>3 DEF OpenInUse, NothingLost
  <2>6. QED
    BY <2>4, <2>5 DEF Ownership
<1>5. ASSUME NEW b \in Browsers, Break(b) PROVE Ownership'
  <2>1. Unclosed' = Unclosed
    BY <1>0, <1>5 DEF Break, Unclosed
  <2>2. QED
    BY <1>5, <2>1, OwnershipFrame DEF Break
<1>6. QED
  BY <1>1, <1>2, <1>3, <1>4, <1>5
     DEF Next, Register, EvictLock, EvictDone, SetClosed, Tick

-----------------------------------------------------------------------------
(* Browsers that end under a client.                                       *)

\* A client that holds a gone browser does nothing with it but Release, which
\* closes it: Return would shelve it, but a drained pool takes nothing back.
LEMMA EndedClient ==
    ASSUME Control, Ownership, EndedByProvider, NEW d \in Clients, ClientStep(d)
    PROVE  EndedByProvider'
<1> USE DEF pool, vars, Goto, Leave, Receive
<1>1. /\ page \in [Browsers -> Page] /\ pc \in [Clients -> PC]
      /\ held \in [Clients -> Browsers \cup {None}] /\ None \notin Browsers
      /\ want \in [Clients -> Types \cup {None}]
      /\ \A e \in Clients : held[e] # None <=> pc[e] \in {"using", "return", "panicked"}
  BY PoolAssumption DEF Control, Shape, ClientState
<1> SUFFICES ASSUME NEW b \in Browsers, page'[b] = "gone"
             PROVE  drained' /\ \E e \in Clients : held'[e] = b /\ want'[e] \in Hosted
  BY DEF EndedByProvider
<1>2. page[b] = "gone" /\ UNCHANGED drained
  BY <1>1 DEF ClientStep, Acquire, AcquireClosed, ProviderNotFound, LockForScan, Reuse,
        Discard, Reserve, PoolFull, CreateOK, CreateFails, UndoReserve, WaitTimeout,
        WaitTick, WaitAgain, ReleaseClosed, ReleaseBroken, Retire, ReleaseHealthy, Return,
        ReturnPanics, Cancel
<1>3. PICK c \in Clients : held[c] = b /\ want[c] \in Hosted
  BY <1>2 DEF EndedByProvider
<1>4. drained /\ pc[c] \in {"using", "return", "panicked"}
  BY <1>1, <1>2, <1>3 DEF EndedByProvider
<1>5. held'[c] = b /\ want'[c] = want[c]
  <2>1. CASE d # c
    BY <1>1, <1>3, <2>1
       DEF ClientStep, Acquire, AcquireClosed, ProviderNotFound, LockForScan, Reuse,
           Discard, Reserve, PoolFull, CreateOK, CreateFails, UndoReserve, WaitTimeout,
           WaitTick, WaitAgain, ReleaseClosed, ReleaseBroken, Retire, ReleaseHealthy,
           Return, ReturnPanics, Cancel
  <2>2. CASE d = c
    <3>1. ReleaseHealthy(c) \/ ReturnPanics(c) \/ ReleaseClosed(c) \/ ReleaseBroken(c)
      BY <1>4, <2>2
         DEF ClientStep, Acquire, AcquireClosed, ProviderNotFound, LockForScan, Reuse,
             Discard, Reserve, PoolFull, CreateOK, CreateFails, UndoReserve, WaitTimeout,
             WaitTick, WaitAgain, Retire, Return, Cancel, Scanning, Acquiring
    <3>2. ~ReleaseClosed(c) /\ ~ReleaseBroken(c)
      BY <1>1, <1>3 DEF ReleaseClosed, ReleaseBroken
    <3>3. QED
      BY <1>3, <3>1, <3>2 DEF ReleaseHealthy, ReturnPanics
  <2>3. QED
    BY <2>1, <2>2
<1>6. QED
  BY <1>2, <1>3, <1>4, <1>5

LEMMA EndedInit == Init => EndedByProvider
BY DEF Init, EndedByProvider

LEMMA EndedStep ==
    Control /\ Ownership /\ EndedByProvider /\ [Next]_vars => EndedByProvider'
<1> SUFFICES ASSUME Control, Ownership, EndedByProvider, [Next]_vars PROVE EndedByProvider'
  OBVIOUS
<1> USE DEF pool, vars
<1>0. page \in [Browsers -> Page]
  BY DEF Control, Shape
<1>1. ASSUME NEW c \in Clients, ClientStep(c) PROVE EndedByProvider'
  BY <1>1, EndedClient
<1>2. ASSUME UNCHANGED <<drained, held, want>>,
             \A b \in Browsers : page'[b] = "gone" => page[b] = "gone"
      PROVE  EndedByProvider'
  BY <1>2 DEF EndedByProvider
<1>3. ASSUME NEW t \in Types, NEW i \in DOMAIN instances[t], Evict(t, i)
      PROVE  EndedByProvider'
  BY <1>0, <1>2, <1>3 DEF Evict
<1>4. CASE Drain
  <2>1. \A b \in Browsers : page'[b] = "gone" => page[b] = "gone" \/ b \in Exposed
    BY <1>4, DrainEffect
  <2>2. drained' /\ UNCHANGED <<held, want>>
    BY <1>4 DEF Drain
  <2>3. QED
    BY <2>1, <2>2 DEF EndedByProvider, Exposed
<1>5. ASSUME NEW b \in Browsers, Break(b) PROVE EndedByProvider'
  BY <1>0, <1>2, <1>5 DEF Break
<1>6. QED
  BY <1>1, <1>2, <1>3, <1>4, <1>5
     DEF Next, Register, EvictLock, EvictDone, SetClosed, Tick

-----------------------------------------------------------------------------
(* Counting: what inUse and total are.                                     *)

Counting == CountersExact /\ SlotsCovered

LeasingPC == {"create", "undo", "using", "return", "retire"}
Slots == Leasing \cup Panicked
Bit(B) == IF B THEN 1 ELSE 0

LEMMA FiniteSets ==
    ASSUME Control
    PROVE  /\ IsFiniteSet(Leasing) /\ Cardinality(Leasing) \in Nat
           /\ IsFiniteSet(Slots) /\ Cardinality(Slots) \in Nat
           /\ IsFiniteSet(Idle) /\ Cardinality(Idle) \in Nat
           /\ IsFiniteSet(Unclosed)
<1>1. Leasing \subseteq Clients /\ Slots \subseteq Clients
  BY DEF Leasing, Panicked, Slots
<1>2. Idle \subseteq Browsers
  BY DEF Control, Shape, Idle, Entries, ToSet
<1>3. Unclosed \subseteq Browsers
  BY DEF Unclosed
<1>4. IsFiniteSet(Clients) /\ IsFiniteSet(Browsers)
  BY PoolAssumption
<1>5. QED
  BY <1>1, <1>2, <1>3, <1>4, FS_Subset, FS_CardinalityType

\* How one client's move from a place to v changes the number of slots.
LEMMA SlotCount ==
    ASSUME Control, NEW c \in Clients, NEW v \in PC, pc' = [pc EXCEPT ![c] = v]
    PROVE  /\ Cardinality(Leasing') =
                 Cardinality(Leasing) + Bit(v \in LeasingPC) - Bit(pc[c] \in LeasingPC)
           /\ Cardinality(Slots') =
                 Cardinality(Slots) + Bit(v \in LeasingPC \cup {"panicked"})
                                    - Bit(pc[c] \in LeasingPC \cup {"panicked"})
<1>1. \A d \in Clients : pc'[d] = IF d = c THEN v ELSE pc[d]
  BY DEF Control, Shape
<1>2. /\ c \in Leasing <=> pc[c] \in LeasingPC
      /\ Leasing' = IF v \in LeasingPC THEN Leasing \cup {c} ELSE Leasing \ {c}
  BY <1>1 DEF Leasing, LeasingPC
<1>3. /\ c \in Slots <=> pc[c] \in LeasingPC \cup {"panicked"}
      /\ Slots' = IF v \in LeasingPC \cup {"panicked"} THEN Slots \cup {c} ELSE Slots \ {c}
  BY <1>1 DEF Slots, Leasing, Panicked, LeasingPC
<1>4. ASSUME NEW S, IsFiniteSet(S), Cardinality(S) \in Nat, NEW x
      PROVE  /\ Cardinality(S \cup {x}) = Cardinality(S) + 1 - Bit(x \in S)
             /\ Cardinality(S \ {x}) = Cardinality(S) + 0 - Bit(x \in S)
  <2>1. Cardinality(S \cup {x}) = IF x \in S THEN Cardinality(S) ELSE Cardinality(S) + 1
    BY <1>4, FS_AddElement
  <2>2. Cardinality(S \ {x}) = IF x \in S THEN Cardinality(S) - 1 ELSE Cardinality(S)
    BY <1>4, FS_RemoveElement
  <2>3. QED
    BY <1>4, <2>1, <2>2 DEF Bit
<1>5. Cardinality(Leasing') =
         Cardinality(Leasing) + Bit(v \in LeasingPC) - Bit(pc[c] \in LeasingPC)
  <2>1. CASE v \in LeasingPC
    BY <1>2, <1>4, <2>1, FiniteSets DEF Bit
  <2>2. CASE v \notin LeasingPC
    BY <1>2, <1>4, <2>2, FiniteSets DEF Bit
  <2>3. QED
    BY <2>1, <2>2
<1>6. Cardinality(Slots') =
         Cardinality(Slots) + Bit(v \in LeasingPC \cup {"panicked"})
                            - Bit(pc[c] \in LeasingPC \cup {"panicked"})
  <2>1. CASE v \in LeasingPC \cup {"panicked"}
    BY <1>3, <1>4, <2>1, FiniteSets DEF Bit
  <2>2. CASE v \notin LeasingPC \cup {"panicked"}
    BY <1>3, <1>4, <2>2, FiniteSets DEF Bit
  <2>3. QED
    BY <2>1, <2>2
<1>7. QED
  BY <1>5, <1>6

\* How one browser's arrival or departure changes the number of idle ones.
LEMMA IdleCount ==
    ASSUME Control
    PROVE  /\ UNCHANGED instances => Cardinality(Idle') = Cardinality(Idle)
           /\ \A b \in Idle : Idle' = Idle \ {b} =>
                 Cardinality(Idle') = Cardinality(Idle) - 1
           /\ \A b : b \notin Idle /\ Idle' = Idle \cup {b} =>
                 Cardinality(Idle') = Cardinality(Idle) + 1
<1>1. UNCHANGED instances => Idle' = Idle
  BY DEF Idle, Entries
<1>2. IsFiniteSet(Idle)
  BY FiniteSets
<1>3. \A b \in Idle : Cardinality(Idle \ {b}) = Cardinality(Idle) - 1
  BY <1>2, FS_RemoveElement
<1>4. \A b : b \notin Idle => Cardinality(Idle \cup {b}) = Cardinality(Idle) + 1
  BY <1>2, FS_AddElement
<1>5. QED
  BY <1>1, <1>3, <1>4

LEMMA CountingInit == Init => Counting
<1> SUFFICES ASSUME Init PROVE Counting
  OBVIOUS
<1>1. Idle = {} /\ Leasing = {} /\ Slots = {}
  BY DEF Init, Idle, Entries, ToSet, Leasing, Panicked, Slots
<1>2. Cardinality({}) = 0
  BY FS_EmptySet
<1>3. Cardinality(Idle) = 0 /\ Cardinality(Leasing) = 0 /\ Cardinality(Slots) = 0
  BY <1>1, <1>2
<1>4. inUse = 0 /\ total = 0 /\ MaxInstances \in Nat
  BY PoolAssumption DEF Init
<1>5. QED
  BY <1>3, <1>4 DEF Counting, CountersExact, SlotsCovered, Slots

\* A step that moves no client into or out of a slot and no browser.
LEMMA CountingFrame ==
    ASSUME Control, Counting, UNCHANGED <<drained, instances, inUse, total>>,
           closed => closed', Leasing' = Leasing, Slots' = Slots
    PROVE  Counting'
BY DEF Counting, CountersExact, SlotsCovered, Slots, Idle, Entries

LEMMA CountingFacts ==
    ASSUME Control, Counting
    PROVE  /\ Cardinality(Leasing) \in Nat /\ Cardinality(Slots) \in Nat
           /\ Cardinality(Idle) \in Nat
           /\ inUse \in Int /\ total \in Int /\ MaxInstances \in Nat
           /\ drained => closed
           /\ inUse >= Cardinality(Leasing)
           /\ ~closed => inUse = Cardinality(Leasing)
           /\ ~drained => total = inUse + Cardinality(Idle)
           /\ total >= Cardinality(Slots) + Cardinality(Idle)
           /\ total <= MaxInstances
BY FiniteSets, PoolAssumption
   DEF Control, Shape, DrainedEmpty, Counting, CountersExact, SlotsCovered, Slots

LEMMA CountingIntro ==
    ASSUME inUse' >= Cardinality(Leasing'),
           ~closed' => inUse' = Cardinality(Leasing'),
           ~drained' => total' = inUse' + Cardinality(Idle'),
           total' >= Cardinality(Slots') + Cardinality(Idle'),
           total' <= MaxInstances
    PROVE  Counting'
BY DEF Counting, CountersExact, SlotsCovered, Slots

LEMMA CountingClient ==
    ASSUME Control, Ownership, Counting, NEW c \in Clients, ClientStep(c)
    PROVE  Counting'
<1> USE DEF pool, vars, Goto, Leave, Receive
<1> DEFINE l == Cardinality(Leasing)
           s == Cardinality(Slots)
           k == Cardinality(Idle)
           sp == LeasingPC \cup {"panicked"}
<1>0. /\ l \in Nat /\ s \in Nat /\ k \in Nat /\ inUse \in Int /\ total \in Int
      /\ MaxInstances \in Nat /\ (drained => closed)
      /\ inUse >= l /\ (~closed => inUse = l)
      /\ (~drained => total = inUse + k) /\ total >= s + k /\ total <= MaxInstances
  BY CountingFacts
<1>00. ASSUME inUse' >= l', ~closed' => inUse' = l', ~drained' => total' = inUse' + k',
              total' >= s' + k', total' <= MaxInstances
       PROVE  Counting'
  BY <1>00, CountingIntro
\* The effect on l and s of c's move to v.
<1>01. ASSUME NEW v \in PC, pc' = [pc EXCEPT ![c] = v]
       PROVE  /\ l' = l + Bit(v \in LeasingPC) - Bit(pc[c] \in LeasingPC)
              /\ s' = s + Bit(v \in sp) - Bit(pc[c] \in sp)
  BY <1>01, SlotCount
<1>02. /\ UNCHANGED instances => k' = k
       /\ \A b \in Idle : Idle' = Idle \ {b} => k' = k - 1
       /\ \A b : b \notin Idle /\ Idle' = Idle \cup {b} => k' = k + 1
  BY IdleCount
<1>03. Distinct(instances) /\ ExclusiveLease
  BY IdleIsIdleIn DEF Ownership
<1> HIDE DEF l, s, k
<1>1. ASSUME UNCHANGED <<closed, drained, instances, inUse, total>>,
             NEW v \in PC, pc' = [pc EXCEPT ![c] = v],
             v \in LeasingPC <=> pc[c] \in LeasingPC,
             v \in sp <=> pc[c] \in sp
      PROVE  Counting'
  <2>1. /\ l' = l + Bit(v \in LeasingPC) - Bit(pc[c] \in LeasingPC)
        /\ s' = s + Bit(v \in sp) - Bit(pc[c] \in sp)
    BY <1>01, <1>1
  <2>2. /\ Bit(v \in LeasingPC) = Bit(pc[c] \in LeasingPC)
        /\ Bit(v \in sp) = Bit(pc[c] \in sp)
        /\ Bit(v \in LeasingPC) \in Int /\ Bit(v \in sp) \in Int
    BY <1>1 DEF Bit
  <2>3. l' = l /\ s' = s
    BY <1>0, <2>1, <2>2
  <2>4. k' = k
    BY <1>02, <1>1
  <2>5. QED
    BY <1>0, <1>00, <1>1, <2>3, <2>4
<1>2. CASE UNCHANGED <<closed, drained, instances, inUse, total, pc>>
  <2>1. l' = l /\ s' = s /\ k' = k
    BY <1>2 DEF l, s, k, Leasing, Slots, Panicked, Idle, Entries
  <2>2. QED
    BY <1>0, <1>00, <1>2, <2>1
<1>3. CASE Reuse(c)
  <2>1. k' = k - 1
    BY <1>02, <1>03, <1>3, PopEffect DEF Reuse
  <2>2. l' = l + 1 /\ s' = s + 1
    BY <1>0, <1>01, <1>3 DEF Reuse, Scanning, PC, LeasingPC, Bit
  <2>3. QED
    BY <1>0, <1>00, <1>3, <2>1, <2>2 DEF Reuse
<1>4. CASE Discard(c)
  <2>1. k' = k - 1
    BY <1>02, <1>03, <1>4, PopEffect DEF Discard
  <2>2. l' = l /\ s' = s
    BY <1>4 DEF Discard, l, s, Leasing, Slots, Panicked
  <2>3. QED
    BY <1>0, <1>00, <1>4, <2>1, <2>2 DEF Discard
<1>5. CASE Reserve(c)
  <2>1. k' = k
    BY <1>02, <1>5 DEF Reserve
  <2>2. l' = l + 1 /\ s' = s + 1
    BY <1>0, <1>01, <1>5 DEF Reserve, PC, LeasingPC, Bit
  <2>3. total < MaxInstances
    BY <1>5 DEF Reserve
  <2>4. QED
    BY <1>0, <1>00, <1>5, <2>1, <2>2, <2>3 DEF Reserve
<1>6. CASE UndoReserve(c) \/ Retire(c)
  <2>1. k' = k
    BY <1>02, <1>6 DEF UndoReserve, Retire
  <2>2. l' = l - 1 /\ s' = s - 1
    BY <1>0, <1>01, <1>6 DEF UndoReserve, Retire, PC, LeasingPC, Bit
  <2>3. QED
    BY <1>0, <1>00, <1>6, <2>1, <2>2 DEF UndoReserve, Retire
<1>7. CASE ReleaseClosed(c)
  <2>1. k' = k
    BY <1>02, <1>7 DEF ReleaseClosed
  <2>2. l' = l - 1 /\ s' = s - 1
    BY <1>0, <1>01, <1>7 DEF ReleaseClosed, PC, LeasingPC, Bit
  <2>3. QED
    BY <1>0, <1>00, <1>7, <2>1, <2>2 DEF ReleaseClosed
<1>8. CASE Return(c)
  <2>1. k' = k + 1
    BY <1>02, <1>03, <1>8, PushEffect DEF Return
  <2>2. l' = l - 1 /\ s' = s - 1
    BY <1>0, <1>01, <1>8 DEF Return, PC, LeasingPC, Bit
  <2>3. QED
    BY <1>0, <1>00, <1>8, <2>1, <2>2 DEF Return
<1>9. CASE ReturnPanics(c)
  <2>1. k' = k
    BY <1>02, <1>9 DEF ReturnPanics
  <2>2. l' = l - 1 /\ s' = s
    BY <1>0, <1>01, <1>9 DEF ReturnPanics, PC, LeasingPC, Bit
  <2>3. QED
    BY <1>0, <1>00, <1>9, <2>1, <2>2 DEF ReturnPanics
<1>10. CASE (\E t \in Types : Acquire(c, t)) \/ ProviderNotFound(c) \/ WaitTimeout(c)
  BY <1>1, <1>10 DEF Acquire, ProviderNotFound, WaitTimeout, PC, LeasingPC
<1>11. CASE LockForScan(c) \/ PoolFull(c) \/ WaitTick(c) \/ WaitAgain(c)
  BY <1>1, <1>11 DEF LockForScan, PoolFull, WaitTick, WaitAgain, PC, LeasingPC
<1>12. CASE (\E b \in Browsers : CreateOK(c, b)) \/ CreateFails(c)
  BY <1>1, <1>12 DEF CreateOK, CreateFails, PC, LeasingPC
<1>13. CASE ReleaseBroken(c) \/ ReleaseHealthy(c)
  BY <1>1, <1>13 DEF ReleaseBroken, ReleaseHealthy, PC, LeasingPC
<1>14. CASE AcquireClosed(c) \/ Cancel(c)
  BY <1>2, <1>14 DEF AcquireClosed, Cancel
<1>15. QED
  BY <1>3, <1>4, <1>5, <1>6, <1>7, <1>8, <1>9, <1>10, <1>11, <1>12, <1>13, <1>14
     DEF ClientStep

LEMMA CountingStep == Control /\ Ownership /\ Counting /\ [Next]_vars => Counting'
<1> SUFFICES ASSUME Control, Ownership, Counting, [Next]_vars PROVE Counting'
  OBVIOUS
<1> USE DEF pool, vars
<1>1. ASSUME NEW c \in Clients, ClientStep(c) PROVE Counting'
  BY <1>1, CountingClient
<1>2. ASSUME UNCHANGED <<drained, instances, inUse, total, pc>>, closed => closed'
      PROVE  Counting'
  <2>1. Leasing' = Leasing /\ Slots' = Slots
    BY <1>2 DEF Leasing, Slots, Panicked
  <2>2. QED
    BY <1>2, <2>1, CountingFrame
<1>3. ASSUME NEW t \in Types, NEW i \in DOMAIN instances[t], Evict(t, i)
      PROVE  Counting'
  <2>1. Cardinality(Idle') = Cardinality(Idle) - 1
    BY <1>3, EvictEffect, IdleCount, IdleIsIdleIn DEF Evict, Ownership
  <2>2. Leasing' = Leasing /\ Slots' = Slots
    BY <1>3 DEF Evict, Leasing, Slots, Panicked
  <2>3. total' = total - 1 /\ UNCHANGED <<closed, drained, inUse>>
    BY <1>3 DEF Evict
  <2>4. QED
    BY <2>1, <2>2, <2>3, CountingFacts, CountingIntro
<1>4. CASE Drain
  <2>1. \A t \in Types : instances'[t] = <<>>
    BY <1>4 DEF Drain
  <2>2. Idle' = {}
    BY <2>1 DEF Idle, Entries, ToSet
  <2>3. Cardinality(Idle') = 0
    BY <2>2, FS_EmptySet
  <2>4. Leasing' = Leasing /\ Slots' = Slots
    BY <1>4 DEF Drain, Leasing, Slots, Panicked
  <2>5. drained' /\ closed' /\ UNCHANGED <<inUse, total>>
    BY <1>4 DEF Drain
  <2>6. QED
    BY <2>3, <2>4, <2>5, CountingFacts, CountingIntro
<1>5. QED
  BY <1>1, <1>2, <1>3, <1>4
     DEF Next, Register, EvictLock, EvictDone, SetClosed, Break, Tick

-----------------------------------------------------------------------------
(* The theorems.                                                           *)

\* A counter that covers a finite set is a natural number: TypeOK.
LEMMA ShapeIsTypeOK == Control /\ Counting => TypeOK
<1> SUFFICES ASSUME Control, Counting PROVE TypeOK
  OBVIOUS
<1>1. inUse \in Nat /\ total \in Nat
  BY FiniteSets DEF Control, Shape, Counting, SlotsCovered, Slots
<1>2. QED
  BY <1>1 DEF Control, Shape, TypeOK

LEMMA IInvParts == IInv <=> Control /\ Ownership /\ EndedByProvider /\ Counting
<1>1. TypeOK => Shape
  BY DEF TypeOK, Shape
<1>2. QED
  BY <1>1, ShapeIsTypeOK DEF IInv, Control, Ownership, NoUseAfterClose, Counting

\* Every reachable state of the pool satisfies the inductive invariant.
THEOREM PoolInvariant == Spec => []IInv
<1> DEFINE Inv == Control /\ Ownership /\ EndedByProvider /\ Counting
<1>1. Init => Inv
  BY ControlInit, OwnershipInit, EndedInit, CountingInit
<1>2. Inv /\ [Next]_vars => Inv'
  BY ControlStep, OwnershipStep, EndedStep, CountingStep
<1>3. Inv => IInv
  BY IInvParts
<1>4. QED
  BY <1>1, <1>2, <1>3, PTL DEF Spec

\* Every variable keeps its type; the counters never become negative.
THEOREM PoolTypeOK == Spec => []TypeOK
<1>1. IInv => TypeOK
  BY DEF IInv
<1>2. QED
  BY <1>1, PoolInvariant, PTL

\* Every browser alive is idle or held, each holder occupies a slot, and
\* total covers slots and idle browsers: so total bounds the browsers alive.
LEMMA CapacityFromIInv == IInv => CapacityRespected
<1> SUFFICES ASSUME IInv PROVE CapacityRespected
  OBVIOUS
<1> DEFINE Holders == {c \in Clients : held[c] # None}
           Hands == {held[c] : c \in Holders}
<1>1. Control /\ Ownership /\ Counting
  BY IInvParts
<1>2. Holders \subseteq Slots
  BY <1>1 DEF Control, ClientState, Slots, Leasing, Panicked
<1>3. IsFiniteSet(Holders) /\ Cardinality(Holders) <= Cardinality(Slots)
  BY <1>1, <1>2, FiniteSets, FS_Subset
<1>4. IsFiniteSet(Hands) /\ Cardinality(Hands) <= Cardinality(Holders)
  <2> DEFINE f == [c \in Holders |-> held[c]]
  <2>1. f \in Surjection(Holders, Hands)
    BY DEF Surjection
  <2>2. QED
    BY <1>3, <2>1, FS_Surjection
<1>5. Unclosed \subseteq Idle \cup Hands
  <2>1. None \notin Unclosed
    BY PoolAssumption DEF Unclosed
  <2>2. QED
    BY <1>1, <2>1 DEF Ownership, NothingLost
<1>6. /\ IsFiniteSet(Idle \cup Hands)
      /\ Cardinality(Idle \cup Hands) <= Cardinality(Idle) + Cardinality(Hands)
  <2>1. IsFiniteSet(Idle) /\ Cardinality(Idle) \in Nat /\ Cardinality(Hands) \in Nat
    BY <1>1, <1>4, FiniteSets, FS_CardinalityType
  <2>2. /\ IsFiniteSet(Idle \cup Hands)
        /\ Cardinality(Idle \cup Hands) =
             Cardinality(Idle) + Cardinality(Hands) - Cardinality(Idle \cap Hands)
    BY <1>4, <2>1, FS_Union
  <2>3. Cardinality(Idle \cap Hands) \in Nat
    BY <2>1, FS_Intersection, FS_CardinalityType
  <2>4. QED
    BY <2>1, <2>2, <2>3
<1>7. Cardinality(Unclosed) <= Cardinality(Idle \cup Hands)
  BY <1>5, <1>6, FS_Subset
<1>8. /\ Cardinality(Unclosed) \in Nat /\ Cardinality(Idle \cup Hands) \in Nat
      /\ Cardinality(Hands) \in Nat /\ Cardinality(Holders) \in Nat
  BY <1>1, <1>3, <1>4, <1>6, FiniteSets, FS_CardinalityType
<1> HIDE DEF Holders, Hands
<1>9. QED
  BY <1>1, <1>3, <1>4, <1>6, <1>7, <1>8, CountingFacts DEF CapacityRespected

\* There are never more browsers alive than MaxInstances (pool.go:109-128).
THEOREM PoolCapacityRespected == Spec => []CapacityRespected
BY PoolInvariant, CapacityFromIInv, PTL

\* The mutex is held by exactly the client that scans (pool.go:67-169).
THEOREM PoolMutexDiscipline == Spec => []MutexDiscipline
<1>1. IInv => MutexDiscipline
  BY DEF IInv
<1>2. QED
  BY <1>1, PoolInvariant, PTL

\* The counters Stats reports are exact while the pool is open.
THEOREM PoolCountersExact == Spec => []CountersExact
<1>1. IInv => CountersExact
  BY DEF IInv
<1>2. QED
  BY <1>1, PoolInvariant, PTL

\* No browser has two users, and none is idle while it is used.
THEOREM PoolExclusiveLease == Spec => []ExclusiveLease
<1>1. IInv => ExclusiveLease
  BY DEF IInv
<1>2. QED
  BY <1>1, PoolInvariant, PTL

\* Nobody is left with a browser that the health loop, another client or Close
\* has closed, but for those whose provider Close has closed.
THEOREM PoolNoUseAfterClose == Spec => []NoUseAfterClose
<1>1. IInv => NoUseAfterClose
  BY DEF IInv
<1>2. QED
  BY <1>1, PoolInvariant, PTL

\* No browser is dropped without being closed.
THEOREM PoolNothingLost == Spec => []NothingLost
<1>1. IInv => NothingLost
  BY DEF IInv
<1>2. QED
  BY <1>1, PoolInvariant, PTL

-----------------------------------------------------------------------------
(* Order: the stacks are sorted by age.                                    *)

\* A browser that comes back to the stack has just been used.
Fresh == \A b \in Browsers : b \notin Idle => age[b] = 0
Order == OldestAtBottom /\ Fresh

\* Removing the i-th entry of type t's stack and resetting its age.
LEMMA OrderRemove ==
    ASSUME Control, Ownership, Order, NEW t \in Types, NEW i \in DOMAIN instances[t],
           instances' = [instances EXCEPT ![t] = Without(@, i)],
           age' = [age EXCEPT ![instances[t][i]] = 0]
    PROVE  Order'
<1> DEFINE b == instances[t][i]
<1>1. /\ instances \in [Types -> Seq(Browsers)] /\ age \in [Browsers -> Ages]
      /\ i \in 1 .. Len(instances[t])
  BY DEF Control, Shape
<1>2. /\ b \in Browsers /\ Idle' = Idle \ {b} /\ Distinct(instances)
  BY IdleIsIdleIn, EvictEffect DEF Ownership
<1>3. /\ Len(instances'[t]) = Len(instances[t]) - 1
      /\ \A k \in 1 .. Len(instances[t]) - 1 :
            instances'[t][k] = IF k < i THEN instances[t][k] ELSE instances[t][k + 1]
      /\ instances'[t] \in Seq(Browsers)
  BY <1>1, WithoutSeq
<1>4. \A x \in Browsers : age'[x] = IF x = b THEN 0 ELSE age[x]
  BY <1>1
<1>5. Fresh'
  BY <1>2, <1>4 DEF Order, Fresh
<1>6. OldestAtBottom'
  <2> SUFFICES ASSUME NEW u \in Types, NEW k \in DOMAIN instances'[u],
                      NEW m \in DOMAIN instances'[u], k < m
               PROVE  age'[instances'[u][k]] >= age'[instances'[u][m]]
    BY DEF OldestAtBottom
  <2>1. CASE u # t
    <3>1. instances'[u] = instances[u] /\ instances[u] \in Seq(Browsers)
      BY <1>1, <2>1
    <3>2. instances[u][k] \in Browsers /\ instances[u][m] \in Browsers
      BY <3>1
    <3>3. instances[u][k] # b /\ instances[u][m] # b
      BY <1>1, <1>2, <2>1, <3>1 DEF Distinct
    <3>4. age[instances[u][k]] >= age[instances[u][m]]
      BY <3>1 DEF Order, OldestAtBottom
    <3>5. QED
      BY <1>4, <3>1, <3>2, <3>3, <3>4
  <2>2. CASE u = t
    <3> DEFINE Old(n) == IF n < i THEN n ELSE n + 1
    <3>1. /\ Len(instances[t]) \in Nat
          /\ k \in 1 .. Len(instances[t]) - 1 /\ m \in 1 .. Len(instances[t]) - 1
      BY <1>1, <1>3, <2>2
    <3>2. /\ Old(k) \in 1 .. Len(instances[t]) /\ Old(m) \in 1 .. Len(instances[t])
          /\ Old(k) < Old(m) /\ Old(k) # i /\ Old(m) # i
      BY <1>1, <3>1
    <3>3. instances'[t][k] = instances[t][Old(k)] /\ instances'[t][m] = instances[t][Old(m)]
      BY <1>3, <3>1
    <3>4. instances[t][Old(k)] # b /\ instances[t][Old(m)] # b
      BY <1>1, <1>2, <3>2 DEF Distinct
    <3>5. instances[t][Old(k)] \in Browsers /\ instances[t][Old(m)] \in Browsers
      BY <1>1, <3>2
    <3>6. age[instances[t][Old(k)]] >= age[instances[t][Old(m)]]
      BY <1>1, <3>2 DEF Order, OldestAtBottom
    <3>7. QED
      BY <1>4, <2>2, <3>3, <3>4, <3>5, <3>6
  <2>3. QED
    BY <2>1, <2>2
<1>7. QED
  BY <1>5, <1>6 DEF Order

\* Pushing the browser of a client that returns it, whose age is 0.
LEMMA OrderPush ==
    ASSUME Control, Ownership, Order, NEW c \in Clients, Return(c)
    PROVE  Order'
<1> DEFINE t == want[c]  b == held[c]
<1>1. /\ instances \in [Types -> Seq(Browsers)] /\ age \in [Browsers -> Ages]
      /\ age' = age /\ t \in Types
  BY DEF Control, Shape, ClientState, Return
<1>2. b \in Browsers /\ b \notin Idle /\ Idle' = Idle \cup {b}
  BY PushEffect DEF Return, Ownership
<1>3. instances' = [instances EXCEPT ![t] = Append(@, b)]
  BY DEF Return
<1>4. age[b] = 0 /\ \A x \in Browsers : age[x] >= 0
  BY <1>1, <1>2, PoolAssumption DEF Order, Fresh, Ages
<1>5. Fresh'
  BY <1>1, <1>2 DEF Order, Fresh
<1>6. OldestAtBottom'
  <2> SUFFICES ASSUME NEW u \in Types, NEW k \in DOMAIN instances'[u],
                      NEW m \in DOMAIN instances'[u], k < m
               PROVE  age'[instances'[u][k]] >= age'[instances'[u][m]]
    BY DEF OldestAtBottom
  <2> HIDE DEF t, b
  <2>1. CASE u # t
    <3>1. instances'[u] = instances[u]
      BY <1>1, <1>3, <2>1
    <3>2. QED
      BY <1>1, <3>1 DEF Order, OldestAtBottom
  <2>2. CASE u = t
    <3>1. /\ Len(instances[t]) \in Nat
          /\ k \in 1 .. Len(instances[t]) /\ m \in 1 .. Len(instances[t]) + 1
          /\ instances'[t] = Append(instances[t], b)
      BY <1>1, <1>3, <2>2
    <3>2. instances'[t][k] = instances[t][k] /\ instances[t][k] \in Browsers
      BY <1>1, <3>1
    <3>3. CASE m = Len(instances[t]) + 1
      BY <1>1, <1>4, <2>2, <3>1, <3>2, <3>3
    <3>4. CASE m \in 1 .. Len(instances[t])
      <4>1. instances'[t][m] = instances[t][m]
        BY <1>1, <3>1, <3>4
      <4>2. age[instances[t][k]] >= age[instances[t][m]]
        BY <1>1, <3>1, <3>4 DEF Order, OldestAtBottom
      <4>3. QED
        BY <1>1, <2>2, <3>2, <4>1, <4>2
    <3>5. QED
      BY <3>1, <3>3, <3>4
  <2>3. QED
    BY <2>1, <2>2
<1>7. QED
  BY <1>5, <1>6 DEF Order

\* Time passes for all idle browsers alike, and saturates.
LEMMA OrderTick ==
    ASSUME Control, Order, Tick
    PROVE  Order'
<1>1. /\ instances \in [Types -> Seq(Browsers)] /\ age \in [Browsers -> Ages]
      /\ instances' = instances /\ IdleTimeout \in Nat
  BY PoolAssumption DEF Control, Shape, Tick
<1>2. Idle' = Idle
  BY <1>1 DEF Idle, Entries
<1>3. \A x \in Browsers : age'[x] = IF x \in Idle /\ age[x] <= IdleTimeout THEN age[x] + 1
                                    ELSE age[x]
  BY <1>1 DEF Tick, Expired, Ages
<1>4. Fresh'
  BY <1>2, <1>3 DEF Order, Fresh
<1>5. OldestAtBottom'
  <2> SUFFICES ASSUME NEW u \in Types, NEW k \in DOMAIN instances[u],
                      NEW m \in DOMAIN instances[u], k < m
               PROVE  age'[instances[u][k]] >= age'[instances[u][m]]
    BY <1>1 DEF OldestAtBottom
  <2> DEFINE x == instances[u][k]  y == instances[u][m]
  <2>1. x \in Browsers /\ y \in Browsers /\ x \in Idle /\ y \in Idle
    BY <1>1 DEF Idle, Entries, ToSet
  <2>2. age[x] >= age[y]
    BY DEF Order, OldestAtBottom
  <2>3. age[x] \in 0 .. IdleTimeout + 1 /\ age[y] \in 0 .. IdleTimeout + 1
    BY <1>1, <2>1 DEF Ages
  <2> HIDE DEF x, y
  <2>4. age'[x] >= age'[y]
    BY <1>1, <1>3, <2>1, <2>2, <2>3
  <2>5. QED
    BY <2>4 DEF x, y
<1>6. QED
  BY <1>4, <1>5 DEF Order

LEMMA OrderInit == Init => Order
<1> SUFFICES ASSUME Init PROVE Order
  OBVIOUS
<1>1. OldestAtBottom
  BY DEF Init, OldestAtBottom
<1>2. Fresh
  BY DEF Init, Fresh
<1>3. QED
  BY <1>1, <1>2 DEF Order

LEMMA OrderStep == Control /\ Ownership /\ Order /\ [Next]_vars => Order'
<1> SUFFICES ASSUME Control, Ownership, Order, [Next]_vars PROVE Order'
  OBVIOUS
<1> USE DEF pool, vars
<1>1. ASSUME UNCHANGED <<instances, age>> PROVE Order'
  BY <1>1 DEF Order, OldestAtBottom, Fresh, Idle, Entries
\* Popping is removing the last entry.
<1>2. ASSUME NEW c \in Clients, Reuse(c) \/ Discard(c) PROVE Order'
  <2> DEFINE t == want[c]  n == Len(instances[t])
  <2>1. t \in Types /\ instances \in [Types -> Seq(Browsers)]
    BY <1>2 DEF Control, Shape, ClientState, Reuse, Discard, Scanning
  <2>2. /\ n \in 1 .. n /\ Last(instances[t]) = instances[t][n]
        /\ Front(instances[t]) = Without(instances[t], n)
    BY <1>2, <2>1, FrontIsWithout DEF Reuse, Discard
  <2>3. /\ n \in DOMAIN instances[t]
        /\ instances' = [instances EXCEPT ![t] = Without(@, n)]
        /\ age' = [age EXCEPT ![instances[t][n]] = 0]
    BY <1>2, <2>1, <2>2 DEF Reuse, Discard
  <2> HIDE DEF t, n
  <2>4. QED
    BY <2>1, <2>3, OrderRemove
<1>3. ASSUME NEW c \in Clients, Return(c) PROVE Order'
  BY <1>3, OrderPush
<1>4. ASSUME NEW c \in Clients, ClientStep(c) PROVE Order'
  BY <1>1, <1>2, <1>3, <1>4
     DEF ClientStep, Acquire, AcquireClosed, ProviderNotFound, LockForScan, Reserve,
         PoolFull, CreateOK, CreateFails, UndoReserve, WaitTimeout, WaitTick, WaitAgain,
         ReleaseClosed, ReleaseBroken, Retire, ReleaseHealthy, ReturnPanics, Cancel
<1>5. ASSUME NEW t \in Types, NEW i \in DOMAIN instances[t], Evict(t, i) PROVE Order'
  BY <1>5, OrderRemove DEF Evict
<1>6. CASE Drain
  <2>1. \A t \in Types : instances'[t] = <<>>
    BY <1>6 DEF Drain
  <2>2. \A b \in Browsers : age'[b] = 0
    BY <1>6 DEF Drain
  <2>3. QED
    BY <2>1, <2>2 DEF Order, OldestAtBottom, Fresh
<1>7. CASE Tick
  BY <1>7, OrderTick
<1>8. QED
  BY <1>1, <1>4, <1>5, <1>6, <1>7
     DEF Next, Register, EvictLock, EvictDone, SetClosed, Break

\* The stacks stay in order of last use (pool.go:103, 196, 379).
THEOREM PoolOldestAtBottom == Spec => []OldestAtBottom
<1>1. Init => Control /\ Ownership /\ Counting /\ Order
  BY ControlInit, OwnershipInit, CountingInit, OrderInit
<1>2. Control /\ Ownership /\ Counting /\ Order /\ [Next]_vars
        => (Control /\ Ownership /\ Counting /\ Order)'
  BY ControlStep, OwnershipStep, CountingStep, OrderStep
<1>3. Order => OldestAtBottom
  BY DEF Order
<1>4. QED
  BY <1>1, <1>2, <1>3, PTL DEF Spec

\* The counters cover what is taken, also after Close and after a panic.
THEOREM PoolSlotsCovered == Spec => []SlotsCovered
<1>1. IInv => SlotsCovered
  BY DEF IInv
<1>2. QED
  BY <1>1, PoolInvariant, PTL

-----------------------------------------------------------------------------
(* Refinement: the pool implements BrowserLease.                           *)

\* Who holds b, under the refinement mapping.
Mapped ==
    \A b \in Browsers :
        /\ page[b] = "closed" => HolderOf(b) = None
        /\ b \in Idle => HolderOf(b) = HealthLoop
        /\ \A c \in Clients : held[c] = b => HolderOf(b) = c

LEMMA MappedFromIInv == IInv => Mapped
<1> SUFFICES ASSUME IInv, NEW b \in Browsers
             PROVE  /\ page[b] = "closed" => HolderOf(b) = None
                    /\ b \in Idle => HolderOf(b) = HealthLoop
                    /\ \A c \in Clients : held[c] = b => HolderOf(b) = c
  BY DEF Mapped
<1>1. /\ \A c, d \in Clients : held[c] = held[d] /\ held[c] # None => c = d
      /\ \A c \in Clients : held[c] \notin Idle
      /\ Idle \subseteq Unclosed
      /\ \A c \in Clients : held[c] # None => held[c] \in Unclosed
  BY DEF IInv, ExclusiveLease, NoUseAfterClose, OpenInUse
<1>2. b # None
  BY PoolAssumption
<1>3. page[b] = "closed" => HolderOf(b) = None
  BY DEF HolderOf
<1>4. b \in Idle => HolderOf(b) = HealthLoop
  BY <1>1 DEF HolderOf, Unclosed
<1>5. ASSUME NEW c \in Clients, held[c] = b PROVE HolderOf(b) = c
  <2>1. page[b] # "closed"
    BY <1>1, <1>2, <1>5 DEF Unclosed
  <2>2. \A d \in Clients : held[d] = b <=> d = c
    BY <1>1, <1>2, <1>5
  <2>3. (CHOOSE d \in Clients : held[d] = b) = c
    BY <2>2
  <2>4. QED
    BY <1>5, <2>1, <2>3 DEF HolderOf
<1>6. QED
  BY <1>3, <1>4, <1>5

\* Where a browser is decides who holds it.
LEMMA Whereabouts ==
    IInv => \A b \in Browsers : \/ page[b] = "closed"
                                \/ b \in Idle
                                \/ \E c \in Clients : held[c] = b
BY DEF IInv, NothingLost, Unclosed

LEMMA PresentIsUnclosed ==
    IInv => Lease!Present = Unclosed
<1> SUFFICES ASSUME IInv PROVE Lease!Present = Unclosed
  OBVIOUS
<1>1. \A b \in Browsers : HolderOf(b) = None <=> page[b] = "closed"
  BY MappedFromIInv, Whereabouts, PoolAssumption DEF Mapped
<1>2. QED
  BY <1>1 DEF Lease!Present, Unclosed

LEMMA LeaseInit == Init => Lease!Init
BY DEF Init, Lease!Init, HolderOf

\* The mapped step: nothing moves, or one browser changes hands.
LEMMA LeaseFrame ==
    ASSUME UNCHANGED <<instances, held, drained>>,
           \A b \in Browsers : page'[b] = "closed" <=> page[b] = "closed"
    PROVE  UNCHANGED Lease!vars
<1>1. \A b \in Browsers : HolderOf(b)' = HolderOf(b)
  BY DEF HolderOf
<1>2. QED
  BY <1>1 DEF Lease!vars

\* If only b's whereabouts change, the mapped holder changes at b only.
LEMMA LeaseMove ==
    ASSUME IInv, Mapped, Mapped', NEW b \in Browsers, NEW h, HolderOf(b)' = h,
           \A x \in Browsers : x # b =>
              /\ page'[x] = "closed" <=> page[x] = "closed"
              /\ x \in Idle' <=> x \in Idle
              /\ \A c \in Clients : held'[c] = x <=> held[c] = x
    PROVE  [x \in Browsers |-> HolderOf(x)]' =
             [[x \in Browsers |-> HolderOf(x)] EXCEPT ![b] = h]
<1>1. ASSUME NEW x \in Browsers, x # b PROVE HolderOf(x)' = HolderOf(x)
  <2>1. CASE page[x] = "closed"
    BY <1>1, <2>1 DEF HolderOf
  <2>2. CASE x \in Idle
    BY <1>1, <2>2 DEF Mapped
  <2>3. ASSUME NEW c \in Clients, held[c] = x PROVE HolderOf(x)' = HolderOf(x)
    BY <1>1, <2>3 DEF Mapped
  <2>4. QED
    BY <2>1, <2>2, <2>3, Whereabouts
<1>2. QED
  BY <1>1

LEMMA LeaseClient ==
    ASSUME IInv, IInv', Mapped, Mapped', CapacityRespected', NEW c \in Clients, ClientStep(c)
    PROVE  [Lease!Next]_(Lease!vars)
<1> USE DEF pool, vars, Goto, Leave, Receive
<1> DEFINE H == [x \in Browsers |-> HolderOf(x)]
<1>0. /\ Control /\ Ownership /\ Counting /\ Distinct(instances)
      /\ held \in [Clients -> Browsers \cup {None}] /\ None \notin Browsers
      /\ page \in [Browsers -> Page]
      /\ held[c] # None <=> pc[c] \in {"using", "return", "panicked"}
      /\ drained => closed
      /\ \A d \in Clients : held[d] = held[c] /\ held[c] # None => d = c
      /\ Idle \subseteq Unclosed
  BY IInvParts, IdleIsIdleIn, PoolAssumption
     DEF Control, Shape, ClientState, DrainedEmpty, Ownership, ExclusiveLease, OpenInUse
<1>1. ASSUME UNCHANGED <<instances, held, drained, page>> PROVE UNCHANGED Lease!vars
  BY <1>1, LeaseFrame
<1>2. ASSUME UNCHANGED <<instances, drained, page>>, held[c] = None, Leave(c)
      PROVE  UNCHANGED Lease!vars
  <2>1. UNCHANGED held
    BY <1>0, <1>2
  <2>2. QED
    BY <1>1, <1>2, <2>1
\* A browser leaves the stack for c: Lease.
<1>3. CASE Reuse(c)
  <2>0. PICK b \in Browsers : b = Last(instances[want[c]])
    BY <1>0, <1>3, PopEffect DEF Reuse
  <2>1. /\ b \in Idle /\ b \in Browsers /\ Idle' = Idle \ {b}
    BY <1>0, <1>3, <2>0, PopEffect DEF Reuse
  <2>2. held[c] = None /\ held' = [held EXCEPT ![c] = b] /\ UNCHANGED <<page, drained>>
    BY <1>0, <1>3, <2>0 DEF Reuse, Scanning
  <2>3. held'[c] = b /\ \A d \in Clients : d # c => held'[d] = held[d]
    BY <1>0, <2>2
  <2>4. HolderOf(b) = HealthLoop /\ HolderOf(b)' = c
    BY <2>1, <2>3 DEF Mapped
  <2>5. H' = [H EXCEPT ![b] = c]
    <3>1. \A x \in Browsers : x # b =>
             /\ page'[x] = "closed" <=> page[x] = "closed"
             /\ x \in Idle' <=> x \in Idle
             /\ \A d \in Clients : held'[d] = x <=> held[d] = x
      BY <1>0, <2>1, <2>2, <2>3
    <3>2. QED
      BY <2>1, <2>4, <3>1, LeaseMove
  <2>6. Lease!Lease(c, b)
    BY <2>1, <2>2, <2>4, <2>5 DEF Lease!Lease
  <2>7. QED
    BY <2>1, <2>6 DEF Lease!Next
\* A browser leaves the stack to be closed: Destroy.
<1>4. CASE Discard(c)
  <2>0. PICK b \in Browsers : b = Last(instances[want[c]])
    BY <1>0, <1>4, PopEffect DEF Discard
  <2>1. /\ b \in Idle /\ b \in Browsers /\ Idle' = Idle \ {b}
    BY <1>0, <1>4, <2>0, PopEffect DEF Discard
  <2>2. UNCHANGED <<held, drained>> /\ page' = [page EXCEPT ![b] = "closed"]
    BY <1>4, <2>0 DEF Discard
  <2>3. HolderOf(b) = HealthLoop /\ HolderOf(b)' = None
    BY <1>0, <2>1, <2>2 DEF Mapped
  <2>4. H' = [H EXCEPT ![b] = None]
    <3>1. \A x \in Browsers : x # b =>
             /\ page'[x] = "closed" <=> page[x] = "closed"
             /\ x \in Idle' <=> x \in Idle
             /\ \A d \in Clients : held'[d] = x <=> held[d] = x
      BY <1>0, <2>1, <2>2
    <3>2. QED
      BY <2>1, <2>3, <3>1, LeaseMove
  <2>5. Lease!Destroy(b)
    BY <2>1, <2>2, <2>3, <2>4, PoolAssumption DEF Lease!Destroy
  <2>6. QED
    BY <2>1, <2>5 DEF Lease!Next
\* A browser is created: Issue.  The slot c has reserved is the room for it.
<1>5. ASSUME NEW b \in Browsers, CreateOK(c, b) PROVE [Lease!Next]_(Lease!vars)
  <2>1. /\ held[c] = None /\ held' = [held EXCEPT ![c] = b]
        /\ page[b] = "closed" /\ page' = [page EXCEPT ![b] = "live"]
        /\ UNCHANGED <<instances, drained>> /\ Idle' = Idle
    BY <1>0, <1>5 DEF CreateOK, Idle, Entries
  <2>2. held'[c] = b /\ \A d \in Clients : d # c => held'[d] = held[d]
    BY <1>0, <2>1
  <2>3. HolderOf(b) = None /\ HolderOf(b)' = c
    BY <2>1, <2>2 DEF Mapped
  <2>4. H' = [H EXCEPT ![b] = c]
    <3>1. \A x \in Browsers : x # b =>
             /\ page'[x] = "closed" <=> page[x] = "closed"
             /\ x \in Idle' <=> x \in Idle
             /\ \A d \in Clients : held'[d] = x <=> held[d] = x
      BY <1>0, <2>1, <2>2
    <3>2. QED
      BY <2>3, <3>1, LeaseMove
  <2>5. Cardinality(Lease!Present) < MaxInstances
    <3>1. Lease!Present = Unclosed
      BY PresentIsUnclosed
    <3>2. Unclosed' = Unclosed \cup {b} /\ b \notin Unclosed
      BY <1>0, <2>1 DEF Unclosed
    <3>3. Cardinality(Unclosed') = Cardinality(Unclosed) + 1
      BY <1>0, <3>2, FiniteSets, FS_AddElement
    <3>4. Cardinality(Unclosed') <= MaxInstances
      BY DEF CapacityRespected
    <3>5. Cardinality(Unclosed) \in Nat /\ MaxInstances \in Nat
      BY <1>0, FiniteSets, FS_CardinalityType, PoolAssumption
    <3>6. QED
      BY <3>1, <3>3, <3>4, <3>5
  <2>6. Lease!Issue(c, b)
    <3>1. Lease!Cardinality(Lease!Present) = Cardinality(Lease!Present)
      BY DEF Lease!Cardinality, Cardinality
    <3>2. QED
      BY <2>1, <2>3, <2>4, <2>5, <3>1 DEF Lease!Issue
  <2>7. QED
    BY <2>6 DEF Lease!Next
\* c closes the browser it holds: Destroy.
<1>6. CASE ReleaseClosed(c) \/ ReleaseBroken(c)
  <2>0. PICK b \in Browsers : b = held[c]
    BY <1>0, <1>6 DEF ReleaseClosed, ReleaseBroken
  <2>1. /\ b \in Browsers /\ b # None
        /\ held' = [held EXCEPT ![c] = None] /\ page' = [page EXCEPT ![b] = "closed"]
        /\ UNCHANGED <<instances, drained>> /\ Idle' = Idle
    BY <1>0, <1>6, <2>0 DEF ReleaseClosed, ReleaseBroken, Idle, Entries
  <2>2. held'[c] = None /\ \A d \in Clients : d # c => held'[d] = held[d]
    BY <1>0, <2>1
  <2>3. HolderOf(b) = c /\ HolderOf(b)' = None
    BY <1>0, <2>0, <2>1 DEF Mapped
  <2>4. H' = [H EXCEPT ![b] = None]
    <3>1. \A x \in Browsers : x # b =>
             /\ page'[x] = "closed" <=> page[x] = "closed"
             /\ x \in Idle' <=> x \in Idle
             /\ \A d \in Clients : held'[d] = x <=> held[d] = x
      BY <1>0, <2>0, <2>1, <2>2
    <3>2. QED
      BY <2>1, <2>3, <3>1, LeaseMove
  <2>5. Lease!Destroy(b)
    BY <2>1, <2>3, <2>4, PoolAssumption DEF Lease!Destroy
  <2>6. QED
    BY <2>1, <2>5 DEF Lease!Next
\* c puts the browser it holds on the stack: Shelve.
<1>7. CASE Return(c)
  <2>0. PICK b \in Browsers : b = held[c]
    BY <1>0, <1>7 DEF Return
  <2>1. b \in Browsers /\ Idle' = Idle \cup {b}
    BY <1>0, <1>7, <2>0, PushEffect DEF Return, Ownership
  <2>2. held' = [held EXCEPT ![c] = None] /\ UNCHANGED <<page, drained>> /\ ~drained
    BY <1>7 DEF Return
  <2>3. held'[c] = None /\ \A d \in Clients : d # c => held'[d] = held[d]
    BY <1>0, <2>2
  <2>4. HolderOf(b) = c /\ HolderOf(b)' = HealthLoop
    BY <2>0, <2>1 DEF Mapped
  <2>5. H' = [H EXCEPT ![b] = HealthLoop]
    <3>1. \A x \in Browsers : x # b =>
             /\ page'[x] = "closed" <=> page[x] = "closed"
             /\ x \in Idle' <=> x \in Idle
             /\ \A d \in Clients : held'[d] = x <=> held[d] = x
      BY <1>0, <2>0, <2>1, <2>2, <2>3
    <3>2. QED
      BY <2>1, <2>4, <3>1, LeaseMove
  <2>6. Lease!Shelve(c, b)
    BY <2>1, <2>2, <2>4, <2>5 DEF Lease!Shelve
  <2>7. QED
    BY <2>1, <2>6 DEF Lease!Next
<1>8. CASE ProviderNotFound(c) \/ UndoReserve(c) \/ WaitTimeout(c) \/ Retire(c)
  BY <1>0, <1>2, <1>8 DEF ProviderNotFound, UndoReserve, WaitTimeout, Retire
<1>9. CASE \/ \E t \in Types : Acquire(c, t)
           \/ AcquireClosed(c) \/ LockForScan(c) \/ Reserve(c) \/ PoolFull(c)
           \/ CreateFails(c) \/ WaitTick(c) \/ WaitAgain(c) \/ ReleaseHealthy(c)
           \/ ReturnPanics(c) \/ Cancel(c)
  BY <1>1, <1>9
     DEF Acquire, AcquireClosed, LockForScan, Reserve, PoolFull, CreateFails, WaitTick,
         WaitAgain, ReleaseHealthy, ReturnPanics, Cancel
<1>10. QED
  BY <1>3, <1>4, <1>5, <1>6, <1>7, <1>8, <1>9 DEF ClientStep

LEMMA LeaseStep ==
    ASSUME IInv, IInv', Mapped, Mapped', CapacityRespected', [Next]_vars
    PROVE  [Lease!Next]_(Lease!vars)
<1> USE DEF pool, vars
<1> DEFINE H == [x \in Browsers |-> HolderOf(x)]
<1>0. /\ Control /\ Ownership /\ Distinct(instances)
      /\ page \in [Browsers -> Page] /\ Idle \subseteq Browsers
      /\ \A d \in Clients : held[d] \notin Idle
  BY IInvParts, IdleIsIdleIn
     DEF Control, Shape, Ownership, ExclusiveLease, OpenInUse, Unclosed
<1>1. ASSUME NEW c \in Clients, ClientStep(c) PROVE [Lease!Next]_(Lease!vars)
  BY <1>1, LeaseClient
<1>2. CASE UNCHANGED <<instances, held, drained, page>>
  BY <1>2, LeaseFrame
<1>3. ASSUME NEW t \in Types, NEW i \in DOMAIN instances[t], Evict(t, i)
      PROVE  [Lease!Next]_(Lease!vars)
  <2>0. PICK b \in Browsers : b = instances[t][i]
    BY <1>0, <1>3, EvictEffect DEF Evict
  <2>1. b \in Idle /\ Idle' = Idle \ {b}
    BY <1>0, <1>3, <2>0, EvictEffect DEF Evict
  <2>2. UNCHANGED <<held, drained>> /\ page' = [page EXCEPT ![b] = "closed"]
    BY <1>3, <2>0 DEF Evict
  <2>3. HolderOf(b) = HealthLoop /\ HolderOf(b)' = None
    BY <1>0, <2>1, <2>2 DEF Mapped
  <2>4. H' = [H EXCEPT ![b] = None]
    <3>1. \A x \in Browsers : x # b =>
             /\ page'[x] = "closed" <=> page[x] = "closed"
             /\ x \in Idle' <=> x \in Idle
             /\ \A d \in Clients : held'[d] = x <=> held[d] = x
      BY <1>0, <2>1, <2>2
    <3>2. QED
      BY <2>3, <3>1, LeaseMove
  <2>5. Lease!Destroy(b)
    BY <2>2, <2>3, <2>4, PoolAssumption DEF Lease!Destroy
  <2>6. QED
    BY <2>5 DEF Lease!Next
\* Everything on the shelf is destroyed, nothing else moves: ShutDown.
<1>4. CASE Drain
  <2>1. /\ ~drained /\ drained' = TRUE /\ UNCHANGED held
        /\ \A b \in Browsers : page'[b] = "closed" <=> b \in Idle \/ page[b] = "closed"
    BY <1>0, <1>4, DrainEffect DEF Drain, Unclosed
  <2>2. ASSUME NEW b \in Browsers
        PROVE  HolderOf(b)' = IF HolderOf(b) = HealthLoop THEN None ELSE HolderOf(b)
    <3>1. CASE b \in Idle
      BY <2>1, <3>1 DEF Mapped
    <3>2. CASE b \notin Idle /\ page[b] = "closed"
      BY <2>1, <3>2, PoolAssumption DEF Mapped
    <3>3. ASSUME NEW c \in Clients, held[c] = b
          PROVE  HolderOf(b)' = IF HolderOf(b) = HealthLoop THEN None ELSE HolderOf(b)
      BY <2>1, <3>3, PoolAssumption DEF Mapped
    <3>4. QED
      BY <3>1, <3>2, <3>3, Whereabouts
  <2>3. H' = [b \in Browsers |-> IF H[b] = HealthLoop THEN None ELSE H[b]]
    BY <2>2
  <2>4. Lease!ShutDown
    BY <2>1, <2>3 DEF Lease!ShutDown
  <2>5. QED
    BY <2>4 DEF Lease!Next
<1>5. ASSUME NEW b \in Browsers, Break(b) PROVE [Lease!Next]_(Lease!vars)
  <2>1. \A x \in Browsers : page'[x] = "closed" <=> page[x] = "closed"
    BY <1>0, <1>5 DEF Break
  <2>2. QED
    BY <1>5, <2>1, LeaseFrame DEF Break
<1>6. QED
  BY <1>1, <1>2, <1>3, <1>4, <1>5
     DEF Next, Register, EvictLock, EvictDone, SetClosed, Tick

\* The pool implements the lease: every behaviour of the pool, seen through
\* HolderOf, is a behaviour of BrowserLease.
THEOREM PoolImplementsLease == Spec => ImplementsLease
<1>1. Init => Lease!Init
  BY LeaseInit
<1>2. IInv /\ Mapped /\ CapacityRespected /\ [Next]_vars
        /\ IInv' /\ Mapped' /\ CapacityRespected' => [Lease!Next]_(Lease!vars)
  BY LeaseStep
<1>3. IInv => Mapped /\ CapacityRespected
  BY MappedFromIInv, CapacityFromIInv
<1>4. QED
  BY <1>1, <1>2, <1>3, PoolInvariant, PTL DEF Spec, ImplementsLease, Lease!Spec

=============================================================================
