------------------------------- MODULE Router -------------------------------
(***************************************************************************)
(* browser/browserless: the router that spreads new browsers over remote   *)
(* endpoints, as the provider's Create, the health loop and callers of     *)
(* HealthCheck use it.                                                     *)
(*                                                                         *)
(* The records of the endpoints are under a sync.RWMutex.  Pick reads them *)
(* under the read lock, so that several round-robin picks run at once and  *)
(* meet on the shared counter rrIndex; MarkUnhealthy and a health sweep    *)
(* take the write lock, the sweep over the requests to all endpoints.      *)
(* Between Pick and MarkUnhealthy no lock is held.  Endpoints are numbered *)
(* from 1 (from 0 in the code), and there is at least one: without any,    *)
(* Create returns ErrNoHealthyEndpoint and changes nothing.                *)
(***************************************************************************)
EXTENDS Naturals, FiniteSets, FiniteSetsExt

CONSTANTS Clients,       \* goroutines that call Create
          NumEndpoints,  \* len(endpoints)
          Url,           \* base URL of each endpoint, its token cut off
          MaxLoad,       \* bound on Running + Queued as an endpoint reports it
          HealthLoop,    \* the goroutine started by NewRouter
          Checker,       \* a caller of Provider.HealthCheck
          None

Endpoints == 1 .. NumEndpoints
Sweepers == {HealthLoop, Checker}

ASSUME RouterAssumption ==
    /\ NumEndpoints \in Nat \ {0}
    /\ DOMAIN Url = Endpoints
    /\ MaxLoad \in Nat
    /\ HealthLoop # Checker
    /\ Clients \cap Sweepers = {}
    /\ None \notin Clients \cup Sweepers

VARIABLES
    strategy,  \* Router.strategy
    healthy,   \* Endpoint.Healthy, as recorded
    load,      \* Pressure.Running + Pressure.Queued, as recorded
    rrIndex,   \* Router.rrIndex modulo the number of endpoints
    stopped,   \* stopCh is closed
    readers,   \* clients with the read lock
    writer,    \* who has the write lock, or has asked for it and waits for the
               \* readers to leave: from then on no reader enters
    sweepAt,   \* the endpoint a sweep is about to probe; 0 outside a sweep
    sweepOK,   \* the context of the sweep is not done
    pc,        \* where each client is
    tries,     \* how many indices a round-robin pick has drawn
    ep,        \* the endpoint a client has picked
    real,      \* what each endpoint really is: see Real
    crossed    \* ghost: another client drew an index during c's pick

records == <<healthy, load>>
locks == <<readers, writer>>
sweep == <<sweepAt, sweepOK>>
client == <<pc, tries, ep, crossed>>
vars == <<strategy, records, rrIndex, stopped, locks, sweep, client, real>>

\* An endpoint takes sessions; or it takes none, because it is full and says
\* so or because it is out of order; or it accepts connections and is silent.
Real == {"up", "down", "hung"}

PC == {"idle",     \* not in Create
       "start",    \* about to take the read lock
       "pick",     \* pickRoundRobin's loop, read lock held
       "check",    \* CheckCapacity's request is under way
       "connect",  \* connecting to the endpoint, then creating the page
       "mark",     \* about to take the write lock
       "marking"}  \* MarkUnhealthy, write lock asked for or held

TypeOK ==
    /\ strategy \in {"least-load", "round-robin"}
    /\ healthy \in [Endpoints -> BOOLEAN]
    /\ load \in [Endpoints -> 0 .. MaxLoad]
    /\ rrIndex \in 0 .. NumEndpoints - 1
    /\ stopped \in BOOLEAN
    /\ readers \in SUBSET Clients
    /\ writer \in Clients \cup Sweepers \cup {None}
    /\ sweepAt \in 0 .. NumEndpoints
    /\ sweepOK \in BOOLEAN
    /\ pc \in [Clients -> PC]
    /\ tries \in [Clients -> 0 .. NumEndpoints - 1]
    /\ ep \in [Clients -> Endpoints \cup {None}]
    /\ real \in [Endpoints -> Real]
    /\ crossed \in [Clients -> BOOLEAN]

\* NewProvider: every endpoint is taken for healthy and idle.
Init ==
    /\ strategy \in {"least-load", "round-robin"}
    /\ healthy = [e \in Endpoints |-> TRUE]
    /\ load = [e \in Endpoints |-> 0]
    /\ rrIndex = 0
    /\ stopped = FALSE
    /\ readers = {} /\ writer = None
    /\ sweepAt = 0 /\ sweepOK = TRUE
    /\ pc = [c \in Clients |-> "idle"]
    /\ tries = [c \in Clients |-> 0]
    /\ ep = [c \in Clients |-> None]
    /\ real \in [Endpoints -> Real]
    /\ crossed = [c \in Clients |-> FALSE]

Goto(c, l) ==
    /\ pc' = [pc EXCEPT ![c] = l]
    /\ UNCHANGED <<tries, ep, crossed>>

\* Create returns, with a browser or an error.
Leave(c) ==
    /\ pc' = [pc EXCEPT ![c] = "idle"]
    /\ ep' = [ep EXCEPT ![c] = None]
    /\ UNCHANGED <<tries, crossed>>

-----------------------------------------------------------------------------
(* Pick                                                                    *)

Create(c) ==
    /\ pc[c] = "idle"
    /\ Goto(c, "start")
    /\ UNCHANGED <<strategy, records, rrIndex, stopped, locks, sweep, real>>

\* c has its endpoint and has left the read lock.
Picked(c, e) ==
    /\ ep' = [ep EXCEPT ![c] = e]
    /\ pc' = [pc EXCEPT ![c] = "check"]
    /\ tries' = [tries EXCEPT ![c] = 0]

\* Mutant of LeastLoad: the Healthy flag is not looked at.
LeastLoadAny == Min({e \in Endpoints : \A f \in Endpoints : load[e] <= load[f]})

\* pickLeastLoad's loop: best after the first n endpoints, 0 for nil.
Best[n \in 0 .. NumEndpoints] ==
    IF n = 0 THEN 0
    ELSE LET best == Best[n - 1] IN
         IF healthy[n] /\ (best = 0 \/ load[n] < load[best]) THEN n ELSE best
LeastLoad == Best[NumEndpoints]

\* With no healthy endpoint the first one is tried nevertheless.
PickLeastLoad(c) ==
    /\ pc[c] = "start"
    /\ strategy = "least-load"
    /\ writer = None
    /\ Picked(c, IF LeastLoad = 0 THEN 1 ELSE LeastLoad)
    /\ UNCHANGED <<strategy, records, rrIndex, stopped, locks, sweep, crossed, real>>

EnterRoundRobin(c) ==
    /\ pc[c] = "start"
    /\ strategy = "round-robin"
    /\ writer = None
    /\ readers' = readers \cup {c}
    /\ pc' = [pc EXCEPT ![c] = "pick"]
    /\ crossed' = [crossed EXCEPT ![c] = FALSE]
    /\ UNCHANGED <<strategy, records, rrIndex, stopped, writer, sweep, tries, ep, real>>

\* Mutant of Draw: the index is not reduced modulo the number of endpoints.
DrawNoModulo(c) ==
    /\ pc[c] = "pick"
    /\ rrIndex' = rrIndex + 1
    /\ crossed' = [d \in Clients |-> d \in readers /\ (d # c \/ crossed[c])]

\* rrIndex.Add(1): c draws an index, and crosses the picks of the others.
Draw(c) ==
    /\ pc[c] = "pick"
    /\ rrIndex' = (rrIndex + 1) % NumEndpoints
    /\ crossed' = [d \in Clients |-> d \in readers /\ (d # c \/ crossed[c])]

\* The endpoint that the next draw yields.
Drawn == rrIndex + 1

TakeDrawn(c) ==
    /\ Draw(c)
    /\ healthy[Drawn]
    /\ Picked(c, Drawn)
    /\ readers' = readers \ {c}
    /\ UNCHANGED <<strategy, records, stopped, writer, sweep, real>>

SkipDrawn(c) ==
    /\ Draw(c)
    /\ ~healthy[Drawn]
    /\ tries[c] + 1 < NumEndpoints
    /\ tries' = [tries EXCEPT ![c] = @ + 1]
    /\ UNCHANGED <<strategy, records, stopped, locks, sweep, pc, ep, real>>

\* Mutant of FallBack: the loop ends one try early.
FallBackEarly(c) ==
    /\ Draw(c)
    /\ ~healthy[Drawn]
    /\ Picked(c, 1)
    /\ readers' = readers \ {c}
    /\ UNCHANGED <<strategy, records, stopped, writer, sweep, real>>

\* n indices drawn and none healthy: the first endpoint.
FallBack(c) ==
    /\ Draw(c)
    /\ ~healthy[Drawn]
    /\ tries[c] + 1 = NumEndpoints
    /\ Picked(c, 1)
    /\ readers' = readers \ {c}
    /\ UNCHANGED <<strategy, records, stopped, writer, sweep, real>>

-----------------------------------------------------------------------------
(* The rest of Create                                                      *)

CapacityOK(c) ==
    /\ pc[c] = "check"
    /\ real[ep[c]] = "up"
    /\ Goto(c, "connect")
    /\ UNCHANGED <<strategy, records, rrIndex, stopped, locks, sweep, real>>

\* The endpoint takes no sessions, or is silent for 5 seconds; or, whatever it is,
\* the caller's context is done.
CapacityFails(c) ==
    /\ pc[c] = "check"
    /\ Goto(c, "mark")
    /\ UNCHANGED <<strategy, records, rrIndex, stopped, locks, sweep, real>>

\* Connected; Create returns the page, or an error of creating it or setting
\* it up, which does not mark the endpoint.
CreateReturns(c) ==
    /\ pc[c] = "connect"
    /\ real[ep[c]] = "up"
    /\ Leave(c)
    /\ UNCHANGED <<strategy, records, rrIndex, stopped, locks, sweep, real>>

\* Connect runs without the caller's context: a silent endpoint blocks it.
ConnectFails(c) ==
    /\ pc[c] = "connect"
    /\ real[ep[c]] = "down"
    /\ Goto(c, "mark")
    /\ UNCHANGED <<strategy, records, rrIndex, stopped, locks, sweep, real>>

LockForMark(c) ==
    /\ pc[c] = "mark"
    /\ writer = None
    /\ writer' = c
    /\ Goto(c, "marking")
    /\ UNCHANGED <<strategy, records, rrIndex, stopped, readers, sweep, real>>

\* The first endpoint with the URL, which need not be the one that failed.
MarkUnhealthy(c) ==
    /\ pc[c] = "marking"
    /\ readers = {}
    /\ healthy' = [healthy EXCEPT ![Min({e \in Endpoints : Url[e] = Url[ep[c]]})] = FALSE]
    /\ writer' = None
    /\ Leave(c)
    /\ UNCHANGED <<strategy, load, rrIndex, stopped, readers, sweep, real>>

-----------------------------------------------------------------------------
(* healthCheckLoop, HealthCheckAll, Stop                                   *)

\* A tick may still be chosen after Stop has closed stopCh.
SweepBegin(h) ==
    /\ writer = None
    /\ writer' = h
    /\ sweepAt' = 1
    /\ UNCHANGED <<strategy, records, rrIndex, stopped, readers, sweepOK, client, real>>

\* The sweep goes on to the next endpoint, or unlocks and ends.  alive: its
\* context is not done.
Advance(alive) ==
    IF sweepAt = NumEndpoints
    THEN sweepAt' = 0 /\ writer' = None /\ sweepOK' = TRUE
    ELSE sweepAt' = sweepAt + 1 /\ sweepOK' = alive /\ UNCHANGED writer

Probing(h) == writer = h /\ readers = {} /\ sweepAt # 0

\* Mutant of ProbeAnswered: an endpoint once unhealthy is never healthy again.
AnsweredNoRecovery(h) ==
    LET e == sweepAt IN
    /\ Probing(h)
    /\ sweepOK
    /\ real[e] \in {"up", "down"}
    /\ \E l \in 0 .. MaxLoad : load' = [load EXCEPT ![e] = l]
    /\ healthy' = [healthy EXCEPT ![e] = @ /\ real[e] = "up"]
    /\ Advance(TRUE)
    /\ UNCHANGED <<strategy, rrIndex, stopped, readers, client, real>>

\* The endpoint reports its load and whether it takes sessions.
ProbeAnswered(h) ==
    LET e == sweepAt IN
    /\ Probing(h)
    /\ sweepOK
    /\ real[e] \in {"up", "down"}
    /\ \E l \in 0 .. MaxLoad : load' = [load EXCEPT ![e] = l]
    /\ healthy' = [healthy EXCEPT ![e] = (real[e] = "up")]
    /\ Advance(TRUE)
    /\ UNCHANGED <<strategy, rrIndex, stopped, readers, client, real>>

\* Mutant of ProbeFails: the sweep returns at the first error and the lock
\* stays taken.
FailNoUnlock(h) ==
    LET e == sweepAt IN
    /\ Probing(h)
    /\ ~sweepOK \/ real[e] \in {"down", "hung"}
    /\ healthy' = [healthy EXCEPT ![e] = FALSE]
    /\ sweepAt' = 0
    /\ UNCHANGED <<strategy, load, rrIndex, stopped, locks, sweepOK, client, real>>

\* The request fails, or the sweep's context is done.  The health loop's one
\* context and a single request both have 5 seconds, so a silent endpoint
\* uses up the time of all that follow it.
ProbeFails(h) ==
    LET e == sweepAt IN
    /\ Probing(h)
    /\ ~sweepOK \/ real[e] \in {"down", "hung"}
    /\ healthy' = [healthy EXCEPT ![e] = FALSE]
    /\ Advance(sweepOK /\ ~(h = HealthLoop /\ real[e] = "hung"))
    /\ UNCHANGED <<strategy, load, rrIndex, stopped, readers, client, real>>

\* The context that a caller of HealthCheck gave is done.
SweepCancelled ==
    /\ writer = Checker
    /\ sweepOK
    /\ sweepOK' = FALSE
    /\ UNCHANGED <<strategy, records, rrIndex, stopped, locks, sweepAt, client, real>>

Stop ==
    /\ ~stopped
    /\ stopped' = TRUE
    /\ UNCHANGED <<strategy, records, rrIndex, locks, sweep, client, real>>

\* An endpoint fills up, breaks down, stops answering or comes back.
Become(e, r) ==
    /\ real[e] # r
    /\ real' = [real EXCEPT ![e] = r]
    /\ UNCHANGED <<strategy, records, rrIndex, stopped, locks, sweep, client>>

-----------------------------------------------------------------------------
ClientStep(c) ==
    \/ Create(c)
    \/ PickLeastLoad(c)
    \/ EnterRoundRobin(c)
    \/ TakeDrawn(c)
    \/ SkipDrawn(c)
    \/ FallBack(c)
    \/ CapacityOK(c)
    \/ CapacityFails(c)
    \/ ConnectFails(c)
    \/ CreateReturns(c)
    \/ LockForMark(c)
    \/ MarkUnhealthy(c)

Next ==
    \/ \E c \in Clients : ClientStep(c)
    \/ \E h \in Sweepers : SweepBegin(h) \/ ProbeAnswered(h) \/ ProbeFails(h)
    \/ SweepCancelled
    \/ Stop
    \/ \E e \in Endpoints, r \in Real : Become(e, r)

Spec == Init /\ [][Next]_vars

-----------------------------------------------------------------------------
(* Fairness.  Goroutines that can run do run, requests end (at the latest  *)
(* after 5 seconds) except a connection to a silent endpoint, and the      *)
(* RWMutex lets everybody in who waits (SF).  Nobody has to call Create,   *)
(* HealthCheck or Stop, and the ticker fires until Stop.                   *)

Locked(c) ==
    \/ PickLeastLoad(c) \/ EnterRoundRobin(c) \/ LockForMark(c)
Unlocked(c) ==
    \/ TakeDrawn(c) \/ SkipDrawn(c) \/ FallBack(c)
    \/ CapacityOK(c) \/ CapacityFails(c)
    \/ ConnectFails(c) \/ CreateReturns(c)
    \/ MarkUnhealthy(c)

FairSpec ==
    /\ Spec
    /\ \A c \in Clients : SF_vars(Locked(c)) /\ WF_vars(Unlocked(c))
    /\ SF_vars(~stopped /\ SweepBegin(HealthLoop))
    /\ \A h \in Sweepers : WF_vars(ProbeAnswered(h) \/ ProbeFails(h))

-----------------------------------------------------------------------------
(* Properties                                                              *)

\* c's Pick ends in this step.
PickEnds(c) == pc[c] \in {"start", "pick"} /\ pc'[c] = "check"
SomeHealthy == \E e \in Endpoints : healthy[e]

\* A least-load Pick returns a healthy endpoint than which no healthy one is
\* less loaded, whenever the records show a healthy one.
LeastLoadPicksBest ==
    [][\A c \in Clients : PickEnds(c) /\ strategy = "least-load" /\ SomeHealthy =>
          /\ healthy[ep'[c]]
          /\ \A e \in Endpoints : healthy[e] => load[ep'[c]] <= load[e]]_vars

\* A round-robin Pick that no other Pick crosses finds a healthy endpoint if
\* there is one, wherever the shared counter stands when it starts and
\* whatever happened to the records before it had the read lock.
LonePickHealthy ==
    [][\A c \in Clients :
          PickEnds(c) /\ strategy = "round-robin" /\ ~crossed[c] /\ SomeHealthy =>
             healthy[ep'[c]]]_vars

\* Nobody has the lock, or has asked for it, who is not about to give it back:
\* the readers are in a pick, and the writer marks an endpoint or sweeps.
LocksHeld ==
    /\ readers = {c \in Clients : pc[c] = "pick"}
    /\ \A c \in Clients : writer = c <=> pc[c] = "marking"
    /\ writer \in Sweepers <=> sweepAt # 0

\* Whoever needs the lock gets it, whatever sweeps and picks are going on, and
\* a Create reaches its endpoint or returns.
Routing(c) == pc[c] \in {"start", "pick", "check", "mark", "marking"}
RoutingEnds == \A c \in Clients : Routing(c) ~> ~Routing(c)

\* As long as the router runs and no endpoint is silent, an endpoint that is
\* up is found healthy again and again, whatever was recorded for it because
\* it was down, or a caller gave up, or another has the same URL.
RecoversIfNoneHangs ==
    []~stopped /\ <>[](\A e \in Endpoints : real[e] # "hung") =>
        \A e \in Endpoints : <>[](real[e] = "up") => []<>healthy[e]

=============================================================================
