-------------------------------- MODULE Pool --------------------------------
(***************************************************************************)
(* browser/pool.go: the pool that lends browser instances to goroutines.   *)
(*                                                                         *)
(* A client is a goroutine that calls Acquire, uses the browser it gets    *)
(* and calls Release.  The pool keeps one stack of idle instances per      *)
(* browser type and two counters, inUse and total, under one mutex.  The   *)
(* mutex is held over calls that do I/O (the liveness ping of an idle      *)
(* instance, the sweep of the health loop) and is NOT held while a         *)
(* provider creates a browser, while a broken browser is closed, or        *)
(* between the test of the closed flag and the operation that follows it.  *)
(* Each step below is one stretch of code between two such points.         *)
(***************************************************************************)
EXTENDS Naturals, Sequences, FiniteSets, SequencesExt

CONSTANTS Clients,        \* goroutines that acquire and release
          Browsers,       \* identities of browser instances; recycled once closed
          Types,          \* values of browser.Type
          Titled,         \* types whose Title works; surf's returns ErrUnsupported
          Hosted,         \* types whose provider's Close ends their browsers: rod's
                          \* does, browserless's and surf's do not touch them
          MaxInstances,   \* PoolConfig.MaxInstances
          IdleTimeout,    \* PoolConfig.IdleTimeout, in ticks of the idle clock
          HealthLoop,     \* the goroutine started by NewPool
          None            \* nobody, no browser, no type

ASSUME PoolAssumption ==
    /\ IsFiniteSet(Clients) /\ IsFiniteSet(Browsers)
    /\ Titled \subseteq Types /\ Hosted \subseteq Types
    /\ MaxInstances \in Nat
    /\ IdleTimeout \in Nat
    /\ HealthLoop \notin Clients
    /\ None \notin Clients \cup Browsers \cup Types \cup {HealthLoop}

VARIABLES
    closed,     \* Pool.closed, the atomic flag
    drained,    \* Close has emptied the idle stacks and set instances to nil
    providers,  \* types with a registered provider
    instances,  \* idle browsers per type, most recently used last
    age,        \* time since lastUsed of an idle browser, saturated
    inUse,      \* Pool.inUse
    total,      \* Pool.total
    mu,         \* who holds Pool.mu
    pc,         \* where each client is
    want,       \* the type a client has asked for
    held,       \* the browser a client has in hand
    ctxDone,    \* the client's context is cancelled or past its deadline
    page        \* what each browser really is: see Page

pool == <<closed, drained, providers, instances, age, inUse, total, mu>>
vars == <<pool, pc, want, held, ctxDone, page>>

\* A dead browser does not answer a Title within PingTimeout, but still
\* occupies its tab, process or connection until somebody calls Close on it.
\* A browser is gone when its provider has ended the page or the Chrome under
\* it and nobody has called Close on it.
Page == {"closed", "live", "dead", "gone"}

PC == {"idle",      \* not in the pool
       "acquire",   \* found the pool open, about to lock
       "scan",      \* Acquire's loop over idle instances, mutex held
       "create",    \* slot reserved, provider.Create is running
       "undo",      \* provider.Create failed, slot still reserved
       "wait",      \* waitForInstance, between two ticks
       "rescan",    \* waitForInstance's loop, mutex held
       "using",     \* Acquire returned a browser
       "return",    \* Release found the pool open, about to lock
       "retire",    \* Release closed a broken browser, about to lock
       "panicked"}  \* Release wrote to the nil map

Ages == 0 .. IdleTimeout + 1
Entries(t) == ToSet(instances[t])
Idle == UNION {Entries(t) : t \in Types}

\* Nobody has called Close on the browser.
Unclosed == {b \in Browsers : page[b] # "closed"}

Scanning(c) == pc[c] \in {"scan", "rescan"}
Acquiring(c) == pc[c] \in {"acquire", "scan", "create", "undo", "wait", "rescan"}
Expired(b) == age[b] > IdleTimeout

\* s without its i-th element, the others in their order.
Without(s, i) == [k \in 1 .. Len(s) - 1 |-> IF k < i THEN s[k] ELSE s[k + 1]]

TypeOK ==
    /\ closed \in BOOLEAN /\ drained \in BOOLEAN
    /\ providers \in SUBSET Types
    /\ instances \in [Types -> Seq(Browsers)]
    /\ age \in [Browsers -> Ages]
    /\ inUse \in Nat /\ total \in Nat
    /\ mu \in Clients \cup {HealthLoop, None}
    /\ pc \in [Clients -> PC]
    /\ want \in [Clients -> Types \cup {None}]
    /\ held \in [Clients -> Browsers \cup {None}]
    /\ ctxDone \in [Clients -> BOOLEAN]
    /\ page \in [Browsers -> Page]

\* NewPool
Init ==
    /\ closed = FALSE /\ drained = FALSE
    /\ providers = {}
    /\ instances = [t \in Types |-> <<>>]
    /\ age = [b \in Browsers |-> 0]
    /\ inUse = 0 /\ total = 0
    /\ mu = None
    /\ pc = [c \in Clients |-> "idle"]
    /\ want = [c \in Clients |-> None]
    /\ held = [c \in Clients |-> None]
    /\ ctxDone = [c \in Clients |-> FALSE]
    /\ page = [b \in Browsers |-> "closed"]

-----------------------------------------------------------------------------
(* Helpers: what a step of client c does to c's own variables.             *)

Goto(c, l) ==
    /\ pc' = [pc EXCEPT ![c] = l]
    /\ UNCHANGED <<want, held, ctxDone>>

\* c leaves the pool with nothing in hand.
Leave(c) ==
    /\ pc' = [pc EXCEPT ![c] = "idle"]
    /\ want' = [want EXCEPT ![c] = None]
    /\ held' = [held EXCEPT ![c] = None]
    /\ ctxDone' = [ctxDone EXCEPT ![c] = FALSE]

\* Acquire returns b to c, whose context no longer matters to the pool.
Receive(c, b) ==
    /\ pc' = [pc EXCEPT ![c] = "using"]
    /\ held' = [held EXCEPT ![c] = b]
    /\ ctxDone' = [ctxDone EXCEPT ![c] = FALSE]
    /\ UNCHANGED want

-----------------------------------------------------------------------------
(* Register                                                                *)

Register(t) ==
    /\ mu = None
    /\ t \notin providers
    /\ providers' = providers \cup {t}
    /\ UNCHANGED <<closed, drained, instances, age, inUse, total, mu>>
    /\ UNCHANGED <<pc, want, held, ctxDone, page>>

-----------------------------------------------------------------------------
(* Acquire                                                                 *)

Acquire(c, t) ==
    /\ pc[c] = "idle"
    /\ ~closed
    /\ pc' = [pc EXCEPT ![c] = "acquire"]
    /\ want' = [want EXCEPT ![c] = t]
    /\ UNCHANGED <<pool, held, ctxDone, page>>

\* The pool is closed: ErrPoolClosed, and nothing changes.
AcquireClosed(c) ==
    /\ pc[c] = "idle"
    /\ closed
    /\ UNCHANGED vars

ProviderNotFound(c) ==
    /\ pc[c] = "acquire" /\ mu = None
    /\ want[c] \notin providers
    /\ Leave(c)
    /\ UNCHANGED <<pool, page>>

LockForScan(c) ==
    /\ pc[c] = "acquire" /\ mu = None
    /\ want[c] \in providers
    /\ mu' = c
    /\ Goto(c, "scan")
    /\ UNCHANGED <<closed, drained, providers, instances, age, inUse, total, page>>

\* Mutant of Reuse: the entry is read but not popped.
ReuseNoPop(c) ==
    /\ Scanning(c)
    /\ instances[want[c]] # <<>>
    /\ LET b == Last(instances[want[c]]) IN
          /\ page[b] = "live" /\ want[c] \in Titled
          /\ Receive(c, b)
    /\ inUse' = inUse + 1
    /\ mu' = None
    /\ UNCHANGED <<closed, drained, providers, instances, age, total, page>>

\* The top of the stack answers the ping: c takes it and unlocks.
Reuse(c) ==
    /\ Scanning(c)
    /\ instances[want[c]] # <<>>
    /\ LET b == Last(instances[want[c]]) IN
          /\ page[b] = "live" /\ want[c] \in Titled
          /\ instances' = [instances EXCEPT ![want[c]] = Front(@)]
          /\ age' = [age EXCEPT ![b] = 0]
          /\ inUse' = inUse + 1
          /\ mu' = None
          /\ Receive(c, b)
    /\ UNCHANGED <<closed, drained, providers, total, page>>

\* Mutant of Discard: the instance is dropped without a Close.
DiscardNoClose(c) ==
    /\ Scanning(c)
    /\ instances[want[c]] # <<>>
    /\ LET b == Last(instances[want[c]]) IN
          /\ page[b] # "live" \/ want[c] \notin Titled \/ ctxDone[c]
          /\ age' = [age EXCEPT ![b] = 0]
    /\ instances' = [instances EXCEPT ![want[c]] = Front(@)]
    /\ total' = total - 1
    /\ UNCHANGED <<closed, drained, providers, inUse, mu, pc, want, held, ctxDone, page>>

\* The ping fails: the instance is dead, its type has no Title, or the ping,
\* which runs under the caller's context, is cut short by it.
Discard(c) ==
    /\ Scanning(c)
    /\ instances[want[c]] # <<>>
    /\ LET b == Last(instances[want[c]]) IN
          /\ page[b] # "live" \/ want[c] \notin Titled \/ ctxDone[c]
          /\ instances' = [instances EXCEPT ![want[c]] = Front(@)]
          /\ age' = [age EXCEPT ![b] = 0]
          /\ page' = [page EXCEPT ![b] = "closed"]
          /\ total' = total - 1
    /\ UNCHANGED <<closed, drained, providers, inUse, mu, pc, want, held, ctxDone>>

\* Mutant of Reserve: the comparison with MaxInstances is off by one.
ReserveOffByOne(c) ==
    /\ pc[c] = "scan"
    /\ instances[want[c]] = <<>>
    /\ total <= MaxInstances
    /\ total' = total + 1
    /\ inUse' = inUse + 1
    /\ mu' = None
    /\ Goto(c, "create")
    /\ UNCHANGED <<closed, drained, providers, instances, age, page>>

\* No idle instance is left and there is room: reserve a slot and unlock.
Reserve(c) ==
    /\ pc[c] = "scan"
    /\ instances[want[c]] = <<>>
    /\ total < MaxInstances
    /\ total' = total + 1
    /\ inUse' = inUse + 1
    /\ mu' = None
    /\ Goto(c, "create")
    /\ UNCHANGED <<closed, drained, providers, instances, age, page>>

\* Mutant of PoolFull: one of the unlocks is forgotten.
PoolFullNoUnlock(c) ==
    /\ pc[c] = "scan"
    /\ instances[want[c]] = <<>>
    /\ total >= MaxInstances
    /\ Goto(c, "wait")
    /\ UNCHANGED <<pool, page>>

\* No idle instance is left and the pool is full: unlock and wait.
PoolFull(c) ==
    /\ pc[c] = "scan"
    /\ instances[want[c]] = <<>>
    /\ total >= MaxInstances
    /\ mu' = None
    /\ Goto(c, "wait")
    /\ UNCHANGED <<closed, drained, providers, instances, age, inUse, total, page>>

CreateOK(c, b) ==
    /\ pc[c] = "create"
    /\ page[b] = "closed"
    /\ page' = [page EXCEPT ![b] = "live"]
    /\ Receive(c, b)
    /\ UNCHANGED pool

CreateFails(c) ==
    /\ pc[c] = "create"
    /\ Goto(c, "undo")
    /\ UNCHANGED <<pool, page>>

\* Mutant of UndoReserve: only inUse is given back.
UndoInUseOnly(c) ==
    /\ pc[c] = "undo" /\ mu = None
    /\ inUse' = inUse - 1
    /\ Leave(c)
    /\ UNCHANGED <<closed, drained, providers, instances, age, total, mu, page>>

UndoReserve(c) ==
    /\ pc[c] = "undo" /\ mu = None
    /\ total' = total - 1
    /\ inUse' = inUse - 1
    /\ Leave(c)
    /\ UNCHANGED <<closed, drained, providers, instances, age, mu, page>>

-----------------------------------------------------------------------------
(* waitForInstance: Reuse and Discard above are also its loop.             *)

\* Mutant of WaitTimeout: gives back a slot a waiter never reserved.
WaitTimeoutGivesBack(c) ==
    /\ pc[c] = "wait"
    /\ ctxDone[c]
    /\ inUse' = inUse - 1
    /\ Leave(c)
    /\ UNCHANGED <<closed, drained, providers, instances, age, total, mu, page>>

\* ErrAcquireTimeout
WaitTimeout(c) ==
    /\ pc[c] = "wait"
    /\ ctxDone[c]
    /\ Leave(c)
    /\ UNCHANGED <<pool, page>>

WaitTick(c) ==
    /\ pc[c] = "wait" /\ mu = None
    /\ mu' = c
    /\ Goto(c, "rescan")
    /\ UNCHANGED <<closed, drained, providers, instances, age, inUse, total, page>>

\* Nothing idle: unlock and wait for the next tick, whatever total says.
WaitAgain(c) ==
    /\ pc[c] = "rescan"
    /\ instances[want[c]] = <<>>
    /\ mu' = None
    /\ Goto(c, "wait")
    /\ UNCHANGED <<closed, drained, providers, instances, age, inUse, total, page>>

-----------------------------------------------------------------------------
(* Release                                                                 *)

\* Release returns b.Close() when it finds the pool closed.
ReleaseClosed(c) ==
    /\ pc[c] = "using"
    /\ closed
    /\ page' = [page EXCEPT ![held[c]] = "closed"]
    /\ Leave(c)
    /\ UNCHANGED pool

\* lastErr is a connection error: the browser is closed before the lock.
ReleaseBroken(c) ==
    /\ pc[c] = "using"
    /\ ~closed
    /\ page' = [page EXCEPT ![held[c]] = "closed"]
    /\ pc' = [pc EXCEPT ![c] = "retire"]
    /\ held' = [held EXCEPT ![c] = None]
    /\ UNCHANGED <<pool, want, ctxDone>>

Retire(c) ==
    /\ pc[c] = "retire" /\ mu = None
    /\ inUse' = inUse - 1
    /\ total' = total - 1
    /\ Leave(c)
    /\ UNCHANGED <<closed, drained, providers, instances, age, mu, page>>

ReleaseHealthy(c) ==
    /\ pc[c] = "using"
    /\ ~closed
    /\ Goto(c, "return")
    /\ UNCHANGED <<pool, page>>

\* Mutant of Return: the returned browser goes to the bottom of the stack.
ReturnAtBottom(c) ==
    /\ pc[c] = "return" /\ mu = None
    /\ ~drained
    /\ inUse' = inUse - 1
    /\ instances' = [instances EXCEPT ![want[c]] = <<held[c]>> \o @]
    /\ Leave(c)
    /\ UNCHANGED <<closed, drained, providers, age, total, mu, page>>

\* Mutant of Return: Close leaves an empty map instead of nil, so that a
\* late Release puts its browser into the drained pool.
ReturnAfterDrain(c) ==
    /\ pc[c] = "return" /\ mu = None
    /\ inUse' = inUse - 1
    /\ instances' = [instances EXCEPT ![want[c]] = Append(@, held[c])]
    /\ Leave(c)
    /\ UNCHANGED <<closed, drained, providers, age, total, mu, page>>

Return(c) ==
    /\ pc[c] = "return" /\ mu = None
    /\ ~drained
    /\ inUse' = inUse - 1
    /\ instances' = [instances EXCEPT ![want[c]] = Append(@, held[c])]
    /\ Leave(c)
    /\ UNCHANGED <<closed, drained, providers, age, total, mu, page>>

\* Close has set instances to nil since the flag was tested: the assignment
\* panics after inUse-- (the deferred unlock runs), and held[c] is lost.
ReturnPanics(c) ==
    /\ pc[c] = "return" /\ mu = None
    /\ drained
    /\ inUse' = inUse - 1
    /\ Goto(c, "panicked")
    /\ UNCHANGED <<closed, drained, providers, instances, age, total, mu, page>>

-----------------------------------------------------------------------------
(* healthCheckLoop and evictIdle                                           *)

\* Mutant of EvictLock: a full pool is not swept.
EvictUnlessFull ==
    /\ mu = None
    /\ total < MaxInstances
    /\ \E b \in Idle : Expired(b)
    /\ mu' = HealthLoop
    /\ UNCHANGED <<closed, drained, providers, instances, age, inUse, total>>
    /\ UNCHANGED <<pc, want, held, ctxDone, page>>

\* The loop's select may still choose a tick after Close has closed done.
EvictLock ==
    /\ mu = None
    /\ \E b \in Idle : Expired(b)
    /\ mu' = HealthLoop
    /\ UNCHANGED <<closed, drained, providers, instances, age, inUse, total>>
    /\ UNCHANGED <<pc, want, held, ctxDone, page>>

Evict(t, i) ==
    /\ mu = HealthLoop
    /\ i \in DOMAIN instances[t]
    /\ LET b == instances[t][i] IN
          /\ Expired(b)
          /\ instances' = [instances EXCEPT ![t] = Without(@, i)]
          /\ age' = [age EXCEPT ![b] = 0]
          /\ page' = [page EXCEPT ![b] = "closed"]
    /\ total' = total - 1
    /\ UNCHANGED <<closed, drained, providers, inUse, mu, pc, want, held, ctxDone>>

\* Mutant of EvictDone: the sweep does not unlock.
EvictNoUnlock ==
    /\ mu = HealthLoop
    /\ ~ \E b \in Idle : Expired(b)
    /\ UNCHANGED vars

EvictDone ==
    /\ mu = HealthLoop
    /\ ~ \E b \in Idle : Expired(b)
    /\ mu' = None
    /\ UNCHANGED <<closed, drained, providers, instances, age, inUse, total>>
    /\ UNCHANGED <<pc, want, held, ctxDone, page>>

-----------------------------------------------------------------------------
(* Close                                                                   *)

SetClosed ==
    /\ ~closed
    /\ closed' = TRUE
    /\ UNCHANGED <<drained, providers, instances, age, inUse, total, mu>>
    /\ UNCHANGED <<pc, want, held, ctxDone, page>>

\* Browsers in hand that some provider.Close may end.  Which of them it does
\* end is open: the errors of Pages and page.Close are dropped, and rod's
\* provider may by now drive another Chrome than theirs, or none.
Exposed == {held[c] : c \in {d \in Clients : held[d] # None /\ want[d] \in Hosted}}

\* The page of b once the pool has drained and the providers have ended the
\* browsers in ended.
PageAfter(ended, b) ==
    IF b \in Idle THEN "closed" ELSE IF b \in ended THEN "gone" ELSE page[b]

\* Mutant of Drain: the browsers of every provider end, in hand or not.
DrainAll ==
    /\ closed /\ ~drained /\ mu = None
    /\ page' = [b \in Browsers |-> PageAfter({held[c] : c \in Clients}, b)]
    /\ age' = [b \in Browsers |-> 0]
    /\ instances' = [t \in Types |-> <<>>]
    /\ drained' = TRUE
    /\ UNCHANGED <<closed, providers, inUse, total, mu, pc, want, held, ctxDone>>

\* Mutant of Drain: the counters are reset although browsers are in use.
DrainResets ==
    /\ closed /\ ~drained /\ mu = None
    /\ \E ended \in SUBSET Exposed : page' = [b \in Browsers |-> PageAfter(ended, b)]
    /\ age' = [b \in Browsers |-> 0]
    /\ instances' = [t \in Types |-> <<>>]
    /\ drained' = TRUE
    /\ total' = 0
    /\ UNCHANGED <<closed, providers, inUse, mu, pc, want, held, ctxDone>>

\* Close the idle instances, set the map to nil and close every provider, all
\* under the mutex; the counters stay.
Drain ==
    /\ closed /\ ~drained /\ mu = None
    /\ \E ended \in SUBSET Exposed : page' = [b \in Browsers |-> PageAfter(ended, b)]
    /\ age' = [b \in Browsers |-> 0]
    /\ instances' = [t \in Types |-> <<>>]
    /\ drained' = TRUE
    /\ UNCHANGED <<closed, providers, inUse, total, mu, pc, want, held, ctxDone>>

-----------------------------------------------------------------------------
(* The environment                                                         *)

\* A caller's context is cancelled or reaches its deadline.
Cancel(c) ==
    /\ Acquiring(c)
    /\ ~ctxDone[c]
    /\ ctxDone' = [ctxDone EXCEPT ![c] = TRUE]
    /\ UNCHANGED <<pool, pc, want, held, page>>

\* A browser crashes, hangs or loses its connection.
Break(b) ==
    /\ page[b] = "live"
    /\ page' = [page EXCEPT ![b] = "dead"]
    /\ UNCHANGED <<pool, pc, want, held, ctxDone>>

\* Time passes for the idle instances.  A sweep reads the clock once, so
\* time stands still for it.
Tick ==
    /\ mu # HealthLoop
    /\ \E b \in Idle : ~Expired(b)
    /\ age' = [b \in Browsers |->
                 IF b \in Idle /\ ~Expired(b) THEN age[b] + 1 ELSE age[b]]
    /\ UNCHANGED <<closed, drained, providers, instances, inUse, total, mu>>
    /\ UNCHANGED <<pc, want, held, ctxDone, page>>

-----------------------------------------------------------------------------
ClientStep(c) ==
    \/ \E t \in Types : Acquire(c, t)
    \/ AcquireClosed(c)
    \/ ProviderNotFound(c)
    \/ LockForScan(c)
    \/ Reuse(c)
    \/ Discard(c)
    \/ Reserve(c)
    \/ PoolFull(c)
    \/ \E b \in Browsers : CreateOK(c, b)
    \/ CreateFails(c)
    \/ UndoReserve(c)
    \/ WaitTimeout(c)
    \/ WaitTick(c)
    \/ WaitAgain(c)
    \/ ReleaseClosed(c)
    \/ ReleaseBroken(c)
    \/ Retire(c)
    \/ ReleaseHealthy(c)
    \/ Return(c)
    \/ ReturnPanics(c)
    \/ Cancel(c)

Next ==
    \/ \E c \in Clients : ClientStep(c)
    \/ \E t \in Types : Register(t)
    \/ EvictLock
    \/ \E t \in Types : \E i \in DOMAIN instances[t] : Evict(t, i)
    \/ EvictDone
    \/ SetClosed
    \/ Drain
    \/ \E b \in Browsers : Break(b)
    \/ Tick

Spec == Init /\ [][Next]_vars

-----------------------------------------------------------------------------
(* Fairness.  A goroutine that can run does run; a Go mutex in starvation  *)
(* mode hands itself to the longest waiter, and a select between ready     *)
(* cases is random, so what is enabled again and again is taken: SF.       *)

\* What c does without waiting for the mutex, and what it does by locking it.
Unlocked(c) ==
    \/ Reuse(c) \/ Discard(c) \/ Reserve(c) \/ PoolFull(c) \/ WaitAgain(c)
    \/ CreateFails(c) \/ (\E b \in Browsers : CreateOK(c, b))
    \/ ReleaseClosed(c) \/ ReleaseBroken(c) \/ ReleaseHealthy(c)
Locked(c) ==
    \/ LockForScan(c) \/ ProviderNotFound(c) \/ WaitTick(c)
    \/ UndoReserve(c) \/ Retire(c) \/ Return(c) \/ ReturnPanics(c)

\* c makes progress in every call it has begun, and ends every lease.  The
\* actions of a disjunction belong to different places in c's code, so the
\* fairness of the whole is the fairness of each.
ClientFairness(c) ==
    /\ WF_vars(Unlocked(c))
    /\ SF_vars(Locked(c))
    /\ SF_vars(WaitTimeout(c))

\* Time passes, the health loop runs until the pool is closed, Close ends.
PoolFairness ==
    /\ WF_vars(Tick)
    /\ SF_vars(~closed /\ EvictLock)
    /\ WF_vars(EvictDone \/ \E t \in Types : \E i \in DOMAIN instances[t] : Evict(t, i))
    /\ SF_vars(Drain)

\* Callers whose contexts need not ever end, as with context.Background().
NoDeadlineSpec == Spec /\ PoolFairness /\ \A c \in Clients : ClientFairness(c)

\* Callers whose contexts have a deadline.
DeadlineSpec == NoDeadlineSpec /\ \A c \in Clients : WF_vars(Cancel(c))

-----------------------------------------------------------------------------
(* Safety                                                                  *)

\* Clients for which inUse counts a slot, and those that died holding one.
Leasing == {c \in Clients :
              pc[c] \in {"create", "undo", "using", "return", "retire"}}
Panicked == {c \in Clients : pc[c] = "panicked"}

\* Six paths out of Acquire and waitForInstance unlock by hand: whoever
\* scans the idle stack holds the mutex, and whoever does not, does not.
MutexDiscipline == \A c \in Clients : mu = c <=> Scanning(c)

\* However creations, failures, evictions, pings and releases interleave
\* with Close, there are never more browsers alive than MaxInstances
\* (pool.go:109-128: the slot is reserved before the unlocked Create).
CapacityRespected == Cardinality(Unclosed) <= MaxInstances

\* While the pool is open Stats tells the truth: inUse is the number of
\* clients with a browser or a reserved slot, total adds the idle ones.
\* Until the drain, total is still inUse plus what is idle.
CountersExact ==
    /\ ~closed => inUse = Cardinality(Leasing)
    /\ ~drained => total = inUse + Cardinality(Idle)

\* No browser is leased twice, leased while it is idle, or idle twice.
ExclusiveLease ==
    /\ \A c, d \in Clients : held[c] = held[d] /\ held[c] # None => c = d
    /\ \A c \in Clients : held[c] \notin Idle
    /\ \A t, u \in Types : \A i \in DOMAIN instances[t], j \in DOMAIN instances[u] :
          instances[t][i] = instances[u][j] => t = u /\ i = j

\* A browser somebody holds, or may be given from the stack, has not been
\* closed by the health loop, by Close or by another client.
OpenInUse ==
    /\ Idle \subseteq Unclosed
    /\ \A c \in Clients : held[c] # None => held[c] \in Unclosed

\* A browser may end under its client all the same, when the pool is closed:
\* then it is still in that client's hands, and of a type whose provider ends
\* browsers.  Nothing but Close does it, and no such browser is lent again.
EndedByProvider ==
    \A b \in Browsers :
        page[b] = "gone" => drained /\ \E c \in Clients : held[c] = b /\ want[c] \in Hosted

\* A client never works with a browser somebody else has closed, except that
\* Close takes the rod browsers from the clients that use them
\* (pool.go:247-251, rod/provider.go:292-318).
NoUseAfterClose == OpenInUse /\ EndedByProvider

\* Every browser that still occupies resources is idle or in some client's
\* hands: no path drops one without closing it.
NothingLost == Unclosed \subseteq Idle \cup {held[c] : c \in Clients}

\* The stack is in order of last use, so reuse takes the freshest instance
\* and a sweep removes a prefix.
OldestAtBottom ==
    \A t \in Types : \A i, j \in DOMAIN instances[t] :
        i < j => age[instances[t][i]] >= age[instances[t][j]]

\* Close leaves the counters alone, later releases no longer lower them, and a
\* panic gives back inUse but not total: from then on they are not exact.
\* They still cover every slot that is taken and every browser that is left,
\* so neither wraps below zero and total keeps late creations within the cap.
SlotsCovered ==
    /\ inUse >= Cardinality(Leasing)
    /\ total >= Cardinality(Leasing \cup Panicked) + Cardinality(Idle)
    /\ total <= MaxInstances

\* What the proofs need besides: a client's variables agree with its place
\* in the code, and a drained pool is empty.
ClientState ==
    \A c \in Clients :
        /\ pc[c] # "idle" => want[c] \in Types
        /\ held[c] # None <=> pc[c] \in {"using", "return", "panicked"}
DrainedEmpty == drained => closed /\ \A t \in Types : instances[t] = <<>>

\* The inductive invariant.
IInv ==
    /\ TypeOK
    /\ ClientState /\ MutexDiscipline /\ DrainedEmpty
    /\ ExclusiveLease /\ NoUseAfterClose /\ NothingLost
    /\ CountersExact /\ SlotsCovered

\* The pool implements the lease: a browser is absent once closed, on the
\* shelf while idle, leased while held.  A lease lasts until its holder ends
\* it, also when the browser breaks or its provider has ended it meanwhile.
HolderOf(b) ==
    IF page[b] = "closed" THEN None
    ELSE IF \E c \in Clients : held[c] = b THEN CHOOSE c \in Clients : held[c] = b
    ELSE HealthLoop

Lease == INSTANCE BrowserLease WITH
            Capacity <- MaxInstances, Shelf <- HealthLoop, Absent <- None,
            holder <- [b \in Browsers |-> HolderOf(b)], shut <- drained

\* Every step of the pool is a step of BrowserLease or leaves it unchanged.
ImplementsLease == Lease!Spec

-----------------------------------------------------------------------------
(* Liveness                                                                *)

\* An Acquire returns, with a browser or an error (under DeadlineSpec; see
\* the README for what happens under NoDeadlineSpec).
AcquireReturns == \A c \in Clients : Acquiring(c) ~> ~Acquiring(c)

\* Close gets the mutex and drains, whatever holds the mutex when it starts.
CloseCompletes == closed ~> drained

\* An idle instance is lent, evicted or closed: it does not stay for ever.
IdleExpires == \A b \in Browsers : b \in Idle ~> b \notin Idle

-----------------------------------------------------------------------------
(* What a test, a message or the configuration says and the code does not  *)
(* keep: each is refuted by a run of its own.                              *)

\* pool_test.go:204, "idle instance should be closed on pool close": once
\* Close is done and no call is in progress, every browser is closed or was
\* ended by its provider.
ClosedPoolKeepsNothing ==
    drained /\ (\A c \in Clients : pc[c] \in {"idle", "panicked"}) =>
        \A b \in Browsers : page[b] \in {"closed", "gone"}

\* pool_test.go:237, "should reuse idle instance, not create new one": an
\* Acquire closes no idle instance that still works.
HealthyInstanceReused ==
    [][\A b \in Idle : mu \in Clients /\ page[b] = "live" => page'[b] # "closed"]_vars

=============================================================================
