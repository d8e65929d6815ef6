---------------------------- MODULE RodProvider ----------------------------
(***************************************************************************)
(* browser/rod: the provider that keeps one Chrome for all its pages.      *)
(*                                                                         *)
(* ensureBrowser checks, replaces or launches the shared Chrome under      *)
(* p.mu; the page is opened and set up after the unlock.  A Create that    *)
(* panics unlocks on the way out and then clears the shared reference,     *)
(* under the mutex again.  HealthCheck and Close run beside it.  With      *)
(* RemoteURL there is one remote Chrome, and a connection is a link to it; *)
(* otherwise each connection has a Chrome launched for it.                 *)
(***************************************************************************)
EXTENDS Naturals, FiniteSets

CONSTANTS Clients,  \* goroutines that call Create, HealthCheck and the page's Close
          Closer,   \* a goroutine that calls Provider.Close
          Conns,    \* connections
          MaxToll,  \* bound on toll, that is, on the faults of a behaviour
          None

ASSUME RodAssumption ==
    /\ None \notin Clients \cup {Closer} \cup Conns
    /\ Closer \notin Clients
    /\ MaxToll \in Nat
    /\ IsFiniteSet(Clients) /\ IsFiniteSet(Conns)

VARIABLES
    remote,  \* cfg.RemoteURL is set
    mu,      \* who holds p.mu
    shared,  \* p.browser
    state,   \* what each connection is: see State
    pc,      \* where each client is
    conn,    \* the connection a client's call uses (rb, b), or its page belongs to
    open,    \* the open pages, each with the client that opened it
    toll     \* ghost: how many Chromes the faults so far may have cost

vars == <<remote, mu, shared, state, pc, conn, open, toll>>

State == {"free",  \* no Chrome: not launched, or gone; no link
          "cut",   \* the Chrome runs, the link is not yet made or is lost
          "up",    \* the Chrome answers
          "hung"}  \* the link stands and nothing answers

UnderMutex == {"check",    \* p.browser.Pages() on the shared connection
               "launch",   \* launcher.Launch, or resolveRemoteURL
               "connect",  \* Connect
               "verify"}   \* Pages() on the new connection
HasPage == {"setup",       \* viewport and interception
            "held",        \* Create has returned the page
            "probing"}     \* HealthCheck has opened its page
PC == UnderMutex \cup HasPage \cup
      {"idle", "lock",
       "page",      \* about to open the page
       "recover",   \* the deferred function, about to lock
       "probe"}     \* HealthCheck, about to open its page

\* Whoever has got beyond ensureBrowser has a connection.
TypeOK ==
    /\ remote \in BOOLEAN
    /\ mu \in Clients \cup {Closer, None}
    /\ shared \in Conns \cup {None}
    /\ state \in [Conns -> State]
    /\ pc \in [Clients -> PC]
    /\ conn \in [Clients -> Conns \cup {None}]
    /\ \A c \in Clients :
          pc[c] \in HasPage \cup {"connect", "verify", "page", "probe"} => conn[c] \in Conns
    /\ open \in SUBSET (Clients \X Conns)
    /\ toll \in 0 .. MaxToll

Init ==
    /\ remote \in BOOLEAN
    /\ mu = None
    /\ shared = None
    /\ state = [k \in Conns |-> "free"]
    /\ pc = [c \in Clients |-> "idle"]
    /\ conn = [c \in Clients |-> None]
    /\ open = {}
    /\ toll = 0

Goto(c, l, k) == pc' = [pc EXCEPT ![c] = l] /\ conn' = [conn EXCEPT ![c] = k]
Return(c) == Goto(c, "idle", None)

\* A fault that may cost n Chromes.
Toll(n) == toll + n <= MaxToll /\ toll' = toll + n

\* The Chrome of connection k exits, with its pages; in remote mode it is
\* the Chrome of all connections.
Exit(k) ==
    LET gone == IF remote THEN Conns ELSE {k} IN
    /\ state' = [j \in Conns |-> IF j \in gone THEN "free" ELSE state[j]]
    /\ open' = {p \in open : p[2] \notin gone}

-----------------------------------------------------------------------------
(* Create: ensureBrowser                                                   *)

Create(c) ==
    /\ pc[c] = "idle"
    /\ Goto(c, "lock", None)
    /\ UNCHANGED <<remote, mu, shared, state, open, toll>>

Lock(c) ==
    /\ pc[c] = "lock"
    /\ mu = None
    /\ mu' = c
    /\ Goto(c, "check", None)
    /\ UNCHANGED <<remote, shared, state, open, toll>>

SharedAnswers(c) ==
    /\ pc[c] = "check"
    /\ shared # None /\ state[shared] = "up"
    /\ mu' = None
    /\ Goto(c, "page", shared)
    /\ UNCHANGED <<remote, shared, state, open, toll>>

\* Mutant of SharedStale: the replaced Chrome is closed.
StaleClosed(c) ==
    /\ pc[c] = "check"
    /\ shared # None
    /\ \/ state[shared] \in {"free", "cut"} /\ UNCHANGED <<state, open, toll>>
       \/ state[shared] = "up" /\ Toll(1) /\ Exit(shared)
    /\ shared' = None
    /\ Goto(c, "launch", None)
    /\ UNCHANGED <<remote, mu>>

\* Any error of Pages() counts as a stale connection, also that of a Chrome
\* that answers (a page closed by another client while it is listed).  The
\* old Chrome is not closed; others may have pages there.
SharedStale(c) ==
    /\ pc[c] = "check"
    /\ shared # None
    /\ \/ state[shared] \in {"free", "cut"} /\ UNCHANGED toll
       \/ state[shared] = "up" /\ Toll(1)
    /\ shared' = None
    /\ Goto(c, "launch", None)
    /\ UNCHANGED <<remote, mu, state, open>>

NoShared(c) ==
    /\ pc[c] = "check"
    /\ shared = None
    /\ Goto(c, "launch", None)
    /\ UNCHANGED <<remote, mu, shared, state, open, toll>>

\* A connection nobody refers to any more can stand for a new one; pages that
\* a lost link left open in the remote Chrome are then no longer recorded.
Fresh(k) ==
    /\ state[k] = "free" \/ (remote /\ state[k] = "cut")
    /\ k # shared
    /\ \A c \in Clients : conn[c] # k

Launched(c) ==
    LET k == CHOOSE j \in Conns : Fresh(j) IN
    /\ pc[c] = "launch"
    /\ \E j \in Conns : Fresh(j)
    /\ state' = [state EXCEPT ![k] = "cut"]
    /\ open' = {p \in open : p[2] # k}
    /\ Goto(c, "connect", k)
    /\ UNCHANGED <<remote, mu, shared, toll>>

\* No binary, no start, the caller's context done, or no answer from the
\* version endpoint.
LaunchFails(c) ==
    /\ pc[c] = "launch"
    /\ mu' = None
    /\ Return(c)
    /\ UNCHANGED <<remote, shared, state, open, toll>>

Connected(c) ==
    /\ pc[c] = "connect"
    /\ state[conn[c]] = "cut"
    /\ state' = [state EXCEPT ![conn[c]] = "up"]
    /\ Goto(c, "verify", conn[c])
    /\ UNCHANGED <<remote, mu, shared, open, toll>>

\* A local Chrome that was launched runs on.
ConnectFails(c) ==
    /\ pc[c] = "connect"
    /\ IF ~remote /\ state[conn[c]] = "cut" THEN Toll(1) ELSE UNCHANGED toll
    /\ state' = IF remote THEN [state EXCEPT ![conn[c]] = "free"] ELSE state
    /\ mu' = None
    /\ Return(c)
    /\ UNCHANGED <<remote, shared, open>>

VerifyOK(c) ==
    /\ pc[c] = "verify"
    /\ state[conn[c]] = "up"
    /\ shared' = conn[c]
    /\ mu' = None
    /\ Goto(c, "page", conn[c])
    /\ UNCHANGED <<remote, state, open, toll>>

\* Mutant of VerifyFails: without b.Close().
VerifyFailsOnly(c) ==
    /\ pc[c] = "verify"
    /\ state[conn[c]] # "hung"
    /\ mu' = None
    /\ Return(c)
    /\ UNCHANGED <<remote, shared, state, open, toll>>

\* b.Close() closes the Chrome if it can reach it, the remote one as well.
VerifyFails(c) ==
    /\ pc[c] = "verify"
    /\ \/ state[conn[c]] = "up" /\ Exit(conn[c])
       \/ state[conn[c]] \in {"free", "cut"} /\ UNCHANGED <<state, open>>
    /\ mu' = None
    /\ Return(c)
    /\ UNCHANGED <<remote, shared, toll>>

-----------------------------------------------------------------------------
(* Create: the page; its Close; HealthCheck                                *)

\* Mutant of PageOpens: p.browser read again, after the unlock.
PageOpensAnew(c) ==
    /\ pc[c] = "page"
    /\ state[conn[c]] = "up"
    /\ open' = open \cup ({<<c, shared>>} \cap (Clients \X Conns))
    /\ Goto(c, "setup", shared)
    /\ UNCHANGED <<remote, mu, shared, state, toll>>

PageOpens(c) ==
    /\ pc[c] = "page"
    /\ state[conn[c]] = "up"
    /\ open' = open \cup {<<c, conn[c]>>}
    /\ Goto(c, "setup", conn[c])
    /\ UNCHANGED <<remote, mu, shared, state, toll>>

PageFails(c) ==
    /\ pc[c] = "page"
    /\ state[conn[c]] # "hung"
    /\ Return(c)
    /\ UNCHANGED <<remote, mu, shared, state, open, toll>>

SetupDone(c) ==
    /\ pc[c] = "setup"
    /\ state[conn[c]] = "up" /\ <<c, conn[c]>> \in open
    /\ Goto(c, "held", conn[c])
    /\ UNCHANGED <<remote, mu, shared, state, open, toll>>

\* page.Close: without its link the page stays open.
ClosePage(c) ==
    /\ state[conn[c]] # "hung"
    /\ open' = IF state[conn[c]] = "up" THEN open \ {<<c, conn[c]>>} ELSE open
    /\ Return(c)
    /\ UNCHANGED <<remote, mu, shared, state, toll>>

SetupFails(c) == pc[c] = "setup" /\ ClosePage(c)
Release(c) == pc[c] = "held" /\ ClosePage(c)
ProbeCloses(c) == pc[c] = "probing" /\ ClosePage(c)

\* Without a shared browser HealthCheck returns nil at once.
HealthCheck(c) ==
    /\ pc[c] = "idle"
    /\ mu = None
    /\ shared # None
    /\ Goto(c, "probe", shared)
    /\ UNCHANGED <<remote, mu, shared, state, open, toll>>

ProbeOpens(c) ==
    /\ pc[c] = "probe"
    /\ state[conn[c]] = "up"
    /\ open' = open \cup {<<c, conn[c]>>}
    /\ Goto(c, "probing", conn[c])
    /\ UNCHANGED <<remote, mu, shared, state, toll>>

ProbeFails(c) ==
    /\ pc[c] = "probe"
    /\ state[conn[c]] # "hung"
    /\ Return(c)
    /\ UNCHANGED <<remote, mu, shared, state, open, toll>>

-----------------------------------------------------------------------------
(* Panics in Create; Close                                                 *)

\* Mutant of Panic: the unlock is not deferred.
PanicLocked(c) ==
    /\ pc[c] \in UnderMutex \cup {"page", "setup"}
    /\ Toll(IF pc[c] \in {"connect", "verify"} THEN 2 ELSE 1)
    /\ Goto(c, "recover", None)
    /\ UNCHANGED <<remote, mu, shared, state, open>>

\* The deferred unlock.  The connection being made is lost, and so will be
\* the one that is shared by the time of Recover, which another client may
\* have made in between: hence the toll of two.
Panic(c) ==
    /\ pc[c] \in UnderMutex \cup {"page", "setup"}
    /\ Toll(IF pc[c] \in {"connect", "verify"} THEN 2 ELSE 1)
    /\ mu' = IF mu = c THEN None ELSE mu
    /\ Goto(c, "recover", None)
    /\ UNCHANGED <<remote, shared, state, open>>

Recover(c) ==
    /\ pc[c] = "recover"
    /\ mu = None
    /\ shared' = None
    /\ Return(c)
    /\ UNCHANGED <<remote, mu, state, open, toll>>

\* Without a shared browser Close returns at once.
CloseLock ==
    /\ mu = None
    /\ shared # None
    /\ mu' = Closer
    /\ UNCHANGED <<remote, shared, state, pc, conn, open, toll>>

\* The local Chrome is closed; of the remote one all pages, whoever's, if
\* they can be listed.
CloseShared ==
    /\ mu = Closer
    /\ state[shared] # "hung"
    /\ \/ ~remote /\ state[shared] = "up" /\ Exit(shared)
       \/ remote /\ state[shared] = "up" /\ open' = {} /\ UNCHANGED state
       \/ (remote \/ state[shared] # "up") /\ UNCHANGED <<state, open>>
    /\ shared' = None
    /\ mu' = None
    /\ UNCHANGED <<remote, pc, conn, toll>>

-----------------------------------------------------------------------------
(* What happens to a Chrome and its link                                   *)

Crash(k) ==
    /\ state[k] # "free"
    /\ Exit(k)
    /\ UNCHANGED <<remote, mu, shared, pc, conn, toll>>

Become(k, from, to) ==
    /\ state[k] = from
    /\ state' = [state EXCEPT ![k] = to]
    /\ UNCHANGED <<remote, mu, shared, pc, conn, open>>

Cut(k) == Toll(1) /\ Become(k, "up", "cut")
Hang(k) == Become(k, "up", "hung") /\ UNCHANGED toll
Answer(k) == Become(k, "hung", "up") /\ UNCHANGED toll

-----------------------------------------------------------------------------
\* The steps of a call after its first, where it does not wait for p.mu.
GoOn(c) ==
    \/ SharedAnswers(c) \/ SharedStale(c) \/ NoShared(c)
    \/ LaunchFails(c) \/ Launched(c)
    \/ Connected(c) \/ ConnectFails(c)
    \/ VerifyOK(c) \/ VerifyFails(c)
    \/ PageOpens(c) \/ PageFails(c)
    \/ SetupDone(c) \/ SetupFails(c)
    \/ ProbeOpens(c) \/ ProbeFails(c) \/ ProbeCloses(c)

ClientStep(c) ==
    \/ Create(c) \/ HealthCheck(c)
    \/ Lock(c) \/ GoOn(c)
    \/ Release(c)
    \/ Panic(c) \/ Recover(c)

Environment == \E k \in Conns : Crash(k) \/ Cut(k) \/ Hang(k) \/ Answer(k)

Next ==
    \/ \E c \in Clients : ClientStep(c)
    \/ CloseLock
    \/ CloseShared
    \/ Environment

Spec == Init /\ [][Next]_vars

\* Goroutines that can run do run, requests to a Chrome that is not silent
\* are answered, and the mutex lets everybody in who waits (SF).  Nobody has
\* to call Create, HealthCheck or Close, or to close a page.
FairSpec ==
    /\ Spec
    /\ \A c \in Clients : SF_vars(Lock(c)) /\ SF_vars(Recover(c)) /\ WF_vars(GoOn(c))
    /\ WF_vars(CloseShared)

-----------------------------------------------------------------------------
(* Properties                                                              *)

\* Chromes that run and that no call and no Close will ever reach.
Orphans ==
    {k \in Conns : /\ state[k] # "free"
                   /\ k # shared
                   /\ \A c \in Clients : ~(pc[c] \in {"connect", "verify"} /\ conn[c] = k)}

\* Pages of the shared Chrome that nobody uses and nobody will close.
Strays ==
    {c \in Clients : /\ <<c, shared>> \in open
                     /\ ~(pc[c] \in HasPage /\ conn[c] = shared)}

\* Whatever calls overlap, a local Chrome is left running without a reference
\* only by a fault (a lost link, a panic, an error of Pages), one for each,
\* or two if the panic hit between launch and hand-over; and a page is left
\* open in the shared Chrome only by a fault.
LeaksPaidFor ==
    /\ ~remote => Cardinality(Orphans) <= toll
    /\ shared # None /\ state[shared] = "up" => Cardinality(Strays) <= toll

\* c holds a page that works.
Works(c) == pc[c] = "held" /\ state[conn[c]] = "up" /\ <<c, conn[c]>> \in open

\* No call of another client, failing, recovering from a panic or replacing
\* the shared browser, takes a client's page away: only Provider.Close does,
\* and the failed check of a new connection to the remote Chrome.
OthersUndisturbed ==
    [][\A d \in Clients : ClientStep(d) /\ ~(remote /\ VerifyFails(d)) =>
          \A c \in Clients \ {d} : Works(c) => Works(c)']_vars

\* Unless Chromes go on being silent, every Create and every HealthCheck
\* returns, whoever panics, fails or closes the provider meanwhile.
CallsReturn ==
    <>[](\A k \in Conns : state[k] # "hung") =>
        \A c \in Clients : pc[c] \notin {"idle", "held"} ~> pc[c] \in {"idle", "held"}

=============================================================================
