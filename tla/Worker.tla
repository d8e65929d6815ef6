------------------------------- MODULE Worker -------------------------------
(***************************************************************************)
(* Fetching: Pool.FetchWithFallback and tryFetch, as a batch run of Worker *)
(* and callers of Fetcher.Fetch use them.                                  *)
(*                                                                         *)
(* The pool is what BrowserLease says of it.  A task has one goroutine,    *)
(* started by Run's loop, which waits for a slot of the semaphore, tries   *)
(* the types of its chain one after the other and writes its own result.   *)
(* The context of Run can be cancelled at any time.  One run is modelled;  *)
(* every run has its own semaphore, wait group and results.                *)
(***************************************************************************)
EXTENDS Naturals, FiniteSets, Sequences, SequencesExt

CONSTANTS NumTasks,     \* len(tasks)
          TaskChain,    \* Task.Chain of each task
          Concurrency,  \* WorkerConfig.Concurrency, as NewWorker leaves it
          Fetchers,     \* goroutines that call Fetch, once each
          Fallback,     \* Fetcher.fallback, as NewFetcher leaves it
          Types,
          Registered,   \* the types the pool has a provider for
          Browsers, Capacity, Shelf, None

Tasks == 1 .. NumTasks
Goroutines == Tasks \cup Fetchers

ASSUME WorkerAssumption ==
    /\ NumTasks \in Nat
    /\ TaskChain \in [Tasks -> Seq(Types)]
    /\ Concurrency \in Nat \ {0}
    /\ Registered \subseteq Types
    /\ Fallback \in Seq(Registered)
    /\ IsFiniteSet(Fetchers) /\ Fetchers \cap Tasks = {}
    /\ Shelf # None /\ {Shelf, None} \cap Goroutines = {}
    /\ None \notin Types \cup {"cancelled", "failed", "ok"}

VARIABLES
    \* Worker.Run
    ctxDone,   \* the context of Run is cancelled
    run,       \* where Run is
    next,      \* i, the task the loop has come to
    sem,       \* len(sem)
    wg,        \* the counter of the wait group
    results,   \* results, and what Fetch returned
    reported,  \* what OnResult was called with
    \* FetchWithFallback, for each goroutine
    pc,
    chain,     \* the types to try
    at,        \* i, the attempt it has come to
    last,      \* how this attempt ended; "none" until tryFetch returns
    attempts,  \* FetchResult.Attempts, their types
    \* shared
    primary,   \* Fetcher.primary
    count,     \* Metrics: FetchTotal, FetchSuccess, FetchFallback, FetchAllFail
    closed,    \* Pool.closed
    holder, shut   \* the pool: see BrowserLease

dispatcher == <<run, next>>
fetch == <<pc, chain, at, last, attempts>>
pool == <<closed, holder, shut>>
vars == <<dispatcher, ctxDone, sem, wg, results, reported, fetch, primary, count, pool>>

Lease == INSTANCE BrowserLease WITH Clients <- Goroutines, Absent <- None

\* How an attempt ends: without a browser, which is also the value of an attempt
\* that is not over; with a connection error; another error; a page the detector
\* takes for a block; the page.
Outcomes == {"none", "broken", "error", "blocked", "ok"}

PC == {"idle",     \* not started
       "sem",      \* at executeTask's select
       "acquire",  \* at the head of the loop over the chain
       "try",      \* tryFetch
       "release",  \* tryFetch has returned
       "report",   \* the result is written
       "slot",     \* about to give back the slot of the semaphore
       "leave",    \* about to leave the wait group
       "done"}

\* In the wait group; in possession of a slot; in FetchWithFallback.
Alive == {t \in Tasks : pc[t] \notin {"idle", "done"}}
InSlot == {t \in Tasks : pc[t] \in {"acquire", "try", "release", "report", "slot"}}
Fetching == {g \in Goroutines : pc[g] \in {"acquire", "try", "release"}}

TypeOK ==
    /\ ctxDone \in BOOLEAN
    /\ run \in {"loop", "limit", "wait", "returned"}
    /\ next \in 1 .. NumTasks + 1
    /\ sem \in 0 .. Concurrency
    /\ wg \in 0 .. NumTasks
    /\ results \in [Goroutines -> {None, "cancelled", "failed", "ok"}]
    /\ reported \in [Tasks -> {None, "failed", "ok"}]
    /\ pc \in [Goroutines -> PC]
    /\ chain \in [Goroutines -> Seq(Types)]
    /\ at \in [Goroutines -> Nat \ {0}]
    /\ last \in [Goroutines -> Outcomes]
    /\ attempts \in [Goroutines -> Seq(Types)]
    /\ primary \in Types
    /\ count \in [total : Nat, success : Nat, fallback : Nat, allFail : Nat]
    /\ closed \in BOOLEAN
    /\ holder \in [Browsers -> Goroutines \cup {Shelf, None}]
    /\ shut \in BOOLEAN

\* NewFetcher has refused an unregistered primary, and dropped unregistered
\* types from the fallback.
Init ==
    /\ ctxDone \in BOOLEAN
    /\ run = "loop" /\ next = 1
    /\ sem = 0 /\ wg = 0
    /\ results = [g \in Goroutines |-> None]
    /\ reported = [t \in Tasks |-> None]
    /\ pc = [g \in Goroutines |-> "idle"]
    /\ chain = [g \in Goroutines |-> IF g \in Tasks THEN TaskChain[g] ELSE <<>>]
    /\ at = [g \in Goroutines |-> 1]
    /\ last = [g \in Goroutines |-> "none"]
    /\ attempts = [g \in Goroutines |-> <<>>]
    /\ primary \in Registered
    /\ count = [total |-> 0, success |-> 0, fallback |-> 0, allFail |-> 0]
    /\ closed = FALSE
    /\ Lease!Init

-----------------------------------------------------------------------------
(* Run                                                                     *)

\* wg.Add(1); go executeTask(...)
Spawn ==
    /\ wg' = wg + 1
    /\ pc' = [pc EXCEPT ![next] = "sem"]
    /\ next' = next + 1
    /\ run' = "loop"
    /\ UNCHANGED <<ctxDone, sem, results, reported, chain, at, last, attempts,
                   primary, count, pool>>

\* Whether there is a limiter is left open at each task: StartTask without one,
\* AwaitTick with one.  Both kinds of run are among the behaviours.
StartTask ==
    /\ run = "loop" /\ next <= NumTasks
    /\ ~ctxDone
    /\ Spawn

AwaitTick ==
    /\ run = "loop" /\ next <= NumTasks
    /\ ~ctxDone
    /\ run' = "limit"
    /\ UNCHANGED <<ctxDone, next, sem, wg, results, reported, fetch, primary,
                   count, pool>>

\* The limiter's channel delivers a tick.
StartTaskAtTick ==
    /\ run = "limit"
    /\ Spawn

\* Mutant of SkipTask: the loop goes on without a result.
SkipSilently ==
    /\ run = "limit" /\ ctxDone
    /\ next' = next + 1
    /\ run' = "loop"
    /\ UNCHANGED <<ctxDone, sem, wg, results, reported, fetch, primary, count,
                   pool>>

\* The select takes ctx.Done(): the task is given up, and the loop goes on.
SkipTask ==
    /\ run = "limit" /\ ctxDone
    /\ results' = [results EXCEPT ![next] = "cancelled"]
    /\ next' = next + 1
    /\ run' = "loop"
    /\ UNCHANGED <<ctxDone, sem, wg, reported, fetch, primary, count, pool>>

\* Mutant of CancelRest: the inner loop begins at the first task.
CancelAll ==
    /\ run = "loop" /\ next <= NumTasks /\ ctxDone
    /\ results' = [g \in Goroutines |-> IF g \in Tasks THEN "cancelled" ELSE results[g]]
    /\ run' = "wait"
    /\ UNCHANGED <<ctxDone, next, sem, wg, reported, fetch, primary, count, pool>>

CancelRest ==
    /\ run = "loop" /\ next <= NumTasks /\ ctxDone
    /\ results' = [g \in Goroutines |->
                      IF g \in next .. NumTasks THEN "cancelled" ELSE results[g]]
    /\ run' = "wait"
    /\ UNCHANGED <<ctxDone, next, sem, wg, reported, fetch, primary, count, pool>>

LoopDone ==
    /\ run = "loop" /\ next > NumTasks
    /\ run' = "wait"
    /\ UNCHANGED <<ctxDone, next, sem, wg, results, reported, fetch, primary,
                   count, pool>>

Return ==
    /\ run = "wait" /\ wg = 0
    /\ run' = "returned"
    /\ UNCHANGED <<ctxDone, next, sem, wg, results, reported, fetch, primary,
                   count, pool>>

Cancel ==
    /\ ctxDone' = TRUE
    /\ UNCHANGED <<dispatcher, sem, wg, results, reported, fetch, primary, count, pool>>

-----------------------------------------------------------------------------
(* executeTask                                                             *)

\* Mutant of TakeSlot: the semaphore has one slot too many.
TakeOneMore(t) ==
    /\ pc[t] = "sem" /\ sem <= Concurrency
    /\ sem' = sem + 1
    /\ pc' = [pc EXCEPT ![t] = "acquire"]
    /\ count' = [count EXCEPT !.total = @ + 1]
    /\ UNCHANGED <<dispatcher, ctxDone, wg, results, reported, chain, at, last, attempts,
                   primary, pool>>

\* The task has a slot and enters FetchWithFallback.
TakeSlot(t) ==
    /\ pc[t] = "sem" /\ sem < Concurrency
    /\ sem' = sem + 1
    /\ pc' = [pc EXCEPT ![t] = "acquire"]
    /\ count' = [count EXCEPT !.total = @ + 1]
    /\ UNCHANGED <<dispatcher, ctxDone, wg, results, reported, chain, at, last, attempts,
                   primary, pool>>

\* The select may take this case although a slot is free.
GiveUp(t) ==
    /\ pc[t] = "sem" /\ ctxDone
    /\ results' = [results EXCEPT ![t] = "cancelled"]
    /\ pc' = [pc EXCEPT ![t] = "leave"]
    /\ UNCHANGED <<dispatcher, ctxDone, sem, wg, reported, chain, at, last, attempts, primary,
                   count, pool>>

\* Mutant of Report: OnResult is called only for a page.
ReportPages(t) ==
    /\ pc[t] = "report"
    /\ reported' = [reported EXCEPT ![t] = IF results[t] = "ok" THEN "ok" ELSE @]
    /\ pc' = [pc EXCEPT ![t] = "slot"]
    /\ UNCHANGED <<dispatcher, ctxDone, sem, wg, results, chain, at, last, attempts, primary,
                   count, pool>>

\* OnResult(idx, results[idx])
Report(t) ==
    /\ pc[t] = "report"
    /\ reported' = [reported EXCEPT ![t] = results[t]]
    /\ pc' = [pc EXCEPT ![t] = "slot"]
    /\ UNCHANGED <<dispatcher, ctxDone, sem, wg, results, chain, at, last, attempts, primary,
                   count, pool>>

\* Mutant of LeaveSlot: the slot is not given back.
KeepSlot(t) ==
    /\ pc[t] = "slot"
    /\ pc' = [pc EXCEPT ![t] = "leave"]
    /\ UNCHANGED <<dispatcher, ctxDone, sem, wg, results, reported, chain, at, last, attempts,
                   primary, count, pool>>

\* The deferred calls run in reverse order: first the slot, then the group.
LeaveSlot(t) ==
    /\ pc[t] = "slot"
    /\ sem' = sem - 1
    /\ pc' = [pc EXCEPT ![t] = "leave"]
    /\ UNCHANGED <<dispatcher, ctxDone, wg, results, reported, chain, at, last, attempts,
                   primary, count, pool>>

LeaveGroup(t) ==
    /\ pc[t] = "leave"
    /\ wg' = wg - 1
    /\ pc' = [pc EXCEPT ![t] = "done"]
    /\ UNCHANGED <<dispatcher, ctxDone, sem, results, reported, chain, at, last, attempts,
                   primary, count, pool>>

-----------------------------------------------------------------------------
(* Fetcher                                                                 *)

\* buildChain: the override alone, or the primary and then the fallback.
FetchChain(override) ==
    IF override # None THEN <<override>>
    ELSE <<primary>> \o Fallback

Fetch(f) ==
    /\ pc[f] = "idle"
    /\ \E override \in Types \cup {None} : chain' = [chain EXCEPT ![f] = FetchChain(override)]
    /\ pc' = [pc EXCEPT ![f] = "acquire"]
    /\ count' = [count EXCEPT !.total = @ + 1]
    /\ UNCHANGED <<dispatcher, ctxDone, sem, wg, results, reported, at, last, attempts,
                   primary, pool>>

\* Nobody asks whether t is registered.
SetPrimary(t) ==
    /\ primary' = t
    /\ UNCHANGED <<dispatcher, ctxDone, sem, wg, results, reported, fetch, count, pool>>

-----------------------------------------------------------------------------
(* FetchWithFallback                                                       *)

\* The attempt of g is over without a page: on to the next type.
NextType(g) ==
    /\ last' = [last EXCEPT ![g] = "none"]
    /\ attempts' = [attempts EXCEPT ![g] = Append(@, chain[g][at[g]])]
    /\ at' = [at EXCEPT ![g] = @ + 1]
    /\ pc' = [pc EXCEPT ![g] = "acquire"]

\* FetchWithFallback returns, and executeTask writes the result.
Deliver(g, r) ==
    /\ results' = [results EXCEPT ![g] = r]
    /\ pc' = [pc EXCEPT ![g] = IF g \in Tasks THEN "report" ELSE "done"]

\* Lent from the shelf or created; a call that was past the test of closed
\* when the pool was closed may still succeed.
AcquireOK(g) ==
    /\ pc[g] = "acquire" /\ at[g] \in DOMAIN chain[g]
    /\ chain[g][at[g]] \in Registered
    /\ \E b \in Browsers : Lease!Issue(g, b) \/ Lease!Lease(g, b)
    /\ pc' = [pc EXCEPT ![g] = "try"]
    /\ UNCHANGED <<dispatcher, ctxDone, sem, wg, results, reported, chain, at, last, attempts,
                   primary, count, closed>>

\* Mutant of AcquireFails: the failed attempt is not recorded.
AcquireFailsUnrecorded(g) ==
    /\ pc[g] = "acquire" /\ at[g] \in DOMAIN chain[g]
    /\ at' = [at EXCEPT ![g] = @ + 1]
    /\ UNCHANGED <<dispatcher, ctxDone, sem, wg, results, reported, pc, chain, last,
                   attempts, primary, count, pool>>

\* Pool closed, no provider, creation failed, or the context ended.
AcquireFails(g) ==
    /\ pc[g] = "acquire" /\ at[g] \in DOMAIN chain[g]
    /\ NextType(g)
    /\ UNCHANGED <<dispatcher, ctxDone, sem, wg, results, reported, chain, primary, count, pool>>

TryFetch(g) ==
    /\ pc[g] = "try"
    /\ \E o \in Outcomes \ {"none"} : last' = [last EXCEPT ![g] = o]
    /\ pc' = [pc EXCEPT ![g] = "release"]
    /\ UNCHANGED <<dispatcher, ctxDone, sem, wg, results, reported, chain, at, attempts,
                   primary, count, pool>>

\* Release(b, attempt.Err): after a connection error, and when the pool is
\* closed, the browser is closed; else it is put back.
Release(g) ==
    \E b \in Browsers :
        /\ holder[b] = g
        /\ IF closed \/ last[g] = "broken" THEN Lease!Destroy(b) ELSE Lease!Shelve(g, b)

\* Mutant of ReleaseAndGoOn: a blocked attempt goes on before the release.
BlockedKeepsBrowser(g) ==
    /\ pc[g] = "release" /\ last[g] # "ok"
    /\ IF last[g] = "blocked" THEN UNCHANGED <<holder, shut>> ELSE Release(g)
    /\ NextType(g)
    /\ UNCHANGED <<dispatcher, ctxDone, sem, wg, results, reported, chain, primary, count,
                   closed>>

ReleaseAndGoOn(g) ==
    /\ pc[g] = "release" /\ last[g] # "ok"
    /\ Release(g)
    /\ NextType(g)
    /\ UNCHANGED <<dispatcher, ctxDone, sem, wg, results, reported, chain, primary, count,
                   closed>>

\* Mutant of ReleaseAndReturn: every page counts as a fallback.
CountAlways(g) ==
    /\ pc[g] = "release" /\ last[g] = "ok"
    /\ Release(g)
    /\ attempts' = [attempts EXCEPT ![g] = Append(@, chain[g][at[g]])]
    /\ count' = [count EXCEPT !.success = @ + 1, !.fallback = @ + 1]
    /\ Deliver(g, "ok")
    /\ UNCHANGED <<dispatcher, ctxDone, sem, wg, reported, chain, at, last, primary, closed>>

ReleaseAndReturn(g) ==
    /\ pc[g] = "release" /\ last[g] = "ok"
    /\ Release(g)
    /\ attempts' = [attempts EXCEPT ![g] = Append(@, chain[g][at[g]])]
    /\ count' = [count EXCEPT !.success = @ + 1, !.fallback = IF at[g] > 1 THEN @ + 1 ELSE @]
    /\ Deliver(g, "ok")
    /\ UNCHANGED <<dispatcher, ctxDone, sem, wg, reported, chain, at, last, primary, closed>>

\* The chain is exhausted: ErrAllBlocked, whatever the attempts ended with.
AllFailed(g) ==
    /\ pc[g] = "acquire" /\ at[g] \notin DOMAIN chain[g]
    /\ count' = [count EXCEPT !.allFail = @ + 1]
    /\ Deliver(g, "failed")
    /\ UNCHANGED <<dispatcher, ctxDone, sem, wg, reported, chain, at, last, attempts, primary,
                   pool>>

-----------------------------------------------------------------------------
(* The pool's own steps                                                    *)

SetClosed ==
    /\ ~closed
    /\ closed' = TRUE
    /\ UNCHANGED <<dispatcher, ctxDone, sem, wg, results, reported, fetch, primary, count,
                   holder, shut>>

\* A provider's Close may end browsers that are in hand: an attempt may end in
\* a connection error at any time.
Drain ==
    /\ closed
    /\ Lease!ShutDown
    /\ UNCHANGED <<dispatcher, ctxDone, sem, wg, results, reported, fetch, primary, count,
                   closed>>

\* An idle browser is evicted, or fails its ping.
Discard ==
    /\ \E b \in Browsers : holder[b] = Shelf /\ Lease!Destroy(b)
    /\ UNCHANGED <<dispatcher, ctxDone, sem, wg, results, reported, fetch, primary, count,
                   closed>>

-----------------------------------------------------------------------------
RunStep ==
    \/ StartTask \/ AwaitTick \/ StartTaskAtTick
    \/ SkipTask \/ CancelRest \/ LoopDone \/ Return

FetchStep(g) ==
    \/ AcquireOK(g) \/ AcquireFails(g) \/ TryFetch(g)
    \/ ReleaseAndGoOn(g) \/ ReleaseAndReturn(g) \/ AllFailed(g)

TaskStep(t) ==
    \/ TakeSlot(t) \/ GiveUp(t) \/ FetchStep(t)
    \/ Report(t) \/ LeaveSlot(t) \/ LeaveGroup(t)

Next ==
    \/ RunStep \/ Cancel
    \/ \E t \in Tasks : TaskStep(t)
    \/ \E f \in Fetchers : Fetch(f) \/ FetchStep(f)
    \/ \E t \in Types : SetPrimary(t)
    \/ SetClosed \/ Drain \/ Discard

Spec == Init /\ [][Next]_vars

\* Run's goroutines go on, and the ticker ticks.  TaskStep includes the assumption
\* that Acquire returns and that a browser's calls heed their context.
\* Fetchers need not be fair: nobody waits for them alone.
FairSpec ==
    /\ Spec
    /\ WF_vars(RunStep)
    /\ \A t \in Tasks : WF_vars(TaskStep(t))

-----------------------------------------------------------------------------
(* Properties                                                              *)

\* Never more than Concurrency tasks are between the two ends of
\* executeTask's semaphore, and the channel's length is their number.
ConcurrencyRespected ==
    /\ sem = Cardinality(InSlot)
    /\ sem <= Concurrency

\* FetchWithFallback holds one browser while it tries a type and none at any
\* other time: each is released before the next one is acquired, on all paths.
OneBrowserEach ==
    \A g \in Goroutines :
        LET mine == {b \in Browsers : holder[b] = g}
        IN  IF pc[g] \in {"try", "release"} THEN \E b \in mine : mine = {b}
            ELSE mine = {}

\* When Run returns, every task has its result, no goroutine of it is left,
\* and none has left a browser behind, however the cancellation fell.
ResultsComplete ==
    run = "returned" => \A t \in Tasks :
        /\ results[t] # None
        /\ pc[t] \in {"idle", "done"}
        /\ \A b \in Browsers : holder[b] # t

\* A result once written is not overwritten, neither by the loop that fills in
\* the cancelled tasks nor by another goroutine.
ResultsFinal ==
    [][\A g \in Goroutines : results[g] # None => results'[g] = results[g]]_vars

\* OnResult is called with the result that Run returns, and for every task that
\* was carried out; for a cancelled one it is not called.
ReportsMatch ==
    \A t \in Tasks :
        /\ reported[t] \in {None, results[t]}
        /\ run = "returned" /\ reported[t] = None => results[t] = "cancelled"

\* The attempts of a result are the types of the chain, in order, up to the one
\* that brought the page; all of them if none did.
AttemptsFollowChain ==
    \A g \in Goroutines :
        /\ IsPrefix(attempts[g], chain[g])
        /\ results[g] = "ok" => last[g] = "ok" /\ Len(attempts[g]) = at[g]
        /\ results[g] = "failed" => last[g] # "ok" /\ attempts[g] = chain[g]

\* The metrics agree with the fetches: each counts once, as a success or a
\* failure, when it is over, and as a fallback if its first type failed.
CountsAddUp ==
    LET With(r) == {g \in Goroutines : results[g] = r}
    IN  /\ count.total = count.success + count.allFail + Cardinality(Fetching)
        /\ count.success = Cardinality(With("ok"))
        /\ count.allFail = Cardinality(With("failed"))
        /\ count.fallback = Cardinality({g \in With("ok") : Len(attempts[g]) > 1})

\* What the proofs need besides.  The loop has been where there is a goroutine
\* or a cancelled result, and nowhere else.
DispatchState ==
    /\ run = "limit" => next <= NumTasks
    /\ \A t \in Tasks :
          IF run \in {"loop", "limit"} /\ next <= t
          THEN pc[t] = "idle" /\ results[t] = None
          ELSE pc[t] = "idle" => results[t] = "cancelled"

\* The wait group counts the goroutines that are left, and Run waits for it.
GroupState ==
    /\ wg = Cardinality(Alive)
    /\ run = "returned" => Alive = {}

\* A task's result and what was reported of it agree with its place.
TaskState ==
    \A t \in Tasks :
        /\ pc[t] = "idle" => results[t] \in {None, "cancelled"}
        /\ pc[t] \in {"sem", "acquire", "try", "release"} => results[t] = None
        /\ pc[t] \in {"report", "slot"} => results[t] \in {"failed", "ok"}
        /\ pc[t] \in {"leave", "done"} => results[t] # None
        /\ reported[t] = IF pc[t] \in {"slot", "leave", "done"} /\ results[t] # "cancelled"
                         THEN results[t] ELSE None
FetcherState ==
    \A f \in Fetchers :
        /\ pc[f] \in {"idle", "acquire", "try", "release", "done"}
        /\ results[f] \in IF pc[f] = "done" THEN {"failed", "ok"} ELSE {None}

\* The attempts recorded are those before the one it has come to.
AttemptState ==
    \A g \in Goroutines :
        /\ pc[g] \in {"idle", "sem"} => at[g] = 1 /\ attempts[g] = <<>> /\ last[g] = "none"
        /\ pc[g] \in {"acquire", "try", "release"} => Len(attempts[g]) = at[g] - 1
        /\ pc[g] \in {"try", "release"} => at[g] \in DOMAIN chain[g]
        /\ pc[g] = "acquire" => last[g] = "none"

\* The inductive invariant.
IInv ==
    /\ TypeOK
    /\ ConcurrencyRespected /\ OneBrowserEach /\ AttemptsFollowChain /\ CountsAddUp
    /\ DispatchState /\ GroupState /\ TaskState /\ FetcherState /\ AttemptState

\* Run returns.
RunReturns == <>(run = "returned")

=============================================================================
