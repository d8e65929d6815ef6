# A TLA+ model of gox-browser

gox-browser lends headless browsers to concurrent scrapers: a pool, providers
that create browsers (local Chrome, a Browserless cluster, a TLS-impersonating
HTTP client), a fetcher that falls back from one browser type to the next, a
batch worker, and an artifact store.  This directory models the parts whose
correctness depends on how goroutines, failures and timeouts interleave, checks
them with TLC and proves the main safety properties with TLAPS.

## 1. Inventory

| Part | State | Operations | Works with | What is hard, what must hold |
|---|---|---|---|---|
| Instance pool, `browser/pool.go` | idle stacks per type, `inUse`, `total`, `closed`, one mutex | `Register`, `Acquire` (+ `waitForInstance`), `Release`, `Close`, `evictIdle` in its own goroutine, `Stats` | calls `Provider.Create`, `Browser.Title` (ping), `Browser.Close` | creation outside the mutex, pings and closes inside it, hand-written unlocks, Close racing everything: at most `MaxInstances` browsers, exact counters, no double lease, no leak, every call ends |
| Browserless provider and router, `browser/browserless/` | health and load records under an RWMutex, atomic `rrIndex`, `stopCh` | `Pick` (least-load, round-robin), `Create`, `MarkUnhealthy`, `HealthCheckAll`, `Stop`, health loop | remote endpoints over HTTP and CDP; the pool calls `Create` | picks concurrent under a read lock, marks based on old information, a sweep that holds the write lock over I/O and shares one timeout: picks find healthy endpoints, records recover |
| Fetch with fallback, `pool.go:257-357`, `fetcher.go` | the chain, `primary` under an RWMutex | `FetchWithFallback`, `tryFetch`, `Fetch`, `SetPrimary`, `Detect` | pool, detector, metrics | every acquired browser released once and with the right error, attempts in chain order |
| Worker, `worker.go` | semaphore, one result slot per task | `Run`, `executeTask` | fetch | cancellation at any point, one result per task in its place, no more than `Concurrency` at once |
| Rod provider, `browser/rod/` | the shared Chrome connection under a mutex | `Create` with recover, `ensureBrowser`, `HealthCheck`, `Close`, the page's `Close` | Chrome, local or remote; the pool calls `Create` and, in its own `Close`, `Close` | launch, connect and check under the mutex, the page after the unlock, a recover that clears what others share: faults cost no more than one Chrome each, nobody's page is taken away, calls return |
| Artifact store, `artifact/` | files of the backend, entries in memory | `Put`, `PutReader`, `Finalize`, `LoadIndex`, `Find`, reads | file system or S3 | store-then-record beside `Finalize`, failures between the two, files written in place, restarts, references as paths: keys stay in their namespace, what is recorded exists, checksums are right |
| Metrics, `metrics.go` | atomic counters, latency window of 1000 | `Record*`, `Snapshot` | pool, fetch | a snapshot is not atomic; the counters agree with the results |
| Detector and navigation, `detector.go`, `navigate.go`; `browserless/browser.go` | the isolated world of a browserless page | `NavigateAndCheck`, `CheckWAF`, `Detect`; `Navigate`, `Eval` | a browser of any kind; fetch | the page replaces itself under the call, errors count as clean, markup and title are two reads: success means no block page, a reported block was shown |
| Fingerprints, evasion scripts | none | random choice of constants | providers | |
| Surf provider, `browser/surf/` | none | `Create`, HTTP requests | pool, navigation | its `Title` and `Eval` are unsupported, which the ping and `CheckWAF` meet |
| `browser/stealthtest` | none | tests against live sites | | not modelled |

The order in which these matter: the pool is used by everything and is where
all interleavings meet; the router decides whether a cluster with one bad
node still works; fetch and worker combine the pool's operations; the rod
provider and the artifact store are independent of both, and navigation is what
happens inside a lease.

## 2. Modules

    BrowserLease  <--implements--  Pool    <--extends--  MCPool, PoolProofs
    BrowserLease  <--uses--------  Worker  <--extends--  MCWorker, WorkerProofs
                                   Router  <--extends--  MCRouter, RouterProofs
                                   RodProvider <--extends-- RodProviderProofs
                                   Artifact    <--extends--  MCArtifact, ArtifactProofs
                                   Navigation  <--extends--  MCNavigation, NavigationProofs

`RouterProofs` and `ArtifactProofs` also extend `Induction` (section 5).

### BrowserLease
What the pool promises: a browser is absent, on the shelf or leased to one
client, there are at most `Capacity`, and after shutdown nothing is shelved.

### Pool
`browser/pool.go`.  A client is a goroutine that acquires, uses and releases.
One action is one stretch of code between two points where others can get in:
taking or releasing the mutex, or an unlocked call.

| Code | Actions |
|---|---|
| `Acquire`: test of `closed` | `Acquire`, `AcquireClosed` |
| lock, look up the provider | `LockForScan`, `ProviderNotFound` |
| loop over idle instances (ping, take or discard) | `Reuse`, `Discard` |
| room: reserve and unlock; no room: unlock and wait | `Reserve`, `PoolFull` |
| `provider.Create`, and the books if it fails | `CreateOK`, `CreateFails`, `UndoReserve` |
| `waitForInstance` | `WaitTimeout`, `WaitTick`, then `Reuse`/`Discard`, `WaitAgain` |
| `Release` | `ReleaseClosed`; `ReleaseBroken`, `Retire`; `ReleaseHealthy`, `Return`, `ReturnPanics` |
| `healthCheckLoop`, `evictIdle` | `EvictLock`, `Evict`, `EvictDone` |
| `Close` | `SetClosed`, `Drain` |
| environment | `Cancel` (contexts), `Break` (browsers), `Tick` (idle clock) |

`page[b]` is what a browser really is: closed; live; dead, which means that
it no longer answers but still occupies its tab or process; or gone, when its
provider has ended the page or the Chrome under it and nobody has called its
`Close`.  `Drain` is all that `Close` does under the mutex: it closes the idle
instances, sets `instances` to nil and calls every provider's `Close`
(`pool.go:247-251`).  What that does is the provider's: browserless's and surf's
end no browser, rod's closes the shared Chrome or, remotely, all its pages
(`rod/provider.go:292-318`), those that clients work with included.  `Hosted` is
the set of types whose providers do.  `Drain` ends any of the browsers of these
types that are in hand, since rod ignores errors there and may by then drive another
Chrome than theirs.  A creation that was under way may still succeed; a browser that
the provider ended just before is then one that `Break`s at once.  `age` is the time
since `lastUsed`, saturated just above `IdleTimeout`.  `drained` says that
`Close` has set `instances` to nil.  A write to the nil map panics: the client
ends in `panicked` with its browser in hand (in a program without recover, the
process ends).

Left out: metrics and logs; `HasProvider` and `Stats`, which only read;
registering a second provider for a type, which changes no behaviour here;
errors of `Browser.Close` and of a provider's `Close`, which the pool ignores: a
close of a browser always frees; when a provider's `Close` does not return, which is
RodProvider's part.
Browser identities are recycled once closed.  `Release` files a browser under
its own type; all providers create browsers of the type asked for, so the model
uses the client's `want`.  Which error a release reports does not depend on the
state of the browser: a dead one may come back as healthy, and a live one be
reported broken.  A caller keeps the contract and releases once.

### Router
`browser/browserless/router.go` and the provider's `Create`.  The RWMutex is
modelled as Go's: `writer` is whoever holds the write lock or waits for the
readers to leave, and from then on no reader enters.  A least-load pick only
reads under the read lock and is one step (`PickLeastLoad`; `Best[n]` is what its
loop has found after n endpoints); a round-robin pick draws one index per step (`EnterRoundRobin`,
`TakeDrawn`, `SkipDrawn`, `FallBack`), so that concurrent picks interleave.
`rrIndex` is kept modulo the number of endpoints; its wrap at 2^64 is left out.
Then `CapacityOK`/`CapacityFails` (`CheckCapacity`, under the caller's context),
`ConnectFails`/`CreateReturns` (connection and page), `LockForMark` and
`MarkUnhealthy`.  A sweep is `SweepBegin`, then one `ProbeAnswered` or
`ProbeFails` per endpoint; the health loop and a caller of
`Provider.HealthCheck` both sweep, with a shared 5 s budget in the first case
and a context that may be cancelled (`SweepCancelled`) in the second.

An endpoint is up, down (full, or out of order) or hung: it accepts a
connection and never answers.  `Url` is the base URL without its token, so two
endpoints may have the same: `MarkUnhealthy` marks the first.  `crossed` is a
ghost variable: another pick drew an index during this one.  Left out: weights,
which nothing reads; the connection that `Create` leaves open when the page
cannot be set up (see the hazards).

### Worker
`browser/worker.go`, `browser/fetcher.go` and the second half of `browser/pool.go`.
The pool is what BrowserLease says of it, which `Pool` implements, so that a
fetch meets any pool the lease allows: `AcquireOK` is `Issue` or `Lease`,
`Release` is `Shelve` or `Destroy`, and other users, evictions and Close are
`Discard`, `SetClosed` and `Drain`.

| Code | Actions |
|---|---|
| `Run`, loop over the tasks | `StartTask`; with a limiter `AwaitTick`, then `StartTaskAtTick` or `SkipTask`; `CancelRest` when the context is done at the head of the loop; `LoopDone` |
| `Run`, `wg.Wait()` | `Return` |
| `executeTask` | `TakeSlot` or `GiveUp` at the select; then the fetch; `Report`, `LeaveSlot`, `LeaveGroup` |
| `Fetch`, `buildChain`, `SetPrimary` | `Fetch`, `FetchChain`, `SetPrimary` |
| `FetchWithFallback` | per type of the chain `AcquireOK`/`AcquireFails`, `TryFetch`, `ReleaseAndGoOn`/`ReleaseAndReturn`; `AllFailed` at its end |
| environment | `Cancel` |

`Fetchers` are goroutines that call `Fetcher.Fetch` once, at any time; the tasks
are those of one `Run`, since every run has its own semaphore, group and results.
Whether there is a limiter is decided at each task, which covers runs with and
without one.  `last` is how an attempt ended: a connection error, another error,
a verdict of the detector, or the page; the detector and the browser may answer
anything.  `results` holds which of the three ends a task came to, as the
results' other fields play no part in control.  `count` is four of the metrics.

Left out: which type a browser of the lease has (two goroutines that try
different types may be lent the same browser in turn, which the pool never
does; no property speaks of it); browsers that the pool's `Close` ends in a
fetch's hands, other than as an attempt that fails; the panic of a release that meets `Close`
(`pool_close_race` shows it); a release and the counting after it are one step.
Durations, URLs and error texts are left out, and `OnResult` is taken to be set.

### RodProvider
`browser/rod/provider.go` and the page's `Close`.  `remote` says whether
`RemoteURL` is set.  A connection of `Conns` is a `*rod.Browser`; in local mode each
has a Chrome of its own, launched for it, and in remote mode all lead to one
Chrome.

| Code | Actions |
|---|---|
| `Create`, then `ensureBrowser` under `p.mu` | `Create`, `Lock`; `SharedAnswers`, `SharedStale` or `NoShared`; `Launched`/`LaunchFails`; `Connected`/`ConnectFails`; `VerifyOK`/`VerifyFails` |
| `Create`, the page | `PageOpens`/`PageFails`, `SetupDone`/`SetupFails` |
| `rodBrowser.Close` | `Release` |
| `HealthCheck` | `HealthCheck`, `ProbeOpens`/`ProbeFails`, `ProbeCloses` |
| the deferred recover of `Create` | `Panic` (with the deferred unlock), `Recover` |
| `Close` | `CloseLock`, `CloseShared` |
| environment | `Crash`, `Cut` (a link is lost), `Hang` and `Answer` (a Chrome is silent for a while) |

`state` is what a connection really is.  `toll` is a ghost: how many Chromes the
faults so far may have cost.  A lost link costs one, an error of `Pages` from a
Chrome that answers one, a panic one, or two if it comes while a connection is
being made, since the recover then also clears whatever is shared later.  A
Chrome that is launched and not connected costs one as well.  `MaxToll` bounds
these faults; crashes and silences are not bounded.  `LeaksPaidFor` says that
nothing else leaks.  `OthersUndisturbed` is about steps of other clients; what
`Provider.Close` and Chrome itself do to a page is not their doing.

Left out: pages that a lost link leaves open in a remote Chrome, once the
connection's name is reused; a client's second page on one connection, since a
client has one call at a time; the hijack router, which lives and ends with its
page; stealth scripts and fingerprints.

### Artifact
`artifact/`, over either backend.  A reference is the sequence of its segments, and
`Clean`, `Legal`, `BuildKey`, `Resolve` and `InBase` are `path.Clean`, `cleanRef`,
`BuildKey`, `filepath.Join` with the base directory and the check of `pathForWrite` on
them; `Paths(ref)[n]` is the path after n segments.  The code cleans a reference
first, then `BuildKey` takes the blanks off both its ends, and off the namespace's, and
nothing cleans or tests the result.  The tables `TrimLeft` and `TrimRight` say what is
left of a segment without the blanks before and behind it, `" .."` and `"a "` among
those of the runs.  `Location` is the place of a reference: a path
in a local store, where `..` is resolved, and the key itself in S3, which resolves
nothing.  `files` is indexed by place, so two spellings of one file are one file; a
local file and a directory exclude each other (`Blocked`).  `Lexical` says
without cleaning anything what `cleanRef` should accept.  `MCArtifact` compares the
two on all paths up to five segments over `""`, `.`, `..` and two names, and
`ArtifactProofs` proves that they agree on every path.

| Code | Actions |
|---|---|
| `Put`, `PutReader` | `PutBegin` (checks; a local file is created or truncated), `PutStored` or `PutFails` (the backend), `Record` |
| `Finalize` | `FinalizeBegin` (the copy), `FinalizeStored` or `FinalizeFails` |
| the process ends, another opens the directory | `Restart` |
| `Get`, `Exists`, `LoadIndex`, `Find`, `Refs` | operators; reads change nothing |

A local file is `Torn` from its truncation until it is written, and stays so if the
write breaks off or two writers mix; an S3 object is replaced at once, or not, and
a failed request may still have been carried out.  `tainted` is a ghost: the places
whose last call failed or met another call.  `ChecksumsTrue` promises nothing for
these, because the code does not.

Left out: an S3 request that timed out and is carried out later than its error;
callers that put `index.json` themselves, and two Finalizes at once (dir.go:134, "单写者", one writer, asks for
neither); two directories of which one contains the other; symbolic links;
tags, sizes, content types and signed URLs.

### Navigation
One browser and one call at a time, `NavigateAndCheck` with its options or the
pool's `tryFetch`; `kind` is the backend.  A document is the sets of signals found
in its markup and its title, and whether its markup is shorter than 100 bytes:
what `Detect` tells apart.

| Code | Actions |
|---|---|
| `Navigate` | `Begin` (the isolated world is forgotten), `Navigated`/`NavigateFails` |
| wait of `EarlyWait` | `EarlyWaitOver` |
| `CheckWAF`: `Eval` of the markup, or `HTML` in `tryFetch` | `MarkupRead`/`MarkupFails` |
| `CheckWAF`, `tryFetch`: `Title`, `Detect` | `TitleRead`/`TitleFails`, `Judge` |
| `WaitStable` | `Stabilised` |
| environment | `Move` (the page replaces itself), `Cancel` |

`world` is browserless's cached isolated world: none, live, or dead, when its
document is gone and `isolatedCtxID` still names it.  `failed` and `moved` are
ghosts that say when a success is to be believed: no context ended, no request
timed out, and the page is the one last waited for or looked at.

Left out: other detectors than the default one; the status code, which all
callers give as 0; what the pages load and run.  surf's `Move` is what the URL
serves next.

## 3. Runs

| Run | Shows | Bounds |
|---|---|---|
| `pool_safety` | ten safety properties, among them the refinement of BrowserLease | 3 clients, 3 browsers, 2 types (one without `Title`), 2 slots, one type with a provider whose `Close` ends browsers, idle timeout 1 tick; 236 000 states |
| `pool_live` | every Acquire returns, Close completes, idle instances do not stay | 2 clients, 1 browser, 2 types, 1 slot |
| `pool_no_deadline` | *violated*: Acquire returns without a deadline | as above |
| `pool_close_race` | *violated*: nothing is left of a closed pool | 2 clients, 1 browser of browserless |
| `pool_surf` | *violated*: a healthy idle instance is reused | 2 clients, 1 type without `Title` |
| `router_safety` | what picks return under both strategies, and that whoever holds or awaits the lock is in the code that gives it back | 2 clients, 2 endpoints, loads 0 and 1; 1 million states |
| `router_live` | nobody starves on the lock; records recover if nobody hangs | 1 client, 3 endpoints, two with one URL |
| `worker` | what a batch run and callers of Fetch promise about results, browsers, attempts and metrics, and that Run returns | 2 tasks (chains of 2 and 1 types, one type unregistered), 1 slot, 1 caller of Fetch, 2 browsers; 565 000 states |
| `rod` | what faults cost, who disturbs whom, and that calls return | 2 clients, 2 connections, tolls up to 2, local and remote; 151 000 states |
| `artifact` | keys, index and checksums against what is stored | 2 writers, 2 contents, 2 entries for each process, 4 references, 6 namespaces of which 4 are refused, both backends; 285 000 states |
| `navigation` | what success and a reported block mean | 6 documents, 3 replacements in a call, 3 kinds of browser; 136 000 states |
| `navigation_unchecked` | *violated*: after `NavigateAndCheck` the page is no block page | as above |

Why these bounds.  Three browsers against two slots make a breach of the cap
expressible; three clients let one create, one wait and one release, with the
health loop and Close as further actors; two types fill the pool for each
other.  One slot for two clients and two types is the situation in which a
waiter depends on what others give back.  Browsers and clients are symmetric
(no action or property names one), so `pool_safety` uses symmetry; the
refinement mapping is symmetric as well.  No temporal property with fairness is
checked under symmetry.  Two round-robin picks on two endpoints are enough for
one to draw the other's index, and three endpoints let a sweep fail before,
at and after a silent one.  Two tasks and one slot make one wait while the other
fetches, and let a cancellation fall before, between and after them; a chain
with an unregistered first type falls back even when nothing fails; the caller
of Fetch competes for the two browsers and changes the primary.  Two connections
are one that was abandoned and one that is shared, and two clients are one in
`ensureBrowser` and one with a page; the safety properties also pass with three
connections (1.2 million states).  Two writers overlap on one file, or one follows
the other, and a restart brings further ones to a file that was there before; the
references are two spellings of one file, which differ in dots and in blanks, one that
leads out, and one that leads out once it is trimmed, to the place where the
namespace's own directory would be, so that the local backend takes either that
file or the others.  Of the two accepted namespaces one has a step up inside, and the
other leads above the base directory once it is trimmed, where the local backend
refuses every call and S3 none.  Three replacements
are one before, one between and one after two checks; the documents are a clean
page, an empty one, one that only writes about blocking, and a block page of each
kind.  `artifact` uses symmetry of writers and contents; it checks no temporal
property.  Deadlock is checked in all runs.

Every property of a passing run has a mutant, a definition in the same module
that changes one action as a plausible bug would; the property is violated when
the mutant replaces the action.  The mutants are marked `Mutant of` and are not
part of any specification.

### Disagreements between the code and what it says
The four violated properties are quoted in the modules with the test, comment or
message they come from:

1. A late `Release` panics on the nil map and leaks its browser (`pool.go:196`).
   The run has the type browserless; a local rod Chrome is closed as a whole by
   its provider (`pool.go:248`), so no process is left of it.
2. `waitForInstance` never creates, and nothing reads `AcquireTimeout`
   (`pool.go:138`): a waiter without a deadline can wait beside an empty pool.
3. The ping takes `ErrUnsupported` for death, so surf instances are never
   reused (`pool.go:90`).
4. `CheckWAF` takes any error of `Eval` for a clean page (`detector.go:64`): on
   surf `NavigateAndCheck` succeeds without a request having been sent, and on
   browserless the second check passes once the page has replaced itself, since
   the isolated world is cached (`browserless/browser.go:158`).
The models also contain the following, without a run of its own.  Where a property
of a passing run is stated with an exception, this is the reason for it.

* Pool: `Close` ends the rod browsers that clients are working with
  (`pool.go:248`; the exception in `NoUseAfterClose`).  The ping runs under the caller's context, so that giving up discards
  healthy instances (`pool.go:87`).
* Router: crossed round-robin picks fall back to an unhealthy endpoint though a
  healthy one exists (`router.go:108`; `LonePickHealthy` is about uncrossed
  ones).  One silent endpoint uses up the sweep's only context and makes all later
  ones unhealthy, in every sweep (`router.go:172`; `RecoversIfNoneHangs`).
* Worker: a task that waits for its slot may begin after the cancellation, because
  the select picks among ready cases at random (`worker.go:123`).
* Rod: a failed check of a new remote connection closes the Chrome all others use
  (`provider.go:264`; excepted in `OthersUndisturbed`).  A panic can cost two
  Chromes (`provider.go:67`).  In remote mode `Close` closes the pages of
  everybody and leaves the link (`provider.go:302-307`), and a `Create` after
  `Close` launches again.
* Artifact: `cleanRef` tests a reference before `BuildKey` trims it (`artifact.go:33`):
  `" ../x"` passes and becomes `ns/../x`, which a local store writes to `base/x`,
  outside the namespace; a namespace `" .."` gives S3 keys that begin with `..`.
  `dir.go:206` says that escaping references are refused.  `KeysConfined` excepts
  what has blanks around it, and TLC evaluates the example as an assumption
  (`BlanksLeadOut`).  `Find` returns the first entry of a reference, which after a
  replacement is the stale one (`index.go:29`; `ChecksumsTrue` is about files
  stored once).  A process that ends in `Finalize` leaves a torn `index.json`
  locally (`local.go:35`), and one that starts again and finalizes replaces
  the index by one without the earlier entries (`dir.go:45`).
* Navigation: a context that ends during a check makes the check pass, and
  `NavigateAndCheck` may then return success (`detector.go:64`).  The title
  signal "access denied" of the generic list is unreachable, because akamai's
  list has it and is tried first (`detector.go:44`).

Seen while modelling, and not checked because a reading of the code decides them:
`ErrAllBlocked` ("所有浏览器类型都被风控拦截", `errors.go`) is also what a fetch
returns when nothing was blocked but every attempt failed or was cancelled
(`pool.go:316`); `TaskResult.FetchResult` is documented as nil if there is an error
(`worker.go:24`) and is not; `OnResult` is documented for every task completed
(`worker.go:42`) and is not called for cancelled ones, which is what `ReportsMatch`
states; `RateLimit` (`worker.go:39`, requests per second) limits how fast tasks are
started, and their fallback attempts are not limited.

## 4. Fairness

* A goroutine that can run does run: weak fairness for steps that wait for
  nobody (`Unlocked`), for a sweep under way, for the clock.
* Whoever waits for a mutex gets it: strong fairness for the steps that lock
  (`Locked`, `Drain`, `EvictLock`, `SweepBegin`).  Go's mutex hands itself to
  the longest waiter in starvation mode, and a waiting writer of an RWMutex
  keeps new readers out.
* A select between ready cases picks at random: strong fairness of
  `WaitTimeout` against a ticker that is always ready.
* The health loops are fair only until Close or Stop; they may still take one
  tick afterwards, and do not have to.
* `DeadlineSpec` adds that every caller's context ends at some time, which holds
  for callers that set a deadline; `NoDeadlineSpec` does not.
* A provider's `Create` returns, a browser's and a provider's `Close` return, and a
  lease ends: assumed by the pool.  `rod` checks the first of that provider.  The
  router shows where the former fails: connecting to an endpoint that falls
  silent after the capacity check has no timeout, and `RoutingEnds` ends there.
* In `Worker`, Run and its goroutines go on and the ticker ticks: weak fairness of
  `RunStep` and of each task.  A waiting task needs no more: nobody enters the
  semaphore but tasks of the run, each once, so a slot that is free stays free
  until the last of them has taken it.  That a task in `FetchWithFallback` goes on
  includes that `Acquire` returns, which `pool_live` checks for callers with
  deadlines, and that a browser's calls heed their context.
* In `RodProvider`, calls go on and a Chrome that is not silent answers (weak
  fairness of `GoOn` and `CloseShared`), and the mutex lets in who waits (strong
  fairness of `Lock` and `Recover`).  `CallsReturn` supposes that Chromes are not
  silent for ever: `Pages` and `Connect` have no deadline, so otherwise calls do
  hang.  `Artifact` and `Navigation` state no fairness: every request may fail,
  and no caller waits for another.
* Nobody has to call Acquire, Create, HealthCheck, Register, Close or Stop, no
  browser has to break and no endpoint has to change.

## 5. Proofs

`PoolProofs` proves, for any finite sets of clients and browsers, any types and
any `MaxInstances` and `IdleTimeout` (`PoolAssumption`), that `Spec` implies each
of the safety properties of `pool_safety`: all ten.

The properties are not inductive one by one.  Their conjunction with
`ClientState` and `DrainedEmpty` is (`IInv`), and is proved in three layers, each
using the ones before it:

* *Control*: types, where each client is, and the mutex.
* *Ownership*: exclusive leases, no use after close, nothing lost.  That a browser
  which a provider ended is in its client's hands still, and never idle
  (`EndedByProvider`), is an invariant beside it (`EndedStep`).  Its lemmas
  say what popping, pushing and removing an entry do to the set of idle
  browsers, for any map of stacks without repetitions.
* *Counting*: `inUse` and `total` against the cardinalities of the clients with
  a slot and of the idle set.  After Close the counters are no longer exact,
  so the invariant that survives is the inequality `SlotsCovered`; that the
  counters are naturals follows from it.

The cap on living browsers follows: each is idle or in a hand, each hand has a
slot, `total` covers slots and idle browsers and is at most `MaxInstances`.
`OldestAtBottom` needs one more fact, that a browser outside the stacks has age
0.  The refinement is proved step by step: every action is an `Issue`, `Lease`,
`Shelve`, `Destroy` or `ShutDown` under the mapping, or leaves it unchanged.

`RouterProofs` proves, for any number of clients and endpoints and any loads
(`RouterAssumption`), the four safety properties of `router_safety`.  An uncrossed
round-robin pick finds a healthy endpoint if there is one; the invariant behind it:
the indices such a pick has drawn are exactly the last ones before the counter
(`Behind`), and all are unhealthy.  A least-load pick returns the best healthy
endpoint, because `BestOf(n, Best[n])` holds after each round of its loop, and
because only a round-robin pick draws (`Looping`).  `LocksHeld`, with `TypeOK`, is
inductive as it stands.

`Induction` has two lemmas that the proofs about loops need, and says nothing of the
code by itself.  The library's induction theorems take the
property as an operator, which the provers cannot instantiate, but the minimum
principle of a well-founded relation takes sets: `UpTo` (an invariant of every
round) follows from it.  A recursive function is, to the provers, just some
function with its equation *if there is one*; `Iteration` says that there is one for
every loop whose rounds stay inside a set.  `BestDef` and `PathsDef` then state the
equations of the two loops.

`WorkerProofs` proves, for any number of tasks, callers and browsers, any chains and
any `Concurrency` (`WorkerAssumption`), the eight safety properties of `worker`.
The layers of its invariant are *Control* (where the loop and each goroutine
are, and which results are written there: a task's result is unwritten exactly
while a goroutine that will write it, or the loop, has it ahead), *Trail* (the
attempts are the chain up to the one under way), the browsers, and *Counting*
(semaphore, wait group and metrics against the cardinalities of the goroutines
they count).  `ResultsComplete` follows because the wait group is 0 when Run
returns, so that every task is either cancelled by the loop or done;
`ResultsFinal` because only goroutines and the loop write, each where Control says
that nothing is written yet.

`RodProviderProofs` proves, for any finite sets of clients and connections and any
`MaxToll` (`RodAssumption`), the safety properties of `rod`.  `Control` says
that the mutex is held by whoever is inside, that nothing is shared while a new
connection is being made, and that this connection is its maker's alone and has
no page yet.  `OthersUndisturbed` follows step by step: what a client closes is its
own page or a connection that nobody else has.  `LeaksPaidFor` needs a balance
that also counts what is still to be lost (`Paid`): the connections that no one
will reach once the pending recovers are done, plus the pending recovers, are
at most `toll`; and so are the pages left on each connection that is up.  Each
step changes this balance in one of four ways: no fault, a fault, a panic, a
recovery.

`NavigationProofs` proves, for any sets of documents and any `MaxMoves`
(`NavigationAssumption`), the safety properties of `navigation`.  The invariant
`Known` says what a call knows of the page: what it has read was shown to it, and
is the page itself as long as that has not moved.  The lemma behind
`NoFalseAlarm` is that the markup of one document with the title of another
looks blocked only if one of the two does.

`ArtifactProofs` proves, for any writers, namespaces, references and contents, the
safety properties of `artifact`, whatever the tables of blanks and the base directory
(`ArtifactAssumption`).  `IndexFaithful` rests on "whoever is about to
record has stored" and on the store only growing (`Stored`), and on every copy and
index being made of the first entries (`Growing`).  `ChecksumsTrue` needs more: an
untainted place has at most one writer, who after storing finds there what it wrote
(`Clear`); and the last entry of each settled reference is true (`Newest`).  Since
files and recorded checksums are compared by place, two spellings of one file need no
exception.  `IndexAssumption` says that the two values that stand for no index and a torn one are no indexes.

About paths, for any number of segments: after n of them the path is as deep as
they say and has nothing left to resolve, unless they stepped above their start;
then it begins with `..` for good (`Follows`, by induction).  From this follow
`ArtifactCleanRef` (`Legal` is `Lexical`), that what is legal is plain
(`LegalPlain`), and, by a second induction, that names behind a path stay behind what
it cleans to (`CleanAppend`); so plain paths are fixed points of `Clean`
(`PlainClean`), and names behind a key stay behind the path it resolves to
(`ResolveAppend`).  `KeysConfined` then needs only that every file was stored by
a legal reference in a legal namespace, at its place, and below the base directory in
a local store (`Confined`): a reference without blanks adds names to whatever place the
namespace has, even if the namespace itself has blanks.  `ArtifactKeyInBase` says that
`pathForWrite`'s own check never refuses a key of a directory where neither part has
blanks around it, and
`ArtifactCleanTwice` that what an index names can be read under that name.  The proofs
keep `Nowhere`, `Up` and `Relative` unexpanded but in two small steps: the SMT backend
cannot take the empty string.

Every invariant and every action property that a passing run checks is proved.
Model-checked only: liveness, since
fairness and ENABLED are out of the prover's reach, and the four violated properties.

## 6. Plan

1. Done: `BrowserLease`, `Pool`, `Router`, their runs and proofs.
2. Done: `Worker` with `FetchWithFallback` and `Fetcher`, its runs and proofs.
3. Done: `RodProvider`, `Artifact` and `Navigation`, their runs and proofs.
4. Done: the router's `TypeOK` and `LeastLoadPicksBest`, and `KeysConfined`, by
   induction over the loops.
5. Not planned: percentiles of `metrics.go`, which feed a log line only; a relation
   between the counters of one `Snapshot`, since none is promised.

## 7. Not modelled

Fingerprints and evasion scripts (random constants and script text), the live
stealth tests, `analyzeHTML` (a score that is reported and decides nothing), the
forwarding methods of the browsers, request interception (a pure test of each
request), signed URLs, `LogSummary` and the latency window.
