---------------------------- MODULE WorkerProofs ----------------------------
(***************************************************************************)
(* Proofs about Worker, for any number of tasks, any chains, fetchers and  *)
(* browsers and any Concurrency.                                           *)
(***************************************************************************)
EXTENDS Worker, FiniteSetTheorems, SequenceTheorems, TLAPS

-----------------------------------------------------------------------------
(* Control: types, where each goroutine is, and how far the loop has come. *)

Counts == [total : Nat, success : Nat, fallback : Nat, allFail : Nat]

\* TypeOK without the attempts and the two counters, which need more than
\* control.
Shape ==
    /\ ctxDone \in BOOLEAN
    /\ run \in {"loop", "limit", "wait", "returned"}
    /\ next \in 1 .. NumTasks + 1
    /\ results \in [Goroutines -> {None, "cancelled", "failed", "ok"}]
    /\ reported \in [Tasks -> {None, "failed", "ok"}]
    /\ pc \in [Goroutines -> PC]
    /\ chain \in [Goroutines -> Seq(Types)]
    /\ at \in [Goroutines -> Nat \ {0}]
    /\ last \in [Goroutines -> Outcomes]
    /\ primary \in Types
    /\ count \in Counts
    /\ closed \in BOOLEAN
    /\ holder \in [Browsers -> Goroutines \cup {Shelf, None}]
    /\ shut \in BOOLEAN

Control == Shape /\ DispatchState /\ TaskState /\ FetcherState

LEMMA ControlInit == Init => Control
<1> SUFFICES ASSUME Init PROVE Control
  OBVIOUS
<1> USE WorkerAssumption
<1>1. \A g \in Goroutines : (IF g \in Tasks THEN TaskChain[g] ELSE <<>>) \in Seq(Types)
  OBVIOUS
<1>2. next \in 1 .. NumTasks + 1
  BY DEF Init
<1>3. Shape
  <2>1. chain \in [Goroutines -> Seq(Types)]
    BY <1>1 DEF Init
  <2>2. /\ results \in [Goroutines -> {None, "cancelled", "failed", "ok"}]
        /\ reported \in [Tasks -> {None, "failed", "ok"}]
        /\ holder \in [Browsers -> Goroutines \cup {Shelf, None}] /\ shut \in BOOLEAN
    BY DEF Init, Lease!Init
  <2>3. /\ pc \in [Goroutines -> PC] /\ last \in [Goroutines -> Outcomes]
        /\ at \in [Goroutines -> Nat \ {0}]
        /\ count \in Counts
        /\ primary \in Types
    BY WorkerAssumption DEF Init, PC, Outcomes, Counts
  <2>4. QED
    BY <1>2, <2>1, <2>2, <2>3 DEF Init, Shape
<1>4. DispatchState
  BY DEF Init, DispatchState, Tasks, Goroutines
<1>5. TaskState /\ FetcherState
  BY DEF Init, TaskState, FetcherState, Goroutines
<1>6. QED
  BY <1>3, <1>4, <1>5 DEF Control

\* Counting up keeps the metrics natural numbers.
LEMMA CountType ==
    ASSUME count \in Counts
    PROVE  /\ [count EXCEPT !.total = @ + 1] \in Counts
           /\ [count EXCEPT !.allFail = @ + 1] \in Counts
           /\ [count EXCEPT !.success = @ + 1] \in Counts
           /\ \A k \in Nat : [count EXCEPT !.success = @ + 1, !.fallback = k] \in Counts
<1>1. [count EXCEPT !.total = @ + 1] \in Counts
  BY DEF Counts
<1>2. [count EXCEPT !.allFail = @ + 1] \in Counts
  BY DEF Counts
<1>3. [count EXCEPT !.success = @ + 1] \in Counts
  BY DEF Counts
<1>4. ASSUME NEW k \in Nat PROVE [count EXCEPT !.success = @ + 1, !.fallback = k] \in Counts
  <2>1. PICK c \in Counts : c = [count EXCEPT !.success = @ + 1]
    BY <1>3
  <2>2. [c EXCEPT !.fallback = k] \in Counts
    BY <1>4 DEF Counts
  <2>3. QED
    BY <2>1, <2>2
<1>5. QED
  BY <1>1, <1>2, <1>3, <1>4

\* What a step of the chain does to the browsers leaves them a holder.
LEMMA HolderType ==
    ASSUME holder \in [Browsers -> Goroutines \cup {Shelf, None}], NEW g \in Goroutines
    PROVE  /\ Release(g) => holder' \in [Browsers -> Goroutines \cup {Shelf, None}] /\ UNCHANGED shut
           /\ \A b \in Browsers : Lease!Issue(g, b) \/ Lease!Lease(g, b) =>
                 holder' \in [Browsers -> Goroutines \cup {Shelf, None}] /\ UNCHANGED shut
BY DEF Release, Lease!Issue, Lease!Lease, Lease!Destroy, Lease!Shelve

\* One goroutine moves on within FetchWithFallback.
LEMMA ControlFetch ==
    ASSUME Control, NEW g \in Goroutines, FetchStep(g)
    PROVE  Control'
<1> USE DEF Control, dispatcher, pool, fetch
<1>0. /\ pc[g] \in {"acquire", "try", "release"}
      /\ results[g] = None
      /\ UNCHANGED <<dispatcher, ctxDone, wg, sem, reported, primary, closed, chain>>
  BY DEF FetchStep, AcquireOK, AcquireFails, TryFetch, ReleaseAndGoOn, ReleaseAndReturn,
         AllFailed, TaskState, FetcherState, Goroutines
<1>1. /\ \A h \in Goroutines : h # g => pc'[h] = pc[h] /\ results'[h] = results[h]
      /\ \/ pc'[g] \in {"acquire", "try", "release"} /\ results'[g] = None
         \/ /\ pc'[g] = IF g \in Tasks THEN "report" ELSE "done"
            /\ results'[g] \in {"failed", "ok"}
      /\ pc' \in [Goroutines -> PC]
      /\ results' \in [Goroutines -> {None, "cancelled", "failed", "ok"}]
  <2>1. pc \in [Goroutines -> PC] /\ results \in [Goroutines -> {None, "cancelled", "failed", "ok"}]
    BY DEF Shape
  <2>2. CASE AcquireOK(g) \/ AcquireFails(g) \/ TryFetch(g) \/ ReleaseAndGoOn(g)
    BY <1>0, <2>1, <2>2 DEF AcquireOK, AcquireFails, TryFetch, ReleaseAndGoOn, NextType, PC
  <2>3. CASE ReleaseAndReturn(g) \/ AllFailed(g)
    BY <1>0, <2>1, <2>3 DEF ReleaseAndReturn, AllFailed, Deliver, PC
  <2>4. QED
    BY <2>2, <2>3 DEF FetchStep
<1>2. /\ at' \in [Goroutines -> Nat \ {0}]
      /\ last' \in [Goroutines -> Outcomes]
  <2>1. at \in [Goroutines -> Nat \ {0}] /\ last \in [Goroutines -> Outcomes]
    BY DEF Shape
  <2>2. CASE AcquireOK(g) \/ TryFetch(g) \/ AllFailed(g) \/ ReleaseAndReturn(g)
    BY <2>1, <2>2 DEF AcquireOK, TryFetch, AllFailed, ReleaseAndReturn, Outcomes
  <2>3. CASE AcquireFails(g) \/ ReleaseAndGoOn(g)
    BY <2>1, <2>3 DEF AcquireFails, ReleaseAndGoOn, NextType, Outcomes
  <2>4. QED
    BY <2>2, <2>3 DEF FetchStep
<1>3. count' \in Counts
  <2>1. count \in Counts
    BY DEF Shape
  <2>2. CASE AllFailed(g)
    BY <2>1, <2>2, CountType DEF AllFailed
  <2>3. CASE ReleaseAndReturn(g)
    <3>1. (IF at[g] > 1 THEN count.fallback + 1 ELSE count.fallback) \in Nat
      BY <2>1 DEF Counts
    <3>2. QED
      BY <2>1, <2>3, <3>1, CountType DEF ReleaseAndReturn
  <2>4. QED
    BY <2>1, <2>2, <2>3 DEF FetchStep, AcquireOK, AcquireFails, TryFetch, ReleaseAndGoOn
<1>4. holder' \in [Browsers -> Goroutines \cup {Shelf, None}] /\ shut' \in BOOLEAN
  BY <1>0, HolderType DEF FetchStep, AcquireOK, AcquireFails, TryFetch, ReleaseAndGoOn,
         ReleaseAndReturn, AllFailed, Shape
<1>5. Shape'
  BY <1>0, <1>1, <1>2, <1>3, <1>4 DEF Shape
<1>6. DispatchState'
  BY <1>0, <1>1 DEF DispatchState, Goroutines
<1>7. TaskState' /\ FetcherState'
  BY <1>0, <1>1, WorkerAssumption DEF TaskState, FetcherState, Goroutines
<1>8. QED
  BY <1>5, <1>6, <1>7

LEMMA FetchChainType ==
    ASSUME primary \in Types, NEW override \in Types \cup {None}
    PROVE  FetchChain(override) \in Seq(Types)
<1>1. Fallback \in Seq(Types) /\ <<primary>> \in Seq(Types)
  BY WorkerAssumption
<1>2. <<primary>> \o Fallback \in Seq(Types)
  BY <1>1, ConcatProperties
<1>3. QED
  BY <1>2 DEF FetchChain

LEMMA ControlStep == Control /\ [Next]_vars => Control'
<1> SUFFICES ASSUME Control, [Next]_vars PROVE Control'
  OBVIOUS
<1> USE DEF Control, dispatcher, pool, fetch
<1>0. NumTasks \in Nat /\ next \in 1 .. NumTasks + 1 /\ Fetchers \cap Tasks = {}
      /\ None \notin {"cancelled", "failed", "ok"}
  BY WorkerAssumption DEF Shape
<1>1. CASE StartTask \/ StartTaskAtTick
  <2>1. /\ Spawn /\ run \in {"loop", "limit"} /\ next \in Tasks
    BY <1>0, <1>1 DEF StartTask, StartTaskAtTick, Tasks, DispatchState
  <2>2. Shape'
    <3>1. next' \in 1 .. NumTasks + 1
      BY <1>0, <2>1 DEF Spawn, Tasks
    <3>2. pc' \in [Goroutines -> PC]
      BY <2>1 DEF Spawn, Shape, PC
    <3>3. QED
      BY <2>1, <3>1, <3>2 DEF Spawn, Shape
  <2>3. DispatchState'
    BY <1>0, <2>1 DEF Spawn, Shape, DispatchState, Tasks, Goroutines
  <2>4. TaskState' /\ FetcherState'
    <3>1. pc[next] = "idle" /\ results[next] = None
      BY <1>0, <2>1 DEF Spawn, Shape, DispatchState, Tasks
    <3>2. TaskState'
      BY <1>0, <2>1, <3>1 DEF Spawn, Shape, TaskState, Goroutines
    <3>3. FetcherState'
      BY <1>0, <2>1 DEF Spawn, Shape, FetcherState, Goroutines
    <3>4. QED
      BY <3>2, <3>3
  <2>5. QED
    BY <2>2, <2>3, <2>4
<1>2. CASE AwaitTick \/ LoopDone \/ Return \/ Cancel \/ SetClosed
  <2>1. Shape'
    BY <1>2 DEF AwaitTick, LoopDone, Return, Cancel, SetClosed, Shape
  <2>2. DispatchState'
    BY <1>0, <1>2 DEF AwaitTick, LoopDone, Return, Cancel, SetClosed, DispatchState, Tasks
  <2>3. TaskState' /\ FetcherState'
    BY <1>2 DEF AwaitTick, LoopDone, Return, Cancel, SetClosed, TaskState, FetcherState
  <2>4. QED
    BY <2>1, <2>2, <2>3
<1>3. CASE SkipTask
  <2>1. next \in Tasks
    BY <1>0, <1>3 DEF SkipTask, DispatchState, Tasks
  <2>2. Shape'
    <3>1. next' \in 1 .. NumTasks + 1
      BY <1>0, <1>3, <2>1 DEF SkipTask, Tasks
    <3>2. QED
      BY <1>3, <3>1 DEF SkipTask, Shape
  <2>3. DispatchState'
    BY <1>0, <1>3, <2>1 DEF SkipTask, Shape, DispatchState, Goroutines, Tasks
  <2>4. TaskState' /\ FetcherState'
    <3>1. pc[next] = "idle" /\ results[next] = None
      BY <1>0, <1>3, <2>1 DEF SkipTask, Shape, DispatchState, Tasks
    <3>2. TaskState'
      BY <1>0, <1>3, <2>1, <3>1 DEF SkipTask, Shape, TaskState, Goroutines
    <3>3. FetcherState'
      BY <1>0, <1>3, <2>1 DEF SkipTask, Shape, FetcherState, Goroutines
    <3>4. QED
      BY <3>2, <3>3
  <2>5. QED
    BY <2>2, <2>3, <2>4
<1>4. CASE CancelRest
  <2>1. \A t \in Tasks : t \in next .. NumTasks <=> next <= t
    BY <1>0 DEF Tasks
  <2>2. \A f \in Fetchers : f \notin next .. NumTasks
    BY <1>0 DEF Tasks
  <2>3. Shape'
    BY <1>4 DEF CancelRest, Shape
  <2>4. DispatchState'
    BY <1>0, <1>4, <2>1 DEF CancelRest, DispatchState, Goroutines
  <2>5. TaskState' /\ FetcherState'
    BY <1>0, <1>4, <2>1, <2>2
       DEF CancelRest, Shape, DispatchState, TaskState, FetcherState, Goroutines
  <2>6. QED
    BY <2>3, <2>4, <2>5
<1>5. ASSUME NEW t \in Tasks, TakeSlot(t) PROVE Control'
  <2>1. Shape'
    <3>1. count' \in Counts
      BY <1>5, CountType DEF TakeSlot, Shape
    <3>2. QED
      BY <1>5, <3>1 DEF TakeSlot, Shape, PC
  <2>2. DispatchState'
    BY <1>0, <1>5 DEF TakeSlot, Shape, DispatchState, Goroutines
  <2>3. TaskState' /\ FetcherState'
    BY <1>0, <1>5 DEF TakeSlot, Shape, TaskState, FetcherState, Goroutines
  <2>4. QED
    BY <2>1, <2>2, <2>3
<1>6. ASSUME NEW t \in Tasks, GiveUp(t) \/ Report(t) \/ LeaveSlot(t) \/ LeaveGroup(t) PROVE Control'
  <2>1. Shape'
    <3>1. CASE GiveUp(t)
      BY <3>1 DEF GiveUp, Shape, PC
    <3>2. CASE Report(t)
      BY <3>2 DEF Report, Shape, PC, TaskState, Goroutines
    <3>3. CASE LeaveSlot(t) \/ LeaveGroup(t)
      BY <3>3 DEF LeaveSlot, LeaveGroup, Shape, PC
    <3>4. QED
      BY <1>6, <3>1, <3>2, <3>3
  <2>2. DispatchState'
    BY <1>0, <1>6 DEF GiveUp, Report, LeaveSlot, LeaveGroup, Shape, DispatchState, Goroutines
  <2>3. TaskState'
    BY <1>0, <1>6 DEF GiveUp, Report, LeaveSlot, LeaveGroup, Shape, TaskState, Goroutines
  <2>4. FetcherState'
    BY <1>0, <1>6 DEF GiveUp, Report, LeaveSlot, LeaveGroup, Shape, FetcherState, Goroutines
  <2>5. QED
    BY <2>1, <2>2, <2>3, <2>4
<1>7. ASSUME NEW f \in Fetchers, Fetch(f) PROVE Control'
  <2>1. Shape'
    <3>1. count' \in Counts
      BY <1>7, CountType DEF Fetch, Shape
    <3>2. chain' \in [Goroutines -> Seq(Types)]
      <4>1. PICK override \in Types \cup {None} : chain' = [chain EXCEPT ![f] = FetchChain(override)]
        BY <1>7 DEF Fetch
      <4>2. FetchChain(override) \in Seq(Types)
        BY FetchChainType DEF Shape
      <4>3. QED
        BY <4>1, <4>2 DEF Shape
    <3>3. QED
      BY <1>7, <3>1, <3>2 DEF Fetch, Shape, PC
  <2>2. DispatchState'
    BY <1>0, <1>7 DEF Fetch, Shape, DispatchState, Goroutines
  <2>3. TaskState' /\ FetcherState'
    BY <1>0, <1>7 DEF Fetch, Shape, TaskState, FetcherState, Goroutines
  <2>4. QED
    BY <2>1, <2>2, <2>3
<1>8. CASE Drain \/ Discard \/ (\E t \in Types : SetPrimary(t)) \/ UNCHANGED vars
  <2>1. Shape'
    BY <1>8 DEF Drain, Discard, SetPrimary, vars, Shape, Lease!ShutDown, Lease!Destroy
  <2>2. DispatchState' /\ TaskState' /\ FetcherState'
    BY <1>8 DEF Drain, Discard, SetPrimary, vars, DispatchState, TaskState, FetcherState
  <2>3. QED
    BY <2>1, <2>2
<1>9. QED
  BY <1>1, <1>2, <1>3, <1>4, <1>5, <1>6, <1>7, <1>8, ControlFetch
     DEF Next, RunStep, TaskStep, Goroutines

-----------------------------------------------------------------------------
(* Attempts.                                                               *)

\* A prefix, element by element.
LEMMA PrefixElements ==
    ASSUME NEW S, NEW s \in Seq(S), NEW t \in Seq(S)
    PROVE  IsPrefix(s, t) <=> Len(s) <= Len(t) /\ \A i \in 1 .. Len(s) : s[i] = t[i]
<1>1. Len(s) \in Nat /\ Len(t) \in Nat
  OBVIOUS
<1>2. SubSeq(s, 1, Len(s)) = [i \in 1 .. Len(s) |-> s[i]]
  BY <1>1
<1>3. ASSUME Len(s) <= Len(t)
      PROVE  SubSeq(t, 1, Len(s)) = [i \in 1 .. Len(s) |-> t[i]]
  BY <1>1, <1>3
<1>4. QED
  BY <1>1, <1>2, <1>3 DEF IsPrefix

\* One more attempt, at the next type of the chain, leaves a prefix.
LEMMA PrefixAppend ==
    ASSUME NEW S, NEW s \in Seq(S), NEW t \in Seq(S), IsPrefix(s, t),
           NEW k \in DOMAIN t, Len(s) = k - 1
    PROVE  /\ Append(s, t[k]) \in Seq(S)
           /\ Len(Append(s, t[k])) = k
           /\ IsPrefix(Append(s, t[k]), t)
<1>1. /\ Len(s) \in Nat /\ Len(t) \in Nat /\ k \in 1 .. Len(t) /\ t[k] \in S
      /\ \A i \in 1 .. Len(s) : s[i] = t[i]
  BY PrefixElements
<1>2. /\ Append(s, t[k]) \in Seq(S) /\ Len(Append(s, t[k])) = k
      /\ \A i \in 1 .. Len(s) : Append(s, t[k])[i] = s[i]
      /\ Append(s, t[k])[k] = t[k]
  BY <1>1, AppendProperties
<1>3. PICK u \in Seq(S) : u = Append(s, t[k])
  BY <1>2
<1>4. Len(u) = k /\ k <= Len(t) /\ \A i \in 1 .. k : u[i] = t[i]
  BY <1>1, <1>2, <1>3
<1>5. IsPrefix(u, t)
  BY <1>4, PrefixElements
<1>6. QED
  BY <1>2, <1>3, <1>5

LEMMA PrefixEmpty ==
    ASSUME NEW S, NEW t \in Seq(S)
    PROVE  IsPrefix(<<>>, t)
<1>1. PICK s \in Seq(S) : s = <<>> /\ Len(s) = 0
  BY EmptySeq
<1>2. Len(t) \in Nat
  OBVIOUS
<1>3. Len(s) <= Len(t) /\ \A i \in 1 .. Len(s) : s[i] = t[i]
  BY <1>1, <1>2
<1>4. IsPrefix(s, t)
  BY <1>3, PrefixElements
<1>5. QED
  BY <1>1, <1>4

\* A prefix of the same length is the whole.
LEMMA PrefixWhole ==
    ASSUME NEW S, NEW s \in Seq(S), NEW t \in Seq(S), IsPrefix(s, t),
           Len(s) + 1 \in Nat, Len(s) + 1 \notin DOMAIN t
    PROVE  s = t
<1>1. /\ Len(s) \in Nat /\ Len(t) \in Nat /\ Len(s) <= Len(t)
      /\ \A i \in 1 .. Len(s) : s[i] = t[i]
  BY PrefixElements
<1>2. Len(s) = Len(t)
  BY <1>1
<1>3. QED
  BY <1>1, <1>2, SeqEqual

Trail ==
    /\ attempts \in [Goroutines -> Seq(Types)]
    /\ AttemptState /\ AttemptsFollowChain

LEMMA TrailInit == Init => Trail
<1> SUFFICES ASSUME Init PROVE Trail
  OBVIOUS
<1>0. Control
  BY ControlInit
<1>1. attempts \in [Goroutines -> Seq(Types)] /\ \A g \in Goroutines : attempts[g] = <<>>
  BY DEF Init
<1>2. AttemptState
  BY DEF Init, AttemptState
<1>3. \A g \in Goroutines : IsPrefix(attempts[g], chain[g])
  <2> TAKE g \in Goroutines
  <2>1. chain[g] \in Seq(Types) /\ attempts[g] = <<>>
    BY <1>0, <1>1 DEF Control, Shape
  <2>2. QED
    BY <2>1, PrefixEmpty
<1>4. AttemptsFollowChain
  BY <1>3, WorkerAssumption DEF Init, AttemptsFollowChain
<1>5. QED
  BY <1>1, <1>2, <1>4 DEF Trail

\* One goroutine moves on within FetchWithFallback.
LEMMA TrailFetch ==
    ASSUME Control, Control', Trail, NEW g \in Goroutines, FetchStep(g)
    PROVE  Trail'
<1> USE DEF pool, dispatcher
<1>0. /\ pc[g] \in {"acquire", "try", "release"} /\ results[g] = None
      /\ Len(attempts[g]) = at[g] - 1 /\ IsPrefix(attempts[g], chain[g])
      /\ attempts[g] \in Seq(Types) /\ chain[g] \in Seq(Types) /\ at[g] \in Nat \ {0}
      /\ UNCHANGED chain
      /\ None \notin {"ok", "failed"}
  BY WorkerAssumption DEF FetchStep, AcquireOK, AcquireFails, TryFetch, ReleaseAndGoOn, ReleaseAndReturn,
         AllFailed, Control, TaskState, FetcherState, Trail, AttemptState, AttemptsFollowChain,
         Goroutines, Shape
\* What is to be shown of g, and that nothing else changes.
<1> DEFINE Others == \A h \in Goroutines : h # g =>
             /\ pc'[h] = pc[h] /\ at'[h] = at[h] /\ last'[h] = last[h]
             /\ attempts'[h] = attempts[h] /\ results'[h] = results[h]
<1> DEFINE Mine ==
             /\ attempts'[g] \in Seq(Types)
             /\ pc'[g] \in {"acquire", "try", "release"} => Len(attempts'[g]) = at'[g] - 1
             /\ pc'[g] \in {"try", "release"} => at'[g] \in DOMAIN chain[g]
             /\ pc'[g] = "acquire" => last'[g] = "none"
             /\ pc'[g] \notin {"idle", "sem"}
             /\ IsPrefix(attempts'[g], chain[g])
             /\ results'[g] = "ok" => last'[g] = "ok" /\ Len(attempts'[g]) = at'[g]
             /\ results'[g] = "failed" => last'[g] # "ok" /\ attempts'[g] = chain[g]
<1>1. ASSUME Others, Mine, DOMAIN attempts' = Goroutines, attempts' = [h \in Goroutines |-> attempts'[h]]
      PROVE  Trail'
  <2>1. attempts' \in [Goroutines -> Seq(Types)]
    BY <1>1 DEF Trail
  <2>2. AttemptState'
    <3> SUFFICES ASSUME NEW h \in Goroutines
                 PROVE  /\ pc'[h] \in {"idle", "sem"} =>
                              at'[h] = 1 /\ attempts'[h] = <<>> /\ last'[h] = "none"
                        /\ pc'[h] \in {"acquire", "try", "release"} => Len(attempts'[h]) = at'[h] - 1
                        /\ pc'[h] \in {"try", "release"} => at'[h] \in DOMAIN chain'[h]
                        /\ pc'[h] = "acquire" => last'[h] = "none"
      BY DEF AttemptState
    <3>1. CASE h = g
      BY <1>0, <1>1, <3>1
    <3>2. CASE h # g
      BY <1>0, <1>1, <3>2 DEF Trail, AttemptState
    <3>3. QED
      BY <3>1, <3>2
  <2>3. AttemptsFollowChain'
    BY <1>0, <1>1 DEF Trail, AttemptsFollowChain
  <2>4. QED
    BY <2>1, <2>2, <2>3 DEF Trail
<1>2. /\ pc \in [Goroutines -> PC] /\ at \in [Goroutines -> Nat \ {0}]
      /\ last \in [Goroutines -> Outcomes] /\ attempts \in [Goroutines -> Seq(Types)]
      /\ results \in [Goroutines -> {None, "cancelled", "failed", "ok"}]
  BY DEF Control, Shape, Trail
<1>3. CASE AcquireOK(g) \/ TryFetch(g)
  <2>1. at[g] \in DOMAIN chain[g]
    BY <1>3 DEF AcquireOK, TryFetch, Trail, AttemptState
  <2>2. Others /\ Mine /\ UNCHANGED attempts
    BY <1>0, <1>2, <1>3, <2>1 DEF AcquireOK, TryFetch
  <2>3. QED
    BY <1>1, <1>2, <2>2
<1>4. CASE AcquireFails(g) \/ ReleaseAndGoOn(g)
  <2>1. at[g] \in DOMAIN chain[g]
    BY <1>4 DEF AcquireFails, ReleaseAndGoOn, Trail, AttemptState
  <2>2. attempts' = [attempts EXCEPT ![g] = Append(@, chain[g][at[g]])]
    BY <1>4 DEF AcquireFails, ReleaseAndGoOn, NextType
  <2>3. /\ attempts'[g] \in Seq(Types) /\ Len(attempts'[g]) = at[g]
        /\ IsPrefix(attempts'[g], chain[g])
    BY <1>0, <1>2, <2>1, <2>2, PrefixAppend
  <2>4. pc'[g] = "acquire" /\ last'[g] = "none" /\ at'[g] = at[g] + 1 /\ results'[g] = None
    BY <1>0, <1>2, <1>4 DEF AcquireFails, ReleaseAndGoOn, NextType
  <2>5. Others
    BY <1>2, <1>4 DEF AcquireFails, ReleaseAndGoOn, NextType
  <2>6. Mine
    BY <1>0, <2>3, <2>4
  <2>7. QED
    BY <1>1, <1>2, <2>2, <2>5, <2>6
<1>5. CASE ReleaseAndReturn(g)
  <2>1. at[g] \in DOMAIN chain[g]
    BY <1>5 DEF ReleaseAndReturn, Trail, AttemptState
  <2>2. attempts' = [attempts EXCEPT ![g] = Append(@, chain[g][at[g]])]
    BY <1>5 DEF ReleaseAndReturn
  <2>3. /\ attempts'[g] \in Seq(Types) /\ Len(attempts'[g]) = at[g]
        /\ IsPrefix(attempts'[g], chain[g])
    BY <1>0, <1>2, <2>1, <2>2, PrefixAppend
  <2>4. pc'[g] \in {"report", "done"} /\ last'[g] = "ok" /\ at'[g] = at[g] /\ results'[g] = "ok"
    BY <1>0, <1>2, <1>5 DEF ReleaseAndReturn, Deliver
  <2>5. Others
    BY <1>2, <1>5 DEF ReleaseAndReturn, Deliver
  <2>6. QED
    BY <1>0, <1>1, <1>2, <2>2, <2>3, <2>4, <2>5
<1>6. CASE AllFailed(g)
  <2>1. attempts[g] = chain[g]
    BY <1>0, <1>6, PrefixWhole DEF AllFailed
  <2>2. last[g] = "none" /\ UNCHANGED <<last, at, attempts>>
    BY <1>6 DEF AllFailed, Trail, AttemptState
  <2>3. pc'[g] \in {"report", "done"} /\ results'[g] = "failed"
    BY <1>0, <1>2, <1>6 DEF AllFailed, Deliver
  <2>4. Others
    BY <1>2, <1>6 DEF AllFailed, Deliver
  <2>5. QED
    BY <1>0, <1>1, <1>2, <2>1, <2>2, <2>3, <2>4
<1>7. QED
  BY <1>3, <1>4, <1>5, <1>6 DEF FetchStep

LEMMA TrailStep == Control /\ Control' /\ Trail /\ [Next]_vars => Trail'
<1> SUFFICES ASSUME Control, Control', Trail, [Next]_vars PROVE Trail'
  OBVIOUS
<1> USE DEF pool, dispatcher, fetch
<1>0. /\ pc \in [Goroutines -> PC]
      /\ results \in [Goroutines -> {None, "cancelled", "failed", "ok"}]
      /\ attempts \in [Goroutines -> Seq(Types)]
      /\ None \notin {"ok", "failed"} /\ Fetchers \cap Tasks = {}
  BY WorkerAssumption DEF Control, Shape, Trail
\* A goroutine outside FetchWithFallback moves, or none.
<1> DEFINE Quiet ==
             /\ UNCHANGED <<chain, at, last, attempts>>
             /\ \A g \in Goroutines :
                   /\ \/ pc'[g] = pc[g]
                      \/ pc'[g] \notin {"idle", "sem", "acquire", "try", "release"}
                      \/ pc[g] \in {"idle", "sem"} /\ pc'[g] \in {"sem", "acquire"}
                   /\ results'[g] = results[g] \/ results'[g] = "cancelled"
<1>1. ASSUME Quiet PROVE Trail'
  <2>1. AttemptState'
    <3>1. \A g \in Goroutines : attempts[g] = <<>> => Len(attempts[g]) = 0
      BY <1>0, EmptySeq
    <3>2. QED
      BY <1>1, <3>1 DEF Trail, AttemptState
  <2>2. AttemptsFollowChain'
    BY <1>1 DEF Trail, AttemptsFollowChain
  <2>3. QED
    BY <1>1, <2>1, <2>2 DEF Trail
<1>2. CASE RunStep
  <2>1. CASE StartTask \/ StartTaskAtTick
    <3>1. Spawn /\ pc[next] = "idle"
      BY <2>1, WorkerAssumption DEF StartTask, StartTaskAtTick, Control, DispatchState, Shape, Tasks
    <3>2. pc' = [pc EXCEPT ![next] = "sem"] /\ UNCHANGED <<chain, at, last, attempts, results>>
      BY <3>1 DEF Spawn
    <3>3. Quiet
      BY <1>0, <3>1, <3>2
    <3>4. QED
      BY <1>1, <3>3
  <2>2. CASE AwaitTick \/ LoopDone \/ Return
    <3>1. Quiet
      BY <2>2 DEF AwaitTick, LoopDone, Return
    <3>2. QED
      BY <1>1, <3>1
  <2>3. CASE SkipTask \/ CancelRest
    <3>1. /\ UNCHANGED <<pc, chain, at, last, attempts>>
          /\ \A g \in Goroutines : results'[g] = results[g] \/ results'[g] = "cancelled"
      BY <1>0, <2>3 DEF SkipTask, CancelRest
    <3>2. QED
      BY <1>1, <3>1
  <2>4. QED
    BY <1>2, <2>1, <2>2, <2>3 DEF RunStep
<1>3. ASSUME NEW t \in Tasks, TakeSlot(t) \/ GiveUp(t) \/ Report(t) \/ LeaveSlot(t) \/ LeaveGroup(t)
      PROVE  Trail'
  <2>1. /\ \/ pc[t] = "sem" /\ pc' = [pc EXCEPT ![t] = "acquire"]
           \/ \E l \in {"slot", "leave", "done"} : pc' = [pc EXCEPT ![t] = l]
        /\ UNCHANGED <<chain, at, last, attempts>>
        /\ results' = results \/ results' = [results EXCEPT ![t] = "cancelled"]
    BY <1>3 DEF TakeSlot, GiveUp, Report, LeaveSlot, LeaveGroup
  <2>2. Quiet
    BY <1>0, <2>1
  <2>3. QED
    BY <1>1, <2>2
<1>4. ASSUME NEW f \in Fetchers, Fetch(f) PROVE Trail'
  <2>1. /\ pc[f] = "idle" /\ pc' = [pc EXCEPT ![f] = "acquire"]
        /\ UNCHANGED <<at, last, attempts, results>>
        /\ \A g \in Goroutines : g # f => chain'[g] = chain[g]
    BY <1>4 DEF Fetch, Control, Shape
  <2>2. f \in Goroutines /\ at[f] = 1 /\ attempts[f] = <<>> /\ last[f] = "none" /\ results[f] = None
    BY <2>1 DEF Control, FetcherState, Trail, AttemptState, Goroutines
  <2>3. chain'[f] \in Seq(Types) /\ Len(attempts[f]) = 0
    BY <2>2 DEF Control, Shape
  <2>4. IsPrefix(attempts[f], chain'[f])
    BY <2>2, <2>3, PrefixEmpty
  <2>5. AttemptState'
    <3>1. /\ pc'[f] = "acquire" /\ at'[f] = 1 /\ Len(attempts'[f]) = 0 /\ last'[f] = "none"
          /\ \A g \in Goroutines : g # f => pc'[g] = pc[g]
      BY <1>0, <2>1, <2>2, <2>3
    <3>2. QED
      BY <2>1, <3>1 DEF Trail, AttemptState
  <2>6. AttemptsFollowChain'
    BY <1>0, <2>1, <2>2, <2>4 DEF Trail, AttemptsFollowChain
  <2>7. QED
    BY <2>1, <2>5, <2>6 DEF Trail
<1>5. CASE \/ Cancel \/ SetClosed \/ Drain \/ Discard \/ \E t \in Types : SetPrimary(t)
           \/ UNCHANGED vars
  <2>1. Quiet
    BY <1>5 DEF Cancel, SetClosed, Drain, Discard, SetPrimary, vars
  <2>2. QED
    BY <1>1, <2>1
<1>6. QED
  BY <1>2, <1>3, <1>4, <1>5, TrailFetch DEF Next, TaskStep, Goroutines

-----------------------------------------------------------------------------
(* Browsers: one in the hand of whoever tries a type.                      *)

LEMMA OneBrowserInit == Init => OneBrowserEach
BY WorkerAssumption DEF Init, OneBrowserEach, Lease!Init

\* The browsers of h, and what it means that h has as many as its place says.
Hand(h) == {b \in Browsers : holder[b] = h}
Fits(h) == IF pc[h] \in {"try", "release"} THEN \E b \in Hand(h) : Hand(h) = {b} ELSE Hand(h) = {}

LEMMA OneBrowserFetch ==
    ASSUME Control, OneBrowserEach, NEW g \in Goroutines, FetchStep(g)
    PROVE  OneBrowserEach'
<1> USE DEF pool, dispatcher
<1>0. /\ pc \in [Goroutines -> PC] /\ holder \in [Browsers -> Goroutines \cup {Shelf, None}]
      /\ Shelf \notin Goroutines /\ None \notin Goroutines
      /\ \A h \in Goroutines : Fits(h)
  BY WorkerAssumption DEF Control, Shape, OneBrowserEach, Fits, Hand
<1>1. ASSUME \A h \in Goroutines : Fits(h)' PROVE OneBrowserEach'
  BY <1>1 DEF OneBrowserEach, Fits, Hand
<1>2. CASE AcquireOK(g)
  <2>1. PICK b \in Browsers : Lease!Issue(g, b) \/ Lease!Lease(g, b)
    BY <1>2 DEF AcquireOK
  <2>2. holder[b] \in {Shelf, None} /\ holder' = [holder EXCEPT ![b] = g]
    BY <2>1 DEF Lease!Issue, Lease!Lease
  <2>3. Hand(g) = {} /\ pc' = [pc EXCEPT ![g] = "try"]
    BY <1>0, <1>2 DEF AcquireOK, Fits
  <2>4. Hand(g)' = {b}
    BY <1>0, <2>2, <2>3 DEF Hand
  <2>5. \A h \in Goroutines : h # g => Hand(h)' = Hand(h) /\ pc'[h] = pc[h]
    BY <1>0, <2>2, <2>3 DEF Hand
  <2>6. pc'[g] = "try"
    BY <1>0, <2>3
  <2>7. QED
    BY <1>0, <1>1, <2>4, <2>5, <2>6 DEF Fits
<1>3. CASE ReleaseAndGoOn(g) \/ ReleaseAndReturn(g)
  <2>1. PICK b \in Browsers : holder[b] = g /\ \E x \in {Shelf, None} : holder' = [holder EXCEPT ![b] = x]
    BY <1>3 DEF ReleaseAndGoOn, ReleaseAndReturn, Release, Lease!Destroy, Lease!Shelve
  <2>2. Hand(g) = {b}
    BY <1>0, <1>3, <2>1 DEF ReleaseAndGoOn, ReleaseAndReturn, Fits, Hand
  <2>3. Hand(g)' = {}
    BY <1>0, <2>1, <2>2 DEF Hand
  <2>4. \A h \in Goroutines : h # g => Hand(h)' = Hand(h)
    BY <1>0, <2>1 DEF Hand
  <2>5. pc'[g] \in {"acquire", "report", "done"} /\ \A h \in Goroutines : h # g => pc'[h] = pc[h]
    BY <1>0, <1>3 DEF ReleaseAndGoOn, ReleaseAndReturn, NextType, Deliver
  <2>6. QED
    BY <1>0, <1>1, <2>3, <2>4, <2>5 DEF Fits
<1>4. CASE AcquireFails(g) \/ TryFetch(g) \/ AllFailed(g)
  <2>1. UNCHANGED holder
    BY <1>4 DEF AcquireFails, TryFetch, AllFailed
  <2>2. /\ pc'[g] \in {"try", "release"} <=> pc[g] \in {"try", "release"}
        /\ \A h \in Goroutines : h # g => pc'[h] = pc[h]
    BY <1>0, <1>4 DEF AcquireFails, TryFetch, AllFailed, NextType, Deliver
  <2>3. \A h \in Goroutines : Hand(h)' = Hand(h)
    BY <2>1 DEF Hand
  <2>4. QED
    BY <1>0, <1>1, <2>2, <2>3 DEF Fits
<1>5. QED
  BY <1>2, <1>3, <1>4 DEF FetchStep

LEMMA OneBrowserStep == Control /\ OneBrowserEach /\ [Next]_vars => OneBrowserEach'
<1> SUFFICES ASSUME Control, OneBrowserEach, [Next]_vars PROVE OneBrowserEach'
  OBVIOUS
<1> USE DEF pool, dispatcher, fetch
<1>0. /\ pc \in [Goroutines -> PC] /\ holder \in [Browsers -> Goroutines \cup {Shelf, None}]
      /\ Shelf \notin Goroutines /\ None \notin Goroutines
      /\ \A h \in Goroutines : Fits(h)
  BY WorkerAssumption DEF Control, Shape, OneBrowserEach, Fits, Hand
<1> DEFINE Quiet ==
             \A h \in Goroutines :
                /\ pc'[h] = pc[h] \/ {pc'[h], pc[h]} \cap {"try", "release"} = {}
                /\ \A b \in Browsers : holder'[b] = h <=> holder[b] = h
<1>1. ASSUME Quiet PROVE OneBrowserEach'
  <2>1. \A h \in Goroutines : Hand(h)' = Hand(h)
    BY <1>1 DEF Hand
  <2>2. ASSUME NEW h \in Goroutines PROVE Fits(h)'
    <3>1. /\ Fits(h) /\ Hand(h)' = Hand(h)
          /\ pc'[h] \in {"try", "release"} <=> pc[h] \in {"try", "release"}
      BY <1>0, <1>1, <2>1
    <3>2. QED
      BY <3>1 DEF Fits
  <2>3. QED
    BY <2>2 DEF OneBrowserEach, Fits, Hand
<1>2. CASE RunStep
  <2>1. CASE StartTask \/ StartTaskAtTick
    <3>1. Spawn /\ pc[next] = "idle"
      BY <2>1, WorkerAssumption DEF StartTask, StartTaskAtTick, Control, DispatchState, Shape, Tasks
    <3>2. pc' = [pc EXCEPT ![next] = "sem"] /\ UNCHANGED holder
      BY <3>1 DEF Spawn
    <3>3. Quiet
      BY <1>0, <3>1, <3>2
    <3>4. QED
      BY <1>1, <3>3
  <2>2. CASE AwaitTick \/ LoopDone \/ Return \/ SkipTask \/ CancelRest
    <3>1. Quiet
      BY <2>2 DEF AwaitTick, LoopDone, Return, SkipTask, CancelRest
    <3>2. QED
      BY <1>1, <3>1
  <2>3. QED
    BY <1>2, <2>1, <2>2 DEF RunStep
<1>3. ASSUME NEW t \in Tasks, TakeSlot(t) \/ GiveUp(t) \/ Report(t) \/ LeaveSlot(t) \/ LeaveGroup(t)
      PROVE  OneBrowserEach'
  <2>1. /\ pc[t] \in {"sem", "report", "slot", "leave"} /\ UNCHANGED holder
        /\ \E l \in {"acquire", "slot", "leave", "done"} : pc' = [pc EXCEPT ![t] = l]
    BY <1>3 DEF TakeSlot, GiveUp, Report, LeaveSlot, LeaveGroup
  <2>2. Quiet
    BY <1>0, <2>1
  <2>3. QED
    BY <1>1, <2>2
<1>4. ASSUME NEW f \in Fetchers, Fetch(f) PROVE OneBrowserEach'
  <2>1. pc[f] = "idle" /\ pc' = [pc EXCEPT ![f] = "acquire"] /\ UNCHANGED holder
    BY <1>4 DEF Fetch
  <2>2. Quiet
    BY <1>0, <2>1
  <2>3. QED
    BY <1>1, <2>2
<1>5. CASE Drain \/ Discard
  <2>1. /\ UNCHANGED pc
        /\ \A b \in Browsers : holder'[b] # holder[b] => holder[b] = Shelf /\ holder'[b] = None
    BY <1>0, <1>5 DEF Drain, Discard, Lease!ShutDown, Lease!Destroy
  <2>2. Quiet
    BY <1>0, <2>1
  <2>3. QED
    BY <1>1, <2>2
<1>6. CASE Cancel \/ SetClosed \/ (\E t \in Types : SetPrimary(t)) \/ UNCHANGED vars
  <2>1. Quiet
    BY <1>6 DEF Cancel, SetClosed, SetPrimary, vars
  <2>2. QED
    BY <1>1, <2>1
<1>7. QED
  BY <1>2, <1>3, <1>4, <1>5, <1>6, OneBrowserFetch DEF Next, TaskStep, Goroutines

-----------------------------------------------------------------------------
(* Counting: the semaphore, the wait group and the metrics.                *)

Ok == {g \in Goroutines : results[g] = "ok"}
Failed == {g \in Goroutines : results[g] = "failed"}
FellBack == {g \in Ok : Len(attempts[g]) > 1}

Counting ==
    /\ ConcurrencyRespected /\ GroupState
    /\ count.total = count.success + count.allFail + Cardinality(Fetching)
    /\ count.success = Cardinality(Ok)
    /\ count.allFail = Cardinality(Failed)
    /\ count.fallback = Cardinality(FellBack)

LEMMA CountingIsCountsAddUp ==
    Counting <=> ConcurrencyRespected /\ GroupState /\ CountsAddUp
BY DEF Counting, CountsAddUp, Ok, Failed, FellBack

\* What is counted is finite.
LEMMA FiniteSets ==
    /\ IsFiniteSet(Goroutines) /\ IsFiniteSet(Tasks)
    /\ Cardinality(Tasks) = NumTasks
    /\ IsFiniteSet(Alive) /\ IsFiniteSet(InSlot) /\ IsFiniteSet(Fetching)
    /\ IsFiniteSet(Ok) /\ IsFiniteSet(Failed) /\ IsFiniteSet(FellBack)
<1>1. IsFiniteSet(Tasks) /\ Cardinality(Tasks) = NumTasks
  BY WorkerAssumption, FS_Interval DEF Tasks
<1>2. IsFiniteSet(Goroutines)
  BY <1>1, WorkerAssumption, FS_Union DEF Goroutines
<1>3. QED
  BY <1>1, <1>2, FS_Subset DEF Alive, InSlot, Fetching, Ok, Failed, FellBack

\* One element more, or one less.
LEMMA OneMore ==
    ASSUME NEW S, IsFiniteSet(S), NEW x
    PROVE  /\ Cardinality(S) \in Nat
           /\ x \notin S => Cardinality(S \cup {x}) = Cardinality(S) + 1
           /\ x \in S => Cardinality(S \ {x}) = Cardinality(S) - 1
BY FS_CardinalityType, FS_AddElement, FS_RemoveElement

LEMMA CountingInit == Init => Counting
<1> SUFFICES ASSUME Init PROVE Counting
  OBVIOUS
<1>1. Alive = {} /\ InSlot = {} /\ Fetching = {} /\ Ok = {} /\ Failed = {} /\ FellBack = {}
  BY WorkerAssumption DEF Init, Alive, InSlot, Fetching, Ok, Failed, FellBack, Goroutines
<1>2. QED
  BY <1>1, FS_EmptySet, WorkerAssumption DEF Init, Counting, ConcurrencyRespected, GroupState

Tally == <<Alive, InSlot, Fetching, Ok, Failed, FellBack>>

LEMMA CountingFrame ==
    ASSUME Counting, UNCHANGED Tally, UNCHANGED <<sem, wg, count>>,
           run' = run \/ run' # "returned"
    PROVE  Counting'
BY DEF Counting, ConcurrencyRespected, GroupState, Tally

\* One goroutine moves on within FetchWithFallback.
LEMMA CountingFetch ==
    ASSUME Control, Trail, Counting, NEW g \in Goroutines, FetchStep(g)
    PROVE  Counting'
<1> USE DEF pool, dispatcher
<1>0. /\ pc[g] \in {"acquire", "try", "release"} /\ results[g] = None
      /\ Len(attempts[g]) = at[g] - 1
      /\ attempts \in [Goroutines -> Seq(Types)] /\ chain[g] \in Seq(Types) /\ at[g] \in Nat \ {0}
      /\ pc \in [Goroutines -> PC]
      /\ results \in [Goroutines -> {None, "cancelled", "failed", "ok"}]
      /\ count \in Counts
      /\ None \notin {"ok", "failed"} /\ Fetchers \cap Tasks = {}
      /\ UNCHANGED <<sem, wg, run>>
  BY WorkerAssumption DEF FetchStep, AcquireOK, AcquireFails, TryFetch, ReleaseAndGoOn, ReleaseAndReturn,
         AllFailed, Control, TaskState, FetcherState, Trail, AttemptState, Goroutines, Shape
<1>1. CASE AcquireOK(g) \/ AcquireFails(g) \/ TryFetch(g) \/ ReleaseAndGoOn(g)
  <2>1. /\ UNCHANGED <<results, count>>
        /\ pc'[g] \in {"acquire", "try", "release"}
        /\ \A h \in Goroutines : h # g => pc'[h] = pc[h] /\ attempts'[h] = attempts[h]
    BY <1>0, <1>1 DEF AcquireOK, AcquireFails, TryFetch, ReleaseAndGoOn, NextType
  <2>2. Fetching' = Fetching /\ Alive' = Alive /\ InSlot' = InSlot
    BY <1>0, <2>1 DEF Fetching, Alive, InSlot, Goroutines
  <2>3. Ok' = Ok /\ Failed' = Failed /\ FellBack' = FellBack
    BY <1>0, <2>1 DEF Ok, Failed, FellBack
  <2>4. QED
    BY <1>0, <2>1, <2>2, <2>3, CountingFrame DEF Tally
\* g leaves FetchWithFallback with a result.
<1>2. ASSUME NEW r \in {"ok", "failed"}, Deliver(g, r)
      PROVE  /\ Fetching' = Fetching \ {g} /\ g \in Fetching
             /\ Alive' = Alive /\ InSlot' = InSlot
             /\ Ok' = IF r = "ok" THEN Ok \cup {g} ELSE Ok
             /\ Failed' = IF r = "failed" THEN Failed \cup {g} ELSE Failed
             /\ g \notin Ok \cup Failed
  <2>1. /\ results'[g] = r /\ pc'[g] = (IF g \in Tasks THEN "report" ELSE "done")
        /\ \A h \in Goroutines : h # g => results'[h] = results[h] /\ pc'[h] = pc[h]
    BY <1>0, <1>2 DEF Deliver
  <2>2. Fetching' = Fetching \ {g} /\ g \in Fetching
    BY <1>0, <2>1 DEF Fetching
  <2>3. Alive' = Alive /\ InSlot' = InSlot
    BY <1>0, <2>1 DEF Alive, InSlot, Goroutines
  <2>4. /\ Ok' = IF r = "ok" THEN Ok \cup {g} ELSE Ok
        /\ Failed' = IF r = "failed" THEN Failed \cup {g} ELSE Failed
        /\ g \notin Ok \cup Failed
    BY <1>0, <2>1 DEF Ok, Failed
  <2>5. QED
    BY <2>2, <2>3, <2>4
<1>3. /\ Cardinality(Fetching \ {g}) = Cardinality(Fetching) - 1 \/ g \notin Fetching
      /\ Cardinality(Ok \cup {g}) = Cardinality(Ok) + 1 \/ g \in Ok
      /\ Cardinality(Failed \cup {g}) = Cardinality(Failed) + 1 \/ g \in Failed
      /\ Cardinality(FellBack \cup {g}) = Cardinality(FellBack) + 1 \/ g \in FellBack
      /\ Cardinality(Fetching) \in Nat /\ Cardinality(Ok) \in Nat
      /\ Cardinality(Failed) \in Nat /\ Cardinality(FellBack) \in Nat
  BY FiniteSets, OneMore
<1>4. CASE ReleaseAndReturn(g)
  <2>1. /\ Fetching' = Fetching \ {g} /\ g \in Fetching
        /\ Alive' = Alive /\ InSlot' = InSlot
        /\ Ok' = Ok \cup {g} /\ Failed' = Failed /\ g \notin Ok
    BY <1>2, <1>4 DEF ReleaseAndReturn
  <2>2. /\ Len(attempts'[g]) = at[g]
        /\ \A h \in Goroutines : h # g => attempts'[h] = attempts[h]
    <3>1. at[g] \in DOMAIN chain[g] /\ attempts' = [attempts EXCEPT ![g] = Append(@, chain[g][at[g]])]
      BY <1>4 DEF ReleaseAndReturn, Trail, AttemptState
    <3>2. chain[g][at[g]] \in Types
      BY <1>0, <3>1
    <3>3. QED
      BY <1>0, <3>1, <3>2, AppendProperties
  <2>3. FellBack' = IF at[g] > 1 THEN FellBack \cup {g} ELSE FellBack
    BY <1>0, <2>1, <2>2 DEF FellBack, Ok
  <2>4. /\ count'.total = count.total /\ count'.success = count.success + 1
        /\ count'.allFail = count.allFail
        /\ count'.fallback = IF at[g] > 1 THEN count.fallback + 1 ELSE count.fallback
    BY <1>0, <1>4 DEF ReleaseAndReturn, Counts
  <2>5. g \notin FellBack
    BY <2>1 DEF FellBack
  <2>6. QED
    <3>1. /\ count'.total = count'.success + count'.allFail + Cardinality(Fetching')
          /\ count'.success = Cardinality(Ok')
          /\ count'.allFail = Cardinality(Failed')
      BY <1>0, <1>3, <2>1, <2>4 DEF Counting, Counts
    <3>2. count'.fallback = Cardinality(FellBack')
      BY <1>0, <1>3, <2>3, <2>4, <2>5 DEF Counting, Counts
    <3>3. ConcurrencyRespected' /\ GroupState'
      BY <1>0, <2>1 DEF Counting, ConcurrencyRespected, GroupState
    <3>4. QED
      BY <3>1, <3>2, <3>3 DEF Counting
<1>5. CASE AllFailed(g)
  <2>1. /\ Fetching' = Fetching \ {g} /\ g \in Fetching
        /\ Alive' = Alive /\ InSlot' = InSlot
        /\ Ok' = Ok /\ Failed' = Failed \cup {g} /\ g \notin Failed
    BY <1>2, <1>5 DEF AllFailed
  <2>2. FellBack' = FellBack
    BY <1>5, <2>1 DEF AllFailed, FellBack
  <2>3. /\ count'.total = count.total /\ count'.success = count.success
        /\ count'.allFail = count.allFail + 1 /\ count'.fallback = count.fallback
    BY <1>0, <1>5 DEF AllFailed, Counts
  <2>4. QED
    <3>1. /\ count'.total = count'.success + count'.allFail + Cardinality(Fetching')
          /\ count'.success = Cardinality(Ok')
          /\ count'.allFail = Cardinality(Failed')
          /\ count'.fallback = Cardinality(FellBack')
      BY <1>0, <1>3, <2>1, <2>2, <2>3 DEF Counting, Counts
    <3>2. ConcurrencyRespected' /\ GroupState'
      BY <1>0, <2>1 DEF Counting, ConcurrencyRespected, GroupState
    <3>3. QED
      BY <3>1, <3>2 DEF Counting
<1>6. QED
  BY <1>1, <1>4, <1>5 DEF FetchStep

LEMMA CountingStep == Control /\ Trail /\ Counting /\ [Next]_vars => Counting'
<1> SUFFICES ASSUME Control, Trail, Counting, [Next]_vars PROVE Counting'
  OBVIOUS
<1> USE DEF pool, dispatcher, fetch
<1>0. /\ pc \in [Goroutines -> PC]
      /\ results \in [Goroutines -> {None, "cancelled", "failed", "ok"}]
      /\ attempts \in [Goroutines -> Seq(Types)]
      /\ count \in Counts /\ NumTasks \in Nat /\ next \in 1 .. NumTasks + 1
      /\ None \notin {"cancelled", "ok", "failed"} /\ Fetchers \cap Tasks = {}
      /\ Tasks \subseteq Goroutines /\ Fetchers \subseteq Goroutines
  BY WorkerAssumption DEF Control, Shape, Trail, Goroutines
<1>1. /\ sem = Cardinality(InSlot) /\ sem <= Concurrency /\ wg = Cardinality(Alive)
      /\ sem \in Nat /\ wg \in Nat /\ Concurrency \in Nat
      /\ run = "returned" => Alive = {}
  BY FiniteSets, FS_CardinalityType, WorkerAssumption DEF Counting, ConcurrencyRespected, GroupState
\* Nothing that is counted moves.
<1>2. ASSUME UNCHANGED <<pc, attempts, count, sem, wg>>, run' = run \/ run' # "returned",
             \A g \in Goroutines : results'[g] = results[g] \/ (results[g] = None /\ results'[g] = "cancelled")
      PROVE  Counting'
  <2>1. UNCHANGED <<Alive, InSlot, Fetching>>
    BY <1>2 DEF Alive, InSlot, Fetching
  <2>2. UNCHANGED <<Ok, Failed>>
    BY <1>0, <1>2 DEF Ok, Failed
  <2>3. UNCHANGED FellBack
    BY <1>2, <2>2 DEF FellBack
  <2>4. QED
    BY <1>2, <2>1, <2>2, <2>3, CountingFrame DEF Tally
<1>3. ASSUME UNCHANGED <<results, attempts>> PROVE Ok' = Ok /\ Failed' = Failed /\ FellBack' = FellBack
  BY <1>3 DEF Ok, Failed, FellBack
<1>4. CASE StartTask \/ StartTaskAtTick
  <2>1. /\ next \in Tasks /\ pc[next] = "idle"
        /\ pc' = [pc EXCEPT ![next] = "sem"] /\ wg' = wg + 1 /\ run' = "loop"
        /\ UNCHANGED <<sem, results, attempts, count>>
    BY <1>0, <1>4 DEF StartTask, StartTaskAtTick, Spawn, Control, DispatchState, Tasks
  <2>2. Alive' = Alive \cup {next} /\ next \notin Alive /\ InSlot' = InSlot /\ Fetching' = Fetching
    BY <1>0, <2>1 DEF Alive, InSlot, Fetching
  <2>3. Cardinality(Alive') = Cardinality(Alive) + 1
    BY <2>2, FiniteSets, OneMore
  <2>4. QED
    BY <1>1, <1>3, <2>1, <2>2, <2>3 DEF Counting, ConcurrencyRespected, GroupState
<1>5. CASE SkipTask \/ CancelRest
  <2>1. \A g \in Goroutines : results'[g] = results[g] \/ (results[g] = None /\ results'[g] = "cancelled")
    <3>1. CASE SkipTask
      <4>1. results' = [results EXCEPT ![next] = "cancelled"] /\ next \in Tasks /\ results[next] = None
        BY <1>0, <3>1 DEF SkipTask, Control, DispatchState, Tasks
      <4>2. QED
        BY <1>0, <4>1
    <3>2. CASE CancelRest
      <4>1. \A t \in next .. NumTasks : t \in Tasks /\ results[t] = None
        BY <1>0, <3>2 DEF CancelRest, Control, DispatchState, Tasks
      <4>2. QED
        BY <3>2, <4>1 DEF CancelRest
    <3>3. QED
      BY <1>5, <3>1, <3>2
  <2>2. UNCHANGED <<pc, attempts, count, sem, wg>> /\ run' # "returned"
    BY <1>5 DEF SkipTask, CancelRest
  <2>3. QED
    BY <1>2, <2>1, <2>2
<1>6. CASE AwaitTick \/ LoopDone \/ Cancel \/ SetClosed \/ Drain \/ Discard
           \/ (\E t \in Types : SetPrimary(t)) \/ UNCHANGED vars
  <2>1. UNCHANGED <<pc, attempts, count, sem, wg, results>> /\ (run' = run \/ run' # "returned")
    BY <1>6 DEF AwaitTick, LoopDone, Cancel, SetClosed, Drain, Discard, SetPrimary, vars
  <2>2. QED
    BY <1>2, <2>1
<1>7. CASE Return
  <2>1. UNCHANGED <<pc, attempts, count, sem, wg, results>> /\ Cardinality(Alive) = 0
    BY <1>1, <1>7 DEF Return
  <2>2. Alive = {}
    BY <2>1, FiniteSets, FS_EmptySet
  <2>3. Alive' = Alive /\ InSlot' = InSlot /\ Fetching' = Fetching
    BY <2>1 DEF Alive, InSlot, Fetching
  <2>4. QED
    BY <1>3, <2>1, <2>2, <2>3 DEF Counting, ConcurrencyRespected, GroupState
<1>8. ASSUME NEW t \in Tasks, TakeSlot(t) PROVE Counting'
  <2>1. /\ pc[t] = "sem" /\ pc' = [pc EXCEPT ![t] = "acquire"] /\ sem < Concurrency /\ sem' = sem + 1
        /\ UNCHANGED <<wg, run, results, attempts>>
        /\ count' = [count EXCEPT !.total = @ + 1]
    BY <1>8 DEF TakeSlot
  <2>2. /\ InSlot' = InSlot \cup {t} /\ t \notin InSlot
        /\ Fetching' = Fetching \cup {t} /\ t \notin Fetching /\ Alive' = Alive
    BY <1>0, <2>1 DEF Alive, InSlot, Fetching
  <2>3. /\ Cardinality(InSlot') = Cardinality(InSlot) + 1
        /\ Cardinality(Fetching') = Cardinality(Fetching) + 1 /\ Cardinality(Fetching) \in Nat
    BY <2>2, FiniteSets, OneMore
  <2>4. /\ count'.total = count.total + 1 /\ count'.success = count.success
        /\ count'.allFail = count.allFail /\ count'.fallback = count.fallback
    BY <1>0, <2>1 DEF Counts
  <2>5. ConcurrencyRespected' /\ GroupState'
    BY <1>1, <2>1, <2>2, <2>3 DEF ConcurrencyRespected, GroupState
  <2>6. count'.total = count'.success + count'.allFail + Cardinality(Fetching')
    BY <1>0, <2>3, <2>4 DEF Counting, Counts
  <2>7. QED
    BY <1>3, <2>1, <2>4, <2>5, <2>6 DEF Counting
<1>9. ASSUME NEW f \in Fetchers, Fetch(f) PROVE Counting'
  <2>1. /\ pc[f] = "idle" /\ pc' = [pc EXCEPT ![f] = "acquire"]
        /\ UNCHANGED <<sem, wg, run, results, attempts>>
        /\ count' = [count EXCEPT !.total = @ + 1]
    BY <1>9 DEF Fetch
  <2>2. /\ InSlot' = InSlot /\ Fetching' = Fetching \cup {f} /\ f \notin Fetching /\ Alive' = Alive
    BY <1>0, <2>1 DEF Alive, InSlot, Fetching
  <2>3. Cardinality(Fetching') = Cardinality(Fetching) + 1 /\ Cardinality(Fetching) \in Nat
    BY <2>2, FiniteSets, OneMore
  <2>4. /\ count'.total = count.total + 1 /\ count'.success = count.success
        /\ count'.allFail = count.allFail /\ count'.fallback = count.fallback
    BY <1>0, <2>1 DEF Counts
  <2>5. ConcurrencyRespected' /\ GroupState'
    BY <1>1, <2>1, <2>2 DEF ConcurrencyRespected, GroupState
  <2>6. count'.total = count'.success + count'.allFail + Cardinality(Fetching')
    BY <1>0, <2>3, <2>4 DEF Counting, Counts
  <2>7. QED
    BY <1>3, <2>1, <2>4, <2>5, <2>6 DEF Counting
<1>10. ASSUME NEW t \in Tasks, GiveUp(t) \/ Report(t) PROVE Counting'
  <2>1. /\ UNCHANGED <<sem, wg, run, count, attempts>>
        /\ \/ pc[t] = "sem" /\ pc' = [pc EXCEPT ![t] = "leave"]
           \/ pc[t] = "report" /\ pc' = [pc EXCEPT ![t] = "slot"]
        /\ \A g \in Goroutines :
              results'[g] = results[g] \/ (results[g] = None /\ results'[g] = "cancelled")
    BY <1>0, <1>10 DEF GiveUp, Report, Control, TaskState
  <2>2. Alive' = Alive /\ InSlot' = InSlot /\ Fetching' = Fetching
    BY <1>0, <2>1 DEF Alive, InSlot, Fetching
  <2>3. Ok' = Ok /\ Failed' = Failed
    BY <1>0, <2>1 DEF Ok, Failed
  <2>4. FellBack' = FellBack
    BY <2>1, <2>3 DEF FellBack
  <2>5. QED
    BY <2>1, <2>2, <2>3, <2>4, CountingFrame DEF Tally
<1>11. ASSUME NEW t \in Tasks, LeaveSlot(t) PROVE Counting'
  <2>1. /\ pc[t] = "slot" /\ pc' = [pc EXCEPT ![t] = "leave"] /\ sem' = sem - 1
        /\ UNCHANGED <<wg, run, results, attempts, count>>
    BY <1>11 DEF LeaveSlot
  <2>2. InSlot' = InSlot \ {t} /\ t \in InSlot /\ Fetching' = Fetching /\ Alive' = Alive
    BY <1>0, <2>1 DEF Alive, InSlot, Fetching
  <2>3. Cardinality(InSlot') = Cardinality(InSlot) - 1
    BY <2>2, FiniteSets, OneMore
  <2>4. ConcurrencyRespected' /\ GroupState'
    BY <1>1, <2>1, <2>2, <2>3 DEF ConcurrencyRespected, GroupState
  <2>5. QED
    BY <1>3, <2>1, <2>2, <2>4 DEF Counting
<1>12. ASSUME NEW t \in Tasks, LeaveGroup(t) PROVE Counting'
  <2>1. /\ pc[t] = "leave" /\ pc' = [pc EXCEPT ![t] = "done"] /\ wg' = wg - 1
        /\ UNCHANGED <<sem, run, results, attempts, count>>
    BY <1>12 DEF LeaveGroup
  <2>2. Alive' = Alive \ {t} /\ t \in Alive /\ Fetching' = Fetching /\ InSlot' = InSlot
    BY <1>0, <2>1 DEF Alive, InSlot, Fetching
  <2>3. Cardinality(Alive') = Cardinality(Alive) - 1
    BY <2>2, FiniteSets, OneMore
  <2>4. ConcurrencyRespected' /\ GroupState'
    BY <1>1, <2>1, <2>2, <2>3 DEF ConcurrencyRespected, GroupState
  <2>5. QED
    BY <1>3, <2>1, <2>2, <2>4 DEF Counting
<1>13. QED
  BY <1>4, <1>5, <1>6, <1>7, <1>8, <1>9, <1>10, <1>11, <1>12, CountingFetch
     DEF Next, RunStep, TaskStep, Goroutines

-----------------------------------------------------------------------------
(* The invariant and what follows from it.                                 *)

\* The bounds that Shape leaves out follow from counting.
LEMMA IInvParts == IInv <=> Control /\ Trail /\ OneBrowserEach /\ Counting
<1>1. IInv => Control /\ Trail /\ OneBrowserEach /\ Counting
  <2> SUFFICES ASSUME IInv PROVE Control /\ Trail /\ OneBrowserEach /\ Counting
    OBVIOUS
  <2>1. Shape
    BY DEF IInv, TypeOK, Shape, Counts
  <2>2. QED
    BY <2>1, CountingIsCountsAddUp DEF IInv, TypeOK, Control, Trail
<1>2. Control /\ Trail /\ OneBrowserEach /\ Counting => IInv
  <2> SUFFICES ASSUME Control, Trail, OneBrowserEach, Counting PROVE IInv
    OBVIOUS
  <2>1. sem \in 0 .. Concurrency
    BY FiniteSets, FS_CardinalityType, WorkerAssumption DEF Counting, ConcurrencyRespected
  <2>2. wg \in 0 .. NumTasks
    <3>1. Alive \subseteq Tasks
      BY DEF Alive
    <3>2. Cardinality(Alive) <= NumTasks /\ Cardinality(Alive) \in Nat
      BY <3>1, FiniteSets, FS_Subset, FS_CardinalityType
    <3>3. QED
      BY <3>2, WorkerAssumption DEF Counting, GroupState
  <2>3. TypeOK
    BY <2>1, <2>2 DEF Control, Shape, Trail, TypeOK, Counts
  <2>4. QED
    BY <2>3, CountingIsCountsAddUp DEF IInv, Control, Trail, Counting
<1>3. QED
  BY <1>1, <1>2

\* Types, control, attempts, browsers and counts hold in every reachable state.
THEOREM WorkerInvariant == Spec => []IInv
<1> DEFINE Inv == Control /\ Trail /\ OneBrowserEach /\ Counting
<1>1. Init => Inv
  BY ControlInit, TrailInit, OneBrowserInit, CountingInit
<1>2. Inv /\ [Next]_vars => Inv'
  BY ControlStep, TrailStep, OneBrowserStep, CountingStep
<1>3. Inv => IInv
  BY IInvParts
<1>4. QED
  BY <1>1, <1>2, <1>3, PTL DEF Spec

\* The state variables keep their types; the semaphore's channel never holds
\* more than its capacity.
THEOREM WorkerTypeOK == Spec => []TypeOK
<1>1. IInv => TypeOK
  BY DEF IInv
<1>2. QED
  BY <1>1, WorkerInvariant, PTL

\* At most Concurrency tasks of a run are fetching at once (worker.go:123-129).
THEOREM WorkerConcurrencyRespected == Spec => []ConcurrencyRespected
<1>1. IInv => ConcurrencyRespected
  BY DEF IInv
<1>2. QED
  BY <1>1, WorkerInvariant, PTL

\* A fetch holds exactly one browser during an attempt, and none between two
\* attempts or after the last (pool.go:319-330).
THEOREM WorkerOneBrowserEach == Spec => []OneBrowserEach
<1>1. IInv => OneBrowserEach
  BY DEF IInv
<1>2. QED
  BY <1>1, WorkerInvariant, PTL

\* FetchResult.Attempts records the chain as far as it was tried
\* (pool.go:269-316).
THEOREM WorkerAttemptsFollowChain == Spec => []AttemptsFollowChain
<1>1. IInv => AttemptsFollowChain
  BY DEF IInv
<1>2. QED
  BY <1>1, WorkerInvariant, PTL

\* The metrics agree with the fetches that have ended and those under way
\* (pool.go:257-317).
THEOREM WorkerCountsAddUp == Spec => []CountsAddUp
<1>1. IInv => CountsAddUp
  BY DEF IInv
<1>2. QED
  BY <1>1, WorkerInvariant, PTL

\* After Run has returned each task has a result and neither a goroutine nor
\* a browser is left of it (worker.go:73-117).
THEOREM WorkerResultsComplete == Spec => []ResultsComplete
<1>1. IInv => ResultsComplete
  <2> SUFFICES ASSUME IInv, run = "returned", NEW t \in Tasks
               PROVE  /\ results[t] # None
                      /\ pc[t] \in {"idle", "done"}
                      /\ \A b \in Browsers : holder[b] # t
    BY DEF ResultsComplete
  <2>1. pc[t] \in {"idle", "done"}
    BY DEF IInv, GroupState, Alive
  <2>2. results[t] # None
    BY <2>1, WorkerAssumption DEF IInv, DispatchState, TaskState
  <2>3. {b \in Browsers : holder[b] = t} = {}
    BY <2>1 DEF IInv, OneBrowserEach, Goroutines
  <2>4. QED
    BY <2>1, <2>2, <2>3
<1>2. QED
  BY <1>1, WorkerInvariant, PTL

\* OnResult and Run agree on a task's result, and OnResult is called for every
\* task that was not cancelled (worker.go:151-156).
THEOREM WorkerReportsMatch == Spec => []ReportsMatch
<1>1. IInv => ReportsMatch
  <2> SUFFICES ASSUME IInv, NEW t \in Tasks
               PROVE  /\ reported[t] \in {None, results[t]}
                      /\ run = "returned" /\ reported[t] = None => results[t] = "cancelled"
    BY DEF ReportsMatch
  <2>1. reported[t] = IF pc[t] \in {"slot", "leave", "done"} /\ results[t] # "cancelled"
                      THEN results[t] ELSE None
    BY DEF IInv, TaskState
  <2>2. ASSUME run = "returned", reported[t] = None PROVE results[t] = "cancelled"
    <3>1. pc[t] \in {"idle", "done"}
      BY <2>2 DEF IInv, GroupState, Alive
    <3>2. CASE pc[t] = "idle"
      BY <2>2, <3>2 DEF IInv, DispatchState
    <3>3. CASE pc[t] = "done"
      BY <2>1, <2>2, <3>3 DEF IInv, TaskState
    <3>4. QED
      BY <3>1, <3>2, <3>3
  <2>3. QED
    BY <2>1, <2>2
<1>2. QED
  BY <1>1, WorkerInvariant, PTL

\* Each result is written once: the loop's cancellations and the goroutines'
\* own writes never meet at an index (worker.go:85-111, 127, 141).
THEOREM WorkerResultsFinal == Spec => ResultsFinal
<1>1. IInv /\ [Next]_vars
        => \A g \in Goroutines : results[g] # None => results'[g] = results[g]
  <2> SUFFICES ASSUME IInv, [Next]_vars, NEW g \in Goroutines, results[g] # None
               PROVE  results'[g] = results[g]
    OBVIOUS
  <2> USE DEF IInv, TypeOK
  <2>1. CASE SkipTask \/ CancelRest
    BY <2>1, WorkerAssumption DEF SkipTask, CancelRest, DispatchState, Tasks
  <2>2. CASE \E t \in Tasks : GiveUp(t)
    BY <2>2 DEF GiveUp, TaskState
  <2>3. ASSUME NEW h \in Goroutines, FetchStep(h) PROVE results'[g] = results[g]
    <3>1. results[h] = None
      BY <2>3 DEF FetchStep, AcquireOK, AcquireFails, TryFetch, ReleaseAndGoOn,
                  ReleaseAndReturn, AllFailed, TaskState, FetcherState, Goroutines
    <3>2. results' = results \/ \E r \in {"ok", "failed"} : results' = [results EXCEPT ![h] = r]
      BY <2>3 DEF FetchStep, AcquireOK, AcquireFails, TryFetch, ReleaseAndGoOn,
                  ReleaseAndReturn, AllFailed, Deliver
    <3>3. QED
      BY <3>1, <3>2
  <2>4. CASE UNCHANGED results
    BY <2>4
  <2>5. CASE UNCHANGED vars
    BY <2>5 DEF vars
  <2>6. StartTask \/ AwaitTick \/ StartTaskAtTick \/ LoopDone \/ Return \/ Cancel
          \/ SetClosed \/ Drain \/ Discard \/ (\E t \in Types : SetPrimary(t))
          \/ (\E f \in Fetchers : Fetch(f))
          \/ (\E t \in Tasks : TakeSlot(t) \/ Report(t) \/ LeaveSlot(t) \/ LeaveGroup(t))
          => UNCHANGED results
    BY DEF StartTask, AwaitTick, StartTaskAtTick, Spawn, LoopDone, Return, Cancel,
           SetClosed, Drain, Discard, SetPrimary, Fetch, TakeSlot, Report, LeaveSlot,
           LeaveGroup
  <2>7. QED
    BY <2>1, <2>2, <2>3, <2>4, <2>5, <2>6 DEF Next, RunStep, TaskStep, Goroutines
<1>2. QED
  BY <1>1, WorkerInvariant, PTL DEF Spec, ResultsFinal

=============================================================================
