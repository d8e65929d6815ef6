----------------------------- MODULE Navigation -----------------------------
(***************************************************************************)
(* browser: one browser and the calls that bring it to a URL and look for  *)
(* a block page: NavigateAndCheck with CheckWAF, and the pool's tryFetch.  *)
(*                                                                         *)
(* The document may replace itself at any time, as challenge pages do.     *)
(* The markup and the title are read in two calls.  A browserless browser  *)
(* evaluates in an isolated world it creates once per Navigate and that    *)
(* dies with its document; surf evaluates nothing and has no title.        *)
(***************************************************************************)
EXTENDS Naturals, FiniteSets

CONSTANTS Docs,      \* documents: records of short, markup and title, where the
                     \* last two are the sets of signals found there
          MaxMoves,  \* bound on the replacements during a call
          None

Signals == {"cloudflare", "akamai", "waf"}
Verdicts == {"none", "empty_response", "cloudflare", "akamai", "generic_waf"}

ASSUME NavigationAssumption ==
    /\ Docs \subseteq [short : BOOLEAN, markup : SUBSET Signals, title : SUBSET Signals]
    /\ None \notin Docs /\ None \notin Verdicts \cup {"ok", "error"}
    /\ MaxMoves \in Nat

VARIABLES
    kind,    \* the browser's backend
    call,    \* the call, with NavigateOpts
    pc,      \* where it is
    second,  \* it is in the check after WaitStable
    doc,     \* the document the browser shows
    world,   \* browserless: the isolated world that isolatedCtxID names
    markup,  \* the document whose markup was read last
    done,    \* the caller's context is done
    result,  \* of the last call
    failed,  \* ghost: the context ended, or a request timed out, during the call
    moved,   \* ghost: the document was replaced since the call last waited for it to
             \* settle, or began to look at it
    seen,    \* ghost: the documents shown to this call
    moves    \* replacements during this call

vars == <<kind, call, pc, second, doc, world, markup, done, result, failed, moved, seen, moves>>

Calls == [op : {"check"}, early : BOOLEAN, stable : BOOLEAN]
         \cup [op : {"fetch"}, early : {FALSE}, stable : {TRUE}]
TypeOK ==
    /\ kind \in {"rod", "browserless", "surf"}
    /\ call \in Calls
    /\ pc \in {"idle", "navigate", "wait", "markup", "title", "stable"}
    /\ second \in BOOLEAN
    /\ doc \in Docs \cup {None}
    /\ world \in {"none", "live", "dead"}
    /\ kind # "browserless" => world = "none"
    /\ markup \in Docs \cup {None}
    /\ done \in BOOLEAN
    /\ result \in {None, "ok", "error"} \cup (Verdicts \ {"none"})
    /\ failed \in BOOLEAN /\ moved \in BOOLEAN
    /\ seen \in SUBSET Docs
    /\ moves \in 0 .. MaxMoves

Init ==
    /\ kind \in {"rod", "browserless", "surf"}
    /\ call \in Calls
    /\ pc = "idle"
    /\ second = FALSE
    /\ doc = None
    /\ world = "none"
    /\ markup = None
    /\ done = FALSE
    /\ result = None
    /\ failed = FALSE /\ moved = FALSE
    /\ seen = {}
    /\ moves = 0

-----------------------------------------------------------------------------
(* Detect                                                                  *)

\* Detect on the markup of one document and the title signals of another.
Detect(html, title) ==
    LET anywhere == html.markup \cup title IN
    IF html.short THEN "empty_response"
    ELSE IF "cloudflare" \in anywhere THEN "cloudflare"
    ELSE IF "akamai" \in anywhere THEN "akamai"
    ELSE IF "waf" \in title THEN "generic_waf"
    ELSE "none"

BlockPage(d) == Detect(d, d.title) # "none"

-----------------------------------------------------------------------------
(* The calls                                                               *)

Finish(r) == pc' = "idle" /\ result' = r

\* The first check or the second is over without a verdict.
Pass ==
    IF call.op = "check" /\ call.stable /\ ~second
    THEN pc' = "stable" /\ UNCHANGED result
    ELSE Finish("ok")

Begin ==
    /\ pc = "idle"
    /\ pc' = "navigate"
    /\ call' \in Calls
    /\ second' = FALSE
    /\ world' = "none"
    /\ markup' = None
    /\ done' = FALSE /\ result' = None
    /\ failed' = FALSE /\ moved' = FALSE
    /\ seen' = {} /\ moves' = 0
    /\ UNCHANGED <<kind, doc>>

\* Mutant of Navigated: nothing waits for the new document.
NavigatedTooEarly ==
    /\ pc = "navigate"
    /\ \/ doc' \in Docs /\ seen' = {doc'}
       \/ doc # None /\ UNCHANGED <<doc, seen>>
    /\ pc' = IF call.op = "fetch" THEN "stable" ELSE IF call.early THEN "wait" ELSE "markup"
    /\ UNCHANGED <<kind, call, second, world, markup, done, result, failed, moved, moves>>

\* The browser shows what the URL serves.  Browserless comes here also when
\* the context ends while it waits for DOMContentLoaded.
Navigated ==
    /\ pc = "navigate"
    /\ doc' \in Docs
    /\ seen' = {doc'}
    /\ pc' = IF call.op = "fetch" THEN "stable" ELSE IF call.early THEN "wait" ELSE "markup"
    /\ UNCHANGED <<kind, call, second, world, markup, done, result, failed, moved, moves>>

NavigateFails ==
    /\ pc = "navigate"
    /\ Finish("error")
    /\ UNCHANGED <<kind, call, second, doc, world, markup, done, failed, moved, seen, moves>>

EarlyWaitOver ==
    /\ pc = "wait"
    /\ \/ pc' = "markup" /\ UNCHANGED result
       \/ done /\ Finish("error")
    /\ UNCHANGED <<kind, call, second, doc, world, markup, done, failed, moved, seen, moves>>

\* Mutant of Stabilised: no check after WaitStable.
StabilisedUnchecked ==
    /\ pc = "stable"
    /\ \/ call.op = "fetch" /\ pc' = "markup" /\ second' = TRUE /\ UNCHANGED result
       \/ call.op = "check" /\ Finish("ok") /\ UNCHANGED second
    /\ moved' = FALSE
    /\ UNCHANGED <<kind, call, doc, world, markup, done, failed, seen, moves>>

\* WaitStable has settled, or has failed: NavigateAndCheck goes on, tryFetch
\* does not.  surf has nothing to wait for.
Stabilised ==
    /\ pc = "stable"
    /\ \/ pc' = "markup" /\ second' = TRUE /\ UNCHANGED result
       \/ call.op = "fetch" /\ kind # "surf" /\ Finish("error") /\ UNCHANGED second
    /\ moved' = FALSE
    /\ UNCHANGED <<kind, call, doc, world, markup, done, failed, seen, moves>>

\* Eval has a world to evaluate in.
Evaluates == kind = "rod" \/ (kind = "browserless" /\ world # "dead")

\* CheckWAF reads the markup by Eval, tryFetch by HTML.
MarkupRead ==
    /\ pc = "markup"
    /\ ~done
    /\ call.op = "fetch" \/ Evaluates
    /\ markup' = doc
    /\ moved' = FALSE
    /\ world' = IF call.op = "check" /\ kind = "browserless" THEN "live" ELSE world
    /\ pc' = "title"
    /\ UNCHANGED <<kind, call, second, doc, done, result, failed, seen, moves>>

\* The context is done, the request took too long, or Eval has no world, which
\* stays recorded.  CheckWAF then lets the page pass.
MarkupFails ==
    /\ pc = "markup"
    /\ failed' = (failed \/ call.op = "fetch" \/ Evaluates)
    /\ moved' = FALSE
    /\ IF call.op = "check" THEN Pass ELSE Finish("error")
    /\ UNCHANGED <<kind, call, second, doc, world, markup, done, seen, moves>>

Judge(title) ==
    LET v == Detect(markup, title) IN
    IF v = "none" THEN Pass ELSE Finish(v)

TitleRead ==
    /\ pc = "title"
    /\ ~done /\ kind # "surf"
    /\ Judge(doc.title)
    /\ UNCHANGED <<kind, call, second, doc, world, markup, done, failed, moved, seen, moves>>

\* Mutant of TitleFails: Detect's result is returned whatever it says.
TitleFailsReports ==
    /\ pc = "title"
    /\ failed' = (failed \/ kind # "surf")
    /\ Finish(Detect(markup, {}))
    /\ UNCHANGED <<kind, call, second, doc, world, markup, done, moved, seen, moves>>

\* Unsupported, or failed: CheckWAF goes on with an empty title, tryFetch only
\* if it is unsupported.
TitleFails ==
    /\ pc = "title"
    /\ failed' = (failed \/ kind # "surf")
    /\ IF call.op = "check" \/ kind = "surf" THEN Judge({}) ELSE Finish("error")
    /\ UNCHANGED <<kind, call, second, doc, world, markup, done, moved, seen, moves>>

-----------------------------------------------------------------------------
(* Around the calls                                                        *)

\* A redirect by the page, a challenge that appears or is solved; for surf,
\* the URL serves something else.
Move ==
    /\ pc # "navigate" /\ doc # None
    /\ moves < MaxMoves
    /\ doc' \in Docs \ {doc}
    /\ world' = IF world = "live" THEN "dead" ELSE world
    /\ moved' = TRUE
    /\ seen' = seen \cup {doc'}
    /\ moves' = moves + 1
    /\ UNCHANGED <<kind, call, pc, second, markup, done, result, failed>>

Cancel ==
    /\ pc # "idle" /\ ~done
    /\ done' = TRUE /\ failed' = TRUE
    /\ UNCHANGED <<kind, call, pc, second, doc, world, markup, result, moved, seen, moves>>

Next ==
    \/ Begin \/ Navigated \/ NavigateFails \/ EarlyWaitOver \/ Stabilised
    \/ MarkupRead \/ MarkupFails \/ TitleRead \/ TitleFails
    \/ Move \/ Cancel

Spec == Init /\ [][Next]_vars

-----------------------------------------------------------------------------
(* Properties                                                              *)

\* The call reports success, met no timeout and no end of its context, and the
\* page is still the one it last waited for or looked at.
Succeeded == pc = "idle" /\ result = "ok" /\ ~moved /\ ~failed

\* What success means.  After tryFetch, and after NavigateAndCheck where Eval
\* works to the end, the page is no block page, also when it became what it is
\* after the first check: the check after WaitStable catches it.  (surf has no
\* title to look at.)
SuccessWhereChecked ==
    Succeeded /\ (call.op = "fetch" \/ Evaluates) =>
        IF kind = "surf" THEN Detect(doc, {}) = "none" ELSE ~BlockPage(doc)

\* A block is never reported unless the call was shown a block page, though
\* markup and title may come from two documents: their mixture is one only if
\* one of them is.
NoFalseAlarm == result \in Verdicts => \E d \in seen : BlockPage(d)

-----------------------------------------------------------------------------
\* navigate.go:40, "NavigateAndCheck navigates to the URL and detects a WAF
\* block": after its success the page is no block page.  Refuted by a run.
SuccessIsClean == Succeeded /\ call.op = "check" => ~BlockPage(doc)

=============================================================================
