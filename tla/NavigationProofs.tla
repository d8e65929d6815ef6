-------------------------- MODULE NavigationProofs --------------------------
(***************************************************************************)
(* Proofs about Navigation, for every set of documents and every number of *)
(* replacements during a call.                                             *)
(***************************************************************************)
EXTENDS Navigation, TLAPS

\* What a call knows of the document it looks at: it was shown to the call,
\* and so was the one whose markup was read, which is the same if the page
\* has not moved since.  It has no result before its end.
Known ==
    /\ pc # "idle" => result = None
    /\ pc \notin {"idle", "navigate"} => doc \in seen
    /\ pc = "title" => markup \in seen /\ (~moved => markup = doc)

IInv == TypeOK /\ Known /\ SuccessWhereChecked /\ NoFalseAlarm

-----------------------------------------------------------------------------
(* Detect                                                                  *)

LEMMA DetectVerdict ==
    ASSUME NEW h \in Docs, NEW t
    PROVE  Detect(h, t) \in Verdicts
BY DEF Detect, Verdicts

\* A mixture of two documents looks blocked only if one of them is.
LEMMA MixtureBlocked ==
    ASSUME NEW h \in Docs, NEW d \in Docs, Detect(h, d.title) # "none"
    PROVE  BlockPage(h) \/ BlockPage(d)
BY DEF Detect, BlockPage

LEMMA MarkupBlocked ==
    ASSUME NEW h \in Docs, Detect(h, {}) # "none"
    PROVE  BlockPage(h)
BY DEF Detect, BlockPage

-----------------------------------------------------------------------------
LEMMA NavInit == Init => IInv
<1> SUFFICES ASSUME Init PROVE IInv
  OBVIOUS
<1> USE DEF Init
<1>1. 0 \in 0 .. MaxMoves
  BY NavigationAssumption
<1>2. TypeOK
  BY <1>1 DEF TypeOK
<1>3. Known
  BY DEF Known
<1>4. SuccessWhereChecked /\ NoFalseAlarm
  BY NavigationAssumption DEF SuccessWhereChecked, Succeeded, NoFalseAlarm
<1>5. QED
  BY <1>2, <1>3, <1>4 DEF IInv

\* The end of a check without a verdict, and with v.
LEMMA PassStep ==
    ASSUME TypeOK, Pass
    PROVE  \/ pc' = "stable" /\ result' = result
           \/ pc' = "idle" /\ result' = "ok"
BY DEF Pass, Finish

LEMMA JudgeStep ==
    ASSUME TypeOK, markup \in Docs, NEW t, Judge(t)
    PROVE  \/ Detect(markup, t) = "none" /\ Pass
           \/ /\ Detect(markup, t) \in Verdicts \ {"none"}
              /\ pc' = "idle" /\ result' = Detect(markup, t)
BY DetectVerdict DEF Judge, Finish

\* Reading the title, or doing without: whatever it is, it is that of a
\* document shown, or empty.
LEMMA TitleStep ==
    ASSUME IInv, TitleRead \/ TitleFails
    PROVE  IInv'
<1> USE DEF IInv
<1>1. /\ pc = "title" /\ markup \in Docs /\ doc \in Docs
      /\ doc \in seen /\ markup \in seen /\ (~moved => markup = doc)
      /\ result = None
  BY DEF TitleRead, TitleFails, Known, TypeOK
<1>2. PICK t : /\ Judge(t) \/ (pc' = "idle" /\ result' = "error")
               /\ t = {} \/ t = doc.title
               /\ ~failed' => t = IF kind = "surf" THEN {} ELSE doc.title
  <2>1. CASE TitleRead
    <3> WITNESS doc.title
    <3> QED
      BY <2>1 DEF TitleRead
  <2>2. CASE TitleFails
    <3> WITNESS {}
    <3>1. ~failed' => kind = "surf"
      BY <2>2 DEF TitleFails
    <3>2. QED
      BY <2>2, <3>1 DEF TitleFails, Finish
  <2>3. QED
    BY <2>1, <2>2
<1>3. /\ UNCHANGED <<kind, call, second, doc, world, markup, done, moved, seen, moves>>
      /\ failed' \in BOOLEAN
  BY DEF TitleRead, TitleFails, TypeOK
<1>4. CASE pc' = "stable" /\ result' = None
  <2>1. TypeOK'
    BY <1>3, <1>4 DEF TypeOK
  <2>2. Known' /\ SuccessWhereChecked' /\ NoFalseAlarm'
    BY <1>1, <1>3, <1>4 DEF Known, SuccessWhereChecked, Succeeded, NoFalseAlarm
  <2>3. QED
    BY <2>1, <2>2
<1>5. CASE pc' = "idle" /\ result' = "error"
  <2>1. TypeOK'
    BY <1>3, <1>5 DEF TypeOK
  <2>2. Known' /\ SuccessWhereChecked' /\ NoFalseAlarm'
    BY <1>3, <1>5 DEF Known, SuccessWhereChecked, Succeeded, NoFalseAlarm, Verdicts
  <2>3. QED
    BY <2>1, <2>2
<1>6. CASE pc' = "idle" /\ result' = "ok" /\ Detect(markup, t) = "none"
  <2>1. TypeOK'
    BY <1>3, <1>6 DEF TypeOK
  <2>2. Known' /\ NoFalseAlarm'
    BY <1>3, <1>6 DEF Known, NoFalseAlarm, Verdicts
  <2>3. SuccessWhereChecked'
    <3> SUFFICES ASSUME ~moved, ~failed'
                 PROVE  IF kind = "surf" THEN Detect(doc, {}) = "none" ELSE ~BlockPage(doc)
      BY <1>3 DEF SuccessWhereChecked, Succeeded, BlockPage, Detect
    <3>1. markup = doc
      BY <1>1
    <3>2. QED
      BY <1>2, <1>6, <3>1 DEF BlockPage
  <2>4. QED
    BY <2>1, <2>2, <2>3
<1>7. CASE pc' = "idle" /\ result' = Detect(markup, t) /\ Detect(markup, t) \in Verdicts \ {"none"}
  <2>1. TypeOK'
    BY <1>3, <1>7 DEF TypeOK
  <2>2. Known' /\ SuccessWhereChecked'
    BY <1>3, <1>7 DEF Known, SuccessWhereChecked, Succeeded, Verdicts
  <2>3. BlockPage(markup) \/ BlockPage(doc)
    BY <1>1, <1>2, <1>7, MixtureBlocked, MarkupBlocked
  <2>4. NoFalseAlarm'
    BY <1>1, <1>3, <2>3 DEF NoFalseAlarm, BlockPage, Detect
  <2>5. QED
    BY <2>1, <2>2, <2>4
<1>8. QED
  BY <1>1, <1>2, <1>4, <1>5, <1>6, <1>7, PassStep, JudgeStep

\* A check whose markup cannot be read succeeds only where the properties
\* promise nothing: a request has failed or Eval has no world.
LEMMA MarkupFailsStep ==
    ASSUME IInv, MarkupFails
    PROVE  IInv'
<1> USE DEF IInv
<1>1. /\ pc = "markup" /\ result = None /\ doc \in seen
      /\ UNCHANGED <<kind, call, second, doc, world, markup, done, seen, moves>>
      /\ failed' = (failed \/ call.op = "fetch" \/ Evaluates)
      /\ moved' = FALSE
  BY DEF MarkupFails, Known
<1>2. \/ pc' = "stable" /\ result' = None
      \/ pc' = "idle" /\ result' \in {"ok", "error"}
  BY <1>1, PassStep DEF MarkupFails, Finish
<1>3. failed' \in BOOLEAN
  BY <1>1 DEF TypeOK, Evaluates
<1>4. TypeOK'
  BY <1>1, <1>2, <1>3 DEF TypeOK
<1>5. Known' /\ NoFalseAlarm'
  BY <1>1, <1>2, NavigationAssumption DEF Known, NoFalseAlarm, Verdicts
<1>6. SuccessWhereChecked'
  BY <1>1, <1>2 DEF SuccessWhereChecked, Succeeded, Evaluates
<1>7. QED
  BY <1>4, <1>5, <1>6

LEMMA NavStep == IInv /\ [Next]_vars => IInv'
<1> SUFFICES ASSUME IInv, [Next]_vars PROVE IInv'
  OBVIOUS
<1> USE DEF IInv
<1>1. CASE Begin
  <2> USE <1>1 DEF Begin
  <2>1. TypeOK'
    <3>1. 0 \in 0 .. MaxMoves
      BY NavigationAssumption
    <3>2. QED
      BY <3>1 DEF TypeOK
  <2>2. Known' /\ SuccessWhereChecked' /\ NoFalseAlarm'
    BY NavigationAssumption DEF Known, SuccessWhereChecked, Succeeded, NoFalseAlarm
  <2>3. QED
    BY <2>1, <2>2
<1>2. CASE Navigated
  <2> USE <1>2 DEF Navigated
  <2>1. TypeOK'
    BY DEF TypeOK
  <2>2. Known' /\ SuccessWhereChecked' /\ NoFalseAlarm'
    BY NavigationAssumption DEF Known, SuccessWhereChecked, Succeeded, NoFalseAlarm
  <2>3. QED
    BY <2>1, <2>2
<1>3. CASE NavigateFails \/ EarlyWaitOver \/ Stabilised
  <2> USE <1>3 DEF NavigateFails, EarlyWaitOver, Stabilised, Finish
  <2>1. TypeOK'
    BY DEF TypeOK
  <2>2. Known'
    BY DEF Known
  <2>3. result' \in {None, "error"} /\ UNCHANGED seen
    BY DEF Known
  <2>4. SuccessWhereChecked' /\ NoFalseAlarm'
    BY <2>3, NavigationAssumption DEF SuccessWhereChecked, Succeeded, NoFalseAlarm, Verdicts
  <2>5. QED
    BY <2>1, <2>2, <2>4
<1>4. CASE MarkupRead
  <2> USE <1>4 DEF MarkupRead
  <2>1. TypeOK'
    BY DEF TypeOK
  <2>2. Known'
    BY DEF Known
  <2>3. SuccessWhereChecked' /\ NoFalseAlarm'
    BY NavigationAssumption DEF Known, SuccessWhereChecked, Succeeded, NoFalseAlarm
  <2>4. QED
    BY <2>1, <2>2, <2>3
<1>5. CASE MarkupFails
  BY <1>5, MarkupFailsStep
<1>6. CASE TitleRead \/ TitleFails
  BY <1>6, TitleStep
<1>7. CASE Move
  <2> USE <1>7 DEF Move
  <2>1. TypeOK'
    BY NavigationAssumption DEF TypeOK
  <2>2. Known'
    BY DEF Known
  <2>3. SuccessWhereChecked' /\ NoFalseAlarm'
    BY DEF SuccessWhereChecked, Succeeded, NoFalseAlarm, BlockPage, Detect
  <2>4. QED
    BY <2>1, <2>2, <2>3
<1>8. CASE Cancel
  <2> USE <1>8 DEF Cancel
  <2>1. TypeOK' /\ Known'
    BY DEF TypeOK, Known
  <2>2. SuccessWhereChecked' /\ NoFalseAlarm'
    BY NavigationAssumption DEF Known, SuccessWhereChecked, Succeeded, NoFalseAlarm
  <2>3. QED
    BY <2>1, <2>2
<1>9. CASE UNCHANGED vars
  BY <1>9 DEF vars, TypeOK, Known, SuccessWhereChecked, Succeeded, Evaluates, NoFalseAlarm,
              BlockPage, Detect
<1>10. QED
  BY <1>1, <1>2, <1>3, <1>4, <1>5, <1>6, <1>7, <1>8, <1>9 DEF Next

-----------------------------------------------------------------------------
\* The inductive invariant holds in every reachable state.
THEOREM NavigationInvariant == Spec => []IInv
BY NavInit, NavStep, PTL DEF Spec

\* Every variable keeps its type (navigate.go, detector.go).
THEOREM NavigationTypeOK == Spec => []TypeOK
<1>1. IInv => TypeOK
  BY DEF IInv
<1>2. QED
  BY <1>1, NavigationInvariant, PTL

\* A success where Eval works to the end means no block page (navigate.go:65-94,
\* pool.go:319-357).
THEOREM NavigationSuccessWhereChecked == Spec => []SuccessWhereChecked
<1>1. IInv => SuccessWhereChecked
  BY DEF IInv
<1>2. QED
  BY <1>1, NavigationInvariant, PTL

\* A reported block was shown (detector.go:59-85).
THEOREM NavigationNoFalseAlarm == Spec => []NoFalseAlarm
<1>1. IInv => NoFalseAlarm
  BY DEF IInv
<1>2. QED
  BY <1>1, NavigationInvariant, PTL
=============================================================================
