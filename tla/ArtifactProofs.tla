--------------------------- MODULE ArtifactProofs ---------------------------
(***************************************************************************)
(* Proofs about Artifact, for any writers, namespaces, references and      *)
(* contents: what cleanRef accepts, where keys lie, and that the index is  *)
(* true to the store.                                                      *)
(***************************************************************************)
EXTENDS Artifact, FiniteSetTheorems, Induction

-----------------------------------------------------------------------------
(* path.Clean and cleanRef                                                 *)

LEMMA UpLeads == Up \notin Nowhere
BY Zenon DEF Up, Nowhere

\* One segment more keeps a path a path.
LEMMA StepType ==
    ASSUME NEW S, NEW p \in Seq(S), NEW seg \in S
    PROVE  CleanStep(p, seg) \in Seq(S)
<1>1. CASE p # <<>>
  <2>1. Len(p) \in Nat \ {0} /\ Front(p) = SubSeq(p, 1, Len(p) - 1)
    BY <1>1 DEF Front
  <2>2. Front(p) \in Seq(S)
    BY <2>1
  <2>3. QED
    BY <1>1, <2>2 DEF CleanStep
<1>2. CASE p = <<>>
  BY <1>2 DEF CleanStep
<1>3. QED
  BY <1>1, <1>2

\* Cleaning is what its loop says, and leaves a path after each segment.
LEMMA PathsOn ==
    ASSUME NEW Segs, NEW ref \in Seq(Segs)
    PROVE  /\ Paths(ref) \in [0 .. Len(ref) -> Seq(Segs)]
           /\ \A n \in 0 .. Len(ref) :
                 Paths(ref)[n] = IF n = 0 THEN <<>> ELSE CleanStep(Paths(ref)[n - 1], ref[n])
<1> DEFINE N == Len(ref)
           S == Seq(Segs)
           Step(p, n) == CleanStep(p, ref[n])
           F == [n \in 1 .. N |-> [p \in S |-> Step(p, n)]]
           Loop(g) == [n \in 0 .. N |-> IF n = 0 THEN <<>> ELSE Step(g[n - 1], n)]
<1>1. N \in Nat /\ <<>> \in S
  OBVIOUS
<1>2. ASSUME NEW n \in 1 .. N PROVE ref[n] \in Segs
  BY <1>1
<1>3. ASSUME NEW n \in 1 .. N, NEW p \in S PROVE Step(p, n) \in S
  BY <1>2, StepType
<1> HIDE DEF S, Step
<1>4. F \in [1 .. N -> [S -> S]]
  BY <1>3
<1>5. PICK g \in [0 .. N -> S] : \A n \in 0 .. N : g[n] = IF n = 0 THEN <<>> ELSE F[n][g[n - 1]]
  <2> HIDE DEF F, N
  <2>1. PICK g \in [0 .. N -> S] : Iterates(g, F, <<>>, N)
    BY <1>1, <1>4, Iteration
  <2>2. QED
    BY <2>1 DEF Iterates
<1>6. \A n \in 0 .. N : n # 0 => n \in 1 .. N /\ n - 1 \in 0 .. N
  BY <1>1
<1>7. \A n \in 0 .. N : n # 0 => F[n][g[n - 1]] = Step(g[n - 1], n)
  BY <1>5, <1>6
<1>8. g = Loop(g)
  <2> HIDE DEF F
  <2>1. QED
    BY <1>5, <1>7
<1>9. Paths(ref) = Loop(Paths(ref))
  BY <1>8 DEF Paths, Step
<1> HIDE DEF Loop, N
<1>10. DOMAIN Paths(ref) = 0 .. N /\ \A n \in 0 .. N : Paths(ref)[n] = IF n = 0 THEN <<>> ELSE Step(Paths(ref)[n - 1], n)
  BY <1>9 DEF Loop
<1>11. \A n \in 0 .. N : Paths(ref)[n] \in S
  <2> DEFINE T == {n \in 0 .. N : Paths(ref)[n] \in S}
  <2>1. 0 \in T
    BY <1>1, <1>10
  <2>2. ASSUME NEW n \in 0 .. N - 1, n \in T PROVE n + 1 \in T
    <3>1. n + 1 \in 1 .. N /\ n + 1 \in 0 .. N /\ n + 1 # 0 /\ (n + 1) - 1 = n
      BY <1>1
    <3>2. QED
      BY <1>3, <1>10, <2>2, <3>1
  <2> HIDE DEF T
  <2>3. 0 .. N \subseteq T
    BY <1>1, <2>1, <2>2, UpTo
  <2>4. QED
    BY <2>3 DEF T
<1>12. Paths(ref) \in [0 .. N -> S]
  BY <1>9, <1>11 DEF Loop
<1>13. QED
  BY <1>10, <1>12, UpLeads DEF N, S, Step

LEMMA CleanOn == ASSUME NEW Segs, NEW ref \in Seq(Segs) PROVE Clean(ref) \in Seq(Segs)
<1>1. Len(ref) \in 0 .. Len(ref)
  OBVIOUS
<1>2. QED
  BY <1>1, PathsOn DEF Clean

LEMMA PathsDef ==
    ASSUME NEW ref \in Seq(STRING)
    PROVE  /\ Paths(ref) \in [0 .. Len(ref) -> Seq(STRING)]
           /\ \A n \in 0 .. Len(ref) :
                 Paths(ref)[n] = IF n = 0 THEN <<>> ELSE CleanStep(Paths(ref)[n - 1], ref[n])
BY PathsOn

LEMMA CleanType == ASSUME NEW ref \in Seq(STRING) PROVE Clean(ref) \in Seq(STRING)
BY CleanOn

\* A name adds one to the depth, a step up takes one away.
LEMMA DepthStep ==
    ASSUME NEW ref, NEW n \in Nat
    PROVE  /\ Depth(ref, 0) = 0 /\ Depth(ref, n) \in Int
           /\ ref[n + 1] \in Nowhere => Depth(ref, n + 1) = Depth(ref, n)
           /\ ref[n + 1] = Up => Depth(ref, n + 1) = Depth(ref, n) - 1
           /\ ref[n + 1] \notin Nowhere \cup {Up} => Depth(ref, n + 1) = Depth(ref, n) + 1
<1>1. ASSUME NEW m \in Nat
      PROVE  /\ IsFiniteSet(Named(ref, m)) /\ Cardinality(Named(ref, m)) \in Nat
             /\ IsFiniteSet(Ups(ref, m)) /\ Cardinality(Ups(ref, m)) \in Nat
  <2>1. IsFiniteSet(1 .. m)
    BY FS_Interval
  <2>2. Named(ref, m) \subseteq 1 .. m /\ Ups(ref, m) \subseteq 1 .. m
    BY DEF Named, Ups
  <2>3. IsFiniteSet(Named(ref, m)) /\ IsFiniteSet(Ups(ref, m))
    BY <2>1, <2>2, FS_Subset
  <2>4. QED
    BY <2>3, FS_CardinalityType
<1>2. Named(ref, 0) = {} /\ Ups(ref, 0) = {}
  BY DEF Named, Ups
<1>3. Depth(ref, 0) = 0
  BY <1>2, FS_EmptySet DEF Depth
<1>4. n + 1 \notin Named(ref, n) /\ n + 1 \notin Ups(ref, n)
  <2>1. n + 1 \notin 1 .. n
    OBVIOUS
  <2>2. Named(ref, n) \subseteq 1 .. n /\ Ups(ref, n) \subseteq 1 .. n
    BY DEF Named, Ups
  <2>3. QED
    BY <2>1, <2>2
<1>5. Cardinality(Named(ref, n) \cup {n + 1}) = Cardinality(Named(ref, n)) + 1
  BY <1>1, <1>4, FS_AddElement
<1>6. Cardinality(Ups(ref, n) \cup {n + 1}) = Cardinality(Ups(ref, n)) + 1
  BY <1>1, <1>4, FS_AddElement
<1>7. \A i : i \in 1 .. n + 1 <=> i \in 1 .. n \/ i = n + 1
  OBVIOUS
<1>8. Named(ref, n + 1) = IF ref[n + 1] \in Nowhere \cup {Up} THEN Named(ref, n)
                          ELSE Named(ref, n) \cup {n + 1}
  BY <1>7 DEF Named
<1>9. Ups(ref, n + 1) = IF ref[n + 1] = Up THEN Ups(ref, n) \cup {n + 1} ELSE Ups(ref, n)
  BY <1>7 DEF Ups
<1>10. Depth(ref, n) \in Int
  BY <1>1 DEF Depth
<1>11. ASSUME ref[n + 1] \in Nowhere PROVE Depth(ref, n + 1) = Depth(ref, n)
  BY <1>3, <1>8, <1>9, <1>10, <1>11, UpLeads DEF Depth
<1>12. ASSUME ref[n + 1] = Up PROVE Depth(ref, n + 1) = Depth(ref, n) - 1
  <2>1. Named(ref, n + 1) = Named(ref, n) /\ Ups(ref, n + 1) = Ups(ref, n) \cup {n + 1}
    BY <1>8, <1>9, <1>12
  <2>2. /\ Cardinality(Named(ref, n + 1)) = Cardinality(Named(ref, n))
        /\ Cardinality(Ups(ref, n + 1)) = Cardinality(Ups(ref, n)) + 1
    BY <1>6, <2>1
  <2>3. QED
    BY <1>1, <2>2 DEF Depth
<1>13. ASSUME ref[n + 1] \notin Nowhere \cup {Up} PROVE Depth(ref, n + 1) = Depth(ref, n) + 1
  <2>1. Named(ref, n + 1) = Named(ref, n) \cup {n + 1} /\ Ups(ref, n + 1) = Ups(ref, n)
    BY <1>8, <1>9, <1>13
  <2>2. /\ Cardinality(Named(ref, n + 1)) = Cardinality(Named(ref, n)) + 1
        /\ Cardinality(Ups(ref, n + 1)) = Cardinality(Ups(ref, n))
    BY <1>5, <2>1
  <2>3. QED
    BY <1>1, <2>2 DEF Depth
<1>14. QED
  BY <1>3, <1>10, <1>11, <1>12, <1>13

\* Segments that a store takes as they are.
Plain(p) == \A i \in 1 .. Len(p) : p[i] \notin Nowhere \cup {Up}

\* The path after n segments: as deep as the segments say and plain, unless
\* they stepped above their start; then it leads out of it for good.
Follows(ref, n) ==
    IF \A m \in 1 .. n : Depth(ref, m) >= 0
    THEN Plain(Paths(ref)[n]) /\ Len(Paths(ref)[n]) = Depth(ref, n)
    ELSE Paths(ref)[n] # <<>> /\ Paths(ref)[n][1] = Up

LEMMA PathFollows == ASSUME NEW ref \in Seq(STRING) PROVE Follows(ref, Len(ref))
<1> DEFINE T == {n \in 0 .. Len(ref) : Follows(ref, n)}
<1>1. Len(ref) \in Nat
  OBVIOUS
<1>2. 0 \in T
  <2>1. Paths(ref)[0] = <<>>
    BY <1>1, PathsDef
  <2>2. Depth(ref, 0) = 0
    BY DepthStep
  <2>3. QED
    BY <1>1, <2>1, <2>2 DEF Follows, Plain
<1>3. ASSUME NEW n \in 0 .. Len(ref) - 1, n \in T PROVE n + 1 \in T
  <2> DEFINE p == Paths(ref)[n]
             q == Paths(ref)[n + 1]
             seg == ref[n + 1]
  <2>1. n \in Nat /\ n + 1 \in 0 .. Len(ref) /\ n + 1 \in 1 .. Len(ref) /\ n \in 0 .. Len(ref)
    BY <1>1
  <2>2. p \in Seq(STRING) /\ q = CleanStep(p, seg)
    <3>1. n + 1 # 0 /\ (n + 1) - 1 = n
      BY <2>1
    <3>2. QED
      BY <2>1, <3>1, PathsDef
  <2>3. /\ Depth(ref, n) \in Int
        /\ seg \in Nowhere => Depth(ref, n + 1) = Depth(ref, n)
        /\ seg = Up => Depth(ref, n + 1) = Depth(ref, n) - 1
        /\ seg \notin Nowhere \cup {Up} => Depth(ref, n + 1) = Depth(ref, n) + 1
    BY <2>1, DepthStep
  <2>4. (\A m \in 1 .. n + 1 : Depth(ref, m) >= 0) <=> (\A m \in 1 .. n : Depth(ref, m) >= 0) /\ Depth(ref, n + 1) >= 0
    <3>1. \A m : m \in 1 .. n + 1 <=> m \in 1 .. n \/ m = n + 1
      BY <2>1
    <3>2. QED
      BY <3>1
  <2>5. Follows(ref, n)
    BY <1>3
  <2>10. (\A m \in 1 .. n : Depth(ref, m) >= 0) => Depth(ref, n) >= 0
    <3>1. CASE n = 0
      BY <3>1, DepthStep
    <3>2. CASE n # 0
      BY <2>1, <3>2
    <3>3. QED
      BY <3>1, <3>2
  <2>6. CASE seg \in Nowhere
    <3>1. q = p
      BY <2>2, <2>6 DEF CleanStep
    <3>2. Depth(ref, n + 1) = Depth(ref, n)
      BY <2>3, <2>6
    <3>3. (\A m \in 1 .. n : Depth(ref, m) >= 0) => Depth(ref, n) >= 0
      BY <2>10
    <3> HIDE DEF p, q
    <3>4. QED
      BY <2>1, <2>4, <2>5, <3>1, <3>2, <3>3 DEF Follows, p, q
  <2>7. CASE seg = Up /\ p # <<>> /\ Last(p) # Up
    <3>1. q = SubSeq(p, 1, Len(p) - 1) /\ Len(p) \in Nat \ {0} /\ Last(p) = p[Len(p)]
      BY <2>2, <2>7, UpLeads DEF CleanStep, Front, Last
    <3>2. Len(q) = Len(p) - 1 /\ \A i \in 1 .. Len(p) - 1 : q[i] = p[i]
      BY <2>2, <3>1
    <3>3. Depth(ref, n + 1) = Depth(ref, n) - 1
      BY <2>3, <2>7
    <3> HIDE DEF p, q
    <3>4. CASE \A m \in 1 .. n : Depth(ref, m) >= 0
      <4>1. Plain(p) /\ Len(p) = Depth(ref, n)
        BY <2>5, <3>4 DEF Follows, p
      <4>2. Depth(ref, n + 1) >= 0 /\ Len(q) = Depth(ref, n + 1)
        BY <3>1, <3>2, <3>3, <4>1
      <4>3. Plain(q)
        BY <3>1, <3>2, <4>1 DEF Plain
      <4>4. QED
        BY <2>4, <3>4, <4>2, <4>3 DEF Follows, q
    <3>5. CASE ~ \A m \in 1 .. n : Depth(ref, m) >= 0
      <4>1. p[1] = Up
        BY <2>5, <3>5 DEF Follows, p
      <4>2. Len(p) # 1
        BY <2>7, <3>1, <4>1
      <4>3. q[1] = Up /\ q # <<>>
        <5>1. 1 \in 1 .. Len(p) - 1 /\ Len(q) # 0
          BY <3>1, <3>2, <4>2
        <5>2. QED
          BY <3>2, <4>1, <5>1
      <4>4. QED
        BY <2>4, <3>5, <4>3 DEF Follows, q
    <3>6. QED
      BY <3>4, <3>5
  <2>8. CASE ~(seg \in Nowhere) /\ ~(seg = Up /\ p # <<>> /\ Last(p) # Up)
    <3>1. q = Append(p, seg) /\ Len(p) \in Nat
      BY <2>2, <2>8 DEF CleanStep
    <3>2. Len(q) = Len(p) + 1 /\ q[Len(p) + 1] = seg /\ \A i \in 1 .. Len(p) : q[i] = p[i]
      BY <2>2, <3>1
    <3> HIDE DEF p, q
    <3>3. CASE \A m \in 1 .. n : Depth(ref, m) >= 0
      <4>1. Plain(p) /\ Len(p) = Depth(ref, n)
        BY <2>5, <3>3 DEF Follows, p
      <4>2. CASE seg = Up
        <5>1. p = <<>>
          <6>1. p # <<>> => Last(p) = p[Len(p)] /\ Len(p) \in 1 .. Len(p)
            BY <2>2, <3>1 DEF Last
          <6>2. QED
            BY <2>8, <4>1, <4>2, <6>1 DEF Plain
        <5>2. Depth(ref, n + 1) = -1
          BY <2>3, <4>1, <4>2, <5>1
        <5>3. q # <<>> /\ q[1] = Up
          BY <3>2, <4>2, <5>1
        <5>4. QED
          BY <2>4, <5>2, <5>3 DEF Follows, q
      <4>3. CASE seg # Up
        <5>1. Depth(ref, n + 1) = Depth(ref, n) + 1
          BY <2>3, <2>8, <4>3
        <5>2. Plain(q)
          BY <2>8, <3>1, <3>2, <4>1, <4>3 DEF Plain
        <5>3. Depth(ref, n + 1) >= 0 /\ Len(q) = Depth(ref, n + 1)
          BY <3>1, <3>2, <4>1, <5>1
        <5>4. QED
          BY <2>4, <3>3, <5>2, <5>3 DEF Follows, q
      <4>4. QED
        BY <4>2, <4>3
    <3>4. CASE ~ \A m \in 1 .. n : Depth(ref, m) >= 0
      <4>1. p # <<>> /\ p[1] = Up
        BY <2>5, <3>4 DEF Follows, p
      <4>2. 1 \in 1 .. Len(p)
        BY <2>2, <4>1 DEF p
      <4>3. q # <<>> /\ q[1] = Up
        BY <3>1, <3>2, <4>1, <4>2
      <4>4. QED
        BY <2>4, <3>4, <4>3 DEF Follows, q
    <3>5. QED
      BY <3>3, <3>4
  <2>9. QED
    BY <2>1, <2>6, <2>7, <2>8
<1>4. 0 .. Len(ref) \subseteq T
  <2> HIDE DEF T
  <2>1. QED
    BY <1>1, <1>2, <1>3, UpTo
<1>5. QED
  BY <1>1, <1>4

LEMMA LegalPlain ==
    ASSUME NEW ref \in Seq(STRING), Legal(ref)
    PROVE  Plain(Clean(ref)) /\ Clean(ref) # <<>>
BY PathFollows DEF Follows, Legal, Clean

\* cleanRef accepts a reference iff it is relative, never steps above where it
\* starts and does not end there (dir.go:207-222), for every reference.
THEOREM ArtifactCleanRef == \A ref \in Seq(STRING) \ {<<>>} : Legal(ref) <=> Lexical(ref)
<1> SUFFICES ASSUME NEW ref \in Seq(STRING), ref # <<>> PROVE Legal(ref) <=> Lexical(ref)
  OBVIOUS
<1> DEFINE p == Clean(ref)
<1>1. Len(ref) \in Nat /\ DOMAIN ref = 1 .. Len(ref) /\ Len(ref) \in DOMAIN ref
  OBVIOUS
<1>2. p \in Seq(STRING) /\ p = Paths(ref)[Len(ref)]
  BY CleanType DEF Clean
<1> HIDE DEF p
<1>3. CASE \A n \in DOMAIN ref : Depth(ref, n) >= 0
  <2>1. Plain(p) /\ Len(p) = Depth(ref, Len(ref))
    BY <1>1, <1>2, <1>3, PathFollows DEF Follows
  <2>2. p # <<>> <=> Len(p) > 0
    BY <1>2
  <2>3. p # <<>> => p[1] # Up
    <3>1. p # <<>> => 1 \in 1 .. Len(p)
      BY <1>2
    <3>2. QED
      BY <2>1, <3>1 DEF Plain
  <2>4. QED
    BY <1>3, <2>1, <2>2, <2>3 DEF Legal, Lexical, p
<1>4. CASE ~ \A n \in DOMAIN ref : Depth(ref, n) >= 0
  <2>1. p[1] = Up
    BY <1>1, <1>2, <1>4, PathFollows DEF Follows
  <2>2. QED
    BY <1>4, <2>1 DEF Legal, Lexical, p
<1>5. QED
  BY <1>3, <1>4

\* Names that follow a path are appended to what it resolves to.
LEMMA CleanAppend ==
    ASSUME NEW a \in Seq(STRING), NEW q \in Seq(STRING), Plain(q)
    PROVE  Clean(a \o q) = Clean(a) \o q
<1> DEFINE r == a \o q
           c == Clean(a)
           Same(n) == Paths(r)[n] = Paths(a)[n]
           Added(n) ==
               LET path == Paths(r)[Len(a) + n] IN
               /\ Len(path) = Len(c) + n
               /\ \A i \in 1 .. Len(c) : path[i] = c[i]
               /\ \A i \in 1 .. n : path[Len(c) + i] = q[i]
           S == {n \in 0 .. Len(a) : Same(n)}
           T == {n \in 0 .. Len(q) : Added(n)}
<1>1. /\ Len(a) \in Nat /\ Len(q) \in Nat
      /\ r \in Seq(STRING) /\ Len(r) = Len(a) + Len(q)
      /\ \A i \in 1 .. Len(a) : r[i] = a[i]
      /\ \A i \in 1 .. Len(q) : r[Len(a) + i] = q[i]
  OBVIOUS
<1>2. c \in Seq(STRING) /\ Len(c) \in Nat /\ c = Paths(a)[Len(a)]
  BY CleanType DEF Clean
<1> HIDE DEF r, c
<1>3. 0 \in S
  BY <1>1, PathsDef
<1>4. ASSUME NEW n \in 0 .. Len(a) - 1, n \in S PROVE n + 1 \in S
  <2>1. /\ n + 1 \in 1 .. Len(a) /\ n + 1 \in 0 .. Len(a) /\ n + 1 \in 0 .. Len(r)
        /\ n + 1 # 0 /\ (n + 1) - 1 = n
    BY <1>1
  <2>2. /\ Paths(r)[n + 1] = CleanStep(Paths(r)[n], r[n + 1])
        /\ Paths(a)[n + 1] = CleanStep(Paths(a)[n], a[n + 1])
    BY <1>1, <2>1, PathsDef
  <2>3. QED
    BY <1>1, <1>4, <2>1, <2>2
<1>5. 0 .. Len(a) \subseteq S
  <2> HIDE DEF S
  <2>1. QED
    BY <1>1, <1>3, <1>4, UpTo
<1>6. 0 \in T
  <2>1. Paths(r)[Len(a)] = c
    <3>1. Len(a) \in 0 .. Len(a)
      BY <1>1
    <3>2. Len(a) \in S
      BY <3>1, <1>5, Zenon
    <3>3. QED
      BY <3>2, <1>2
  <2>2. QED
    BY <1>1, <1>2, <2>1
<1>7. ASSUME NEW n \in 0 .. Len(q) - 1, n \in T PROVE n + 1 \in T
  <2> DEFINE m == Len(a) + n
             p == Paths(r)[m]
             t == Paths(r)[m + 1]
  <2>1. /\ n \in Nat /\ n + 1 \in 1 .. Len(q) /\ n + 1 \in 0 .. Len(q)
        /\ m \in 0 .. Len(r) /\ m + 1 \in 0 .. Len(r) /\ m + 1 # 0 /\ (m + 1) - 1 = m
        /\ Len(a) + (n + 1) = m + 1
    BY <1>1
  <2>2. p \in Seq(STRING) /\ t = CleanStep(p, r[m + 1])
    BY <1>1, <2>1, PathsDef
  <2>3. r[m + 1] = q[n + 1] /\ q[n + 1] \notin Nowhere \cup {Up}
    BY <1>1, <2>1 DEF Plain
  <2>4. t = Append(p, q[n + 1])
    BY <2>2, <2>3 DEF CleanStep
  <2>5. /\ Len(p) = Len(c) + n
        /\ \A i \in 1 .. Len(c) : p[i] = c[i]
        /\ \A i \in 1 .. n : p[Len(c) + i] = q[i]
    BY <1>7
  <2> HIDE DEF p, t
  <2>6. /\ Len(t) = Len(c) + (n + 1) /\ t[Len(c) + (n + 1)] = q[n + 1]
        /\ \A i \in 1 .. Len(c) + n : t[i] = p[i]
    <3>1. q[n + 1] \in STRING
      BY <2>1
    <3>2. Len(t) = Len(p) + 1 /\ t[Len(p) + 1] = q[n + 1] /\ \A i \in 1 .. Len(p) : t[i] = p[i]
      BY <2>2, <2>4, <3>1
    <3>3. Len(p) = Len(c) + n
      BY <2>5
    <3>4. (Len(c) + n) + 1 = Len(c) + (n + 1)
      <4>1. Len(c) \in Nat
        BY <1>2
      <4>2. n \in Nat
        BY <2>1
      <4>3. QED
        BY <4>1, <4>2
    <3>5. QED
      BY <3>2, <3>3, <3>4
  <2>7. /\ \A i \in 1 .. n + 1 : i = n + 1 \/ i \in 1 .. n
        /\ \A i \in 1 .. n : Len(c) + i \in 1 .. Len(c) + n
        /\ \A i \in 1 .. Len(c) : i \in 1 .. Len(c) + n
    BY <1>2, <2>1
  <2>8. /\ \A i \in 1 .. Len(c) : t[i] = c[i]
        /\ \A i \in 1 .. n + 1 : t[Len(c) + i] = q[i]
    BY <2>5, <2>6, <2>7
  <2>9. QED
    BY <2>1, <2>6, <2>8 DEF t
<1>8. 0 .. Len(q) \subseteq T
  <2> HIDE DEF T
  <2>1. QED
    BY <1>1, <1>6, <1>7, UpTo
<1>9. Added(Len(q))
  <2>1. Len(q) \in 0 .. Len(q)
    BY <1>1
  <2>2. Len(q) \in T
    BY <2>1, <1>8, Zenon
  <2>3. QED
    BY <2>2
<1>10. Clean(r) \in Seq(STRING) /\ Clean(r) = Paths(r)[Len(a) + Len(q)]
  BY <1>1, CleanType DEF Clean
<1> HIDE DEF S, T
<1>11. /\ Len(Clean(r)) = Len(c) + Len(q)
       /\ \A i \in 1 .. Len(c) : Clean(r)[i] = c[i]
       /\ \A i \in 1 .. Len(q) : Clean(r)[Len(c) + i] = q[i]
  BY <1>9, <1>10
<1>12. \A i \in 1 .. Len(c) + Len(q) : i \in 1 .. Len(c) \/ (i - Len(c) \in 1 .. Len(q) /\ i = Len(c) + (i - Len(c)))
  BY <1>1, <1>2
<1>13. \A i \in 1 .. Len(c) + Len(q) : Clean(r)[i] = (c \o q)[i]
  <2>1. /\ \A i \in 1 .. Len(c) : (c \o q)[i] = c[i]
        /\ \A i \in 1 .. Len(q) : (c \o q)[Len(c) + i] = q[i]
    BY <1>2
  <2> TAKE i \in 1 .. Len(c) + Len(q)
  <2>2. CASE i \in 1 .. Len(c)
    BY <1>11, <2>1, <2>2
  <2>3. CASE i - Len(c) \in 1 .. Len(q) /\ i = Len(c) + (i - Len(c))
    BY <1>11, <2>1, <2>3
  <2>4. QED
    BY <1>12, <2>2, <2>3
<1>14. Clean(r) = c \o q
  BY <1>1, <1>2, <1>10, <1>11, <1>13
<1>15. QED
  BY <1>14 DEF r, c

\* A plain path is clean.
LEMMA PlainClean == ASSUME NEW p \in Seq(STRING), Plain(p) PROVE Clean(p) = p
<1>1. <<>> \in Seq(STRING) /\ <<>> \o p = p
  OBVIOUS
<1>2. Clean(<<>>) = <<>>
  BY <1>1, PathsDef DEF Clean
<1>3. QED
  BY <1>1, <1>2, CleanAppend

\* Names below names are names, and lie strictly below them.
LEMMA PlainBelow ==
    ASSUME NEW p \in Seq(STRING), NEW q \in Seq(STRING), Plain(q)
    PROVE  /\ q # <<>> => IsStrictPrefix(p, p \o q)
           /\ IsPrefix(p, p \o q)
           /\ Plain(p) => Plain(p \o q)
<1> DEFINE r == p \o q
<1>1. /\ r \in Seq(STRING) /\ Len(r) = Len(p) + Len(q) /\ Len(p) \in Nat /\ Len(q) \in Nat
      /\ \A i \in 1 .. Len(p) : r[i] = p[i]
      /\ \A i \in 1 .. Len(q) : r[Len(p) + i] = q[i]
      /\ q # <<>> => Len(q) # 0
  OBVIOUS
<1> HIDE DEF r
<1>2. ASSUME Plain(p) PROVE Plain(r)
  <2> SUFFICES ASSUME NEW i \in 1 .. Len(r) PROVE r[i] \notin Nowhere \cup {Up}
    BY DEF Plain
  <2>1. CASE i \in 1 .. Len(p)
    BY <1>1, <1>2, <2>1 DEF Plain
  <2>2. CASE i \notin 1 .. Len(p)
    <3>1. i - Len(p) \in 1 .. Len(q) /\ i = Len(p) + (i - Len(p))
      BY <1>1, <2>2
    <3>2. QED
      BY <1>1, <3>1 DEF Plain
  <2>3. QED
    BY <2>1, <2>2
<1>3. SubSeq(p, 1, Len(p)) = SubSeq(r, 1, Len(p))
  BY <1>1
<1>4. IsPrefix(p, r) /\ (q # <<>> => IsStrictPrefix(p, r))
  BY <1>1, <1>3 DEF IsStrictPrefix, IsPrefix
<1>5. QED
  BY <1>2, <1>4 DEF r

-----------------------------------------------------------------------------
(* BuildKey and filepath.Join                                              *)

LEMMA BaseNames == Base \in Seq(STRING) /\ Plain(Base)
BY ArtifactAssumption DEF Plain

\* Names that follow a key are appended to the path it resolves to.
LEMMA ResolveAppend ==
    ASSUME NEW k \in Seq(STRING), NEW q \in Seq(STRING), Plain(q)
    PROVE  Resolve(k) \in Seq(STRING) /\ Resolve(k \o q) = Resolve(k) \o q
<1> DEFINE c == Clean(Base \o k)
           d == Clean(Base \o (k \o q))
           U == {i \in DOMAIN c : c[i] = Up}
           V == {i \in DOMAIN d : d[i] = Up}
<1>1. /\ Base \o k \in Seq(STRING) /\ c \in Seq(STRING)
      /\ Base \o (k \o q) = (Base \o k) \o q
  <2>1. Base \in Seq(STRING) /\ Base \o k \in Seq(STRING)
    BY BaseNames
  <2>2. Base \o (k \o q) = (Base \o k) \o q
    BY <2>1
  <2>3. QED
    BY <2>1, <2>2, CleanType
<1>2. d = c \o q
  BY <1>1, CleanAppend
<1> HIDE DEF c, d
<1>3. Len(c) \in Nat /\ Len(q) \in Nat
  BY <1>1
<1>4. /\ d \in Seq(STRING) /\ Len(d) = Len(c) + Len(q)
      /\ \A i \in 1 .. Len(c) : d[i] = c[i]
      /\ \A i \in 1 .. Len(q) : d[Len(c) + i] = q[i]
  BY <1>1, <1>2
<1>5. U = V
  <2>1. \A i \in 1 .. Len(q) : q[i] # Up
    BY DEF Plain
  <2>2. \A i \in 1 .. Len(d) : i \in 1 .. Len(c) \/ (i - Len(c) \in 1 .. Len(q) /\ i = Len(c) + (i - Len(c)))
    BY <1>3, <1>4
  <2>3. \A i \in 1 .. Len(c) : i \in 1 .. Len(d)
    BY <1>3, <1>4
  <2>4. DOMAIN c = 1 .. Len(c) /\ DOMAIN d = 1 .. Len(d)
    BY <1>1, <1>4
  <2>5. ASSUME NEW i \in 1 .. Len(d), d[i] = Up PROVE i \in 1 .. Len(c) /\ c[i] = Up
    <3>1. CASE i \in 1 .. Len(c)
      BY <1>4, <2>5, <3>1
    <3>2. CASE i - Len(c) \in 1 .. Len(q) /\ i = Len(c) + (i - Len(c))
      <4>1. d[i] = q[i - Len(c)]
        BY <1>4, <3>2
      <4>2. QED
        BY <2>1, <2>5, <3>2, <4>1
    <3>3. QED
      BY <2>2, <3>1, <3>2
  <2>6. ASSUME NEW i \in 1 .. Len(c), c[i] = Up PROVE i \in 1 .. Len(d) /\ d[i] = Up
    BY <1>4, <2>3, <2>6
  <2>7. \A i : i \in U <=> i \in V
    BY <2>4, <2>5, <2>6, Zenon
  <2> HIDE DEF U, V
  <2>8. QED
    BY <2>7, Zenon DEF U, V
<1> DEFINE n == Cardinality(U)
<1>6. n \in Nat /\ n <= Len(c)
  <2>1. IsFiniteSet(1 .. Len(c)) /\ Cardinality(1 .. Len(c)) = Len(c)
    <3>1. 1 \in Int /\ Len(c) \in Int
      BY <1>3
    <3>2. /\ IsFiniteSet(1 .. Len(c))
          /\ Cardinality(1 .. Len(c)) = IF 1 > Len(c) THEN 0 ELSE Len(c) - 1 + 1
      BY <3>1, FS_Interval, Zenon
    <3>3. QED
      BY <1>3, <3>2
  <2>2. U \subseteq 1 .. Len(c)
    BY <1>1
  <2>3. QED
    BY <2>1, <2>2, FS_Subset, FS_CardinalityType
<1>7. Resolve(k) = SubSeq(c, 1 + n, Len(c)) /\ Resolve(k \o q) = SubSeq(d, 1 + n, Len(d))
  BY <1>5 DEF Resolve, c, d
<1> HIDE DEF n, U, V
<1>8. SubSeq(c, 1 + n, Len(c)) \in Seq(STRING)
  BY <1>1, <1>3, <1>6
<1>9. SubSeq(d, 1 + n, Len(d)) = SubSeq(c, 1 + n, Len(c)) \o q
  <2> DEFINE s == SubSeq(d, 1 + n, Len(d))
             t == SubSeq(c, 1 + n, Len(c))
  <2>1. /\ s \in Seq(STRING) /\ Len(s) = Len(c) + Len(q) - n
        /\ \A i \in 1 .. Len(c) + Len(q) - n : s[i] = d[n + i]
    BY <1>3, <1>4, <1>6
  <2>2. t \in Seq(STRING) /\ Len(t) = Len(c) - n /\ \A i \in 1 .. Len(c) - n : t[i] = c[n + i]
    BY <1>1, <1>3, <1>6
  <2> HIDE DEF s, t
  <2>3. /\ t \o q \in Seq(STRING) /\ Len(t \o q) = Len(s)
        /\ \A i \in 1 .. Len(t) : (t \o q)[i] = t[i]
        /\ \A i \in 1 .. Len(q) : (t \o q)[Len(t) + i] = q[i]
    <3>1. /\ t \o q \in Seq(STRING) /\ Len(t \o q) = Len(t) + Len(q)
          /\ \A i \in 1 .. Len(t) : (t \o q)[i] = t[i]
          /\ \A i \in 1 .. Len(q) : (t \o q)[Len(t) + i] = q[i]
      <4>1. t \in Seq(STRING)
        BY <2>2
      <4>2. QED
        BY <4>1
    <3>2. Len(t) + Len(q) = Len(s)
      BY <1>3, <1>6, <2>1, <2>2
    <3>3. QED
      BY <3>1, <3>2
  <2>4. ASSUME NEW i \in 1 .. Len(s) PROVE s[i] = (t \o q)[i]
    <3>1. CASE i \in 1 .. Len(t)
      <4>1. n + i \in 1 .. Len(c) /\ i \in 1 .. Len(c) + Len(q) - n
        BY <1>3, <1>6, <2>2, <3>1
      <4>2. QED
        BY <1>4, <2>1, <2>2, <2>3, <3>1, <4>1
    <3>2. CASE i \notin 1 .. Len(t)
      <4>1. /\ i - Len(t) \in 1 .. Len(q) /\ i = Len(t) + (i - Len(t))
            /\ n + i = Len(c) + (i - Len(t)) /\ i \in 1 .. Len(c) + Len(q) - n
        BY <1>3, <1>6, <2>1, <2>2, <3>2
      <4>2. s[i] = q[i - Len(t)]
        BY <1>4, <2>1, <4>1
      <4>3. QED
        BY <2>3, <4>1, <4>2
    <3>3. QED
      BY <3>1, <3>2
  <2>5. s = t \o q
    BY <2>1, <2>3, <2>4
  <2>6. QED
    BY <2>5 DEF s, t
<1>10. QED
  BY <1>7, <1>8, <1>9

\* A key of names is the path below the base directory.
LEMMA ResolvePlain ==
    ASSUME NEW q \in Seq(STRING), Plain(q)
    PROVE  Resolve(q) = Base \o q
<1>1. /\ <<>> \in Seq(STRING) /\ <<>> \o q = q
      /\ Base \o <<>> = Base /\ Clean(Base \o <<>>) = Base
  BY BaseNames, PlainClean
<1>2. {i \in DOMAIN Base : Base[i] = Up} = {}
  BY BaseNames DEF Plain
<1>3. Resolve(<<>>) = SubSeq(Base, 1, Len(Base))
  <2>1. Cardinality({i \in DOMAIN Base : Base[i] = Up}) = 0
    BY <1>2, FS_EmptySet
  <2>2. Resolve(<<>>) = SubSeq(Base, 1 + 0, Len(Base))
    BY <1>1, <2>1, Zenon DEF Resolve
  <2>3. QED
    BY <2>2
<1>4. SubSeq(Base, 1, Len(Base)) = Base
  BY BaseNames
<1>5. QED
  BY <1>1, <1>3, <1>4, ResolveAppend

\* What BuildKey makes of a part has segments, and is the part itself if that
\* is a name without blanks around it.
LEMMA PartType ==
    ASSUME NEW p \in Seq(Segments), p # <<>>
    PROVE  Part(p) \in Seq(STRING)
<1> DEFINE left == [i \in DOMAIN p |-> IF i = 1 THEN TrimLeft[p[i]] ELSE p[i]]
           t == [i \in DOMAIN p |-> IF i = Len(p) THEN TrimRight[left[i]] ELSE left[i]]
<1>1. Len(p) \in Nat /\ DOMAIN p = 1 .. Len(p) /\ \A i \in DOMAIN p : p[i] \in Segments
  OBVIOUS
<1>2. \A i \in DOMAIN p : left[i] \in Segments
  BY <1>1, ArtifactAssumption
<1>3. \A i \in DOMAIN p : t[i] \in Segments
  <2> HIDE DEF left
  <2>1. QED
    BY <1>2, ArtifactAssumption
<1>4. t \in [1 .. Len(p) -> STRING]
  <2> HIDE DEF left
  <2>1. QED
    BY <1>1, <1>3, ArtifactAssumption
<1>5. t \in Seq(STRING)
  <2> HIDE DEF t
  <2>1. QED
    BY <1>1, <1>4
<1>6. TrimSpace(p) = t
  BY DEF TrimSpace
<1> HIDE DEF t
<1>7. QED
  <2>1. <<>> \in Seq(STRING)
    OBVIOUS
  <2>2. QED
    BY <1>5, <1>6, <2>1, Zenon DEF Part

LEMMA PartPlain ==
    ASSUME NEW p \in Seq(STRING), Plain(p), p # <<>>, ~Padded(p)
    PROVE  Part(p) = p
<1>1. p[1] # ""
  <2>1. 1 \in 1 .. Len(p)
    OBVIOUS
  <2>2. QED
    BY <2>1 DEF Plain, Nowhere
<1>2. p # <<"">>
  <2>1. <<"">>[1] = ""
    OBVIOUS
  <2>2. QED
    BY <1>1, <2>1, Zenon
<1>3. QED
  BY <1>2 DEF Padded, Part

\* The cleaned references that callers give.
LEMMA GivenPlain ==
    ASSUME NEW ref \in Namespaces \cup GivenRefs, Legal(ref)
    PROVE  /\ ref \in Seq(STRING)
           /\ Clean(ref) \in Seq(Segments) /\ Clean(ref) \in Seq(STRING)
           /\ Plain(Clean(ref)) /\ Clean(ref) # <<>>
<1>1. ref \in Seq(Segments) /\ Segments \subseteq STRING
  BY ArtifactAssumption
<1>2. ref \in Seq(STRING)
  <2>1. Len(ref) \in Nat /\ DOMAIN ref = 1 .. Len(ref) /\ ref \in [1 .. Len(ref) -> Segments]
    BY <1>1
  <2>2. ref \in [1 .. Len(ref) -> STRING]
    BY <1>1, <2>1
  <2>3. QED
    BY <2>1, <2>2
<1>3. QED
  BY <1>1, <1>2, CleanOn, CleanType, LegalPlain

\* For a namespace and a reference without blanks around them, the key that
\* BuildKey makes lies below the base directory of a local store: pathForWrite's
\* own check refuses none of these (artifact.go:28-39, local.go:119-130).  It
\* does refuse some of the others, as the key of "a" in the namespace " ..".
THEOREM ArtifactKeyInBase ==
    ASSUME dir \in Namespaces, Legal(dir), ~Padded(Namespace),
           NEW ref \in GivenRefs, Legal(ref), ~Padded(Clean(ref))
    PROVE  InBase(BuildKey(Clean(ref)))
<1> DEFINE p == Namespace
           q == Clean(ref)
<1>1. /\ p \in Seq(STRING) /\ Plain(p) /\ p # <<>>
      /\ q \in Seq(STRING) /\ Plain(q) /\ q # <<>>
  BY GivenPlain DEF Namespace
<1>2. BuildKey(q) = p \o q
  BY <1>1, PartPlain DEF BuildKey
<1> HIDE DEF p, q
<1>3. p \o q \in Seq(STRING) /\ Plain(p \o q)
  BY <1>1, PlainBelow
<1>4. Resolve(p \o q) = Base \o (p \o q)
  BY <1>3, ResolvePlain
<1>5. IsPrefix(Base, Base \o (p \o q))
  BY <1>3, BaseNames, PlainBelow
<1>6. QED
  BY <1>2, <1>4, <1>5 DEF InBase, q

\* A reference that was cleaned is accepted again and stays as it is: what an
\* index names can be read under that name (dir.go:72-96).
THEOREM ArtifactCleanTwice ==
    \A ref \in Seq(STRING) : Legal(ref) => Legal(Clean(ref)) /\ Clean(Clean(ref)) = Clean(ref)
<1> SUFFICES ASSUME NEW ref \in Seq(STRING), Legal(ref)
             PROVE  Legal(Clean(ref)) /\ Clean(Clean(ref)) = Clean(ref)
  OBVIOUS
<1> DEFINE p == Clean(ref)
<1>1. p \in Seq(STRING) /\ Plain(p) /\ p # <<>>
  BY LegalPlain, CleanType
<1> HIDE DEF p
<1>2. Clean(p) = p
  BY <1>1, PlainClean
<1>3. p[1] \notin Nowhere \cup {Up}
  <2>1. 1 \in 1 .. Len(p)
    BY <1>1
  <2>2. QED
    BY <1>1, <2>1 DEF Plain
<1>4. Relative(p)
  BY <1>3, Zenon DEF Relative, Nowhere
<1>5. QED
  BY <1>1, <1>2, <1>3, <1>4 DEF Legal, p

-----------------------------------------------------------------------------
(* The inductive invariant                                                 *)

\* What has been recorded, copied or stored as an index is in the store, and
\* so is what a writer is about to record.
Present(seq) == \A i \in DOMAIN seq : Exists(seq[i].ref)
Stored ==
    /\ Present(entries)
    /\ Present(copied)
    /\ Loads => Present(index)
    /\ \A w \in Writers : pc[w] = "recording" => Exists(job[w].ref)

\* The copy and this process's index are made of the first entries.
Behind(seq) ==
    /\ Len(seq) <= Len(entries)
    /\ \A i \in 1 .. Len(seq) : seq[i] = entries[i]
Growing ==
    /\ Behind(copied)
    /\ mine /\ Loads => Behind(index)

IInv == TypeOK /\ Stored /\ Growing

-----------------------------------------------------------------------------
LEMMA EntryOf == ASSUME NEW w \in Writers, TypeOK, pc[w] # "idle"
                 PROVE  job[w] \in Entry /\ JobKey(w) \in Keys
BY DEF TypeOK, Entry, Keys, JobKey

LEMMA WithStep ==
    ASSUME TypeOK, NEW key \in Keys, NEW x \in Contents \cup Parts, files' = With(key, x)
    PROVE  /\ DOMAIN files' = DOMAIN files \cup {key} /\ DOMAIN files' \subseteq Keys
           /\ \A k \in DOMAIN files' : files'[k] \in Contents \cup Parts
           /\ files'[key] = x
           /\ \A k \in DOMAIN files \ {key} : files'[k] = files[k]
BY DEF TypeOK, With

\* Nothing is ever taken out of the store, nor does a key change its meaning.
LEMMA StoreGrows ==
    ASSUME TypeOK, [Next]_vars
    PROVE  /\ backend' = backend /\ dir' = dir
           /\ DOMAIN files \subseteq DOMAIN files'
           /\ \A ref : Exists(ref) => Exists(ref)'
<1>1. backend' = backend /\ dir' = dir
  BY DEF Next, vars, PutBegin, PutStored, PutFails, Record, FinalizeBegin, FinalizeStored,
         FinalizeFails, Restart
<1>2. DOMAIN files \subseteq DOMAIN files'
  BY DEF Next, vars, PutBegin, PutStored, PutFails, Record, FinalizeBegin, FinalizeStored,
         FinalizeFails, Restart, With
<1>3. QED
  BY <1>1, <1>2 DEF Exists, Location, BuildKey, Namespace

LEMMA TypeStep == TypeOK /\ [Next]_vars => TypeOK'
<1> SUFFICES ASSUME TypeOK, [Next]_vars PROVE TypeOK'
  OBVIOUS
<1>1. Keys' = Keys /\ Parts' = Parts
  BY StoreGrows DEF Keys, Location, BuildKey, Namespace, Parts
<1>2. ASSUME NEW w \in Writers, NEW ref \in GivenRefs, NEW x \in Contents, PutBegin(w, ref, x)
      PROVE  TypeOK'
  <2>1. Clean(ref) \in CleanRefs /\ Location(Clean(ref)) \in Keys
    BY DEF CleanRefs, Keys
  <2>2. DOMAIN files' \subseteq Keys /\ \A k \in DOMAIN files' : files'[k] \in Contents \cup Parts
    <3>1. CASE backend = "local"
      BY <1>2, <2>1, <3>1, WithStep DEF PutBegin, Parts
    <3>2. CASE backend # "local"
      BY <1>2, <3>2 DEF PutBegin, TypeOK
    <3>3. QED
      BY <3>1, <3>2
  <2>3. /\ pc' \in [Writers -> PC] /\ job' \in [Writers -> Entry \cup {None}]
        /\ \A v \in Writers : pc'[v] # "idle" => job'[v] \in Entry
    BY <1>2, <2>1 DEF PutBegin, TypeOK, PC, Entry
  <2>4. tainted' \subseteq Keys
    BY <1>2, <2>1 DEF PutBegin, TypeOK
  <2>5. QED
    BY <1>1, <1>2, <2>2, <2>3, <2>4 DEF PutBegin, TypeOK, Loads
<1>3. ASSUME NEW w \in Writers, PutStored(w)
      PROVE  TypeOK'
  <2>1. job[w] \in Entry /\ JobKey(w) \in Keys
    BY <1>3, EntryOf DEF PutStored
  <2>2. \E x \in Contents \cup Parts : files' = With(JobKey(w), x)
    BY <1>3, <2>1 DEF PutStored, Entry
  <2>3. DOMAIN files' \subseteq Keys /\ \A k \in DOMAIN files' : files'[k] \in Contents \cup Parts
    BY <2>1, <2>2, WithStep
  <2>4. /\ pc' \in [Writers -> PC] /\ job' \in [Writers -> Entry \cup {None}]
        /\ \A v \in Writers : pc'[v] # "idle" => job'[v] \in Entry
    BY <1>3, <2>1 DEF PutStored, TypeOK, PC
  <2>5. QED
    BY <1>1, <1>3, <2>3, <2>4 DEF PutStored, TypeOK, Loads
<1>4. ASSUME NEW w \in Writers, PutFails(w)
      PROVE  TypeOK'
  <2>1. job[w] \in Entry /\ JobKey(w) \in Keys
    BY <1>4, EntryOf DEF PutFails
  <2>2. UNCHANGED files \/ \E x \in Contents \cup Parts : files' = With(JobKey(w), x)
    BY <1>4, <2>1 DEF PutFails, Entry, Parts
  <2>3. DOMAIN files' \subseteq Keys /\ \A k \in DOMAIN files' : files'[k] \in Contents \cup Parts
    BY <2>1, <2>2, WithStep DEF TypeOK
  <2>4. /\ pc' \in [Writers -> PC] /\ job' \in [Writers -> Entry \cup {None}]
        /\ \A v \in Writers : pc'[v] # "idle" => job'[v] \in Entry
    BY <1>4, <2>1 DEF PutFails, TypeOK, PC
  <2>5. QED
    BY <1>1, <1>4, <2>1, <2>3, <2>4 DEF PutFails, TypeOK, Loads
<1>5. ASSUME NEW w \in Writers, Record(w)
      PROVE  TypeOK'
  <2>1. job[w] \in Entry
    BY <1>5, EntryOf DEF Record
  <2>2. /\ pc' \in [Writers -> PC] /\ job' \in [Writers -> Entry \cup {None}]
        /\ \A v \in Writers : pc'[v] # "idle" => job'[v] \in Entry
    BY <1>5, <2>1 DEF Record, TypeOK, PC
  <2>3. entries' \in Seq(Entry)
    BY <1>5, <2>1 DEF Record, TypeOK
  <2>4. QED
    BY <1>1, <1>5, <2>2, <2>3 DEF Record, TypeOK, Loads
<1>6. CASE FinalizeBegin
  BY <1>1, <1>6 DEF FinalizeBegin, TypeOK, Loads, Parts
<1>7. CASE FinalizeStored \/ FinalizeFails
  <2>1. copied' = <<>> /\ index' \in {index, copied} /\ mine' \in BOOLEAN
    BY <1>7 DEF FinalizeStored, FinalizeFails, TypeOK
  <2>2. index' \in {None, Torn} => index' \in {None} \cup Parts
    BY <1>7, IndexAssumption DEF FinalizeStored, FinalizeFails, TypeOK
  <2>3. Loads' => index' \in Seq(Entry)
    BY <2>1 DEF TypeOK, Loads
  <2>4. QED
    BY <1>1, <1>7, <2>1, <2>2, <2>3 DEF FinalizeStored, FinalizeFails, TypeOK
<1>8. CASE Restart
  <2>1. /\ entries' = <<>> /\ copied' = <<>> /\ fin' = "idle" /\ mine' = FALSE /\ tainted' = {}
        /\ UNCHANGED <<backend, dir, files, index>>
    BY <1>8 DEF Restart
  <2>2. /\ pc' \in [Writers -> PC] /\ job' \in [Writers -> Entry \cup {None}]
        /\ \A v \in Writers : pc'[v] # "idle" => job'[v] \in Entry
    BY <1>8 DEF Restart, PC
  <2>3. entries' \in Seq(Entry) /\ copied' \in Seq(Entry)
    BY <2>1
  <2>4. QED
    BY <1>1, <2>1, <2>2, <2>3 DEF TypeOK, Loads
<1>9. CASE UNCHANGED vars
  BY <1>1, <1>9 DEF vars, TypeOK, Loads
<1>10. QED
  BY <1>2, <1>3, <1>4, <1>5, <1>6, <1>7, <1>8, <1>9 DEF Next

-----------------------------------------------------------------------------
(* IndexFaithful                                                           *)

LEMMA ArtifactInit == Init => IInv
<1> SUFFICES ASSUME Init PROVE IInv
  OBVIOUS
<1> USE DEF Init
<1>1. DOMAIN files = {}
  OBVIOUS
<1>2. TypeOK
  <2>1. DOMAIN files \subseteq Keys /\ \A k \in DOMAIN files : files[k] \in Contents \cup Parts
    BY <1>1
  <2>2. /\ pc \in [Writers -> PC] /\ job \in [Writers -> Entry \cup {None}]
        /\ \A v \in Writers : pc[v] # "idle" => job[v] \in Entry
    BY DEF PC
  <2>3. entries \in Seq(Entry) /\ copied \in Seq(Entry)
    OBVIOUS
  <2>4. index \in {None} /\ ~Loads
    BY DEF Loads
  <2>5. QED
    BY <2>1, <2>2, <2>3, <2>4 DEF TypeOK
<1>3. Stored
  BY DEF Stored, Present, Loads
<1>4. Growing
  BY DEF Growing, Behind
<1>5. QED
  BY <1>2, <1>3, <1>4 DEF IInv

LEMMA StoredStep == TypeOK /\ Stored /\ [Next]_vars => Stored'
<1> SUFFICES ASSUME TypeOK, Stored, [Next]_vars PROVE Stored'
  OBVIOUS
<1>1. \A ref : Exists(ref) => Exists(ref)'
  BY StoreGrows
<1>2. ASSUME NEW w \in Writers, NEW ref \in GivenRefs, NEW x \in Contents, PutBegin(w, ref, x)
      PROVE  Stored'
  <2>1. \A v \in Writers : pc'[v] = "recording" => pc[v] = "recording" /\ job'[v] = job[v]
    BY <1>2 DEF PutBegin, TypeOK
  <2>2. QED
    BY <1>1, <1>2, <2>1 DEF PutBegin, Stored, Present, Loads
<1>3. ASSUME NEW w \in Writers, PutStored(w)
      PROVE  Stored'
  <2>1. Exists(job[w].ref)'
    BY <1>3 DEF PutStored, With, JobKey, Exists, Location, BuildKey, Namespace
  <2>2. \A v \in Writers \ {w} : pc'[v] = pc[v]
    BY <1>3 DEF PutStored, TypeOK
  <2>3. job' = job /\ UNCHANGED <<entries, copied, index>>
    BY <1>3 DEF PutStored
  <2>4. \A v \in Writers : pc'[v] = "recording" => Exists(job[v].ref)'
    BY <1>1, <2>1, <2>2, <2>3 DEF Stored
  <2>5. QED
    BY <1>1, <2>3, <2>4 DEF Stored, Present, Loads
<1>4. ASSUME NEW w \in Writers, PutFails(w)
      PROVE  Stored'
  <2>1. \A v \in Writers : pc'[v] = "recording" => pc[v] = "recording" /\ job'[v] = job[v]
    BY <1>4 DEF PutFails, TypeOK
  <2>2. QED
    BY <1>1, <1>4, <2>1 DEF PutFails, Stored, Present, Loads
<1>5. ASSUME NEW w \in Writers, Record(w)
      PROVE  Stored'
  <2>1. \A v \in Writers : pc'[v] = "recording" => pc[v] = "recording" /\ job'[v] = job[v]
    BY <1>5 DEF Record, TypeOK
  <2>2. \A i \in DOMAIN entries' : entries'[i] = job[w] \/ (i \in DOMAIN entries /\ entries'[i] = entries[i])
    BY <1>5, EntryOf DEF Record, TypeOK
  <2>3. Exists(job[w].ref)
    BY <1>5 DEF Record, Stored
  <2>4. Present(entries)'
    BY <1>1, <2>2, <2>3 DEF Stored, Present
  <2>5. QED
    BY <1>1, <1>5, <2>1, <2>4 DEF Record, Stored, Present, Loads
<1>6. CASE FinalizeBegin
  BY <1>1, <1>6 DEF FinalizeBegin, Stored, Present, Loads
<1>7. CASE FinalizeStored \/ FinalizeFails
  <2>1. copied' = <<>> /\ index' \in {index, copied} /\ UNCHANGED <<entries, pc, job>>
    BY <1>7 DEF FinalizeStored, FinalizeFails
  <2>2. QED
    BY <1>1, <2>1 DEF Stored, Present, Loads
<1>8. CASE Restart
  <2>1. entries' = <<>> /\ copied' = <<>> /\ index' = index /\ \A v \in Writers : pc'[v] = "idle"
    BY <1>8 DEF Restart
  <2>2. QED
    BY <1>1, <2>1 DEF Stored, Present, Loads
<1>9. CASE UNCHANGED vars
  BY <1>1, <1>9 DEF vars, Stored, Present, Loads
<1>10. QED
  BY <1>2, <1>3, <1>4, <1>5, <1>6, <1>7, <1>8, <1>9 DEF Next

LEMMA GrowingStep == TypeOK /\ Growing /\ [Next]_vars => Growing'
<1> SUFFICES ASSUME TypeOK, Growing, [Next]_vars PROVE Growing'
  OBVIOUS
<1>1. ASSUME NEW w \in Writers, NEW ref \in GivenRefs, NEW x \in Contents,
             PutBegin(w, ref, x) \/ PutStored(w) \/ PutFails(w)
      PROVE  Growing'
  BY <1>1 DEF PutBegin, PutStored, PutFails, Growing, Behind, Loads
<1>2. ASSUME NEW w \in Writers, PutStored(w) \/ PutFails(w)
      PROVE  Growing'
  BY <1>2 DEF PutStored, PutFails, Growing, Behind, Loads
<1>3. ASSUME NEW w \in Writers, Record(w)
      PROVE  Growing'
  <2>1. /\ Len(entries') = Len(entries) + 1
        /\ \A i \in 1 .. Len(entries) : entries'[i] = entries[i]
    BY <1>3, EntryOf DEF Record, TypeOK
  <2>2. Len(entries) \in Nat /\ Len(copied) \in Nat /\ (Loads => Len(index) \in Nat)
    BY DEF TypeOK
  <2>3. UNCHANGED <<copied, mine, index>>
    BY <1>3 DEF Record
  <2>4. QED
    BY <2>1, <2>2, <2>3 DEF Growing, Behind, Loads
<1>4. CASE FinalizeBegin
  <2>1. Len(entries) \in Nat
    BY DEF TypeOK
  <2>2. QED
    BY <1>4, <2>1 DEF FinalizeBegin, Growing, Behind, Loads
<1>5. CASE FinalizeStored \/ FinalizeFails
  <2>1. copied' = <<>> /\ entries' = entries
    BY <1>5 DEF FinalizeStored, FinalizeFails
  <2>2. index' = copied \/ UNCHANGED <<index, mine>>
    BY <1>5 DEF FinalizeStored, FinalizeFails
  <2>3. Len(entries) \in Nat /\ Len(copied') = 0
    BY <2>1 DEF TypeOK
  <2>4. QED
    BY <2>1, <2>2, <2>3 DEF Growing, Behind, Loads
<1>6. CASE Restart
  <2>1. copied' = <<>> /\ entries' = <<>> /\ ~mine'
    BY <1>6 DEF Restart
  <2>2. QED
    BY <2>1 DEF Growing, Behind
<1>7. CASE UNCHANGED vars
  BY <1>7 DEF vars, Growing, Behind, Loads
<1>8. QED
  BY <1>1, <1>2, <1>3, <1>4, <1>5, <1>6, <1>7 DEF Next

LEMMA ArtifactStep == IInv /\ [Next]_vars => IInv'
BY TypeStep, StoredStep, GrowingStep DEF IInv

LEMMA BehindPrefix ==
    ASSUME NEW s \in Seq(Entry), entries \in Seq(Entry), Behind(s)
    PROVE  IsPrefix(s, entries)
BY DEF Behind, IsPrefix

\* The inductive invariant holds in every reachable state.
THEOREM ArtifactInvariant == Spec => []IInv
BY ArtifactInit, ArtifactStep, PTL DEF Spec

\* Every variable keeps its type (dir.go, index.go).
THEOREM ArtifactTypeOK == Spec => []TypeOK
<1>1. IInv => TypeOK
  BY DEF IInv
<1>2. QED
  BY <1>1, ArtifactInvariant, PTL

\* What is recorded or named by an index that loads is in the store, and the
\* index is what was recorded first (dir.go:48-184).
THEOREM ArtifactIndexFaithful == Spec => []IndexFaithful
<1>1. ASSUME IInv PROVE IndexFaithful
  <2>1. \A ref \in Refs(entries) : Exists(ref)
    BY <1>1 DEF IInv, Stored, Present, Refs
  <2>2. Loads => \A ref \in Refs(index) : Exists(ref)
    BY <1>1 DEF IInv, Stored, Present, Refs
  <2>3. mine /\ Loads => IsPrefix(index, entries)
    BY <1>1, BehindPrefix DEF IInv, TypeOK, Growing
  <2>4. QED
    BY <2>1, <2>2, <2>3 DEF IndexFaithful
<1>2. QED
  BY <1>1, ArtifactInvariant, PTL

-----------------------------------------------------------------------------
(* ChecksumsTrue                                                           *)

\* An untainted key has one writer at most, and one that is about to record
\* finds under it what it has written.
Clear ==
    /\ \A v, w \in Writers :
          /\ pc[v] # "idle" /\ pc[w] # "idle"
          /\ JobKey(v) = JobKey(w) /\ JobKey(w) \notin tainted
          => v = w
    /\ \A w \in Writers :
          pc[w] = "recording" /\ JobKey(w) \notin tainted => files[JobKey(w)] = job[w].checksum

Places(ref) == {i \in DOMAIN entries : Location(entries[i].ref) = Location(ref)}

\* The last entry of a settled reference is true.
Newest ==
    \A ref \in Refs(entries) :
        /\ Max(Places(ref)) \in DOMAIN entries
        /\ Settled(ref) => entries[Max(Places(ref))].checksum = Get(ref)

\* The steps that end no write and begin none.
LEMMA ClearKept ==
    ASSUME TypeOK, Stored, Clear, [Next]_vars, files' = files, tainted \subseteq tainted',
           \A v \in Writers : pc'[v] # "idle" => pc'[v] = pc[v] /\ job'[v] = job[v]
    PROVE  Clear'
<1>1. dir' = dir /\ backend' = backend
  BY StoreGrows
<1>2. \A v \in Writers : pc'[v] # "idle" => JobKey(v)' = JobKey(v)
  BY <1>1 DEF JobKey, Location, BuildKey, Namespace
<1>3. QED
  BY <1>2 DEF Clear

LEMMA ClearStep == TypeOK /\ Stored /\ Clear /\ [Next]_vars => Clear'
<1> SUFFICES ASSUME TypeOK, Stored, Clear, [Next]_vars PROVE Clear'
  OBVIOUS
<1>1. dir' = dir /\ backend' = backend
  BY StoreGrows
<1>2. ASSUME NEW w \in Writers, NEW ref \in GivenRefs, NEW x \in Contents, PutBegin(w, ref, x)
      PROVE  Clear'
  <2> DEFINE key == Location(Clean(ref))
  <2>1. pc'[w] = "storing" /\ JobKey(w)' = key
    BY <1>1, <1>2 DEF PutBegin, TypeOK, JobKey, Location, BuildKey, Namespace
  <2>2. \A v \in Writers \ {w} : pc'[v] = pc[v] /\ job'[v] = job[v] /\ JobKey(v)' = JobKey(v)
    BY <1>1, <1>2 DEF PutBegin, TypeOK, JobKey, Location, BuildKey, Namespace
  <2>3. \A v \in Writers \ {w} : pc[v] # "idle" /\ JobKey(v) = key => key \in tainted'
    BY <1>2 DEF PutBegin, At, JobKey
  <2>4. \A k : k # key => (k \in tainted' <=> k \in tainted)
    BY <1>2 DEF PutBegin
  <2>5. \A u, v \in Writers :
            /\ pc'[u] # "idle" /\ pc'[v] # "idle"
            /\ JobKey(u)' = JobKey(v)' /\ JobKey(v)' \notin tainted'
            => u = v
    BY <2>1, <2>2, <2>3, <2>4 DEF Clear
  <2>6. ASSUME NEW v \in Writers, pc'[v] = "recording", JobKey(v)' \notin tainted'
        PROVE  (files[JobKey(v)] = job[v].checksum)'
    <3>1. v # w /\ JobKey(v) # key /\ JobKey(v)' = JobKey(v)
      BY <2>1, <2>2, <2>3, <2>6
    <3>2. files[JobKey(v)] = job[v].checksum /\ JobKey(v) \in DOMAIN files
      BY <2>2, <2>4, <2>6, <3>1 DEF Clear, Stored, Exists, JobKey
    <3>3. files'[JobKey(v)] = files[JobKey(v)]
      BY <1>2, <3>1, <3>2 DEF PutBegin, With
    <3>4. QED
      BY <2>2, <3>1, <3>2, <3>3
  <2>7. QED
    BY <2>5, <2>6 DEF Clear
<1>3. ASSUME NEW w \in Writers, PutStored(w)
      PROVE  Clear'
  <2>1. job[w] \in Entry /\ JobKey(w) \in Keys /\ pc[w] = "storing"
    BY <1>3, EntryOf DEF PutStored
  <2>2. \A v \in Writers : JobKey(v)' = JobKey(v) /\ job'[v] = job[v]
    BY <1>1, <1>3 DEF PutStored, JobKey, Location, BuildKey, Namespace
  <2>3. \A v \in Writers \ {w} : pc'[v] = pc[v]
    BY <1>3 DEF PutStored, TypeOK
  <2>4. tainted' = tainted
    BY <1>3 DEF PutStored
  <2>5. \A u, v \in Writers :
            /\ pc'[u] # "idle" /\ pc'[v] # "idle"
            /\ JobKey(u)' = JobKey(v)' /\ JobKey(v)' \notin tainted'
            => u = v
    BY <2>1, <2>2, <2>3, <2>4 DEF Clear
  <2>6. ASSUME NEW v \in Writers, pc'[v] = "recording", JobKey(v)' \notin tainted'
        PROVE  (files[JobKey(v)] = job[v].checksum)'
    <3>1. CASE v = w
      <4>1. files' = With(JobKey(w), job[w].checksum)
        BY <1>3, <2>2, <2>4, <2>6, <3>1 DEF PutStored
      <4>2. files'[JobKey(w)] = job[w].checksum
        BY <4>1 DEF With
      <4>3. QED
        BY <2>2, <3>1, <4>2
    <3>2. CASE v # w
      <4>1. pc[v] = "recording" /\ JobKey(v) \notin tainted /\ JobKey(v) # JobKey(w)
        BY <2>1, <2>2, <2>3, <2>4, <2>6, <3>2 DEF Clear
      <4>2. files[JobKey(v)] = job[v].checksum /\ JobKey(v) \in DOMAIN files
        BY <4>1 DEF Clear, Stored, Exists, JobKey
      <4>3. files'[JobKey(v)] = files[JobKey(v)]
        BY <1>3, <4>1, <4>2 DEF PutStored, With
      <4>4. QED
        BY <2>2, <4>2, <4>3
    <3>3. QED
      BY <3>1, <3>2
  <2>7. QED
    BY <2>5, <2>6 DEF Clear
<1>4. ASSUME NEW w \in Writers, PutFails(w)
      PROVE  Clear'
  <2>1. pc'[w] = "idle" /\ \A v \in Writers \ {w} : pc'[v] = pc[v] /\ job'[v] = job[v]
    BY <1>4 DEF PutFails, TypeOK
  <2>2. \A v \in Writers \ {w} : JobKey(v)' = JobKey(v)
    BY <1>1, <2>1 DEF JobKey, Location, BuildKey, Namespace
  <2>3. tainted' = tainted \cup {JobKey(w)}
    BY <1>4 DEF PutFails
  <2>4. \A u, v \in Writers :
            /\ pc'[u] # "idle" /\ pc'[v] # "idle"
            /\ JobKey(u)' = JobKey(v)' /\ JobKey(v)' \notin tainted'
            => u = v
    BY <2>1, <2>2, <2>3 DEF Clear
  <2>5. ASSUME NEW v \in Writers, pc'[v] = "recording", JobKey(v)' \notin tainted'
        PROVE  (files[JobKey(v)] = job[v].checksum)'
    <3>1. v # w /\ pc[v] = "recording" /\ JobKey(v) \notin tainted /\ JobKey(v) # JobKey(w)
      BY <2>1, <2>2, <2>3, <2>5
    <3>2. files[JobKey(v)] = job[v].checksum /\ JobKey(v) \in DOMAIN files
      BY <3>1 DEF Clear, Stored, Exists, JobKey
    <3>3. files'[JobKey(v)] = files[JobKey(v)]
      BY <1>4, <3>1, <3>2 DEF PutFails, With
    <3>4. QED
      BY <2>1, <2>2, <3>1, <3>2, <3>3
  <2>6. QED
    BY <2>4, <2>5 DEF Clear
<1>5. ASSUME NEW w \in Writers, Record(w)
      PROVE  Clear'
  <2>1. \A v \in Writers : pc'[v] # "idle" => pc'[v] = pc[v] /\ job'[v] = job[v]
    BY <1>5 DEF Record, TypeOK
  <2>2. UNCHANGED <<files, tainted>>
    BY <1>5 DEF Record
  <2>3. QED
    BY <2>1, <2>2, ClearKept
<1>6. CASE FinalizeBegin \/ FinalizeStored \/ FinalizeFails \/ UNCHANGED vars
  <2>1. UNCHANGED <<files, tainted, pc, job>>
    BY <1>6 DEF FinalizeBegin, FinalizeStored, FinalizeFails, vars
  <2>2. QED
    BY <2>1, ClearKept
<1>7. CASE Restart
  BY <1>7 DEF Restart, Clear
<1>8. QED
  BY <1>2, <1>3, <1>4, <1>5, <1>6, <1>7 DEF Next

\* The steps that record nothing: what is settled afterwards was so before,
\* and its file is the same.
LEMMA NewestKept ==
    ASSUME TypeOK, Stored, Newest, [Next]_vars, entries' = entries,
           \A ref \in Refs(entries) :
               Settled(ref)' => Settled(ref) /\ files'[Location(ref)] = files[Location(ref)]
    PROVE  Newest'
<1>1. \A ref : Location(ref)' = Location(ref)
  BY StoreGrows DEF Location, BuildKey, Namespace
<1>2. Refs(entries)' = Refs(entries) /\ \A ref : Places(ref)' = Places(ref)
  BY <1>1 DEF Refs, Places
<1>3. ASSUME NEW ref \in Refs(entries)
      PROVE  /\ Max(Places(ref)) \in DOMAIN entries
             /\ Settled(ref)' => entries[Max(Places(ref))].checksum = Get(ref)'
  BY <1>1, <1>3 DEF Newest, Get
<1>4. QED
  BY <1>2, <1>3 DEF Newest

LEMMA RecordNewest ==
    ASSUME TypeOK, Clear, Newest, NEW w \in Writers, Record(w)
    PROVE  Newest'
<1> DEFINE n == Len(entries) + 1
<1>1. job[w] \in Entry /\ Len(entries) \in Nat /\ entries \in Seq(Entry)
  BY EntryOf DEF Record, TypeOK
<1>2. /\ DOMAIN entries = 1 .. Len(entries) /\ DOMAIN entries' = 1 .. n
      /\ entries'[n] = job[w]
      /\ \A i \in DOMAIN entries : entries'[i] = entries[i]
  BY <1>1 DEF Record
<1>3. UNCHANGED <<backend, dir, files, tainted>> /\ \A v \in Writers \ {w} : pc'[v] = pc[v] /\ job'[v] = job[v]
  BY DEF Record, TypeOK
<1>4. \A ref : Location(ref)' = Location(ref)
  BY <1>3 DEF Location, BuildKey, Namespace
<1>5. ASSUME NEW ref \in Refs(entries)'
      PROVE  /\ Max(Places(ref)') \in DOMAIN entries'
             /\ Settled(ref)' => entries'[Max(Places(ref)')].checksum = Get(ref)'
  <2>1. CASE Location(ref) = JobKey(w)
    <3>1. n \in Places(ref)' /\ \A i \in Places(ref)' : n >= i /\ i \in Nat
      BY <1>1, <1>2, <1>4, <2>1 DEF Places, JobKey
    <3>2. Max(Places(ref)') = n
      BY <1>1, <3>1 DEF Max
    <3>3. ASSUME Settled(ref)' PROVE job[w].checksum = Get(ref)'
      <4>1. JobKey(w) \notin tainted
        BY <1>3, <1>4, <2>1, <3>3 DEF Settled, JobKey
      <4>2. files[JobKey(w)] = job[w].checksum
        BY <4>1 DEF Clear, Record
      <4>3. QED
        BY <1>3, <1>4, <2>1, <4>2 DEF Get, JobKey
    <3>4. QED
      BY <1>1, <1>2, <3>2, <3>3
  <2>2. CASE Location(ref) # JobKey(w)
    <3>1. ref \in Refs(entries)
      BY <1>1, <1>2, <1>5, <2>2 DEF Refs, JobKey
    <3>2. Places(ref)' = Places(ref)
      BY <1>1, <1>2, <1>4, <2>2 DEF Places, JobKey
    <3>3. Max(Places(ref)) \in DOMAIN entries
      BY <3>1 DEF Newest
    <3>4. ASSUME Settled(ref)' PROVE Settled(ref)
      <4>1. Location(ref) \notin tainted /\ At(Location(ref))' = {}
        BY <1>3, <1>4, <3>4 DEF Settled, At
      <4>2. At(Location(ref)) = {}
        BY <1>3, <1>4, <2>2, <4>1 DEF At, JobKey
      <4>3. QED
        BY <4>1, <4>2 DEF Settled
    <3>5. Settled(ref)' => entries[Max(Places(ref))].checksum = Get(ref)'
      BY <1>3, <1>4, <3>1, <3>4 DEF Newest, Get
    <3>6. QED
      BY <1>1, <1>2, <3>2, <3>3, <3>5
  <2>3. QED
    BY <2>1, <2>2
<1>6. QED
  BY <1>5 DEF Newest

LEMMA NewestStep == TypeOK /\ Stored /\ Clear /\ Newest /\ [Next]_vars => Newest'
<1> SUFFICES ASSUME TypeOK, Stored, Clear, Newest, [Next]_vars PROVE Newest'
  OBVIOUS
<1>1. \A ref : Location(ref)' = Location(ref)
  BY StoreGrows DEF Location, BuildKey, Namespace
<1>2. \A ref \in Refs(entries) : Location(ref) \in DOMAIN files
  BY DEF Stored, Present, Refs, Exists
<1>3. ASSUME NEW w \in Writers, NEW gref \in GivenRefs, NEW x \in Contents, PutBegin(w, gref, x)
      PROVE  Newest'
  <2>1. ASSUME NEW ref \in Refs(entries), Settled(ref)'
        PROVE  Settled(ref) /\ files'[Location(ref)] = files[Location(ref)]
    <3>1. pc[w] = "idle" /\ pc'[w] = "storing" /\ job'[w].ref = Clean(gref)
      BY <1>3 DEF PutBegin, TypeOK
    <3>2. \A v \in Writers \ {w} : pc'[v] = pc[v] /\ job'[v] = job[v]
      BY <1>3 DEF PutBegin, TypeOK
    <3>3. Location(ref) \notin tainted' /\ \A v \in Writers : pc'[v] # "idle" => Location(job'[v].ref) # Location(ref)
      <4>1. (Location(ref) \notin tainted /\ At(Location(ref)) = {})'
        BY <2>1 DEF Settled
      <4>2. QED
        BY <1>1, <4>1, StoreGrows DEF At, Location, BuildKey, Namespace
    <3>4. Location(ref) # Location(Clean(gref))
      BY <3>1, <3>3
    <3>5. At(Location(ref)) = {}
      BY <3>1, <3>2, <3>3 DEF At
    <3>6. Location(ref) \notin tainted
      BY <1>3, <3>3, <3>4 DEF PutBegin
    <3>7. files'[Location(ref)] = files[Location(ref)]
      BY <1>2, <1>3, <3>4 DEF PutBegin, With
    <3>8. QED
      BY <3>5, <3>6, <3>7 DEF Settled
  <2>2. entries' = entries
    BY <1>3 DEF PutBegin
  <2>3. QED
    BY <2>1, <2>2, NewestKept
<1>4. ASSUME NEW w \in Writers, PutStored(w) \/ PutFails(w)
      PROVE  Newest'
  <2>1. ASSUME NEW ref \in Refs(entries), Settled(ref)'
        PROVE  Settled(ref) /\ files'[Location(ref)] = files[Location(ref)]
    <3>1. \A v \in Writers \ {w} : pc'[v] = pc[v] /\ job'[v] = job[v]
      BY <1>4 DEF PutStored, PutFails, TypeOK
    <3>2. \/ pc'[w] # "idle" /\ job'[w] = job[w] /\ tainted' = tainted
          \/ tainted' = tainted \cup {JobKey(w)}
      BY <1>4 DEF PutStored, PutFails, TypeOK
    <3>3. Location(ref) \notin tainted' /\ \A v \in Writers : pc'[v] # "idle" => Location(job'[v].ref) # Location(ref)
      <4>1. (Location(ref) \notin tainted /\ At(Location(ref)) = {})'
        BY <2>1 DEF Settled
      <4>2. QED
        BY <1>1, <4>1, StoreGrows DEF At, Location, BuildKey, Namespace
    <3>4. Location(ref) # JobKey(w)
      BY <3>2, <3>3 DEF JobKey
    <3>5. At(Location(ref)) = {}
      BY <3>1, <3>3, <3>4 DEF At, JobKey
    <3>6. Location(ref) \notin tainted
      BY <3>2, <3>3
    <3>7. files'[Location(ref)] = files[Location(ref)]
      BY <1>2, <1>4, <3>4 DEF PutStored, PutFails, With
    <3>8. QED
      BY <3>5, <3>6, <3>7 DEF Settled
  <2>2. entries' = entries
    BY <1>4 DEF PutStored, PutFails
  <2>3. QED
    BY <2>1, <2>2, NewestKept
<1>5. ASSUME NEW w \in Writers, Record(w)
      PROVE  Newest'
  BY <1>5, RecordNewest
<1>6. CASE FinalizeBegin \/ FinalizeStored \/ FinalizeFails \/ UNCHANGED vars
  <2>1. UNCHANGED <<backend, dir, files, tainted, pc, job, entries>>
    BY <1>6 DEF FinalizeBegin, FinalizeStored, FinalizeFails, vars
  <2>2. \A ref : Settled(ref)' => Settled(ref)
    BY <2>1 DEF Settled, At, Location, BuildKey, Namespace
  <2>3. QED
    BY <2>1, <2>2, NewestKept
<1>7. CASE Restart
  BY <1>7 DEF Restart, Newest, Refs
<1>8. QED
  BY <1>3, <1>4, <1>5, <1>6, <1>7 DEF Next

\* An entry stored once is the one that Find returns.
LEMMA FoundOnce ==
    ASSUME IInv, NEW ref, mine, Loads, ref \in Refs(index), Cardinality(Places(ref)) = 1
    PROVE  Find(index, ref) = entries[Max(Places(ref))]
<1>1. /\ index \in Seq(Entry) /\ Len(index) \in Nat /\ entries \in Seq(Entry) /\ Len(entries) \in Nat
      /\ Len(index) <= Len(entries)
      /\ \A i \in 1 .. Len(index) : index[i] = entries[i]
  BY DEF IInv, TypeOK, Growing, Behind
<1>2. PICK i \in 1 .. Len(index) : index[i].ref = ref
  BY <1>1 DEF Refs
<1>3. i \in Places(ref) /\ Places(ref) \subseteq 1 .. Len(entries)
  BY <1>1, <1>2 DEF Places
<1>4. Places(ref) = {i}
  <2>1. IsFiniteSet(Places(ref))
    <3>1. IsFiniteSet(1 .. Len(entries))
      BY <1>1, FS_Interval
    <3>2. QED
      BY <1>3, <3>1, FS_Subset
  <2>2. QED
    BY <1>3, <2>1, FS_Singleton
<1>5. Max(Places(ref)) = i
  BY <1>4 DEF Max
<1>6. {j \in 1 .. Len(index) : index[j].ref = ref} = {i}
  BY <1>1, <1>2, <1>4 DEF Places
<1>7. Min({i}) = i
  BY DEF Min
<1>8. SelectInSeq(index, LAMBDA e : e.ref = ref) = i
  BY <1>6, <1>7 DEF SelectInSeq
<1>9. QED
  BY <1>1, <1>2, <1>5, <1>8 DEF Find

\* The last recorded checksum of a settled reference, and what Find returns for
\* one that was stored once, is that of the stored file (dir.go:48-184,
\* index.go:27-35).
THEOREM ArtifactChecksumsTrue == Spec => []ChecksumsTrue
<1>1. Init => Clear /\ Newest
  BY DEF Init, Clear, Newest, Refs
<1>2. IInv /\ Clear /\ Newest /\ [Next]_vars => Clear' /\ Newest'
  BY ClearStep, NewestStep DEF IInv
<1>3. ASSUME IInv, Newest PROVE ChecksumsTrue
  <2>1. ASSUME NEW ref \in Refs(entries), Settled(ref)
        PROVE  /\ entries[Max(Places(ref))].checksum = Get(ref)
               /\ mine /\ Loads /\ ref \in Refs(index) /\ Cardinality(Places(ref)) = 1 =>
                     Find(index, ref).checksum = Get(ref)
    BY <1>3, <2>1, FoundOnce DEF Newest
  <2>2. QED
    BY <2>1 DEF ChecksumsTrue, Places
<1>4. QED
  BY <1>1, <1>2, <1>3, ArtifactInvariant, PTL DEF Spec

-----------------------------------------------------------------------------
(* KeysConfined                                                            *)

\* The references that may be stored, cleaned, and that the store takes.
LegalRefs == {Clean(ref) : ref \in {r \in GivenRefs : Legal(r)}}
Inside(ref) == ref \in LegalRefs /\ (backend = "local" => InBase(BuildKey(ref)))

Confined ==
    /\ DOMAIN files # {} => Legal(dir)
    /\ \A k \in DOMAIN files : \E ref \in LegalRefs : k = Location(ref) /\ Inside(ref)
    /\ \A w \in Writers : pc[w] # "idle" => Legal(dir) /\ Inside(job[w].ref)

LEMMA ConfinedStep == TypeOK /\ Confined /\ [Next]_vars => Confined'
<1> SUFFICES ASSUME TypeOK, Confined, [Next]_vars PROVE Confined'
  OBVIOUS
<1>1. /\ dir' = dir
      /\ \A ref : Location(ref)' = Location(ref)
      /\ \A ref : Inside(ref) => Inside(ref)'
  BY StoreGrows DEF Location, Inside, BuildKey, Namespace
<1>2. ASSUME NEW w \in Writers, NEW ref \in GivenRefs, NEW x \in Contents, PutBegin(w, ref, x)
      PROVE  Confined'
  <2>1. Legal(dir) /\ Inside(Clean(ref)) /\ Clean(ref) \in LegalRefs
    BY <1>2 DEF PutBegin, Writable, Accepts, LegalRefs, Inside
  <2>2. DOMAIN files' \subseteq DOMAIN files \cup {Location(Clean(ref))}
    BY <1>2 DEF PutBegin, With
  <2>3. \A v \in Writers : pc'[v] # "idle" => job'[v].ref = Clean(ref) \/ (pc[v] # "idle" /\ job'[v] = job[v])
    BY <1>2 DEF PutBegin, TypeOK
  <2>4. QED
    BY <1>1, <2>1, <2>2, <2>3 DEF Confined
<1>3. ASSUME NEW w \in Writers, PutStored(w) \/ PutFails(w) \/ Record(w)
      PROVE  Confined'
  <2>1. pc[w] # "idle"
    BY <1>3 DEF PutStored, PutFails, Record
  <2>2. DOMAIN files' \subseteq DOMAIN files \cup {JobKey(w)}
    BY <1>3 DEF PutStored, PutFails, Record, With
  <2>3. \A v \in Writers : pc'[v] # "idle" => pc[v] # "idle" /\ job'[v] = job[v]
    BY <1>3, <2>1 DEF PutStored, PutFails, Record, TypeOK
  <2>4. Legal(dir) /\ Inside(job[w].ref) /\ job[w].ref \in LegalRefs
    BY <2>1 DEF Confined, Inside
  <2>5. QED
    BY <1>1, <2>2, <2>3, <2>4 DEF Confined, JobKey
<1>4. CASE FinalizeBegin \/ FinalizeStored \/ FinalizeFails \/ UNCHANGED vars
  BY <1>1, <1>4 DEF FinalizeBegin, FinalizeStored, FinalizeFails, vars, Confined
<1>5. CASE Restart
  BY <1>1, <1>5 DEF Restart, Confined
<1>6. QED
  BY <1>2, <1>3, <1>4, <1>5 DEF Next

\* Where a reference without blanks around it lies.
LEMMA PlaceOfPlain ==
    ASSUME dir \in Namespaces, Legal(dir), NEW q \in Seq(STRING), Plain(q), q # <<>>, ~Padded(q)
    PROVE  /\ Root \in Seq(STRING) /\ Location(q) = Root \o q
           /\ ~Padded(Namespace) => Plain(Root)
<1> DEFINE n == Part(Namespace)
<1>1. /\ Namespace \in Seq(Segments) /\ Namespace \in Seq(STRING)
      /\ Plain(Namespace) /\ Namespace # <<>>
  BY GivenPlain DEF Namespace
<1>2. n \in Seq(STRING)
  BY <1>1, PartType
<1>3. ~Padded(Namespace) => n = Namespace
  BY <1>1, PartPlain
<1>4. BuildKey(q) = n \o q
  BY PartPlain DEF BuildKey
<1> HIDE DEF n
<1>5. Resolve(n) \in Seq(STRING) /\ Resolve(n \o q) = Resolve(n) \o q
  BY <1>2, ResolveAppend
<1>6. ~Padded(Namespace) => Plain(n) /\ Plain(Resolve(n))
  <2>1. Plain(Namespace) => Plain(Base \o Namespace) /\ Resolve(Namespace) = Base \o Namespace
    BY <1>1, BaseNames, PlainBelow, ResolvePlain
  <2>2. QED
    BY <1>1, <1>3, <2>1
<1>7. QED
  BY <1>2, <1>4, <1>5, <1>6 DEF Root, Location, n

\* Every file of a local store lies in its base directory, and every file that
\* was stored under a reference without blanks around it lies strictly below
\* the namespace, for every namespace and every reference that a caller may
\* give (artifact.go:28-39, dir.go:31-82, 207-222, local.go:119-130).
THEOREM ArtifactKeysConfined == Spec => []KeysConfined
<1>1. Init => Confined
  BY DEF Init, Confined
<1>2. IInv /\ Confined /\ [Next]_vars => Confined'
  BY ConfinedStep DEF IInv
<1>3. ASSUME IInv, Confined PROVE KeysConfined
  <2> SUFFICES ASSUME NEW k \in DOMAIN files
               PROVE  /\ backend = "local" => IsPrefix(Base, k)
                      /\ \/ \E ref \in CleanRefs : Padded(ref) /\ k = Location(ref)
                         \/ IsStrictPrefix(Root, k) /\ (Padded(Namespace) \/ Clean(k) = k)
    BY DEF KeysConfined
  <2>1. Legal(dir) /\ dir \in Namespaces
    BY <1>3 DEF Confined, IInv, TypeOK
  <2>2. PICK ref \in LegalRefs : k = Location(ref) /\ Inside(ref)
    BY <1>3 DEF Confined
  <2>3. ref \in CleanRefs /\ ref \in Seq(STRING) /\ Plain(ref) /\ ref # <<>>
    <3>1. PICK r \in GivenRefs : Legal(r) /\ ref = Clean(r)
      BY DEF LegalRefs
    <3>2. QED
      BY <3>1, GivenPlain DEF CleanRefs
  <2>4. backend = "local" => IsPrefix(Base, k)
    BY <2>2 DEF Inside, InBase, Location
  <2>5. CASE Padded(ref)
    BY <2>2, <2>3, <2>4, <2>5
  <2>6. CASE ~Padded(ref)
    <3>1. /\ Root \in Seq(STRING) /\ k = Root \o ref
          /\ ~Padded(Namespace) => Plain(Root)
      BY <2>1, <2>2, <2>3, <2>6, PlaceOfPlain
    <3>2. IsStrictPrefix(Root, k) /\ (Plain(Root) => Plain(k))
      BY <2>3, <3>1, PlainBelow
    <3>3. k \in Seq(STRING)
      BY <2>3, <3>1
    <3>4. ~Padded(Namespace) => Clean(k) = k
      BY <3>1, <3>2, <3>3, PlainClean
    <3>5. QED
      BY <2>4, <3>2, <3>4
  <2>7. QED
    BY <2>5, <2>6
<1>4. QED
  BY <1>1, <1>2, <1>3, ArtifactInvariant, PTL DEF Spec

=============================================================================
