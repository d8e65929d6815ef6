------------------------------ MODULE Induction ------------------------------
(***************************************************************************)
(* Induction over the rounds of a loop: an invariant of every round, and   *)
(* that a loop which stays inside a set has a result.  A loop of the code  *)
(* is a recursive function on the number of rounds; the provers know of it *)
(* only that it is some function with the recursive equation if there is   *)
(* one, and Iteration says that there is.                                  *)
(***************************************************************************)
EXTENDS Naturals, WellFoundedInduction, TLAPS

\* A set that has 0, and with every number below n its successor, has all
\* numbers up to n: the invariant of a loop holds after each of its rounds.
LEMMA UpTo ==
    ASSUME NEW n \in Nat, NEW S, 0 \in S, \A i \in 0 .. n - 1 : i \in S => i + 1 \in S
    PROVE  0 .. n \subseteq S
<1> DEFINE T == {i \in 0 .. n : i \notin S}
           R == {ss \in Nat \X Nat : ss[1] < ss[2]}
<1> SUFFICES ASSUME T # {} PROVE FALSE
  OBVIOUS
<1>1. IsWellFoundedOn(R, Nat)
  BY NatLessThanWellFounded DEF OpToRel
<1>2. PICK x \in T : \A y \in T : <<y, x>> \notin R
  <2>1. T \subseteq Nat
    OBVIOUS
  <2> HIDE DEF T, R
  <2>2. QED
    BY <1>1, <2>1, WFMin
<1>3. x \in 0 .. n /\ x \notin S /\ x # 0
  OBVIOUS
<1>4. x - 1 \in 0 .. n - 1 /\ x - 1 \in 0 .. n /\ x - 1 \in Nat /\ x - 1 < x
  BY <1>3
<1>5. <<x - 1, x>> \in R
  BY <1>3, <1>4
<1>6. x - 1 \in S
  BY <1>2, <1>4, <1>5
<1>7. x - 1 + 1 = x
  BY <1>3
<1>8. QED
  BY <1>3, <1>4, <1>6, <1>7

\* g[i] is what n rounds of a loop, the i-th of which turns p into F[i][p],
\* make of b in i rounds.
Iterates(g, F, b, n) == \A i \in 0 .. n : g[i] = IF i = 0 THEN b ELSE F[i][g[i - 1]]

\* If every round stays inside S, the loop has a result after each round.
LEMMA Iteration ==
    ASSUME NEW n \in Nat, NEW S, NEW b \in S, NEW F \in [1 .. n -> [S -> S]]
    PROVE  \E g \in [0 .. n -> S] : Iterates(g, F, b, n)
<1> DEFINE Ks == {k \in Nat : k <= n /\ \E g \in [0 .. k -> S] : Iterates(g, F, b, k)}
<1>1. 0 \in Ks
  <2>1. [i \in 0 .. 0 |-> b] \in [0 .. 0 -> S]
    OBVIOUS
  <2>2. Iterates([i \in 0 .. 0 |-> b], F, b, 0)
    BY DEF Iterates
  <2>3. QED
    BY <2>1, <2>2
<1>2. ASSUME NEW k \in 0 .. n - 1, k \in Ks PROVE k + 1 \in Ks
  <2>1. PICK g \in [0 .. k -> S] : Iterates(g, F, b, k)
    BY <1>2
  <2> DEFINE h == [i \in 0 .. k + 1 |-> IF i = k + 1 THEN F[k + 1][g[k]] ELSE g[i]]
  <2>2. h \in [0 .. k + 1 -> S]
    <3>1. F[k + 1] \in [S -> S] /\ g[k] \in S
      OBVIOUS
    <3>2. \A i \in 0 .. k + 1 : i = k + 1 \/ i \in 0 .. k
      OBVIOUS
    <3>3. QED
      BY <3>1, <3>2
  <2>3. ASSUME NEW i \in 0 .. k + 1
        PROVE  h[i] = IF i = 0 THEN b ELSE F[i][h[i - 1]]
    <3>1. CASE i = 0
      BY <2>1, <3>1 DEF Iterates
    <3>2. CASE i = k + 1
      BY <3>2
    <3>3. CASE i \in 1 .. k
      <4>1. i \in 0 .. k /\ i - 1 \in 0 .. k /\ i - 1 \in 0 .. k + 1 /\ i # k + 1 /\ i - 1 # k + 1 /\ i # 0
        BY <3>3
      <4>2. g[i] = F[i][g[i - 1]]
        BY <2>1, <4>1 DEF Iterates
      <4>3. QED
        BY <4>1, <4>2
    <3>4. QED
      BY <3>1, <3>2, <3>3
  <2>4. Iterates(h, F, b, k + 1)
    BY <2>3 DEF Iterates
  <2>5. k + 1 \in Nat /\ k + 1 <= n
    OBVIOUS
  <2> HIDE DEF h
  <2>6. QED
    BY <2>2, <2>4, <2>5
<1>3. n \in Ks
  <2> HIDE DEF Ks
  <2>1. 0 .. n \subseteq Ks
    BY <1>1, <1>2, UpTo
  <2>2. QED
    BY <2>1
<1>4. QED
  BY <1>3
=============================================================================
