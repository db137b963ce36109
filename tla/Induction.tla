------------------------------ MODULE Induction ------------------------------
(***************************************************************************)
(* Induction over numbers for sets: the form in which the provers can use  *)
(* it.  It comes from the least counterexample, which the well-foundedness *)
(* of < provides.                                                          *)
(***************************************************************************)
EXTENDS Integers, FiniteSets, FiniteSetTheorems, WellFoundedInduction, TLAPS

(* Every set of numbers that is not empty has a least element.             *)
LEMMA LeastOf ==
  ASSUME NEW T \in SUBSET Nat, T # {}
  PROVE  \E n \in T : \A m \in T : n <= m
<1> DEFINE R == {p \in Nat \X Nat : p[1] < p[2]}
<1>1. IsWellFoundedOn(R, Nat)
  BY NatLessThanWellFounded DEF OpToRel
<1> HIDE DEF R
<1>2. PICK n \in T : \A m \in T : ~(<<m, n>> \in R)
  BY <1>1, WFMin
<1>3. \A m \in T : ~(m < n)
  BY <1>2 DEF R
<1> QED
  BY <1>3

(* A set that holds 0 and goes on to the next number holds 0 .. N.         *)
LEMMA UpTo ==
  ASSUME NEW N \in Nat, NEW S, 0 \in S,
         \A n \in 0 .. N - 1 : n \in S => n + 1 \in S
  PROVE  0 .. N \subseteq S
<1> DEFINE T == {n \in 0 .. N : n \notin S}
<1>1. SUFFICES ASSUME T # {}
               PROVE  FALSE
  OBVIOUS
<1>2. T \in SUBSET Nat
  OBVIOUS
<1> HIDE DEF T
<1>3. PICK n \in T : \A m \in T : n <= m
  BY <1>1, <1>2, LeastOf
<1>4. n # 0 /\ n - 1 \in 0 .. N - 1 /\ n \notin S
  BY <1>3 DEF T
<1>5. n - 1 \in S
  BY <1>3, <1>4 DEF T
<1> QED
  BY <1>2, <1>4, <1>5

(* The other way round: from N + 1 down to 1.                              *)
LEMMA DownTo ==
  ASSUME NEW N \in Nat, NEW S, N + 1 \in S,
         \A n \in 1 .. N : n + 1 \in S => n \in S
  PROVE  1 .. N + 1 \subseteq S
<1> DEFINE T == {k \in 0 .. N : N + 1 - k \in S}
<1>1. 0 \in T
  OBVIOUS
<1>2. ASSUME NEW k \in 0 .. N - 1, k \in T
      PROVE  k + 1 \in T
  <2>1. N - k \in 1 .. N /\ N - k + 1 = N + 1 - k /\ N + 1 - (k + 1) = N - k /\ k + 1 \in 0 .. N
    OBVIOUS
  <2>2. N - k + 1 \in S
    BY <1>2, <2>1
  <2> QED
    BY <2>1, <2>2
<1> HIDE DEF T
<1>3. 0 .. N \subseteq T
  BY <1>1, <1>2, UpTo
<1>4. ASSUME NEW n \in 1 .. N + 1
      PROVE  n \in S
  <2>1. N + 1 - n \in 0 .. N /\ N + 1 - (N + 1 - n) = n
    OBVIOUS
  <2> QED
    BY <1>3, <2>1 DEF T
<1> QED
  BY <1>4

StepsIn(step, N, S) == \A n \in 1 .. N : \A s \in S : step[<<n, s>>] \in S

IsRun(g, first, step, N, S) ==
  /\ g \in [0 .. N -> S]
  /\ g[0] = first
  /\ \A n \in 1 .. N : g[n] = step[<<n, g[n - 1]>>]

(* A first value and a step make a sequence of values.                     *)
LEMMA Iterates ==
  ASSUME NEW N \in Nat, NEW S, NEW first \in S, NEW step, StepsIn(step, N, S)
  PROVE  \E g : IsRun(g, first, step, N, S)
<1> DEFINE Good(g, k) == IsRun(g, first, step, k, S)
           Done == {k \in 0 .. N : \E g : Good(g, k)}
<1>1. 0 \in Done
  <2> DEFINE h == [i \in 0 .. 0 |-> first]
  <2>1. Good(h, 0)
    BY DEF IsRun
  <2> HIDE DEF Good, h
  <2> QED
    BY <2>1
<1>2. ASSUME NEW k \in 0 .. N - 1, k \in Done
      PROVE  k + 1 \in Done
  <2>1. PICK g : Good(g, k)
    BY <1>2
  <2> DEFINE h == [i \in 0 .. k + 1 |-> IF i = k + 1 THEN step[<<k + 1, g[k]>>] ELSE g[i]]
  <2>2. g[k] \in S /\ k + 1 \in 1 .. N /\ step[<<k + 1, g[k]>>] \in S
    BY <2>1 DEF IsRun, StepsIn
  <2>3. h \in [0 .. k + 1 -> S]
    BY <2>1, <2>2 DEF IsRun
  <2>4. h[0] = first
    BY <2>1 DEF IsRun
  <2>5. ASSUME NEW n \in 1 .. k + 1
        PROVE  h[n] = step[<<n, h[n - 1]>>]
    <3>1. CASE n = k + 1
      BY <3>1
    <3>2. CASE n # k + 1
      <4>1. n \in 1 .. k /\ n - 1 \in 0 .. k /\ n - 1 # k + 1
        BY <3>2
      <4> QED
        BY <2>1, <4>1 DEF IsRun
    <3> QED
      BY <3>1, <3>2
  <2>6. Good(h, k + 1)
    BY <2>3, <2>4, <2>5 DEF IsRun
  <2> HIDE DEF Good, h
  <2> QED
    BY <2>6
<1> HIDE DEF Done
<1>3. N \in Done
  BY <1>1, <1>2, UpTo
<1> QED
  BY <1>3 DEF Done

StepsThrough(step, N, P) == \A n \in 1 .. N : \A s \in P[n - 1] : step[<<n, s>>] \in P[n]

(* Likewise when what is known of the values changes from step to step.    *)
LEMMA IteratesThrough ==
  ASSUME NEW N \in Nat, NEW P, NEW first \in P[0], NEW step, StepsThrough(step, N, P)
  PROVE  \E g : /\ g[0] = first
                /\ \A n \in 1 .. N : g[n] = step[<<n, g[n - 1]>>]
                /\ \A n \in 0 .. N : g[n] \in P[n]
<1> DEFINE S == UNION {P[n] : n \in 0 .. N}
           safe == [q \in (1 .. N) \X S |-> IF q[2] \in P[q[1] - 1] THEN step[q] ELSE first]
<1>1. first \in S
  OBVIOUS
<1>2. ASSUME NEW n \in 1 .. N, NEW s \in S
      PROVE  safe[<<n, s>>] \in S
  <2>1. CASE s \in P[n - 1]
    <3>1. step[<<n, s>>] \in P[n]
      BY <2>1 DEF StepsThrough
    <3> QED
      BY <2>1, <3>1
  <2> QED
    BY <1>1, <2>1
<1>3. StepsIn(safe, N, S)
  BY <1>2 DEF StepsIn
<1>4. \A n \in 1 .. N : \A s \in S : s \in P[n - 1] => safe[<<n, s>>] = step[<<n, s>>]
  OBVIOUS
<1>5. \A n \in 0 .. N : P[n] \subseteq S
  OBVIOUS
<1> HIDE DEF S, safe
<1>6. PICK g : IsRun(g, first, safe, N, S)
  BY <1>1, <1>3, Iterates
<1> DEFINE T == {n \in 0 .. N : g[n] \in P[n]}
<1>7. 0 \in T
  BY <1>6 DEF IsRun
<1>8. ASSUME NEW n \in 0 .. N - 1, n \in T
      PROVE  n + 1 \in T
  <2>1. n + 1 \in 1 .. N /\ (n + 1) - 1 = n /\ n \in 0 .. N /\ g[n] \in P[n] /\ g[n] \in S
    BY <1>5, <1>8
  <2>2. g[n + 1] = step[<<n + 1, g[n]>>]
    BY <1>4, <1>6, <2>1 DEF IsRun
  <2>3. step[<<n + 1, g[n]>>] \in P[n + 1]
    BY <2>1 DEF StepsThrough
  <2> QED
    BY <2>1, <2>2, <2>3
<1> HIDE DEF T
<1>9. 0 .. N \subseteq T
  BY <1>7, <1>8, UpTo
<1>10. \A n \in 0 .. N : g[n] \in P[n]
  BY <1>9 DEF T
<1>11. ASSUME NEW n \in 1 .. N
       PROVE  g[n] = step[<<n, g[n - 1]>>]
  <2>1. n - 1 \in 0 .. N
    OBVIOUS
  <2>2. g[n - 1] \in P[n - 1] /\ g[n - 1] \in S
    BY <1>5, <1>10, <2>1
  <2> QED
    BY <1>4, <1>6, <2>2 DEF IsRun
<1> QED
  BY <1>6, <1>10, <1>11 DEF IsRun

(* What a function does not leave in one step, it does not leave at all.   *)
LEMMA Monotone ==
  ASSUME NEW N \in Nat, NEW f, \A n \in 1 .. N : f[n - 1] \subseteq f[n]
  PROVE  \A n \in 0 .. N : \A m \in 0 .. n : f[m] \subseteq f[n]
<1> DEFINE S == {n \in 0 .. N : \A m \in 0 .. n : f[m] \subseteq f[n]}
<1>1. 0 \in S
  OBVIOUS
<1>2. ASSUME NEW n \in 0 .. N - 1, n \in S
      PROVE  n + 1 \in S
  <2>1. f[n] \subseteq f[n + 1]
    <3>1. n + 1 \in 1 .. N /\ (n + 1) - 1 = n
      OBVIOUS
    <3> QED
      BY <3>1
  <2>2. ASSUME NEW m \in 0 .. n + 1
        PROVE  f[m] \subseteq f[n + 1]
    BY <1>2, <2>1
  <2> QED
    BY <2>2
<1> HIDE DEF S
<1>3. 0 .. N \subseteq S
  BY <1>1, <1>2, UpTo
<1> QED
  BY <1>3 DEF S

(* A growing chain of subsets of D that stands still once it has stood     *)
(* still for a step has come to rest after as many steps as D has          *)
(* elements, unless it is all of D by then.                                *)
LEMMA ChainRests ==
  ASSUME NEW D, IsFiniteSet(D), NEW f, NEW N \in Nat, Cardinality(D) = N,
         \A n \in 0 .. N : f[n] \subseteq D,
         \A n \in 1 .. N : f[n - 1] \subseteq f[n],
         \A n \in 1 .. N - 1 : f[n] = f[n - 1] => f[n + 1] = f[n]
  PROVE  f[N] = D \/ (N > 0 /\ f[N] = f[N - 1])
<1> DEFINE Rests(n) == n > 0 /\ f[n] = f[n - 1]
           S == {n \in 0 .. N : Cardinality(f[n]) >= n \/ Rests(n)}
<1>1. \A n \in 0 .. N : IsFiniteSet(f[n]) /\ Cardinality(f[n]) \in Nat
  BY FS_Subset, FS_CardinalityType
<1>2. 0 \in S
  BY <1>1
<1>3. ASSUME NEW n \in 0 .. N - 1, n \in S
      PROVE  n + 1 \in S
  <2>1. n \in 0 .. N /\ n + 1 \in 1 .. N /\ n + 1 \in 0 .. N /\ (n + 1) - 1 = n
    OBVIOUS
  <2>2. f[n] \subseteq f[n + 1]
    BY <2>1
  <2>3. CASE Rests(n)
    <3>1. n \in 1 .. N - 1
      BY <2>3
    <3>2. f[n + 1] = f[n]
      BY <2>3, <3>1
    <3> QED
      BY <2>1, <3>2
  <2>4. CASE Cardinality(f[n]) >= n /\ f[n + 1] # f[n]
    <3>1. /\ Cardinality(f[n]) <= Cardinality(f[n + 1])
          /\ Cardinality(f[n]) # Cardinality(f[n + 1])
      BY <1>1, <2>1, <2>2, <2>4, FS_Subset
    <3>2. Cardinality(f[n + 1]) >= n + 1
      BY <1>1, <2>1, <2>4, <3>1
    <3> QED
      BY <2>1, <3>2
  <2>5. CASE f[n + 1] = f[n]
    BY <2>1, <2>5
  <2> QED
    BY <1>3, <2>3, <2>4, <2>5
<1> HIDE DEF S
<1>4. N \in S
  BY <1>2, <1>3, UpTo
<1>5. CASE Cardinality(f[N]) >= N
  <2>1. f[N] \subseteq D /\ N \in 0 .. N
    OBVIOUS
  <2>2. Cardinality(f[N]) = Cardinality(D)
    BY <1>1, <1>5, <2>1, FS_Subset
  <2> QED
    BY <2>1, <2>2, FS_Subset
<1> QED
  BY <1>4, <1>5 DEF S
=============================================================================
