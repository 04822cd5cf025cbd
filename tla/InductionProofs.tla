-------------------------- MODULE InductionProofs --------------------------
(***************************************************************************)
(* Induction over the natural numbers, functions defined by recursion, and *)
(* sums.  The provers cannot instantiate the induction theorems of the     *)
(* library, whose parameter is an operator; they can use the existence of  *)
(* minimal elements (WFMin), whose parameters are sets.                    *)
(***************************************************************************)
EXTENDS Totals, WellFoundedInduction, TLAPS

-----------------------------------------------------------------------------
(* Induction and extrema.                                                  *)

\* A set of natural numbers that is not empty has a least element.
LEMMA LeastNat ==
  ASSUME NEW S \in SUBSET Nat, S # {}
  PROVE  \E n \in S : \A m \in S : n <= m
<1> DEFINE R == OpToRel(<, Nat)
<1>1. IsWellFoundedOn(R, Nat)
  BY NatLessThanWellFounded
<1>2. \A m, n \in Nat : m < n => <<m, n>> \in R
  BY DEF OpToRel
<1> HIDE DEF R
<1>3. PICK n \in S : \A m \in S : <<m, n>> \notin R
  BY <1>1, WFMin
<1>4. n \in Nat /\ \A m \in S : m \in Nat /\ ~(m < n)
  BY <1>2, <1>3
<1>5. \A m \in S : n <= m
  BY <1>4
<1> QED BY <1>3, <1>5

\* Induction, the property given as the set of numbers that have it.
LEMMA Induct ==
  ASSUME NEW S, 0 \in S, \A n \in Nat : n \in S => n + 1 \in S
  PROVE  Nat \subseteq S
<1> SUFFICES ASSUME Nat \ S # {} PROVE FALSE
  OBVIOUS
<1>1. PICK n \in Nat \ S : \A m \in Nat \ S : n <= m
  BY LeastNat
<1>2. n # 0 /\ n - 1 \in Nat /\ n - 1 \in S
  BY <1>1
<1> QED BY <1>1, <1>2

\* A bounded set of integers that is not empty has a greatest element.
LEMMA GreatestInt ==
  ASSUME NEW S \in SUBSET Int, S # {}, NEW b \in Int, \A x \in S : x <= b
  PROVE  \E n \in S : \A x \in S : x <= n
<1> DEFINE D == {b - x : x \in S}
<1>1. D \in SUBSET Nat /\ D # {}
  <2>1. \A x \in S : b - x \in Nat
    OBVIOUS
  <2> QED BY <2>1
<1>2. \A x \in S : b - x \in D
  OBVIOUS
<1>3. PICK d \in D : \A e \in D : d <= e
  <2> HIDE DEF D
  <2> QED BY <1>1, LeastNat
<1>4. PICK n \in S : d = b - n
  OBVIOUS
<1> HIDE DEF D
<1>5. \A x \in S : x <= n
  BY <1>2, <1>3, <1>4
<1> QED BY <1>5

-----------------------------------------------------------------------------
(* Recursion.                                                              *)

\* f iterates the steps s from a on.
IsRun(f, a, s, n) == f[0] = a /\ \A i \in 1..n : f[i] = s[i][f[i - 1]]

\* Every sequence of steps can be iterated.
LEMMA Iterates ==
  ASSUME NEW T, NEW a \in T, NEW n \in Nat, NEW s \in [1..n -> [T -> T]]
  PROVE  \E f \in [0..n -> T] : IsRun(f, a, s, n)
<1> DEFINE Runs(f, k) == f[0] = a /\ \A i \in 1..k : f[i] = s[i][f[i - 1]]
           Upto(k) == \E f \in [0..k -> T] : Runs(f, k)
           S == {k \in Nat : k <= n => Upto(k)}
<1>1. Upto(0)
  <2> DEFINE g == [i \in 0..0 |-> a]
  <2>1. g \in [0..0 -> T] /\ g[0] = a
    OBVIOUS
  <2>2. Runs(g, 0)
    BY <2>1
  <2> HIDE DEF Runs, g
  <2> QED BY <2>1, <2>2
<1>2. ASSUME NEW k \in Nat, k + 1 <= n, Upto(k) PROVE Upto(k + 1)
  <2>1. PICK f \in [0..k -> T] : Runs(f, k)
    BY <1>2
  <2> DEFINE e == s[k + 1][f[k]]
             g == [i \in 0..(k + 1) |-> IF i = k + 1 THEN e ELSE f[i]]
  <2>2. k + 1 \in 1..n /\ f[k] \in T /\ e \in T
    BY <1>2
  <2> HIDE DEF e
  <2>3. g \in [0..(k + 1) -> T]
    BY <2>2
  <2>4. g[k + 1] = e /\ \A i \in 0..k : g[i] = f[i]
    OBVIOUS
  <2> HIDE DEF g
  <2>5. \A i \in 1..k : g[i] = s[i][g[i - 1]]
    BY <2>1, <2>4
  <2>6. g[0] = a /\ g[k + 1] = s[k + 1][g[k]]
    BY <2>1, <2>4 DEF e
  <2>7. \A i \in 1..(k + 1) : i \in 1..k \/ (i = k + 1 /\ i - 1 = k)
    OBVIOUS
  <2>8. Runs(g, k + 1)
    BY <2>5, <2>6, <2>7
  <2> QED BY <2>3, <2>8
<1> HIDE DEF Upto
<1>3. 0 \in S /\ \A k \in Nat : k \in S => k + 1 \in S
  BY <1>1, <1>2
<1>4. n \in S
  <2> HIDE DEF S
  <2> QED BY <1>3, Induct
<1>5. Upto(n)
  BY <1>4
<1> QED BY <1>5 DEF Upto, IsRun

\* What iterates them stays in their type.
LEMMA RunTyped ==
  ASSUME NEW T, NEW n \in Nat, NEW f, f[0] \in T, \A i \in 1..n : f[i - 1] \in T => f[i] \in T
  PROVE  \A i \in 0..n : f[i] \in T
<1> DEFINE S == {k \in Nat : k <= n => f[k] \in T}
<1>1. ASSUME NEW k \in Nat, k + 1 <= n, f[k] \in T PROVE f[k + 1] \in T
  <2>1. k + 1 \in 1..n /\ (k + 1) - 1 = k
    BY <1>1
  <2> QED BY <1>1, <2>1
<1>2. 0 \in S /\ \A k \in Nat : k \in S => k + 1 \in S
  BY <1>1
<1>3. Nat \subseteq S
  <2> HIDE DEF S
  <2> QED BY <1>2, Induct
<1> QED BY <1>3

\* f iterates the step s from a on, n times.
Iterated(f, a, s, n) == f[0] = a /\ \A i \in 1..n : f[i] = s[f[i - 1]]

\* f iterates the step s from a on, without end.
Repeats(f, a, s) == f[0] = a /\ \A n \in Nat : f[n + 1] = s[f[n]]

\* Every step can be iterated without end.
LEMMA Forever ==
  ASSUME NEW T, NEW a \in T, NEW s \in [T -> T]
  PROVE  \E f \in [Nat -> T] : Repeats(f, a, s)
<1>1. ASSUME NEW n \in Nat PROVE \E f \in [0..n -> T] : Iterated(f, a, s, n)
  <2>1. PICK t : t = [i \in 1..n |-> s]
    OBVIOUS
  <2>2. t \in [1..n -> [T -> T]] /\ \A i \in 1..n : t[i] = s
    BY <2>1
  <2>3. PICK f \in [0..n -> T] : IsRun(f, a, t, n)
    BY <2>2, Iterates
  <2> QED BY <2>2, <2>3 DEF IsRun, Iterated
<1>2. ASSUME NEW n \in Nat, NEW f, NEW h, Iterated(f, a, s, n), Iterated(h, a, s, n + 1)
      PROVE  f[n] = h[n] /\ h[n + 1] = s[h[n]]
  <2> DEFINE S == {k \in Nat : k <= n => f[k] = h[k]}
  <2>1. ASSUME NEW k \in Nat, k + 1 <= n, f[k] = h[k] PROVE f[k + 1] = h[k + 1]
    <3>1. k + 1 \in 1..n /\ k + 1 \in 1..(n + 1) /\ (k + 1) - 1 = k
      BY <2>1
    <3> QED BY <1>2, <2>1, <3>1 DEF Iterated
  <2>2. 0 \in S /\ \A k \in Nat : k \in S => k + 1 \in S
    BY <1>2, <2>1 DEF Iterated
  <2>3. Nat \subseteq S
    <3> HIDE DEF S
    <3> QED BY <2>2, Induct
  <2>4. n + 1 \in 1..(n + 1) /\ (n + 1) - 1 = n
    OBVIOUS
  <2> QED BY <1>2, <2>3, <2>4 DEF Iterated
<1> DEFINE R(n) == CHOOSE f \in [0..n -> T] : Iterated(f, a, s, n)
           g == [n \in Nat |-> R(n)[n]]
<1>3. \A n \in Nat : R(n) \in [0..n -> T] /\ Iterated(R(n), a, s, n)
  BY <1>1
<1> HIDE DEF R
<1>4. g \in [Nat -> T]
  <2>1. \A n \in Nat : n \in 0..n
    OBVIOUS
  <2> QED BY <1>3, <2>1
<1>5. g[0] = a
  BY <1>3 DEF Iterated
<1>6. ASSUME NEW n \in Nat PROVE g[n + 1] = s[g[n]]
  <2>1. n + 1 \in Nat
    OBVIOUS
  <2>2. R(n)[n] = R(n + 1)[n] /\ R(n + 1)[n + 1] = s[R(n + 1)[n]]
    BY <1>2, <1>3, <2>1
  <2> QED BY <2>1, <2>2
<1> HIDE DEF g
<1> QED BY <1>4, <1>5, <1>6 DEF Repeats

-----------------------------------------------------------------------------
(* Sums.                                                                   *)

\* c holds the partial sums of f.
Sums(c, f, n) == c[0] = 0 /\ \A i \in 1..n : c[i] = c[i - 1] + f[i]

\* The partial sums are determined by the terms.
LEMMA SumsAgree ==
  ASSUME NEW n \in Nat, NEW f, NEW c, NEW d, Sums(c, f, n), Sums(d, f, n)
  PROVE  \A i \in 0..n : c[i] = d[i]
<1> USE DEF Sums
<1> DEFINE S == {k \in Nat : k <= n => c[k] = d[k]}
<1>1. ASSUME NEW k \in Nat, k + 1 <= n, c[k] = d[k] PROVE c[k + 1] = d[k + 1]
  <2>1. k + 1 \in 1..n /\ (k + 1) - 1 = k
    BY <1>1
  <2> QED BY <1>1, <2>1
<1>2. 0 \in S /\ \A k \in Nat : k \in S => k + 1 \in S
  BY <1>1
<1>3. Nat \subseteq S
  <2> HIDE DEF S
  <2> QED BY <1>2, Induct
<1> QED BY <1>3

\* The function that Total defines satisfies its equations.
LEMMA TotalWitness ==
  ASSUME NEW f, NEW n \in Nat, \A i \in 1..n : f[i] \in Int
  PROVE  \E sum \in [0..n -> Int] :
            Total(f, n) = sum[n] /\ Sums(sum, f, n)
<1> DEFINE s == [i \in 1..n |-> [x \in Int |-> x + f[i]]]
           IsSum(sum) == sum = [i \in 0..n |-> IF i = 0 THEN 0 ELSE sum[i - 1] + f[i]]
<1>1. s \in [1..n -> [Int -> Int]]
  OBVIOUS
<1>2. \A i \in 1..n : \A x \in Int : s[i][x] = x + f[i]
  OBVIOUS
<1> HIDE DEF s
<1>3. PICK g \in [0..n -> Int] : IsRun(g, 0, s, n)
  <2>1. 0 \in Int
    OBVIOUS
  <2> QED BY <1>1, <2>1, Iterates
<1>4. \A i \in 0..n : g[i] = IF i = 0 THEN 0 ELSE g[i - 1] + f[i]
  <2>1. \A i \in 1..n : i - 1 \in 0..n /\ i # 0
    OBVIOUS
  <2>2. \A i \in 1..n : g[i] = g[i - 1] + f[i]
    BY <1>2, <1>3, <2>1 DEF IsRun
  <2>3. \A i \in 0..n : i = 0 \/ i \in 1..n
    OBVIOUS
  <2> QED BY <1>3, <2>2, <2>3 DEF IsRun
<1>5. IsSum(g)
  BY <1>4
<1> DEFINE c == CHOOSE sum : IsSum(sum)
<1>6. IsSum(c)
  BY <1>5
<1>7. Total(f, n) = c[n]
  BY DEF Total
<1> HIDE DEF c
<1>8. c[0] = 0 /\ \A i \in 1..n : c[i] = c[i - 1] + f[i]
  BY <1>6
<1> HIDE DEF IsSum
<1> DEFINE S == {k \in Nat : k <= n => c[k] \in Int}
<1>9. 0 \in S /\ \A k \in Nat : k \in S => k + 1 \in S
  <2>1. ASSUME NEW k \in Nat, k + 1 <= n, c[k] \in Int PROVE c[k + 1] \in Int
    <3>1. k + 1 \in 1..n /\ (k + 1) - 1 = k
      BY <2>1
    <3>2. c[k + 1] = c[k] + f[k + 1] /\ f[k + 1] \in Int
      BY <1>8, <3>1
    <3> QED BY <2>1, <3>2
  <2>2. \A k \in Nat : k \in S => k + 1 \in S
    BY <2>1
  <2> QED BY <1>8, <2>2
<1>10. Nat \subseteq S
  <2> HIDE DEF S
  <2> QED BY <1>9, Induct
<1>11. c \in [0..n -> Int]
  <2>1. \A k \in 0..n : c[k] \in Int
    BY <1>10
  <2>2. c = [i \in 0..n |-> c[i]]
    BY <1>6 DEF IsSum
  <2> QED BY <2>1, <2>2
<1> QED BY <1>7, <1>8, <1>11 DEF Sums

\* The sum of no terms, of one more term, and its type.
LEMMA TotalZero ==
  ASSUME NEW f
  PROVE  Total(f, 0) = 0
<1>1. \A i \in 1..0 : f[i] \in Int
  OBVIOUS
<1> QED BY <1>1, TotalWitness DEF Sums

LEMMA TotalType ==
  ASSUME NEW f, NEW n \in Nat, \A i \in 1..n : f[i] \in Int
  PROVE  Total(f, n) \in Int
BY TotalWitness

\* Sums of equal terms are equal.
LEMMA TotalSame ==
  ASSUME NEW f, NEW g, NEW n \in Nat, \A i \in 1..n : f[i] \in Int /\ f[i] = g[i]
  PROVE  Total(f, n) = Total(g, n)
<1>1. PICK c \in [0..n -> Int] :
         Total(f, n) = c[n] /\ Sums(c, f, n)
  BY TotalWitness
<1>2. \A i \in 1..n : g[i] \in Int
  OBVIOUS
<1>3. PICK d \in [0..n -> Int] :
         Total(g, n) = d[n] /\ Sums(d, g, n)
  BY <1>2, TotalWitness
<1>4. Sums(d, f, n)
  BY <1>3 DEF Sums
<1>5. \A i \in 0..n : c[i] = d[i]
  BY <1>1, <1>3, <1>4, SumsAgree
<1> QED BY <1>1, <1>3, <1>5

LEMMA TotalStep ==
  ASSUME NEW f, NEW n \in Nat, \A i \in 1..(n + 1) : f[i] \in Int
  PROVE  Total(f, n + 1) = Total(f, n) + f[n + 1]
<1>1. \A i \in 1..n : i \in 1..(n + 1) /\ f[i] \in Int
  OBVIOUS
<1>2. PICK c \in [0..n -> Int] :
         Total(f, n) = c[n] /\ Sums(c, f, n)
  BY <1>1, TotalWitness
<1>3. n + 1 \in Nat
  OBVIOUS
<1>4. PICK d \in [0..(n + 1) -> Int] :
         Total(f, n + 1) = d[n + 1] /\ Sums(d, f, n + 1)
  BY <1>3, TotalWitness
<1>5. Sums(d, f, n)
  BY <1>1, <1>4 DEF Sums
<1>6. \A i \in 0..n : c[i] = d[i]
  BY <1>2, <1>4, <1>5, SumsAgree
<1>7. n + 1 \in 1..(n + 1) /\ (n + 1) - 1 = n /\ n \in 0..n
  OBVIOUS
<1> QED BY <1>2, <1>4, <1>6, <1>7 DEF Sums
=============================================================================
