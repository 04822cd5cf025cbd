-------------------------- MODULE ReadFunctionsProofs --------------------------
(***************************************************************************)
(* Proofs about the functions that the read endpoints and the launch quote *)
(* compute, for every input that satisfies InputAssumption and every tick  *)
(* table that satisfies CurveAssumption.                                   *)
(***************************************************************************)
EXTENDS ReadFunctions, InductionProofs, SequenceTheorems, FiniteSetTheorems, TLAPS

-----------------------------------------------------------------------------
(* Steps.                                                                  *)

\* A call is recorded under the name of its function.
LEMMA Named ==
  ASSUME Next
  PROVE  /\ fn' = "replaces" => CallReplaces
         /\ fn' = "candles" => CallCandles
         /\ fn' = "pnl" => CallWalletPnl
         /\ fn' = "maxBuy" => CallMaxBuy
         /\ fn' = "isqrt" => CallIsqrt
         /\ fn' = "opening" => CallOpening
         /\ fn' = "devBuy" => CallDevBuy
         /\ fn' = "plan" => CallPlan
         /\ fn' = "book" => CallAddressBook
<1>1. CallReplaces => fn' = "replaces" BY Zenon DEF CallReplaces
<1>2. CallCandles => fn' = "candles" BY Zenon DEF CallCandles
<1>3. CallWalletPnl => fn' = "pnl" BY Zenon DEF CallWalletPnl
<1>4. CallMaxBuy => fn' = "maxBuy" BY DEF CallMaxBuy
<1>5. CallHolders => fn' = "holders" BY Zenon DEF CallHolders
<1>6. CallPrice => fn' = "price" BY Zenon DEF CallPrice
<1>7. CallIsqrt => fn' = "isqrt" BY Zenon DEF CallIsqrt
<1>8. CallOpening => fn' = "opening" BY Zenon DEF CallOpening
<1>9. CallDevBuy => fn' = "devBuy" BY Zenon DEF CallDevBuy
<1>10. CallMilestones => fn' = "milestones" BY Zenon DEF CallMilestones
<1>11. CallBoard => fn' = "board" BY Zenon DEF CallBoard
<1>12. CallKeepers => fn' = "keepers" BY Zenon DEF CallKeepers
<1>13. CallDepth => fn' = "depth" BY Zenon DEF CallDepth
<1>14. CallPlan => fn' = "plan" BY Zenon DEF CallPlan
<1>15. CallPools \/ CallTrades \/ CallRevenue \/ CallWalletTrades \/ CallRecords \/ CallCreated => fn' = "listing"
  BY Zenon DEF CallPools, CallTrades, CallRevenue, CallWalletTrades, CallRecords, CallCreated
<1>16. CallDetail => fn' = "detail" BY Zenon DEF CallDetail
<1>17. CallFacts \/ CallHistory \/ CallPlugins => fn' = "cut" BY Zenon DEF CallFacts, CallHistory, CallPlugins
<1>18. CallEconomics => fn' = "economics" BY Zenon DEF CallEconomics
<1>19. CallAddressBook => fn' = "book" BY Zenon DEF CallAddressBook
<1>20. Return => fn' = "none" BY DEF Return
<1> QED BY <1>1, <1>2, <1>3, <1>4, <1>5, <1>6, <1>7, <1>8, <1>9, <1>10, <1>11, <1>12, <1>13, <1>14,
           <1>15, <1>16, <1>17, <1>18, <1>19, <1>20 DEF Next
-----------------------------------------------------------------------------
(* Decimal strings and their order.                                        *)

\* The function that Decimal defines.
IsDigits(d, g) ==
  d = [n \in 0..g |-> IF n < 10 THEN <<n>> ELSE Append(d[n \div 10], n % 10)]

\* Dividing by ten.
LEMMA DivTen ==
  ASSUME NEW n \in Nat, n >= 10
  PROVE  /\ n \div 10 \in Nat /\ 1 <= n \div 10 /\ n \div 10 < n
         /\ n % 10 \in 0..9 /\ n = 10 * (n \div 10) + (n % 10)
OBVIOUS

\* There are such digits for every number.
LEMMA DigitsExist ==
  ASSUME NEW g \in Nat
  PROVE  \E d : IsDigits(d, g)
<1> DEFINE S == {k \in Nat : \E d : IsDigits(d, k)}
<1>1. \E d : IsDigits(d, 0)
  <2> DEFINE d == [n \in 0..0 |-> <<n>>]
  <2>1. \A n \in 0..0 : n < 10
    OBVIOUS
  <2>2. IsDigits(d, 0)
    BY <2>1 DEF IsDigits
  <2> QED BY <2>2
<1>2. ASSUME NEW k \in Nat, NEW d, IsDigits(d, k) PROVE \E e : IsDigits(e, k + 1)
  <2> DEFINE new == IF k + 1 < 10 THEN <<k + 1>> ELSE Append(d[(k + 1) \div 10], (k + 1) % 10)
             e == [n \in 0..(k + 1) |-> IF n = k + 1 THEN new ELSE d[n]]
  <2>1. \A n \in 0..k : d[n] = IF n < 10 THEN <<n>> ELSE Append(d[n \div 10], n % 10)
    BY <1>2 DEF IsDigits
  <2>2. e[k + 1] = new /\ \A n \in 0..k : e[n] = d[n]
    OBVIOUS
  <2>3. \A n \in 0..(k + 1) : n >= 10 => n \div 10 \in 0..k
    BY DivTen
  <2>4. e = [n \in 0..(k + 1) |-> e[n]]
    OBVIOUS
  <2>5. new = IF k + 1 < 10 THEN <<k + 1>> ELSE Append(e[(k + 1) \div 10], (k + 1) % 10)
    <3>1. ~(k + 1 < 10) => (k + 1) \div 10 \in 0..k
      BY <2>3
    <3> QED BY <2>2, <3>1
  <2> HIDE DEF e, new
  <2>6. \A n \in 0..k : e[n] = IF n < 10 THEN <<n>> ELSE Append(e[n \div 10], n % 10)
    <3> SUFFICES ASSUME NEW n \in 0..k
                 PROVE  e[n] = IF n < 10 THEN <<n>> ELSE Append(e[n \div 10], n % 10)
      OBVIOUS
    <3>1. n \in 0..(k + 1) /\ (~(n < 10) => n \div 10 \in 0..k)
      BY DivTen
    <3> QED BY <2>1, <2>2, <3>1
  <2>7. \A n \in 0..(k + 1) : e[n] = IF n < 10 THEN <<n>> ELSE Append(e[n \div 10], n % 10)
    <3>1. \A n \in 0..(k + 1) : n \in 0..k \/ n = k + 1
      OBVIOUS
    <3> QED BY <2>2, <2>5, <2>6, <3>1
  <2>8. IsDigits(e, k + 1)
    BY <2>4, <2>7 DEF IsDigits
  <2> QED BY <2>8
<1>3. 0 \in S /\ \A k \in Nat : k \in S => k + 1 \in S
  BY <1>1, <1>2
<1>4. g \in S
  <2> HIDE DEF S
  <2> QED BY <1>3, Induct
<1> QED BY <1>4

\* They do not depend on the number they were computed for.
LEMMA DigitsAgree ==
  ASSUME NEW g \in Nat, NEW h \in Nat, NEW d, NEW e, IsDigits(d, g), IsDigits(e, h)
  PROVE  \A n \in Nat : n <= g /\ n <= h => d[n] = e[n]
<1> DEFINE S == {n \in Nat : n <= g /\ n <= h /\ d[n] # e[n]}
<1> SUFFICES ASSUME S # {} PROVE FALSE
  OBVIOUS
<1>1. PICK n \in S : \A m \in S : n <= m
  <2>1. S \in SUBSET Nat
    OBVIOUS
  <2> HIDE DEF S
  <2> QED BY <2>1, LeastNat
<1>2. /\ n \in 0..g /\ d[n] = IF n < 10 THEN <<n>> ELSE Append(d[n \div 10], n % 10)
      /\ n \in 0..h /\ e[n] = IF n < 10 THEN <<n>> ELSE Append(e[n \div 10], n % 10)
  <2>1. n \in 0..g /\ n \in 0..h
    OBVIOUS
  <2> QED BY <2>1 DEF IsDigits
<1>3. n >= 10 /\ n \div 10 \in Nat /\ n \div 10 < n /\ d[n \div 10] # e[n \div 10]
  BY <1>1, <1>2, DivTen
<1>4. n \div 10 \in S
  BY <1>2, <1>3
<1> QED BY <1>1, <1>3, <1>4

\* bigint.toString(): the last digit behind those of the tenth.
LEMMA DecimalStep ==
  ASSUME NEW n \in Nat
  PROVE  Decimal(n) = IF n < 10 THEN <<n>> ELSE Append(Decimal(n \div 10), n % 10)
<1> DEFINE D(g) == CHOOSE d : IsDigits(d, g)
<1>1. \A g \in Nat : IsDigits(D(g), g) /\ Decimal(g) = D(g)[g]
  <2>1. \A g \in Nat : IsDigits(D(g), g)
    BY DigitsExist
  <2>2. \A g \in Nat : Decimal(g) = D(g)[g]
    BY DEF Decimal, IsDigits
  <2> QED BY <2>1, <2>2
<1> HIDE DEF D
<1>2. n \in 0..n /\ D(n)[n] = IF n < 10 THEN <<n>> ELSE Append(D(n)[n \div 10], n % 10)
  <2>1. n \in 0..n
    OBVIOUS
  <2> QED BY <1>1, <2>1 DEF IsDigits
<1>3. n >= 10 => D(n)[n \div 10] = D(n \div 10)[n \div 10]
  <2> HAVE n >= 10
  <2>1. n \div 10 \in Nat /\ n \div 10 <= n /\ n \div 10 <= n \div 10
    BY DivTen
  <2> QED BY <1>1, <2>1, DigitsAgree
<1>4. n >= 10 => n \div 10 \in Nat
  BY DivTen
<1>5. PICK m : m = n \div 10
  OBVIOUS
<1>6. Decimal(n) = D(n)[n] /\ (n >= 10 => Decimal(m) = D(m)[m])
  BY <1>1, <1>4, <1>5
<1>7. n >= 10 => D(n)[m] = Decimal(m)
  BY <1>3, <1>5, <1>6
<1>8. CASE n < 10
  BY <1>2, <1>6, <1>8
<1>9. CASE ~(n < 10)
  <2>1. D(n)[n] = Append(D(n)[m], n % 10)
    BY <1>2, <1>5, <1>9
  <2> QED BY <1>5, <1>6, <1>7, <1>9, <2>1
<1> QED BY <1>8, <1>9

\* The text of a number is a sequence of integers that is not empty.
LEMMA DecimalType ==
  ASSUME NEW n \in Nat
  PROVE  Decimal(n) \in Seq(Int) /\ Len(Decimal(n)) \in Nat \ {0}
<1> DEFINE Ok(m) == Decimal(m) \in Seq(Int) /\ Len(Decimal(m)) \in Nat \ {0}
           S == {m \in Nat : ~Ok(m)}
<1> SUFFICES ASSUME S # {} PROVE FALSE
  OBVIOUS
<1>1. PICK m \in S : \A k \in S : m <= k
  <2>1. S \in SUBSET Nat
    OBVIOUS
  <2> HIDE DEF S
  <2> QED BY <2>1, LeastNat
<1>2. m \in Nat /\ ~Ok(m) /\ \A k \in Nat : k < m => Ok(k)
  BY <1>1
<1>3. CASE m < 10
  <2>1. Decimal(m) = <<m>>
    BY <1>2, <1>3, DecimalStep
  <2> QED BY <1>2, <2>1
<1>4. CASE ~(m < 10)
  <2>1. m \div 10 \in Nat /\ m \div 10 < m /\ m % 10 \in Int
    BY <1>2, <1>4, DivTen
  <2>2. PICK s : s = Decimal(m \div 10)
    OBVIOUS
  <2>3. s \in Seq(Int) /\ Len(s) \in Nat \ {0}
    BY <1>2, <2>1, <2>2
  <2>4. Decimal(m) = Append(s, m % 10)
    BY <1>2, <1>4, <2>2, DecimalStep
  <2>5. Append(s, m % 10) \in Seq(Int) /\ Len(Append(s, m % 10)) = Len(s) + 1
    BY <2>1, <2>3
  <2> QED BY <1>2, <2>3, <2>4, <2>5
<1> QED BY <1>3, <1>4

\* Lua's order of two strings of the same length, by their last digits.
LEMMA StringStep ==
  ASSUME NEW s \in Seq(Int), NEW t \in Seq(Int), Len(s) = Len(t), NEW x \in Int, NEW y \in Int
  PROVE  StringAfter(Append(s, x), Append(t, y)) <=> StringAfter(s, t) \/ (s = t /\ x > y)
<1> DEFINE n == Len(s)
           u == Append(s, x)
           v == Append(t, y)
<1>1. /\ n \in Nat /\ Len(u) = n + 1 /\ Len(v) = n + 1 /\ Len(t) = n
      /\ u[n + 1] = x /\ v[n + 1] = y
      /\ \A i \in 1..n : u[i] = s[i] /\ v[i] = t[i]
  OBVIOUS
<1>2. s = t <=> \A i \in 1..n : s[i] = t[i]
  BY SMTT(30)
<1>3. StringAfter(s, t) <=> \E i \in 1..n : s[i] > t[i] /\ \A j \in 1..(i - 1) : s[j] = t[j]
  BY <1>1 DEF StringAfter
<1> HIDE DEF n, u, v
<1>4. StringAfter(u, v) <=> \E i \in 1..(n + 1) : u[i] > v[i] /\ \A j \in 1..(i - 1) : u[j] = v[j]
  BY <1>1 DEF StringAfter
<1>5. \A i \in 1..n : \A j \in 1..(i - 1) : j \in 1..n
  BY <1>1
<1>6. (n + 1) - 1 = n /\ n + 1 \in 1..(n + 1) /\ \A i \in 1..(n + 1) : i \in 1..n \/ i = n + 1
  BY <1>1
<1>7. ASSUME StringAfter(u, v) PROVE StringAfter(s, t) \/ (s = t /\ x > y)
  <2>1. PICK i \in 1..(n + 1) : u[i] > v[i] /\ \A j \in 1..(i - 1) : u[j] = v[j]
    BY <1>4, <1>7
  <2>2. CASE i \in 1..n
    BY <1>1, <1>3, <1>5, <2>1, <2>2
  <2>3. CASE i = n + 1
    BY <1>1, <1>2, <1>6, <2>1, <2>3
  <2> QED BY <1>6, <2>2, <2>3
<1>8. ASSUME StringAfter(s, t) PROVE StringAfter(u, v)
  <2>1. PICK i \in 1..n : s[i] > t[i] /\ \A j \in 1..(i - 1) : s[j] = t[j]
    BY <1>3, <1>8
  <2>2. i \in 1..(n + 1) /\ u[i] > v[i] /\ \A j \in 1..(i - 1) : u[j] = v[j]
    BY <1>1, <1>5, <2>1
  <2> QED BY <1>4, <2>2
<1>9. ASSUME s = t, x > y PROVE StringAfter(u, v)
  BY <1>1, <1>2, <1>4, <1>6, <1>9
<1> QED BY <1>7, <1>8, <1>9 DEF u, v

\* No string is after itself.
LEMMA NotAfterItself ==
  ASSUME NEW s \in Seq(Int)
  PROVE  ~StringAfter(s, s)
BY DEF StringAfter

\* The script's condition for two longer strings.
LEMMA ReplacesStep ==
  ASSUME NEW s \in Seq(Int), NEW t \in Seq(Int), t # << >>, NEW x \in Int, NEW y \in Int
  PROVE  Replaces(Append(s, x), Append(t, y)) <=> Replaces(s, t) \/ (s = t /\ x > y)
<1>1. /\ Len(s) \in Nat /\ Len(t) \in Nat /\ Len(Append(s, x)) = Len(s) + 1 /\ Len(Append(t, y)) = Len(t) + 1
      /\ Append(t, y) # << >>
  OBVIOUS
<1>2. Len(s) = Len(t) =>
        (StringAfter(Append(s, x), Append(t, y)) <=> StringAfter(s, t) \/ (s = t /\ x > y))
  BY StringStep
<1>3. s = t => Len(s) = Len(t)
  OBVIOUS
<1> QED BY <1>1, <1>2, <1>3 DEF Replaces

\* One digit against another.
LEMMA ReplacesDigit ==
  ASSUME NEW a \in Nat, NEW b \in Nat
  PROVE  Replaces(<<a>>, <<b>>) <=> a > b
<1>1. PICK s, t : s = <<a>> /\ t = <<b>>
  OBVIOUS
<1>2. Len(s) = 1 /\ Len(t) = 1 /\ t # << >> /\ s[1] = a /\ t[1] = b
  BY <1>1
<1>3. \A i : (i \in 1..1 <=> i = 1) /\ i \notin 1..(1 - 1)
  OBVIOUS
<1>4. StringAfter(s, t) <=> a > b
  BY <1>2, <1>3 DEF StringAfter
<1>5. Replaces(s, t) <=> a > b
  BY <1>2, <1>4 DEF Replaces
<1> QED BY <1>1, <1>5

\* The script compares numbers.
LEMMA ReplacesGreater ==
  ASSUME NEW g \in Nat, NEW h \in Nat
  PROVE  Replaces(Decimal(g), Decimal(h)) <=> g > h
<1> DEFINE Ok(a, b) == Replaces(Decimal(a), Decimal(b)) <=> a > b
           S == {n \in Nat : \E a, b \in 0..n : ~Ok(a, b)}
<1> HIDE DEF Ok
<1> SUFFICES ASSUME ~Ok(g, h) PROVE FALSE
  BY DEF Ok
<1>1. PICK n \in S : \A m \in S : n <= m
  <2>1. S \in SUBSET Nat
    OBVIOUS
  <2>2. PICK k \in Nat : g <= k /\ h <= k
    OBVIOUS
  <2>3. k \in S
    BY <2>2
  <2> HIDE DEF S
  <2> QED BY <2>1, <2>3, LeastNat
<1>2. PICK a, b \in 0..n : ~Ok(a, b)
  BY <1>1
<1>3. n \in Nat /\ a \in Nat /\ b \in Nat /\ a <= n /\ b <= n
  BY <1>1
<1>4. \A c, d \in Nat : c < n /\ d < n => Ok(c, d)
  <2> SUFFICES ASSUME NEW c \in Nat, NEW d \in Nat, c < n, d < n, ~Ok(c, d) PROVE FALSE
    OBVIOUS
  <2>1. n - 1 \in Nat /\ c \in 0..(n - 1) /\ d \in 0..(n - 1)
    BY <1>3
  <2>2. n - 1 \in S
    BY <2>1
  <2> QED BY <1>1, <1>3, <2>2
<1> HIDE DEF S
<1>5. CASE a < 10 /\ b < 10
  <2>1. Decimal(a) = <<a>> /\ Decimal(b) = <<b>>
    BY <1>3, <1>5, DecimalStep
  <2>2. Replaces(<<a>>, <<b>>) <=> a > b
    BY <1>3, ReplacesDigit
  <2> QED BY <1>2, <2>1, <2>2 DEF Ok
<1>6. \A m \in Nat : m >= 10 =>
        /\ m \div 10 \in Nat /\ m \div 10 < m /\ m % 10 \in Int
        /\ Decimal(m \div 10) \in Seq(Int) /\ Len(Decimal(m \div 10)) \in Nat \ {0}
        /\ Decimal(m) = Append(Decimal(m \div 10), m % 10)
        /\ Len(Decimal(m)) \in Nat /\ Len(Decimal(m)) > 1
  <2> SUFFICES ASSUME NEW m \in Nat, m >= 10
               PROVE  /\ m \div 10 \in Nat /\ m \div 10 < m /\ m % 10 \in Int
                      /\ Decimal(m \div 10) \in Seq(Int) /\ Len(Decimal(m \div 10)) \in Nat \ {0}
                      /\ Decimal(m) = Append(Decimal(m \div 10), m % 10)
                      /\ Len(Decimal(m)) \in Nat /\ Len(Decimal(m)) > 1
    OBVIOUS
  <2>1. m \div 10 \in Nat /\ m \div 10 < m /\ m % 10 \in Int
    BY DivTen
  <2>2. Decimal(m \div 10) \in Seq(Int) /\ Len(Decimal(m \div 10)) \in Nat \ {0}
    BY <2>1, DecimalType
  <2>3. Decimal(m) = Append(Decimal(m \div 10), m % 10)
    BY DecimalStep, SMTT(30)
  <2>4. Len(Append(Decimal(m \div 10), m % 10)) = Len(Decimal(m \div 10)) + 1
    BY <2>1, <2>2
  <2> QED BY <2>1, <2>2, <2>3, <2>4
<1>7. \A m \in Nat : m < 10 => Len(Decimal(m)) = 1 /\ Decimal(m) # << >>
  <2> SUFFICES ASSUME NEW m \in Nat, m < 10 PROVE Len(Decimal(m)) = 1 /\ Decimal(m) # << >>
    OBVIOUS
  <2>1. Decimal(m) = <<m>>
    BY DecimalStep
  <2> QED BY <2>1
<1>8. CASE a >= 10 /\ b < 10
  <2>1. Len(Decimal(b)) = 1 /\ Len(Decimal(a)) \in Nat /\ Len(Decimal(a)) > 1
    BY <1>3, <1>6, <1>7, <1>8
  <2>2. Len(Decimal(a)) > Len(Decimal(b)) /\ a > b
    BY <1>3, <1>8, <2>1
  <2> QED BY <1>2, <2>2 DEF Ok, Replaces
<1>9. CASE a < 10 /\ b >= 10
  <2>1. Len(Decimal(a)) = 1 /\ Len(Decimal(b)) \in Nat /\ Len(Decimal(b)) > 1
    BY <1>3, <1>6, <1>7, <1>9
  <2>2. Decimal(b) # << >>
    <3>1. Len(<< >>) = 0
      OBVIOUS
    <3> QED BY <2>1, <3>1
  <2>3. ~(Len(Decimal(a)) > Len(Decimal(b))) /\ Len(Decimal(a)) # Len(Decimal(b)) /\ ~(a > b)
    <3>1. \A k, l \in Nat : k < l => ~(k > l) /\ k # l
      OBVIOUS
    <3>2. Len(Decimal(a)) \in Nat /\ Len(Decimal(a)) < Len(Decimal(b))
      BY <2>1
    <3>3. a < b
      BY <1>3, <1>9
    <3> QED BY <1>3, <2>1, <3>1, <3>2, <3>3
  <2> QED BY <1>2, <2>2, <2>3 DEF Ok, Replaces
<1>10. CASE a >= 10 /\ b >= 10
  <2>1. PICK s, t, x, y : s = Decimal(a \div 10) /\ t = Decimal(b \div 10) /\ x = a % 10 /\ y = b % 10
    OBVIOUS
  <2>2. /\ s \in Seq(Int) /\ t \in Seq(Int) /\ x \in Int /\ y \in Int /\ Len(t) # 0
        /\ Decimal(a) = Append(s, x) /\ Decimal(b) = Append(t, y)
    BY <1>3, <1>6, <1>10, <2>1
  <2>3. Replaces(Append(s, x), Append(t, y)) <=> Replaces(s, t) \/ (s = t /\ x > y)
    BY <2>2, ReplacesStep
  <2>4. PICK c, d \in Nat : c = a \div 10 /\ d = b \div 10 /\ c < n /\ d < n
    BY <1>3, <1>6, <1>10
  <2>5. (Replaces(s, t) <=> c > d) /\ (Replaces(t, s) <=> d > c)
    BY <1>4, <2>1, <2>4 DEF Ok
  <2>6. ~Replaces(s, s)
    <3>1. ~StringAfter(s, s) /\ Len(s) \in Nat
      BY <2>2, NotAfterItself
    <3>2. s # << >>
      BY <1>3, <1>6, <1>10, <2>1
    <3> QED BY <3>1, <3>2 DEF Replaces
  <2>7. s = t <=> c = d
    BY <2>1, <2>4, <2>5, <2>6
  <2>8. a > b <=> c > d \/ (c = d /\ x > y)
    BY <1>3, <1>10, <2>1, <2>4, DivTen
  <2> QED BY <1>2, <2>2, <2>3, <2>5, <2>7, <2>8 DEF Ok
<1> QED BY <1>3, <1>5, <1>8, <1>9, <1>10

-----------------------------------------------------------------------------
\* The Lua script of APPLY_GENERATION compares decimal strings as numbers: it replaces
\* the stored generation exactly when the incoming one is greater, for all generations,
\* of any length.
THEOREM ReplacesAlwaysIffGreater == Spec => []ReplacesIffGreater
<1>1. Init => ReplacesIffGreater
  BY DEF Init, ReplacesIffGreater
<1>2. ReplacesIffGreater /\ [Next]_vars => ReplacesIffGreater'
  <2>1. CASE UNCHANGED vars
    BY <2>1 DEF vars, ReplacesIffGreater
  <2>2. ASSUME Next, fn' = "replaces" PROVE call'.answer <=> call'.g > call'.h
    <3>1. PICK g \in Generations, h \in Generations \union {-1} :
             call' = [g |-> g, h |-> h,
                      answer |-> Replaces(Decimal(g), IF h = -1 THEN << >> ELSE Decimal(h))]
      BY <2>2, Named DEF CallReplaces
    <3>2. call'.g = g /\ call'.h = h
          /\ call'.answer = Replaces(Decimal(g), IF h = -1 THEN << >> ELSE Decimal(h))
      BY <3>1
    <3>3. g \in Nat /\ (h \in Nat \/ h = -1)
      BY InputAssumption
    <3>4. CASE h = -1
      <4>1. Replaces(Decimal(g), << >>) /\ g > -1
        BY <3>3 DEF Replaces
      <4> QED BY <3>2, <3>4, <4>1
    <3>5. CASE h # -1
      <4>1. Replaces(Decimal(g), Decimal(h)) <=> g > h
        BY <3>3, <3>5, ReplacesGreater
      <4> QED BY <3>2, <3>5, <4>1
    <3> QED BY <3>4, <3>5
  <2> QED BY <2>1, <2>2 DEF ReplacesIffGreater
<1> QED BY <1>1, <1>2, PTL DEF Spec

-----------------------------------------------------------------------------
(* The address book, for any chain, addresses, environments, files and rows. *)

\* When a book is built, and what it holds.
LEMMA Built ==
  ASSUME NEW chain, NEW env, NEW doc, NEW known
  PROVE  LET b == BuildAddressBook(chain, env, doc, known)
         IN /\ b = BookError <=> ~Syncs(chain, env, doc, known)
            /\ b # BookError =>
                 /\ \A f \in Required \union Infra : b[f] = Or(Or(env[f], doc[f]), Known(f, known))
                 /\ b.chainId = chain
                 /\ b.buybackAndBurnPlugin = Or(Or(doc.buybackAndBurnPlugin, doc.buybackPlugin), Absent)
                 /\ b.payoutPlan = Or(doc.payoutPlan, Absent)
<1> DEFINE r == Resolve(env, doc, known)
           b == [chainId |-> chain, hook |-> r.hook, controller |-> r.controller,
                 buybackAndBurnPlugin |-> Or(Or(doc.buybackAndBurnPlugin, doc.buybackPlugin), Absent),
                 poolManager |-> r.poolManager, stateView |-> r.stateView,
                 payoutPlan |-> Or(doc.payoutPlan, Absent)]
<1>1. \A f \in Required \union Infra : r[f] = Or(Or(env[f], doc[f]), Known(f, known))
  BY DEF Resolve
<1>2. Required \union {"poolManager"} \subseteq Required \union Infra
  BY DEF Infra
<1>3. /\ ~Syncs(chain, env, doc, known) => BuildAddressBook(chain, env, doc, known) = BookError
      /\ Syncs(chain, env, doc, known) => BuildAddressBook(chain, env, doc, known) = b
  BY <1>1, <1>2 DEF BuildAddressBook, Syncs
<1>4. b # BookError
  <2>1. DOMAIN b # DOMAIN BookError
    BY DEF BookError
  <2> QED BY <2>1
<1>5. /\ \A f \in Required \union Infra : b[f] = r[f]
      /\ b.chainId = chain
      /\ b.buybackAndBurnPlugin = Or(Or(doc.buybackAndBurnPlugin, doc.buybackPlugin), Absent)
      /\ b.payoutPlan = Or(doc.payoutPlan, Absent)
  BY DEF Required, Infra
<1> HIDE DEF b, r
<1> QED BY <1>1, <1>3, <1>4, <1>5

\* The row that a successful sync stores is a valid manifest of its chain.
LEMMA StoredRow ==
  ASSUME NEW chain, NEW env, NEW file, NEW known, known \notin {Null, Malformed},
         Syncs(chain, env, file, known)
  PROVE  LET row == Canonical(BuildAddressBook(chain, env, file, known))
         IN /\ ValidManifest(row) /\ row.chainId = chain
            /\ \A f \in Required \union Infra : row[f] = Or(Or(env[f], file[f]), Known(f, known))
            /\ row.buybackAndBurnPlugin = Or(Or(file.buybackAndBurnPlugin, file.buybackPlugin), Absent)
            /\ row.buybackPlugin = Absent /\ row.payoutPlan = Or(file.payoutPlan, Absent)
<1> DEFINE b == BuildAddressBook(chain, env, file, known)
           row == Canonical(b)
<1>1. /\ \A f \in Required \union Infra : b[f] = Or(Or(env[f], file[f]), Known(f, known))
      /\ b.chainId = chain
      /\ b.buybackAndBurnPlugin = Or(Or(file.buybackAndBurnPlugin, file.buybackPlugin), Absent)
      /\ b.payoutPlan = Or(file.payoutPlan, Absent)
  BY Built
<1> HIDE DEF b
<1>2. /\ \A f \in Required \union Infra : row[f] = b[f]
      /\ row.chainId = b.chainId /\ row.buybackAndBurnPlugin = b.buybackAndBurnPlugin
      /\ row.payoutPlan = b.payoutPlan /\ row.buybackPlugin = Absent
  BY DEF Canonical, DocFields, Required, Infra, Nullable
<1> HIDE DEF row
<1>3. \A f \in Required \union Nullable \union {"poolManager"} : file[f] # Malformed
  <2>1. CASE file = NoManifest(chain)
    BY <2>1 DEF NoManifest, DocFields, Required, Nullable, Absent, Malformed
  <2>2. CASE ValidManifest(file)
    BY <2>2 DEF ValidManifest
  <2> QED BY <2>1, <2>2 DEF Syncs
<1>4. \A f \in Required \union Infra : env[f] # Malformed /\ file[f] # Malformed
  BY <1>3 DEF Syncs, EnvError, Infra, Nullable
<1>5. \A f \in Required \union Infra : row[f] # Malformed /\ row[f] # Null
  BY <1>1, <1>2, <1>4 DEF Or, Known, Absent, Null, Malformed
<1>6. /\ row.buybackAndBurnPlugin # Malformed /\ row.buybackPlugin # Malformed /\ row.payoutPlan # Malformed
  BY <1>1, <1>2, <1>3 DEF Or, Nullable, Absent, Malformed
<1>7. \A f \in Required : row[f] # Absent
  BY <1>1, <1>2 DEF Syncs
<1>8. ValidManifest(row)
  BY <1>5, <1>6, <1>7 DEF ValidManifest, Required, Infra, Nullable
<1> QED BY <1>1, <1>2, <1>8 DEF b, row

\* What a load makes of one chain.
LEMMA Loaded ==
  ASSUME NEW env, NEW table, NEW known, NEW books, NEW c
  PROVE  LET b == BuildAddressBook(c, env, table[c], known)
         IN Addresses(c, LoadAll(env, table, known, books)) =
              IF c \in DOMAIN table /\ b # BookError THEN b ELSE Addresses(c, books)
<1> DEFINE B(d) == BuildAddressBook(d, env, table[d], known)
           valid == {d \in DOMAIN table : B(d) # BookError}
           all == LoadAll(env, table, known, books)
<1>1. all = [d \in valid \union DOMAIN books |-> IF d \in valid THEN B(d) ELSE books[d]]
  BY DEF LoadAll
<1>2. c \in valid <=> c \in DOMAIN table /\ B(c) # BookError
  OBVIOUS
<1> HIDE DEF B, valid, all
<1>3. Addresses(c, all) = IF c \in valid THEN B(c) ELSE Addresses(c, books)
  BY <1>1 DEF Addresses
<1> QED BY <1>2, <1>3 DEF B, all

\* A sync that fails changes no row.
LEMMA SyncFails ==
  ASSUME NEW chain, NEW env, NEW file, NEW known, NEW table, ~Syncs(chain, env, file, known)
  PROVE  ManifestSync(chain, env, file, known, table) = table
<1>1. BuildAddressBook(chain, env, file, known) = BookError
  BY Built
<1> QED BY <1>1 DEF ManifestSync

\* A sync that succeeds stores the row.
LEMMA Synced ==
  ASSUME NEW chain, NEW env, NEW file, NEW known, NEW table, Syncs(chain, env, file, known)
  PROVE  LET after == ManifestSync(chain, env, file, known, table)
         IN chain \in DOMAIN after /\ after[chain] = Canonical(BuildAddressBook(chain, env, file, known))
<1>1. BuildAddressBook(chain, env, file, known) # BookError
  BY Built
<1>2. ManifestSync(chain, env, file, known, table) =
        [c \in DOMAIN table \union {chain} |->
           IF c = chain THEN Canonical(BuildAddressBook(chain, env, file, known)) ELSE table[c]]
  BY <1>1 DEF ManifestSync
<1> QED BY <1>2

\* A row whose hook is malformed is not a manifest.
LEMMA BadRow ==
  ASSUME NEW row, row = [c \in {1} |-> [NoManifest(1) EXCEPT !.hook = Malformed]]
  PROVE  row[1] # NoManifest(1) /\ ~ValidManifest(row[1])
<1>1. row[1] = [NoManifest(1) EXCEPT !.hook = Malformed]
  OBVIOUS
<1>2. row[1].hook = Malformed /\ NoManifest(1).hook = Absent
  BY <1>1 DEF NoManifest, DocFields, Required
<1>3. Absent # Malformed
  BY DEF Absent, Malformed
<1> QED BY <1>2, <1>3 DEF ValidManifest, Required

\* manifest:sync (scripts/manifest-sync.ts), loadAll and book: what a sync accepted loads
\* under every later environment without malformed variables, whatever rows and books
\* there were, and gives the address of the highest authority for every field.
THEOREM SyncedBookServed ==
  ASSUME NEW chain, NEW env, NEW later, NEW file, NEW known, NEW table, NEW books,
         known \notin {Null, Malformed}, Syncs(chain, env, file, known), ~EnvError(later)
  PROVE  HoldsAddresses(
           Addresses(chain, LoadAll(later, ManifestSync(chain, env, file, known, table), known, books)),
           later, env, file, known)
<1>0. PICK after : after = ManifestSync(chain, env, file, known, table)
  OBVIOUS
<1> DEFINE row == after[chain]
           b == BuildAddressBook(chain, later, row, known)
<1>1. chain \in DOMAIN after /\ row = Canonical(BuildAddressBook(chain, env, file, known))
  <2>1. after = [c \in DOMAIN table \union {chain} |->
                   IF c = chain THEN Canonical(BuildAddressBook(chain, env, file, known)) ELSE table[c]]
    <3>1. BuildAddressBook(chain, env, file, known) # BookError
      BY Built
    <3> QED BY <1>0, <3>1 DEF ManifestSync
  <2> QED BY <2>1
<1>2. /\ ValidManifest(row) /\ row.chainId = chain
      /\ \A f \in Required \union Infra : row[f] = Or(Or(env[f], file[f]), Known(f, known))
      /\ row.buybackAndBurnPlugin = Or(Or(file.buybackAndBurnPlugin, file.buybackPlugin), Absent)
      /\ row.buybackPlugin = Absent /\ row.payoutPlan = Or(file.payoutPlan, Absent)
  BY <1>1, StoredRow
<1>3. Addresses(chain, LoadAll(later, after, known, books)) =
        IF chain \in DOMAIN after /\ b # BookError THEN b ELSE Addresses(chain, books)
  BY Loaded
<1> HIDE DEF row
<1>4. \A f \in Required \union Infra :
        Or(Or(later[f], row[f]), Known(f, known)) = Or(Or(Or(later[f], env[f]), file[f]), Known(f, known))
  BY <1>2 DEF Or
<1>5. \A f \in Required \union {"poolManager"} : Or(Or(later[f], row[f]), Known(f, known)) # Absent
  <2>1. \A f \in Required \union {"poolManager"} : row[f] # Absent /\ row[f] # Null
    <3>1. \A f \in Required \union {"poolManager"} : row[f] # Absent
      BY <1>2 DEF Syncs, Infra
    <3> QED BY <1>2, <3>1 DEF ValidManifest
  <2> QED BY <2>1 DEF Or
<1>6. Syncs(chain, later, row, known)
  BY <1>2, <1>5 DEF Syncs
<1>7. /\ b # BookError
      /\ \A f \in Required \union Infra : b[f] = Or(Or(later[f], row[f]), Known(f, known))
      /\ b.buybackAndBurnPlugin = Or(Or(row.buybackAndBurnPlugin, row.buybackPlugin), Absent)
      /\ b.payoutPlan = Or(row.payoutPlan, Absent)
  BY <1>6, Built
<1> HIDE DEF b
<1>8. /\ b.buybackAndBurnPlugin = Or(Or(file.buybackAndBurnPlugin, file.buybackPlugin), Absent)
      /\ b.payoutPlan = Or(file.payoutPlan, Absent)
  BY <1>2, <1>7 DEF Or
<1>9. \A f \in Required \union {"poolManager"} : b[f] # Absent
  BY <1>5, <1>7 DEF Infra
<1>10. HoldsAddresses(b, later, env, file, known)
  BY <1>4, <1>7, <1>8, <1>9 DEF HoldsAddresses
<1> QED BY <1>0, <1>1, <1>3, <1>7, <1>10

\* The same code: a sync that fails changes no row; a malformed variable at a load leaves
\* every book as it was; the sync of one chain changes the book of no other.
THEOREM FailuresKeepBooks ==
  ASSUME NEW chain, NEW env, NEW later, NEW file, NEW known, NEW table, NEW books
  PROVE  /\ ~Syncs(chain, env, file, known) => ManifestSync(chain, env, file, known, table) = table
         /\ EnvError(later) =>
              \A c : Addresses(c, LoadAll(later, table, known, books)) = Addresses(c, books)
         /\ \A c : c # chain =>
              Addresses(c, LoadAll(later, ManifestSync(chain, env, file, known, table), known, books)) =
                Addresses(c, LoadAll(later, table, known, books))
<1>0. PICK after : after = ManifestSync(chain, env, file, known, table)
  OBVIOUS
<1>1. ~Syncs(chain, env, file, known) => after = table
  BY <1>0, SyncFails
<1>2. ASSUME EnvError(later), NEW c PROVE Addresses(c, LoadAll(later, table, known, books)) = Addresses(c, books)
  <2>1. BuildAddressBook(c, later, table[c], known) = BookError
    BY <1>2, Built DEF Syncs
  <2> QED BY <2>1, Loaded
<1>3. ASSUME NEW c, c # chain
      PROVE  Addresses(c, LoadAll(later, after, known, books)) = Addresses(c, LoadAll(later, table, known, books))
  <2>1. (c \in DOMAIN after <=> c \in DOMAIN table) /\ (c \in DOMAIN table => after[c] = table[c])
    <3>1. CASE Syncs(chain, env, file, known)
      <4>1. after = [d \in DOMAIN table \union {chain} |->
                       IF d = chain THEN Canonical(BuildAddressBook(chain, env, file, known)) ELSE table[d]]
        <5>1. BuildAddressBook(chain, env, file, known) # BookError
          BY <3>1, Built
        <5> QED BY <1>0, <5>1 DEF ManifestSync
      <4> QED BY <1>3, <4>1
    <3>2. CASE ~Syncs(chain, env, file, known)
      BY <1>1, <3>2
    <3> QED BY <3>1, <3>2
  <2>2. CASE c \in DOMAIN table
    BY <2>1, <2>2, Loaded
  <2>3. CASE c \notin DOMAIN table
    BY <2>1, <2>3, Loaded
  <2> QED BY <2>2, <2>3
<1> QED BY <1>0, <1>1, <1>2, <1>3

-----------------------------------------------------------------------------
\* manifest:sync, then loadAll and addresses: whatever the environments, the file, the
\* stored row and the old book, the answer is that of the highest authority, and a
\* failure of either step keeps the book that there was.
THEOREM AddressBookAlwaysSound == Spec => []AddressBookSound
<1>1. Init => AddressBookSound
  BY DEF Init, AddressBookSound
<1>2. AddressBookSound /\ [Next]_vars => AddressBookSound'
  <2>1. CASE UNCHANGED vars
    BY <2>1 DEF vars, AddressBookSound
  <2>2. ASSUME Next, fn' = "book" PROVE AddressBookSound'
    <3>0. PICK v, w \in Variables, file \in Manifests \union {NoManifest(1)}, known \in {Absent, "known"},
               books \in {<< >>, [c \in {1} |-> [hook |-> "old"]]},
               row \in {<< >>, [c \in {1} |-> [NoManifest(1) EXCEPT !.hook = Malformed]]} :
            LET e1 == [f \in DOMAIN v |-> IF v[f] = "env" THEN "env1" ELSE v[f]]
                e2 == [f \in DOMAIN w |-> IF w[f] = "env" THEN "env2" ELSE w[f]]
                table == ManifestSync(1, e1, file, known, row)
            IN call' = [env |-> e1, later |-> e2, file |-> file, known |-> known, before |-> row,
                        table |-> table, old |-> Addresses(1, books),
                        answer |-> Addresses(1, LoadAll(e2, table, known, books))]
      BY <2>2, Named DEF CallAddressBook
    <3>1. PICK env, later, table, answer :
            /\ table = ManifestSync(1, env, file, known, row)
            /\ answer = Addresses(1, LoadAll(later, table, known, books))
            /\ call' = [env |-> env, later |-> later, file |-> file, known |-> known, before |-> row,
                        table |-> table, old |-> Addresses(1, books), answer |-> answer]
      BY <3>0
    <3>2. /\ call'.env = env /\ call'.later = later /\ call'.file = file /\ call'.known = known
          /\ call'.before = row /\ call'.table = table /\ call'.old = Addresses(1, books)
          /\ call'.answer = answer
      BY <3>1
    <3>3. known \notin {Null, Malformed}
      BY <3>1 DEF Absent, Null, Malformed
    <3>4. table # row <=> Syncs(1, env, file, known)
      <4>1. ~Syncs(1, env, file, known) => table = row
        BY <3>1, SyncFails
      <4>2. ASSUME Syncs(1, env, file, known), table = row PROVE FALSE
        <5>1. /\ 1 \in DOMAIN table
              /\ table[1] = Canonical(BuildAddressBook(1, env, file, known))
          BY <3>1, <4>2, Synced
        <5>2. ValidManifest(table[1])
          BY <3>3, <4>2, <5>1, StoredRow
        <5>3. row = [c \in {1} |-> [NoManifest(1) EXCEPT !.hook = Malformed]]
          BY <3>1, <4>2, <5>1
        <5> QED BY <4>2, <5>2, <5>3, BadRow
      <4> QED BY <4>1, <4>2
    <3>5. (Syncs(1, env, file, known) /\ ~EnvError(later)) => HoldsAddresses(answer, later, env, file, known)
      BY <3>1, <3>3, SyncedBookServed
    <3>6. EnvError(later) => answer = Addresses(1, books)
      <4>1. EnvError(later) => BuildAddressBook(1, later, table[1], known) = BookError
        BY Built DEF Syncs
      <4> QED BY <3>1, <4>1, Loaded
    <3>7. table = row => answer = Addresses(1, books)
      <4>1. 1 \in DOMAIN row => BuildAddressBook(1, later, row[1], known) = BookError
        <5> SUFFICES ASSUME 1 \in DOMAIN row PROVE BuildAddressBook(1, later, row[1], known) = BookError
          OBVIOUS
        <5>1. row = [c \in {1} |-> [NoManifest(1) EXCEPT !.hook = Malformed]]
          BY <3>1
        <5>2. row[1] # NoManifest(1) /\ ~ValidManifest(row[1])
          BY <5>1, BadRow
        <5> QED BY <5>2, Built DEF Syncs
      <4> QED BY <3>1, <4>1, Loaded
    <3> QED BY <3>2, <3>4, <3>5, <3>6, <3>7 DEF AddressBookSound
  <2>3. CASE Next /\ fn' # "book"
    BY <2>3 DEF AddressBookSound
  <2> QED BY <2>1, <2>2, <2>3
<1> QED BY <1>1, <1>2, PTL DEF Spec

-----------------------------------------------------------------------------
(* Extrema.                                                                *)

\* The smaller and the larger of two numbers, and the least of a set.
LEMMA MinTwo ==
  ASSUME NEW x \in Int, NEW y \in Int
  PROVE  Min({x, y}) = IF x <= y THEN x ELSE y
<1>1. \A z : z \in {x, y} /\ (\A w \in {x, y} : z <= w) <=> z = IF x <= y THEN x ELSE y
  OBVIOUS
<1> QED BY <1>1 DEF Min

LEMMA MaxTwo ==
  ASSUME NEW x \in Int, NEW y \in Int
  PROVE  Max({x, y}) = IF x >= y THEN x ELSE y
<1>1. \A z : z \in {x, y} /\ (\A w \in {x, y} : z >= w) <=> z = IF x >= y THEN x ELSE y
  OBVIOUS
<1> QED BY <1>1 DEF Max

LEMMA MinNat ==
  ASSUME NEW S \in SUBSET Nat, S # {}
  PROVE  Min(S) \in S /\ \A x \in S : Min(S) <= x
BY LeastNat DEF Min

\* The largest element of a bounded set.
LEMMA MaxInt ==
  ASSUME NEW S \in SUBSET Int, S # {}, NEW b \in Int, \A x \in S : x <= b
  PROVE  Max(S) \in S /\ \A x \in S : x <= Max(S)
<1>1. PICK n \in S : \A x \in S : x <= n
  BY GreatestInt
<1>2. \A x \in S : n >= x
  BY <1>1
<1>3. Max(S) \in S /\ \A x \in S : Max(S) >= x
  BY <1>2 DEF Max
<1> QED BY <1>3

\* Finitely many values are bounded.
LEMMA ValuesBounded ==
  ASSUME NEW n \in Nat, NEW f, \A i \in 0..n : f[i] \in Nat
  PROVE  \E b \in Nat : \A i \in 0..n : f[i] <= b
<1> DEFINE Bound(k) == \E b \in Nat : \A i \in 0..k : f[i] <= b
           S == {k \in Nat : k <= n => Bound(k)}
<1>1. Bound(0)
  BY 0 \in 0..n
<1>2. ASSUME NEW k \in Nat, k + 1 <= n, Bound(k) PROVE Bound(k + 1)
  <2>1. PICK b \in Nat : \A i \in 0..k : f[i] <= b
    BY <1>2
  <2>2. PICK v \in Nat : v = f[k + 1]
    BY <1>2
  <2>3. \A i \in 0..(k + 1) : (i \in 0..k \/ i = k + 1) /\ i \in 0..n /\ f[i] \in Nat
    BY <1>2
  <2>4. \A i \in 0..(k + 1) : f[i] <= b + v
    BY <2>1, <2>2, <2>3
  <2>5. b + v \in Nat
    OBVIOUS
  <2> QED BY <2>4, <2>5
<1>3. 0 \in S /\ \A k \in Nat : k \in S => k + 1 \in S
  <2> HIDE DEF Bound
  <2> QED BY <1>1, <1>2
<1>4. n \in S
  <2> HIDE DEF S
  <2> QED BY <1>3, Induct
<1> QED BY <1>4

\* A finite set of natural numbers is bounded.
LEMMA FiniteBounded ==
  ASSUME NEW S \in SUBSET Nat, IsFiniteSet(S)
  PROVE  \E b \in Nat : \A x \in S : x <= b
<1>1. PICK seq \in Seq(S) : \A x \in S : \E i \in 1..Len(seq) : seq[i] = x
  BY DEF IsFiniteSet
<1> DEFINE n == Len(seq)
           f == [i \in 0..n |-> IF i = 0 THEN 0 ELSE seq[i]]
<1>2. n \in Nat /\ \A i \in 1..n : seq[i] \in S
  OBVIOUS
<1>3. \A i \in 0..n : f[i] \in Nat
  <2>1. \A i \in 0..n : i = 0 \/ i \in 1..n
    BY <1>2
  <2> QED BY <1>2, <2>1
<1>4. \A i \in 1..n : f[i] = seq[i]
  BY <1>2
<1> HIDE DEF f, n
<1>5. PICK b \in Nat : \A i \in 0..n : f[i] <= b
  BY <1>2, <1>3, ValuesBounded
<1>6. \A i \in 1..n : seq[i] <= b
  <2>1. \A i \in 1..n : i \in 0..n
    BY <1>2
  <2> QED BY <1>4, <1>5, <2>1
<1> QED BY <1>1, <1>6 DEF n

-----------------------------------------------------------------------------
(* Buckets of minutes.                                                     *)

\* Multiples of a size.
LEMMA Multiple ==
  ASSUME NEW k \in Int, NEW size \in Nat, size > 0
  PROVE  k * size \in Int /\ (k * size) \div size = k
OBVIOUS

LEMMA Quotient ==
  ASSUME NEW m \in Nat, NEW size \in Nat, size > 0
  PROVE  m \div size \in Nat /\ (m \div size) * size <= m /\ m < (m \div size) * size + size
OBVIOUS

LEMMA QuotientGrows ==
  ASSUME NEW m \in Nat, NEW n \in Nat, m <= n, NEW size \in Nat, size > 0
  PROVE  m \div size <= n \div size
<1>1. PICK p, q \in Nat : p = m \div size /\ q = n \div size
  BY Quotient
<1>2. p * size <= m /\ n < q * size + size
  BY <1>1, Quotient
<1>3. p * size < (q + 1) * size
  BY <1>2
<1>4. p < q + 1
  BY <1>3
<1> QED BY <1>1, <1>4

\* The bucket of a minute.
LEMMA BucketFacts ==
  ASSUME NEW m \in Nat, NEW size \in Nat, size > 0
  PROVE  /\ BucketOf(m, size) \in Nat /\ BucketOf(m, size) <= m /\ m < BucketOf(m, size) + size
         /\ \E k \in Nat : BucketOf(m, size) = k * size
<1>1. PICK k \in Nat : k = m \div size /\ k * size <= m /\ m < k * size + size
  BY Quotient
<1>2. BucketOf(m, size) = k * size /\ k * size \in Nat
  BY <1>1 DEF BucketOf
<1> QED BY <1>1, <1>2

LEMMA BucketGrows ==
  ASSUME NEW m \in Nat, NEW n \in Nat, m <= n, NEW size \in Nat, size > 0
  PROVE  BucketOf(m, size) <= BucketOf(n, size)
<1>1. PICK p, q \in Nat : p = m \div size /\ q = n \div size /\ p <= q
  BY Quotient, QuotientGrows
<1>2. p * size <= q * size
  BY <1>1
<1> QED BY <1>1, <1>2 DEF BucketOf

-----------------------------------------------------------------------------
(* The series of candles: the parts of fillJoinedCandles by name.          *)

Parsed(table) == {m \in DOMAIN table : ~(table[m].open = 0 /\ table[m].close = 0)}
Bucket(table, size, key) == {m \in Parsed(table) : BucketOf(m, size) = key}
Keys(table, size) == {BucketOf(m, size) : m \in Parsed(table)}
LastKey(table, size) == Max(Keys(table, size))
StartKey(table, size, limit) ==
  Max({Min(Keys(table, size)), LastKey(table, size) - (Max({limit, 1}) - 1) * size})
Earlier(table, size, limit) == {k \in Keys(table, size) : k < StartKey(table, size, limit)}
Seed(table, size, limit) ==
  IF Earlier(table, size, limit) = {} THEN NoClose
  ELSE table[Max(Bucket(table, size, Max(Earlier(table, size, limit))))].close
KeyAt(table, size, limit, i) == StartKey(table, size, limit) + (i - 1) * size
Count(table, size, limit) == (LastKey(table, size) - StartKey(table, size, limit)) \div size + 1
CandleAt(table, size, limit, i, prev) ==
  LET key == KeyAt(table, size, limit, i)
  IN IF Bucket(table, size, key) # {} THEN TradedCandle(table, key, Bucket(table, size, key), prev)
     ELSE FlatCandle(key, prev)
IsSeries(c, table, size, limit) ==
  c = [i \in 1..Count(table, size, limit) |->
         CandleAt(table, size, limit, i, IF i = 1 THEN Seed(table, size, limit) ELSE c[i - 1].close)]

\* The minutes of the table are at most b, and its rows have their close in the wick.
IsTable(table, b) ==
  /\ b \in Nat /\ DOMAIN table \subseteq 0..b
  /\ \A m \in DOMAIN table :
       /\ table[m].open \in Nat /\ table[m].close \in Nat /\ table[m].high \in Nat /\ table[m].low \in Nat
       /\ table[m].low <= table[m].close /\ table[m].close <= table[m].high

LEMMA FillIsSeries ==
  ASSUME NEW table, NEW size, NEW limit
  PROVE  FillJoinedCandles(table, size, limit) =
           IF Parsed(table) = {} THEN << >>
           ELSE [i \in 1..Count(table, size, limit) |-> (CHOOSE c : IsSeries(c, table, size, limit))[i]]
BY DEF FillJoinedCandles, Parsed, Bucket, Keys, LastKey, StartKey, Earlier, Seed, KeyAt, Count, CandleAt, IsSeries

\* The buckets that traded.
LEMMA KeysBounded ==
  ASSUME NEW table, NEW b, IsTable(table, b), NEW size \in Nat, size > 0
  PROVE  /\ Keys(table, size) \in SUBSET Nat /\ \A k \in Keys(table, size) : k <= b
         /\ \A k \in Keys(table, size) : \E q \in Nat : k = q * size
         /\ \A k : Bucket(table, size, k) # {} <=> k \in Keys(table, size)
<1>1. \A m \in Parsed(table) : m \in Nat /\ m <= b
  BY DEF Parsed, IsTable
<1>2. b \in Nat
  BY DEF IsTable
<1>3. \A m \in Parsed(table) :
        BucketOf(m, size) \in Nat /\ BucketOf(m, size) <= b /\ \E q \in Nat : BucketOf(m, size) = q * size
  <2> SUFFICES ASSUME NEW m \in Parsed(table)
               PROVE  BucketOf(m, size) \in Nat /\ BucketOf(m, size) <= b /\ \E q \in Nat : BucketOf(m, size) = q * size
    OBVIOUS
  <2>1. m \in Nat /\ m <= b
    BY <1>1
  <2>2. /\ BucketOf(m, size) \in Nat /\ BucketOf(m, size) <= m
        /\ \E q \in Nat : BucketOf(m, size) = q * size
    BY <2>1, BucketFacts
  <2> QED BY <1>2, <2>1, <2>2
<1>4. \A k \in Keys(table, size) : \E m \in Parsed(table) : k = BucketOf(m, size)
  BY DEF Keys
<1>5. \A k : Bucket(table, size, k) # {} <=> k \in Keys(table, size)
  BY DEF Keys, Bucket
<1> QED BY <1>3, <1>4, <1>5

\* The minutes of a bucket, and the last of them.
LEMMA BucketLast ==
  ASSUME NEW table, NEW b, IsTable(table, b), NEW size, NEW k, Bucket(table, size, k) # {}
  PROVE  LET ms == Bucket(table, size, k)
         IN /\ ms \in SUBSET Nat /\ Max(ms) \in ms /\ \A m \in ms : m <= Max(ms) /\ m <= b
            /\ Max(ms) \in DOMAIN table /\ table[Max(ms)].close \in Nat
<1>1. \A m \in Bucket(table, size, k) : m \in Nat /\ m <= b /\ m \in DOMAIN table
  BY DEF Bucket, Parsed, IsTable
<1>2. PICK ms : ms = Bucket(table, size, k) /\ ms \in SUBSET Int /\ ms # {}
  BY <1>1
<1>3. b \in Int /\ \A m \in ms : m <= b
  BY <1>1, <1>2 DEF IsTable
<1>4. Max(ms) \in ms /\ \A m \in ms : m <= Max(ms)
  BY <1>2, <1>3, MaxInt
<1>5. Max(ms) \in DOMAIN table /\ table[Max(ms)].close \in Nat
  BY <1>1, <1>2, <1>4 DEF IsTable
<1> QED BY <1>1, <1>2, <1>4, <1>5

\* The window of buckets that is shown.
LEMMA Window ==
  ASSUME NEW table, NEW b, IsTable(table, b), Parsed(table) # {},
         NEW size \in Nat, size > 0, NEW limit \in Nat, limit > 0
  PROVE  LET first == Min(Keys(table, size))
             last == LastKey(table, size)
             start == StartKey(table, size, limit)
             n == Count(table, size, limit)
         IN /\ first \in Keys(table, size) /\ last \in Keys(table, size) /\ first \in Nat /\ last \in Nat
            /\ \A k \in Keys(table, size) : first <= k /\ k <= last
            /\ start \in Nat /\ first <= start /\ start <= last /\ start >= last - (limit - 1) * size
            /\ n \in Nat /\ 1 <= n /\ n <= limit /\ start + (n - 1) * size = last
<1>1. PICK K : K = Keys(table, size)
  OBVIOUS
<1>2. K \in SUBSET Nat /\ K # {} /\ \A k \in K : k <= b
  BY <1>1, KeysBounded DEF Keys
<1>3. PICK first \in K : first = Min(K) /\ \A k \in K : first <= k
  BY <1>2, MinNat
<1>4. PICK last \in K : last = LastKey(table, size) /\ \A k \in K : k <= last
  <2>1. K \in SUBSET Int /\ b \in Int
    BY <1>2 DEF IsTable
  <2>2. Max(K) \in K /\ \A k \in K : k <= Max(K)
    BY <1>2, <2>1, MaxInt
  <2> QED BY <1>1, <2>2 DEF LastKey
<1>5. first \in Nat /\ last \in Nat /\ first <= last
  BY <1>2, <1>3, <1>4
<1>6. PICK p, q \in Nat : first = p * size /\ last = q * size
  <2>1. \A k \in K : \E q \in Nat : k = q * size
    BY <1>1, KeysBounded
  <2>2. PICK p \in Nat : first = p * size
    BY <2>1
  <2>3. PICK q \in Nat : last = q * size
    BY <2>1
  <2> QED BY <2>2, <2>3
<1>7. Max({limit, 1}) = limit
  <2>1. limit \in Int /\ 1 \in Int /\ limit >= 1
    OBVIOUS
  <2> QED BY <2>1, MaxTwo
<1>8. PICK j \in Nat : j = limit - 1
  OBVIOUS
<1>9. j * size \in Nat
  OBVIOUS
<1>10. PICK start : start = StartKey(table, size, limit)
  OBVIOUS
<1>11. start = IF first >= last - j * size THEN first ELSE last - j * size
  <2>1. start = Max({first, last - j * size})
    BY <1>1, <1>3, <1>4, <1>7, <1>8, <1>10 DEF StartKey
  <2>2. first \in Int /\ last - j * size \in Int
    BY <1>5, <1>9
  <2> QED BY <2>1, <2>2, MaxTwo
<1>12. start \in Nat /\ first <= start /\ start <= last /\ start >= last - j * size
  BY <1>5, <1>9, <1>11
<1>13. \E r \in Nat : last - start = r * size /\ r <= j
  <2>1. CASE start = first
    <3>1. PICK r \in Int : r = q - p
      OBVIOUS
    <3>2. r * size = last - start /\ r * size <= j * size /\ 0 <= r * size
      BY <1>5, <1>6, <1>9, <1>12, <2>1, <3>1
    <3>3. 0 <= r /\ r <= j
      BY <3>2
    <3>4. r \in Nat /\ last - start = r * size /\ r <= j
      BY <3>2, <3>3
    <3> QED BY <3>4
  <2>2. CASE start # first
    <3>1. last - start = j * size
      BY <1>5, <1>9, <1>11, <2>2
    <3> QED BY <3>1
  <2> QED BY <2>1, <2>2
<1>14. PICK r \in Nat : last - start = r * size /\ r <= j
  BY <1>13
<1>15. Count(table, size, limit) = r + 1
  <2>1. (r * size) \div size = r
    BY Multiple
  <2> QED BY <1>4, <1>10, <1>14, <2>1 DEF Count
<1>16. PICK n \in Nat : n = Count(table, size, limit) /\ n = r + 1 /\ n - 1 = r
  BY <1>15
<1>17. 1 <= n /\ n <= limit /\ start + (n - 1) * size = last
  <2>1. r * size \in Nat /\ start + r * size = last
    BY <1>5, <1>12, <1>14
  <2> QED BY <1>8, <1>14, <1>16, <2>1
<1> QED BY <1>1, <1>3, <1>4, <1>5, <1>8, <1>10, <1>12, <1>16, <1>17

\* Multiples of a size keep their order.
LEMMA Scaled ==
  ASSUME NEW p \in Int, NEW q \in Int, NEW size \in Nat, size > 0
  PROVE  (p * size < q * size <=> p < q) /\ (p * size = q * size <=> p = q)
<1>1. p < q => p * size < q * size
  OBVIOUS
<1>2. q < p => q * size < p * size
  OBVIOUS
<1>3. p * size \in Int /\ q * size \in Int
  OBVIOUS
<1> QED BY <1>1, <1>2, <1>3

\* Every bucket that traded, from the start of the window on, is one of the series.
LEMMA WindowCovers ==
  ASSUME NEW table, NEW b, IsTable(table, b), Parsed(table) # {},
         NEW size \in Nat, size > 0, NEW limit \in Nat, limit > 0,
         NEW k \in Keys(table, size), k >= StartKey(table, size, limit)
  PROVE  \E j \in 1..Count(table, size, limit) : k = KeyAt(table, size, limit, j)
<1>1. PICK n, start, last \in Nat :
         /\ n = Count(table, size, limit) /\ start = StartKey(table, size, limit)
         /\ last \in Keys(table, size) /\ k <= last /\ 1 <= n /\ start + (n - 1) * size = last
  BY Window
<1>2. PICK p, q \in Nat : k = p * size /\ last = q * size
  <2>1. \A x \in Keys(table, size) : \E q \in Nat : x = q * size
    BY KeysBounded
  <2>2. PICK p \in Nat : k = p * size
    BY <2>1
  <2>3. PICK q \in Nat : last = q * size
    BY <1>1, <2>1
  <2> QED BY <2>2, <2>3
<1>3. p <= q
  <2>1. ~(q * size < p * size)
    BY <1>1, <1>2
  <2> QED BY <2>1, Scaled
<1>4. start = (q - (n - 1)) * size /\ q - (n - 1) \in Int
  BY <1>1, <1>2
<1>5. p >= q - (n - 1)
  <2>1. ~(p * size < (q - (n - 1)) * size)
    BY <1>1, <1>2, <1>4
  <2> QED BY <1>4, <2>1, Scaled
<1>6. PICK j \in 1..n : j - 1 = p - (q - (n - 1))
  <2>1. (p - (q - (n - 1))) + 1 \in 1..n
    BY <1>1, <1>3, <1>5
  <2> QED BY <2>1
<1>7. start + (j - 1) * size = p * size
  BY <1>4, <1>6
<1> QED BY <1>1, <1>2, <1>6, <1>7 DEF KeyAt

\* The close of a candle is that of its last row, or the one before it.
LEMMA CandleClose ==
  ASSUME NEW table, NEW size, NEW limit, NEW i, NEW prev
  PROVE  CandleAt(table, size, limit, i, prev).close =
           LET ms == Bucket(table, size, KeyAt(table, size, limit, i))
           IN IF ms # {} THEN table[Max(ms)].close ELSE prev
BY DEF CandleAt, TradedCandle, FlatCandle

\* f holds the closes of the series, from the one before it on.
IsChain(f, table, size, limit) ==
  LET n == Count(table, size, limit)
  IN /\ f \in [0..n -> Nat \union {NoClose}] /\ \A i \in 1..n : f[i] \in Nat
     /\ \A i \in 1..n : f[i] = CandleAt(table, size, limit, i, f[i - 1]).close
     /\ FillJoinedCandles(table, size, limit) = [i \in 1..n |-> CandleAt(table, size, limit, i, f[i - 1])]

\* fillJoinedCandles chains the closes of the buckets, and every one of them is a price.
LEMMA SeriesChain ==
  ASSUME NEW table, NEW b, IsTable(table, b), Parsed(table) # {},
         NEW size \in Nat, size > 0, NEW limit \in Nat, limit > 0
  PROVE  \E f : IsChain(f, table, size, limit)
<1> DEFINE n == Count(table, size, limit)
           C(i, prev) == CandleAt(table, size, limit, i, prev)
           K == Keys(table, size)
           start == StartKey(table, size, limit)
           seed == Seed(table, size, limit)
           T == Nat \union {NoClose}
<1>1. n \in Nat /\ n >= 1
  BY Window
<1>2. K \in SUBSET Nat /\ (\A k \in K : k <= b) /\ \A k : Bucket(table, size, k) # {} <=> k \in K
  BY KeysBounded
<1>3. \A i : \A prev \in T : C(i, prev).close \in T
  BY BucketLast, CandleClose
<1>4. seed \in T /\ (seed \in Nat \/ Earlier(table, size, limit) = {})
  <2>1. CASE Earlier(table, size, limit) = {}
    BY <2>1 DEF Seed
  <2>2. CASE Earlier(table, size, limit) # {}
    <3>1. PICK E : E = Earlier(table, size, limit)
      OBVIOUS
    <3>2. E \in SUBSET Int /\ E # {} /\ b \in Int /\ \A k \in E : k <= b /\ k \in K
      BY <1>2, <2>2, <3>1 DEF Earlier, IsTable
    <3>3. Max(E) \in K
      BY <3>2, MaxInt
    <3>4. table[Max(Bucket(table, size, Max(E)))].close \in Nat
      BY <1>2, <3>3, BucketLast
    <3> QED BY <2>2, <3>1, <3>4 DEF Seed
  <2> QED BY <2>1, <2>2
<1>5. C(1, seed).close \in Nat
  <2>1. KeyAt(table, size, limit, 1) = start
    <3>1. start \in Nat
      BY Window
    <3> QED BY <3>1 DEF KeyAt
  <2>2. CASE start \in K
    BY <1>2, <2>1, <2>2, BucketLast, CandleClose
  <2>3. CASE start \notin K
    <3>1. PICK first \in K : first \in Nat /\ start \in Nat /\ first <= start
      BY Window
    <3>2. first < start
      BY <2>3, <3>1
    <3>3. first \in Earlier(table, size, limit)
      BY <3>2 DEF Earlier
    <3>4. seed \in Nat
      BY <1>4, <3>3
    <3>5. Bucket(table, size, KeyAt(table, size, limit, 1)) = {}
      BY <1>2, <2>1, <2>3
    <3> QED BY <3>4, <3>5, CandleClose
  <2> QED BY <2>2, <2>3
<1> DEFINE s == [i \in 1..n |-> [p \in T |-> C(i, p).close]]
<1>6. s \in [1..n -> [T -> T]] /\ \A i \in 1..n : \A p \in T : s[i][p] = C(i, p).close
  <2> HIDE DEF C, n, T
  <2> QED BY <1>3
<1> HIDE DEF s, C, n, T, seed
<1>7. PICK g \in [0..n -> T] : IsRun(g, seed, s, n)
  BY <1>1, <1>4, <1>6, Iterates
<1>8. \A i \in 1..n : i - 1 \in 0..n /\ i \in 0..n /\ (i # 1 => i - 1 \in 1..n)
  BY <1>1
<1>9. g[0] = seed /\ \A i \in 1..n : g[i - 1] \in T /\ g[i] = C(i, g[i - 1]).close
  <2>1. g[0] = seed /\ \A i \in 1..n : g[i] = s[i][g[i - 1]]
    BY <1>7 DEF IsRun
  <2>2. \A i \in 1..n : g[i - 1] \in T
    BY <1>8
  <2> QED BY <1>6, <2>1, <2>2
<1> DEFINE d == [i \in 1..n |-> C(i, g[i - 1])]
           Prev(c, i) == IF i = 1 THEN seed ELSE c[i - 1].close
<1>10. \A i \in 1..n : d[i] = C(i, g[i - 1]) /\ d[i].close = g[i]
  BY <1>9
<1>11. \A i \in 1..n : Prev(d, i) = g[i - 1]
  <2> HIDE DEF d
  <2> QED BY <1>8, <1>9, <1>10
<1>12. IsSeries(d, table, size, limit)
  <2>1. d = [i \in 1..n |-> C(i, Prev(d, i))]
    <3>1. \A i \in 1..n : d[i] = C(i, Prev(d, i))
      BY <1>10, <1>11
    <3> QED BY <3>1
  <2> QED BY <2>1 DEF IsSeries, n, C, seed
<1> DEFINE c == CHOOSE x : IsSeries(x, table, size, limit)
<1>13. IsSeries(c, table, size, limit)
  BY <1>12
<1>14. FillJoinedCandles(table, size, limit) = [i \in 1..n |-> c[i]]
  BY FillIsSeries DEF n
<1> HIDE DEF c, d
<1>15. \A i \in 1..n : c[i] = C(i, Prev(c, i))
  BY <1>13 DEF IsSeries, n, C, seed
<1> DEFINE f == [i \in 0..n |-> IF i = 0 THEN seed ELSE c[i].close]
<1>16. f[0] = seed /\ \A i \in 1..n : f[i] = c[i].close /\ f[i - 1] = Prev(c, i)
  <2>1. \A i \in 1..n : i # 0 /\ (i = 1 => i - 1 = 0) /\ (i # 1 => i - 1 # 0)
    BY <1>1
  <2>2. 0 \in 0..n
    BY <1>1
  <2> QED BY <1>8, <2>1, <2>2
<1>17. DOMAIN f = 0..n /\ f = [i \in 0..n |-> f[i]]
  OBVIOUS
<1> HIDE DEF f, Prev
<1>18. \A i \in 1..n : c[i] = C(i, f[i - 1]) /\ f[i] = C(i, f[i - 1]).close
  BY <1>15, <1>16
<1>19. \A i \in 0..n : f[i] \in T
  <2>1. f[0] \in T /\ \A i \in 1..n : f[i - 1] \in T => f[i] \in T
    BY <1>3, <1>4, <1>16, <1>18
  <2> QED BY <1>1, <2>1, RunTyped
<1>20. \A i \in 1..n : f[i] \in Nat
  <2> DEFINE S == {k \in Nat : k + 1 <= n => f[k + 1] \in Nat}
  <2>1. f[1] \in Nat
    <3>1. 1 \in 1..n /\ 1 - 1 = 0
      BY <1>1
    <3>2. f[1] = C(1, f[1 - 1]).close
      BY <1>18, <3>1
    <3> QED BY <1>5, <1>16, <3>1, <3>2
  <2>2. ASSUME NEW k \in Nat, (k + 1) + 1 <= n, f[k + 1] \in Nat PROVE f[(k + 1) + 1] \in Nat
    <3>1. PICK i \in 1..n : i = (k + 1) + 1 /\ i - 1 = k + 1
      BY <2>2
    <3>2. f[i] = C(i, f[k + 1]).close
      BY <1>18, <3>1
    <3>3. C(i, f[k + 1]).close \in Nat
      BY <2>2, BucketLast, CandleClose DEF C
    <3> QED BY <3>1, <3>2, <3>3
  <2>3. 0 \in S
    BY <2>1
  <2>4. \A k \in Nat : k \in S => k + 1 \in S
    BY <1>1, <2>2
  <2>5. Nat \subseteq S
    <3> HIDE DEF S
    <3> QED BY <2>3, <2>4, Induct
  <2>6. ASSUME NEW i \in 1..n PROVE f[i] \in Nat
    <3>1. i - 1 \in Nat /\ (i - 1) + 1 = i /\ i <= n
      BY <1>1
    <3> QED BY <2>5, <3>1
  <2> QED BY <2>6
<1>21. f \in [0..n -> T]
  BY <1>17, <1>19
<1>22. FillJoinedCandles(table, size, limit) = [i \in 1..n |-> C(i, f[i - 1])]
  BY <1>14, <1>18
<1>23. IsChain(f, table, size, limit)
  BY <1>18, <1>20, <1>21, <1>22 DEF IsChain, n, C, T
<1> QED BY <1>23

\* The parts of a candle: it opens at the close before it, and its wick covers both ends.
LEMMA CandleParts ==
  ASSUME NEW table, NEW b, IsTable(table, b), NEW size, NEW limit, NEW i, NEW prev \in Nat \union {NoClose}
  PROVE  LET q == CandleAt(table, size, limit, i, prev)
         IN /\ q.t = KeyAt(table, size, limit, i)
            /\ prev \in Nat => q.open = prev
            /\ q.open \in Int /\ q.close \in Int /\ q.low \in Int /\ q.high \in Int
            /\ q.low <= q.open /\ q.low <= q.close /\ q.open <= q.high /\ q.close <= q.high
<1>1. PICK key, ms, q : /\ key = KeyAt(table, size, limit, i) /\ ms = Bucket(table, size, key)
                        /\ q = CandleAt(table, size, limit, i, prev)
  OBVIOUS
<1>0. prev \in Int /\ (prev \in Nat => prev # NoClose) /\ (prev \notin Nat => prev = NoClose)
  BY DEF NoClose
<1>2. CASE ms = {}
  <2>1. q = FlatCandle(key, prev)
    BY <1>1, <1>2 DEF CandleAt
  <2>2. q.t = key /\ q.open = prev /\ q.close = prev /\ q.low = prev /\ q.high = prev
    BY <2>1 DEF FlatCandle
  <2> QED BY <1>0, <1>1, <2>2
<1>3. CASE ms # {}
  <2>1. PICK open : open = IF prev = NoClose THEN table[Min(ms)].open ELSE prev
    OBVIOUS
  <2> DEFINE highs == {table[m].high : m \in ms} \union {open}
             lows == {table[m].low : m \in ms} \union {open}
  <2>2. /\ q.t = key /\ q.open = open /\ q.close = table[Max(ms)].close
        /\ q.high = Max(highs) /\ q.low = Min(lows)
    <3>1. q = TradedCandle(table, key, ms, prev)
      BY <1>1, <1>3 DEF CandleAt
    <3> QED BY <2>1, <3>1 DEF TradedCandle
  <2>3. ms \in SUBSET Nat /\ Max(ms) \in ms /\ \A m \in ms : m \in 0..b /\ m \in DOMAIN table
    <3>1. ms \in SUBSET Nat /\ Max(ms) \in ms /\ \A m \in ms : m <= b
      BY <1>1, <1>3, BucketLast
    <3>2. \A m \in ms : m \in DOMAIN table
      BY <1>1 DEF Bucket, Parsed
    <3> QED BY <3>1, <3>2 DEF IsTable
  <2>4. \A m \in ms : /\ table[m].open \in Nat /\ table[m].close \in Nat /\ table[m].high \in Nat /\ table[m].low \in Nat
                      /\ table[m].low <= table[m].close /\ table[m].close <= table[m].high
    BY <2>3 DEF IsTable
  <2>5. open \in Nat
    <3>1. Min(ms) \in ms
      BY <1>3, <2>3, MinNat
    <3> QED BY <1>0, <2>1, <2>4, <3>1
  <2>6. Max(highs) \in highs /\ \A x \in highs : x <= Max(highs)
    <3> DEFINE v == [m \in 0..b |-> IF m \in ms THEN table[m].high ELSE 0]
    <3>1. \A m \in 0..b : v[m] \in Nat
      BY <2>4
    <3>2. \A m \in ms : v[m] = table[m].high
      BY <2>3
    <3> HIDE DEF v
    <3>3. PICK u \in Nat : \A m \in 0..b : v[m] <= u
      BY <3>1, ValuesBounded DEF IsTable
    <3>4. \A m \in ms : table[m].high <= u
      BY <2>3, <3>2, <3>3
    <3>5. highs \in SUBSET Int /\ highs # {} /\ u + open \in Int /\ \A x \in highs : x <= u + open
      BY <2>4, <2>5, <3>4
    <3> HIDE DEF highs
    <3> QED BY <3>5, MaxInt
  <2>7. Min(lows) \in lows /\ \A x \in lows : Min(lows) <= x
    <3>1. lows \in SUBSET Nat /\ lows # {}
      BY <2>4, <2>5
    <3> HIDE DEF lows
    <3> QED BY <3>1, MinNat
  <2>8. PICK m \in ms : m = Max(ms)
    BY <2>3
  <2>9. /\ table[m].high \in highs /\ table[m].low \in lows /\ open \in highs /\ open \in lows
        /\ highs \subseteq Nat /\ lows \subseteq Nat
    BY <2>4, <2>5
  <2> HIDE DEF highs, lows
  <2>10. Max(highs) \in Nat /\ Min(lows) \in Nat /\ open <= Max(highs) /\ Min(lows) <= open
    BY <2>6, <2>7, <2>9
  <2>11. table[m].close <= Max(highs) /\ Min(lows) <= table[m].close /\ table[m].close \in Nat
    <3>1. table[m].high <= Max(highs) /\ Min(lows) <= table[m].low
      BY <2>6, <2>7, <2>9
    <3> QED BY <2>4, <2>10, <3>1
  <2>12. prev \in Nat => open = prev
    BY <1>0, <2>1
  <2> QED BY <1>1, <2>2, <2>5, <2>8, <2>10, <2>11, <2>12
<1> QED BY <1>2, <1>3

\* The answer is the series from its end.
LEMMA Backwards ==
  ASSUME NEW n \in Nat, NEW F, F = [i \in 1..n |-> F[i]]
  PROVE  /\ Len(Reverse(F)) = n
         /\ \A i \in 1..n : Reverse(F)[i] = F[(n - i) + 1] /\ (n - i) + 1 \in 1..n
<1>1. Len(F) = n
  <2>1. DOMAIN F = 1..n
    OBVIOUS
  <2>2. F \in Seq({F[i] : i \in 1..n})
    <3>1. F \in [1..n -> {F[i] : i \in 1..n}]
      OBVIOUS
    <3> QED BY <3>1
  <2> QED BY <2>1, <2>2, LenProperties
<1>2. Reverse(F) = [i \in 1..n |-> F[(n - i) + 1]]
  BY <1>1 DEF Reverse
<1>3. Len(Reverse(F)) = n
  BY <1>2
<1>4. \A i \in 1..n : (n - i) + 1 \in 1..n
  OBVIOUS
<1>5. \A i \in 1..n : Reverse(F)[i] = F[(n - i) + 1]
  BY <1>2
<1> QED BY <1>3, <1>4, <1>5

\* What c, an answer of candles, must satisfy.
Joined(c, limit) ==
  /\ Len(c) <= limit
  /\ \A i, j \in 1..Len(c) : /\ c[i].t = c[j].t => i = j
                             /\ Successive(c, i, j) => c[j].open = c[i].close
  /\ \A i \in 1..Len(c) : c[i].low <= Min({c[i].open, c[i].close})
                          /\ Max({c[i].open, c[i].close}) <= c[i].high

\* The series joins, whatever the table holds.
LEMMA SeriesJoins ==
  ASSUME NEW table, NEW b, IsTable(table, b), NEW size \in Nat, size > 0, NEW limit \in Nat, limit > 0
  PROVE  Joined(Reverse(FillJoinedCandles(table, size, limit)), limit)
<1>1. PICK c : c = Reverse(FillJoinedCandles(table, size, limit))
  OBVIOUS
<1>2. CASE Parsed(table) = {}
  <2>1. c = << >>
    <3>1. FillJoinedCandles(table, size, limit) = << >>
      BY <1>2, FillIsSeries
    <3>2. Reverse(<< >>) = << >>
      BY DEF Reverse
    <3> QED BY <1>1, <3>1, <3>2
  <2>2. Len(c) = 0
    BY <2>1
  <2>3. Joined(c, limit)
    BY <2>2 DEF Joined
  <2> QED BY <1>1, <2>3
<1>3. CASE Parsed(table) # {}
  <2>1. PICK f : IsChain(f, table, size, limit)
    BY <1>3, SeriesChain
  <2> DEFINE C(i) == CandleAt(table, size, limit, i, f[i - 1])
  <2>2. PICK n \in Nat : n = Count(table, size, limit) /\ n <= limit
    BY <1>3, Window
  <2>3. /\ f \in [0..n -> Nat \union {NoClose}] /\ \A i \in 1..n : f[i] \in Nat
        /\ \A i \in 1..n : f[i] = C(i).close
        /\ FillJoinedCandles(table, size, limit) = [i \in 1..n |-> C(i)]
    BY <2>1, <2>2 DEF IsChain
  <2>4. \A i \in 1..n : /\ C(i).t = KeyAt(table, size, limit, i) /\ (f[i - 1] \in Nat => C(i).open = f[i - 1])
                        /\ C(i).open \in Int /\ C(i).close \in Int /\ C(i).low \in Int /\ C(i).high \in Int
                        /\ C(i).low <= C(i).open /\ C(i).low <= C(i).close
                        /\ C(i).open <= C(i).high /\ C(i).close <= C(i).high
    <3> SUFFICES ASSUME NEW i \in 1..n
                 PROVE  /\ C(i).t = KeyAt(table, size, limit, i) /\ (f[i - 1] \in Nat => C(i).open = f[i - 1])
                        /\ C(i).open \in Int /\ C(i).close \in Int /\ C(i).low \in Int /\ C(i).high \in Int
                        /\ C(i).low <= C(i).open /\ C(i).low <= C(i).close
                        /\ C(i).open <= C(i).high /\ C(i).close <= C(i).high
      OBVIOUS
    <3>1. PICK prev \in Nat \union {NoClose} : prev = f[i - 1]
      <4>1. i - 1 \in 0..n
        OBVIOUS
      <4>2. f[i - 1] \in Nat \union {NoClose}
        BY <2>3, <4>1
      <4> QED BY <4>2
    <3>2. PICK q : q = CandleAt(table, size, limit, i, prev)
      OBVIOUS
    <3>3. /\ q.t = KeyAt(table, size, limit, i) /\ (prev \in Nat => q.open = prev)
          /\ q.open \in Int /\ q.close \in Int /\ q.low \in Int /\ q.high \in Int
          /\ q.low <= q.open /\ q.low <= q.close /\ q.open <= q.high /\ q.close <= q.high
      BY <3>2, CandleParts
    <3> QED BY <3>1, <3>2, <3>3
  <2> HIDE DEF C
  <2>5. Len(c) = n /\ \A i \in 1..n : c[i] = C((n - i) + 1) /\ (n - i) + 1 \in 1..n
    <3>1. PICK F : F = [i \in 1..n |-> C(i)]
      OBVIOUS
    <3>2. F = [i \in 1..n |-> F[i]] /\ \A i \in 1..n : F[i] = C(i)
      BY <3>1
    <3>3. c = Reverse(F)
      BY <1>1, <2>3, <3>1
    <3>4. /\ Len(c) = n
          /\ \A i \in 1..n : c[i] = F[(n - i) + 1] /\ (n - i) + 1 \in 1..n
      BY <3>2, <3>3, Backwards, ZenonT(60)
    <3> QED BY <3>2, <3>4
  <2>6. ASSUME NEW i \in 1..n, NEW j \in 1..n
        PROVE  /\ c[i].t = c[j].t => i = j
               /\ Successive(c, i, j) => c[j].open = c[i].close
    <3>1. PICK p, q \in 1..n : /\ p = (n - i) + 1 /\ q = (n - j) + 1
                               /\ c[i] = C(p) /\ c[j] = C(q)
      BY <2>5
    <3>2. PICK start \in Nat : start = StartKey(table, size, limit)
      BY <1>3, Window
    <3>3. \A k \in 1..n : C(k).t = start + (k - 1) * size
      BY <2>4, <3>2 DEF KeyAt
    <3>4. \A k, l \in 1..n : (C(k).t < C(l).t <=> k < l) /\ (C(k).t = C(l).t => k = l)
      <4> SUFFICES ASSUME NEW k \in 1..n, NEW l \in 1..n
                   PROVE  (C(k).t < C(l).t <=> k < l) /\ (C(k).t = C(l).t => k = l)
        OBVIOUS
      <4>1. C(k).t = start + (k - 1) * size /\ C(l).t = start + (l - 1) * size
        BY <3>3
      <4>2. PICK x, y \in Int : x = (k - 1) * size /\ y = (l - 1) * size
        OBVIOUS
      <4>3. (x < y <=> k - 1 < l - 1) /\ (x = y <=> k - 1 = l - 1)
        BY <4>2, Scaled
      <4> QED BY <4>1, <4>2, <4>3
    <3>5. c[i].t = c[j].t => i = j
      BY <3>1, <3>4
    <3>6. ASSUME Successive(c, i, j) PROVE c[j].open = c[i].close
      <4>1. p < q
        BY <3>1, <3>4, <3>6 DEF Successive
      <4>2. q = p + 1
        <5> SUFFICES ASSUME q # p + 1 PROVE FALSE
          OBVIOUS
        <5>1. PICK k \in 1..n : p < k /\ k < q /\ k = p + 1
          BY <4>1
        <5>2. PICK l \in 1..n : c[l] = C(k)
          <6>1. (n - k) + 1 \in 1..n /\ (n - ((n - k) + 1)) + 1 = k
            OBVIOUS
          <6> QED BY <2>5, <6>1
        <5>3. C(p).t < C(k).t /\ C(k).t < C(q).t
          BY <3>4, <5>1
        <5>4. l \in 1..Len(c)
          BY <2>5
        <5> QED BY <3>1, <3>6, <5>2, <5>3, <5>4 DEF Successive
      <4>3. q - 1 = p
        BY <4>2
      <4>4. f[p] \in Nat /\ f[p] = C(p).close
        BY <2>3
      <4>5. C(q).open = f[p]
        BY <2>4, <4>3, <4>4
      <4> QED BY <3>1, <4>4, <4>5
    <3> QED BY <3>5, <3>6
  <2>7. ASSUME NEW i \in 1..n
        PROVE  c[i].low <= Min({c[i].open, c[i].close}) /\ Max({c[i].open, c[i].close}) <= c[i].high
    <3>1. PICK j \in 1..n : c[i] = C(j)
      BY <2>5
    <3>2. PICK o, k, l, h \in Int : /\ o = c[i].open /\ k = c[i].close /\ l = c[i].low /\ h = c[i].high
                                    /\ l <= o /\ l <= k /\ o <= h /\ k <= h
      BY <2>4, <3>1
    <3>3. Min({o, k}) = (IF o <= k THEN o ELSE k) /\ Max({o, k}) = (IF o >= k THEN o ELSE k)
      BY MinTwo, MaxTwo
    <3>4. l <= Min({o, k}) /\ Max({o, k}) <= h
      BY <3>2, <3>3
    <3> QED BY <3>2, <3>4
  <2>8. Joined(c, limit)
    BY <2>2, <2>5, <2>6, <2>7 DEF Joined
  <2> QED BY <1>1, <2>8
<1> QED BY <1>2, <1>3

-----------------------------------------------------------------------------
(* The rows that are fetched.                                              *)

\* As many rows are fetched as the window can have.
LEMMA RawLimitWindow ==
  ASSUME NEW size \in Nat, size > 0, NEW limit \in Nat, NEW cap \in Nat, limit * size <= cap
  PROVE  RawLimit(limit, size, cap) = limit * size
<1>1. limit * size \in Int /\ limit * size >= limit /\ cap \in Int /\ limit \in Int
  OBVIOUS
<1>2. Max({limit * size, limit}) = limit * size
  BY <1>1, MaxTwo
<1>3. Min({limit * size, cap}) = limit * size
  BY <1>1, MinTwo
<1> QED BY <1>2, <1>3 DEF RawLimit

NewestRows(full, n) == {m \in DOMAIN full : Cardinality({o \in DOMAIN full : o > m}) < n}

\* The newest rows of a table reach back over limit buckets.
LEMMA NewestReach ==
  ASSUME NEW full, NEW b, IsTable(full, b), DOMAIN full # {},
         NEW size \in Nat, size > 0, NEW limit \in Nat, limit > 0
  PROVE  LET top == Max(DOMAIN full)
             kept == NewestRows(full, limit * size)
         IN /\ top \in DOMAIN full /\ top \in Nat /\ \A m \in DOMAIN full : m \in Nat /\ m <= top
            /\ top \in kept /\ kept \subseteq DOMAIN full
            /\ \A m \in DOMAIN full :
                 BucketOf(m, size) >= BucketOf(top, size) - (limit - 1) * size => m \in kept
<1>1. DOMAIN full \in SUBSET Int /\ b \in Int /\ \A m \in DOMAIN full : m \in Nat /\ m <= b
  BY DEF IsTable
<1>2. PICK top \in DOMAIN full : top = Max(DOMAIN full) /\ \A m \in DOMAIN full : m <= top
  BY <1>1, MaxInt
<1>3. top \in Nat /\ \A m \in DOMAIN full : m \in Nat /\ m <= top
  BY <1>1, <1>2
<1>4. PICK j \in Nat : j = limit - 1 /\ limit = j + 1
  OBVIOUS
<1>5. j * size \in Nat /\ limit * size = j * size + size
  BY <1>4
<1>6. PICK w \in Nat : w = BucketOf(top, size) /\ w <= top /\ top < w + size
  BY <1>3, BucketFacts
<1>7. ASSUME NEW m \in DOMAIN full, BucketOf(m, size) >= w - j * size
      PROVE  m \in NewestRows(full, limit * size)
  <2>1. PICK k \in Nat : k = BucketOf(m, size) /\ k <= m
    BY <1>3, BucketFacts
  <2>2. m \in Nat /\ m <= top /\ top - m < limit * size
    BY <1>3, <1>5, <1>6, <1>7, <2>1
  <2> DEFINE newer == {o \in DOMAIN full : o > m}
  <2>3. newer \in SUBSET ((m + 1)..top)
    BY <1>3, <2>2
  <2>4. IsFiniteSet((m + 1)..top) /\ Cardinality((m + 1)..top) = top - m
    <3>1. m + 1 \in Int /\ top \in Int
      BY <1>3, <2>2
    <3>2. IsFiniteSet((m + 1)..top) /\ Cardinality((m + 1)..top) = IF m + 1 > top THEN 0 ELSE top - (m + 1) + 1
      BY <3>1, FS_Interval
    <3> QED BY <1>3, <2>2, <3>2
  <2> HIDE DEF newer
  <2>5. IsFiniteSet(newer) /\ Cardinality(newer) <= Cardinality((m + 1)..top)
    BY <2>3, <2>4, FS_Subset
  <2>6. Cardinality(newer) \in Nat
    BY <2>5, FS_CardinalityType
  <2>7. Cardinality(newer) < limit * size
    BY <1>3, <1>5, <2>2, <2>4, <2>5, <2>6
  <2> QED BY <2>7 DEF NewestRows, newer
<1>8. top \in NewestRows(full, limit * size)
  BY <1>5, <1>6, <1>7
<1>9. NewestRows(full, limit * size) \subseteq DOMAIN full
  BY DEF NewestRows
<1> QED BY <1>2, <1>3, <1>4, <1>6, <1>7, <1>8, <1>9

\* The rows of the SELECT, where full is the part of the table from the first minute on.
LEMMA FetchNewest ==
  ASSUME NEW table, NEW from, NEW to, NEW n, NEW full,
         DOMAIN full = {m \in DOMAIN table : m >= from}, \A m \in DOMAIN full : full[m] = table[m] /\ m < to
  PROVE  Fetch(table, from, to, n) = [m \in NewestRows(full, n) |-> full[m]]
<1>1. {m \in DOMAIN table : m >= from /\ m < to} = DOMAIN full
  OBVIOUS
<1>2. PICK kept : kept = NewestRows(full, n)
  OBVIOUS
<1>3. Fetch(table, from, to, n) = [m \in kept |-> table[m]]
  BY <1>1, <1>2 DEF Fetch, NewestRows
<1>4. \A m \in kept : table[m] = full[m]
  BY <1>2 DEF NewestRows
<1> QED BY <1>2, <1>3, <1>4

\* Every candle shows all the rows of its bucket, although only the newest are fetched.
LEMMA SeriesShows ==
  ASSUME NEW full, NEW b, IsTable(full, b), \A m \in DOMAIN full : full[m].close # 0,
         NEW size \in Nat, size > 0, NEW limit \in Nat, limit > 0,
         NEW tab, tab = [m \in NewestRows(full, limit * size) |-> full[m]]
  PROVE  Shows(Reverse(FillJoinedCandles(tab, size, limit)), full, size)
<1>1. PICK c : c = Reverse(FillJoinedCandles(tab, size, limit))
  OBVIOUS
<1>2. PICK kept : kept = NewestRows(full, limit * size) /\ kept \subseteq DOMAIN full
  BY DEF NewestRows
<1>3. DOMAIN tab = kept /\ \A m \in kept : tab[m] = full[m]
  BY <1>2
<1>4. Parsed(tab) = kept
  BY <1>2, <1>3 DEF Parsed
<1>5. CASE DOMAIN full = {}
  <2>1. FillJoinedCandles(tab, size, limit) = << >>
    BY <1>2, <1>4, <1>5, FillIsSeries
  <2>2. c = << >> /\ Len(c) = 0
    <3>1. Reverse(<< >>) = << >>
      BY DEF Reverse
    <3> QED BY <1>1, <2>1, <3>1
  <2>3. Shows(c, full, size)
    BY <1>5, <2>2 DEF Shows
  <2> QED BY <1>1, <2>3
<1>6. CASE DOMAIN full # {}
  <2>1. PICK top : top = Max(DOMAIN full)
    OBVIOUS
  <2>2. /\ top \in kept /\ top \in Nat /\ \A m \in DOMAIN full : m \in Nat /\ m <= top
        /\ \A m \in DOMAIN full : BucketOf(m, size) >= BucketOf(top, size) - (limit - 1) * size => m \in kept
    BY <1>2, <1>6, <2>1, NewestReach
  <2>3. IsTable(tab, b) /\ Parsed(tab) # {}
    BY <1>2, <1>3, <1>4, <2>2 DEF IsTable
  <2>4. PICK f : IsChain(f, tab, size, limit)
    BY <2>3, SeriesChain
  <2> DEFINE C(i) == CandleAt(tab, size, limit, i, f[i - 1])
  <2>5. PICK n, start, last \in Nat :
           /\ n = Count(tab, size, limit) /\ start = StartKey(tab, size, limit) /\ last = LastKey(tab, size)
           /\ last \in Keys(tab, size) /\ \A k \in Keys(tab, size) : k <= last
           /\ 1 <= n /\ start + (n - 1) * size = last /\ start >= last - (limit - 1) * size
    BY <2>3, Window
  <2>6. last = BucketOf(top, size)
    <3>1. BucketOf(top, size) \in Keys(tab, size)
      BY <1>4, <2>2 DEF Keys
    <3>2. PICK m \in kept : last = BucketOf(m, size)
      BY <1>4, <2>5 DEF Keys
    <3>3. BucketOf(m, size) <= BucketOf(top, size)
      BY <1>2, <2>2, BucketGrows
    <3>4. BucketOf(top, size) \in Nat
      BY <2>2, BucketFacts
    <3>5. PICK w \in Nat : w = BucketOf(top, size) /\ w <= last /\ last <= w
      BY <2>5, <3>1, <3>2, <3>3, <3>4
    <3> QED BY <3>5
  <2>7. FillJoinedCandles(tab, size, limit) = [i \in 1..n |-> C(i)]
    BY <2>4, <2>5 DEF IsChain
  <2> HIDE DEF C
  <2>8. Len(c) = n /\ \A i \in 1..n : c[i] = C((n - i) + 1) /\ (n - i) + 1 \in 1..n
    <3>1. PICK F : F = [i \in 1..n |-> C(i)]
      OBVIOUS
    <3>2. F = [i \in 1..n |-> F[i]] /\ \A i \in 1..n : F[i] = C(i)
      BY <3>1
    <3>3. c = Reverse(F)
      BY <1>1, <2>7, <3>1
    <3>4. /\ Len(c) = n
          /\ \A i \in 1..n : c[i] = F[(n - i) + 1] /\ (n - i) + 1 \in 1..n
      <4>1. /\ Len(Reverse(F)) = n
            /\ \A i \in 1..n : Reverse(F)[i] = F[(n - i) + 1] /\ (n - i) + 1 \in 1..n
        BY <3>2, Backwards
      <4> QED BY <3>3, <4>1
    <3> QED BY <3>2, <3>4
  <2>9. ASSUME NEW j \in 1..n
        PROVE  LET key == KeyAt(tab, size, limit, j)
                   ms == {m \in DOMAIN full : BucketOf(m, size) = key /\ full[m].close # 0}
               IN /\ C(j).t = key
                  /\ C(j).volume = IF ms = {} THEN 0 ELSE SumVolumes([m \in ms |-> full[m].volume])
                  /\ C(j).close = IF ms = {} THEN C(j).open ELSE full[Max(ms)].close
                  /\ key >= start /\ key >= last - (limit - 1) * size /\ key <= last
    <3>1. PICK key, ms : /\ key = KeyAt(tab, size, limit, j)
                         /\ ms = {m \in DOMAIN full : BucketOf(m, size) = key /\ full[m].close # 0}
      OBVIOUS
    <3>2. key >= start /\ key >= last - (limit - 1) * size /\ key <= last
      <4>1. (j - 1) * size \in Nat /\ (j - 1) * size <= (n - 1) * size
        OBVIOUS
      <4>2. key = start + (j - 1) * size
        BY <2>5, <3>1 DEF KeyAt
      <4>3. (limit - 1) * size \in Int
        OBVIOUS
      <4> QED BY <2>5, <4>1, <4>2, <4>3
    <3>3. ms = Bucket(tab, size, key)
      <4>1. \A m \in DOMAIN full : BucketOf(m, size) = key => m \in kept
        BY <2>2, <2>6, <3>2
      <4> QED BY <1>2, <1>4, <3>1, <4>1 DEF Bucket
    <3>4. CASE ms = {}
      <4>1. C(j) = FlatCandle(key, f[j - 1])
        BY <3>1, <3>3, <3>4 DEF C, CandleAt
      <4>2. C(j).t = key /\ C(j).volume = 0 /\ C(j).close = C(j).open
        BY <4>1 DEF FlatCandle
      <4> QED BY <3>1, <3>2, <3>4, <4>2
    <3>5. CASE ms # {}
      <4>1. C(j) = TradedCandle(tab, key, ms, f[j - 1])
        BY <3>1, <3>3, <3>5 DEF C, CandleAt
      <4>2. C(j).t = key /\ C(j).volume = SumVolumes([m \in ms |-> tab[m].volume]) /\ C(j).close = tab[Max(ms)].close
        BY <4>1 DEF TradedCandle
      <4>3. \A m \in ms : tab[m] = full[m]
        BY <1>3, <1>4, <3>3 DEF Bucket
      <4>4. [m \in ms |-> tab[m].volume] = [m \in ms |-> full[m].volume]
        BY <4>3
      <4>5. Max(ms) \in ms
        BY <2>3, <3>3, <3>5, BucketLast
      <4> QED BY <3>1, <3>2, <3>5, <4>2, <4>3, <4>4, <4>5
    <3> QED BY <3>4, <3>5
  <2>10. c # << >> /\ \E i \in 1..n : c[i].t = BucketOf(top, size)
    <3>1. 1 \in 1..n /\ (n - 1) + 1 = n /\ n \in 1..n
      BY <2>5
    <3>2. c[1] = C(n)
      BY <2>8, <3>1
    <3>3. C(n).t = KeyAt(tab, size, limit, n)
      BY <2>9, <3>1
    <3>4. KeyAt(tab, size, limit, n) = last
      BY <2>5 DEF KeyAt
    <3>5. c # << >>
      <4>1. Len(<< >>) = 0
        OBVIOUS
      <4> QED BY <2>5, <2>8, <4>1
    <3> QED BY <2>6, <3>1, <3>2, <3>3, <3>4, <3>5
  <2>11. ASSUME NEW i \in 1..n
         PROVE  LET ms == {m \in DOMAIN full : BucketOf(m, size) = c[i].t /\ full[m].close # 0}
                IN /\ c[i].volume = IF ms = {} THEN 0 ELSE SumVolumes([m \in ms |-> full[m].volume])
                   /\ c[i].close = IF ms = {} THEN c[i].open ELSE full[Max(ms)].close
                   /\ c[i].t <= BucketOf(top, size)
    <3>1. PICK j \in 1..n : c[i] = C(j)
      BY <2>8
    <3>2. PICK key, ms : /\ key = KeyAt(tab, size, limit, j)
                         /\ ms = {m \in DOMAIN full : BucketOf(m, size) = key /\ full[m].close # 0}
      OBVIOUS
    <3>3. /\ C(j).t = key /\ C(j).close = (IF ms = {} THEN C(j).open ELSE full[Max(ms)].close)
          /\ C(j).volume = (IF ms = {} THEN 0 ELSE SumVolumes([m \in ms |-> full[m].volume]))
          /\ key <= last
      BY <2>9, <3>2
    <3>4. ms = {m \in DOMAIN full : BucketOf(m, size) = c[i].t /\ full[m].close # 0}
      BY <3>1, <3>2, <3>3
    <3> QED BY <2>6, <3>1, <3>3, <3>4
  <2>12. ASSUME NEW i \in 1..n, NEW m \in DOMAIN full, c[i].t <= BucketOf(m, size)
         PROVE  \E j \in 1..n : c[j].t = BucketOf(m, size)
    <3>1. PICK a \in 1..n : c[i] = C(a)
      BY <2>8
    <3>2. PICK w \in Nat : w = BucketOf(m, size)
      BY <2>2, BucketFacts
    <3>3. w >= start /\ w >= last - (limit - 1) * size
      <4>1. PICK key : /\ key = KeyAt(tab, size, limit, a) /\ C(a).t = key
                       /\ key >= start /\ key >= last - (limit - 1) * size
        BY <2>9
      <4>2. key \in Int
        <5>1. (a - 1) * size \in Int
          OBVIOUS
        <5> QED BY <2>5, <4>1, <5>1 DEF KeyAt
      <4>3. (limit - 1) * size \in Int
        OBVIOUS
      <4> QED BY <2>12, <3>1, <3>2, <4>1, <4>2, <4>3
    <3>4. w \in Keys(tab, size)
      <4>1. m \in kept
        BY <2>2, <2>6, <3>2, <3>3
      <4> QED BY <1>4, <3>2, <4>1 DEF Keys
    <3>5. PICK q \in 1..n : w = KeyAt(tab, size, limit, q)
      <4>1. w \in Keys(tab, size) /\ w >= StartKey(tab, size, limit)
        BY <2>5, <3>3, <3>4
      <4>2. \E q \in 1..Count(tab, size, limit) : w = KeyAt(tab, size, limit, q)
        BY <2>3, <4>1, WindowCovers
      <4> QED BY <2>5, <4>2
    <3>6. C(q).t = w
      BY <2>9, <3>5
    <3>7. PICK j \in 1..n : c[j] = C(q)
      <4>1. (n - q) + 1 \in 1..n /\ (n - ((n - q) + 1)) + 1 = q
        OBVIOUS
      <4> QED BY <2>8, <4>1
    <3> QED BY <3>2, <3>6, <3>7
  <2>13. Shows(c, full, size)
    BY <1>6, <2>1, <2>8, <2>10, <2>11, <2>12 DEF Shows
  <2> QED BY <1>1, <2>13
<1> QED BY <1>5, <1>6

-----------------------------------------------------------------------------
(* The ledger of a wallet.                                                 *)

Ledgers == [tokensHeld : Int, costEth : Int, realizedEth : Int, trades : Int]
Swaps == [isBuy : BOOLEAN, eth : Nat, tokens : Nat]

\* The function that Position defines.
IsLedger(a, rows) == a = [n \in 0..Len(rows) |-> IF n = 0 THEN Fresh ELSE Swap(a[n - 1], rows[n])]

\* The share t of h of a cost c lies between nothing and c, and all of h has all of c.
LEMMA Share ==
  ASSUME NEW c \in Nat, NEW t \in Nat, NEW h \in Nat, h > 0, t <= h
  PROVE  /\ (c * t) \div h \in Int /\ 0 <= (c * t) \div h /\ (c * t) \div h <= c
         /\ t = h => (c * t) \div h = c
<1>1. \A a \in Nat, b \in Nat, k \in Nat : b > 0 /\ a <= k * b => a \div b <= k
  OBVIOUS
<1>2. \A k \in Nat, b \in Nat : b > 0 => (k * b) \div b = k
  OBVIOUS
<1>3. \A a \in Nat, b \in Nat : b > 0 => a \div b \in Nat
  OBVIOUS
<1>4. c * t \in Nat /\ c * t <= c * h
  OBVIOUS
<1> QED BY <1>1, <1>2, <1>3, <1>4

\* Trunc is an integer.
LEMMA TruncType ==
  ASSUME NEW a \in Int, NEW b \in Int, b > 0
  PROVE  Trunc(a, b) \in Int
BY DEF Trunc

\* Trunc of such a share.
LEMMA TruncShare ==
  ASSUME NEW c \in Nat, NEW t \in Nat, NEW h \in Nat, h > 0, t <= h
  PROVE  /\ Trunc(c * t, h) \in Int /\ Trunc(c * t, h) <= c
         /\ t = h => Trunc(c * t, h) = c
<1>1. c * t >= 0
  OBVIOUS
<1>2. Trunc(c * t, h) = (c * t) \div h
  BY <1>1 DEF Trunc
<1> QED BY <1>2, Share

\* What a swap does to the ledger.
LEMMA SwapEffect ==
  ASSUME NEW p \in Ledgers, NEW row \in Swaps
  PROVE  LET q == Swap(p, row)
             sold == Trunc(p.costEth * row.tokens, p.tokensHeld)
         IN /\ q \in Ledgers
            /\ row.isBuy =>
                 /\ q.tokensHeld = p.tokensHeld + row.tokens /\ q.costEth = p.costEth + row.eth
                 /\ q.realizedEth = p.realizedEth
            /\ (~row.isBuy /\ p.tokensHeld > 0) =>
                 /\ sold \in Int /\ q.tokensHeld = p.tokensHeld - row.tokens
                 /\ q.costEth = p.costEth - sold /\ q.realizedEth = p.realizedEth + row.eth - sold
            /\ (~row.isBuy /\ ~(p.tokensHeld > 0)) =>
                 /\ q.tokensHeld = p.tokensHeld /\ q.costEth = p.costEth
                 /\ q.realizedEth = p.realizedEth + row.eth
<1>1. /\ p.tokensHeld \in Int /\ p.costEth \in Int /\ p.realizedEth \in Int /\ p.trades \in Int
      /\ row.eth \in Nat /\ row.tokens \in Nat /\ row.isBuy \in BOOLEAN
  BY DEF Ledgers, Swaps
<1>0. p = [tokensHeld |-> p.tokensHeld, costEth |-> p.costEth, realizedEth |-> p.realizedEth, trades |-> p.trades]
  BY DEF Ledgers
<1>2. PICK sold : sold = Trunc(p.costEth * row.tokens, p.tokensHeld)
  OBVIOUS
<1>3. p.tokensHeld > 0 => sold \in Int
  BY <1>1, <1>2, TruncType
<1>4. CASE row.isBuy
  <2>1. Swap(p, row) = [p EXCEPT !.tokensHeld = p.tokensHeld + row.tokens,
                                 !.costEth = p.costEth + row.eth, !.trades = p.trades + 1]
    BY <1>4 DEF Swap, Buy, Ledgers
  <2>2. /\ Swap(p, row).tokensHeld = p.tokensHeld + row.tokens /\ Swap(p, row).costEth = p.costEth + row.eth
        /\ Swap(p, row).realizedEth = p.realizedEth
    BY <2>1 DEF Ledgers
  <2>3. Swap(p, row) \in Ledgers
    <3>1. Swap(p, row) = [tokensHeld |-> p.tokensHeld + row.tokens, costEth |-> p.costEth + row.eth, realizedEth |-> p.realizedEth, trades |-> p.trades + 1]
      BY <1>0, <2>1
    <3>2. p.tokensHeld + row.tokens \in Int /\ p.costEth + row.eth \in Int /\ p.realizedEth \in Int /\ p.trades + 1 \in Int
      BY <1>1
    <3> QED BY <3>1, <3>2 DEF Ledgers
  <2> QED BY <1>4, <2>2, <2>3
<1>5. CASE ~row.isBuy /\ p.tokensHeld > 0
  <2>1. Swap(p, row) = [p EXCEPT !.realizedEth = p.realizedEth + row.eth - sold, !.costEth = p.costEth - sold,
                                 !.tokensHeld = p.tokensHeld - row.tokens, !.trades = p.trades + 1]
    BY <1>2, <1>5 DEF Swap, Sell, Ledgers
  <2>2. /\ Swap(p, row).tokensHeld = p.tokensHeld - row.tokens /\ Swap(p, row).costEth = p.costEth - sold
        /\ Swap(p, row).realizedEth = p.realizedEth + row.eth - sold
    BY <2>1 DEF Ledgers
  <2>3. Swap(p, row) \in Ledgers
    <3>1. Swap(p, row) = [tokensHeld |-> p.tokensHeld - row.tokens, costEth |-> p.costEth - sold,
                          realizedEth |-> p.realizedEth + row.eth - sold, trades |-> p.trades + 1]
      BY <1>0, <2>1
    <3>2. /\ p.tokensHeld - row.tokens \in Int /\ p.costEth - sold \in Int
          /\ p.realizedEth + row.eth - sold \in Int /\ p.trades + 1 \in Int
      BY <1>1, <1>3, <1>5
    <3> QED BY <3>1, <3>2 DEF Ledgers
  <2> QED BY <1>2, <1>3, <1>5, <2>2, <2>3
<1>6. CASE ~row.isBuy /\ ~(p.tokensHeld > 0)
  <2>1. Swap(p, row) = [p EXCEPT !.realizedEth = p.realizedEth + row.eth, !.trades = p.trades + 1]
    BY <1>6 DEF Swap, Sell, Ledgers
  <2>2. /\ Swap(p, row).tokensHeld = p.tokensHeld /\ Swap(p, row).costEth = p.costEth
        /\ Swap(p, row).realizedEth = p.realizedEth + row.eth
    BY <2>1 DEF Ledgers
  <2>3. Swap(p, row) \in Ledgers
    <3>1. Swap(p, row) = [tokensHeld |-> p.tokensHeld, costEth |-> p.costEth, realizedEth |-> p.realizedEth + row.eth, trades |-> p.trades + 1]
      BY <1>0, <2>1
    <3>2. p.tokensHeld \in Int /\ p.costEth \in Int /\ p.realizedEth + row.eth \in Int /\ p.trades + 1 \in Int
      BY <1>1
    <3> QED BY <3>1, <3>2 DEF Ledgers
  <2> QED BY <1>6, <2>2, <2>3
<1> QED BY <1>1, <1>4, <1>5, <1>6

\* Position folds the swaps, oldest first.
LEMMA PositionFolds ==
  ASSUME NEW rows \in Seq(Swaps), NEW burned
  PROVE  \E a \in [0..Len(rows) -> Ledgers] :
           /\ a[0] = Fresh /\ \A i \in 1..Len(rows) : a[i] = Swap(a[i - 1], rows[i])
           /\ Position(rows, burned) = Burn(a[Len(rows)], burned)
<1> DEFINE n == Len(rows)
           s == [i \in 1..n |-> [p \in Ledgers |-> Swap(p, rows[i])]]
<1>1. n \in Nat /\ \A i \in 1..n : rows[i] \in Swaps
  OBVIOUS
<1>2. \A i \in 1..n : \A p \in Ledgers : Swap(p, rows[i]) \in Ledgers
  BY <1>1, SwapEffect
<1>3. s \in [1..n -> [Ledgers -> Ledgers]]
  BY <1>2
<1>4. \A i \in 1..n : \A p \in Ledgers : s[i][p] = Swap(p, rows[i])
  OBVIOUS
<1>5. Fresh \in Ledgers
  BY DEF Fresh, Ledgers
<1> HIDE DEF s, n
<1>6. PICK g \in [0..n -> Ledgers] : IsRun(g, Fresh, s, n)
  BY <1>1, <1>3, <1>5, Iterates
<1>7. \A i \in 1..n : i - 1 \in 0..n /\ i # 0
  BY <1>1
<1>8. \A i \in 1..n : g[i] = Swap(g[i - 1], rows[i])
  BY <1>4, <1>6, <1>7 DEF IsRun
<1>9. g[0] = Fresh
  BY <1>6 DEF IsRun
<1>10. \A i \in 0..n : g[i] = IF i = 0 THEN Fresh ELSE Swap(g[i - 1], rows[i])
  <2>1. \A i \in 0..n : i = 0 \/ i \in 1..n
    BY <1>1
  <2> QED BY <1>7, <1>8, <1>9, <2>1
<1>11. IsLedger(g, rows)
  BY <1>10 DEF IsLedger, n
<1> DEFINE c == CHOOSE a : IsLedger(a, rows)
<1>12. IsLedger(c, rows)
  BY <1>11
<1>13. Position(rows, burned) = Burn(c[n], burned)
  BY DEF Position, IsLedger, n
<1> HIDE DEF c
<1>14. c[0] = Fresh /\ \A i \in 1..n : c[i] = Swap(c[i - 1], rows[i])
  <2>1. 0 \in 0..n /\ \A i \in 1..n : i \in 0..n
    BY <1>1
  <2>2. \A i \in 0..n : c[i] = IF i = 0 THEN Fresh ELSE Swap(c[i - 1], rows[i])
    BY <1>12 DEF IsLedger, n
  <2> QED BY <1>7, <2>1, <2>2
<1>15. \A i \in 0..n : c[i] \in Ledgers
  <2>1. c[0] \in Ledgers /\ \A i \in 1..n : c[i - 1] \in Ledgers => c[i] \in Ledgers
    BY <1>2, <1>5, <1>14
  <2> QED BY <1>1, <2>1, RunTyped
<1>16. c \in [0..n -> Ledgers]
  BY <1>12, <1>15 DEF IsLedger, n
<1> QED BY <1>13, <1>14, <1>16 DEF n

\* What a burn does: a cost leaves both halves.
LEMMA BurnEffect ==
  ASSUME NEW p \in Ledgers, NEW burned \in Nat
  PROVE  LET q == Burn(p, burned)
             debited == IF burned > p.tokensHeld THEN p.tokensHeld ELSE burned
             lost == IF p.tokensHeld > 0 THEN Trunc(p.costEth * debited, p.tokensHeld) ELSE 0
         IN /\ lost \in Int /\ q.tokensHeld = p.tokensHeld - debited
            /\ q.costEth = p.costEth - lost /\ q.realizedEth = p.realizedEth - lost
<1>1. p.tokensHeld \in Int /\ p.costEth \in Int /\ p.realizedEth \in Int /\ p.trades \in Int
  BY DEF Ledgers
<1>2. PICK debited \in Int : debited = IF burned > p.tokensHeld THEN p.tokensHeld ELSE burned
  BY <1>1
<1>3. PICK lost : lost = IF p.tokensHeld > 0 THEN Trunc(p.costEth * debited, p.tokensHeld) ELSE 0
  OBVIOUS
<1>4. lost \in Int
  <2>1. p.costEth * debited \in Int
    BY <1>1
  <2> QED BY <1>1, <1>3, <2>1, TruncType
<1>5. Burn(p, burned) = [p EXCEPT !.costEth = p.costEth - lost, !.realizedEth = p.realizedEth - lost,
                                  !.tokensHeld = p.tokensHeld - debited]
  BY <1>2, <1>3 DEF Burn, Ledgers
<1> QED BY <1>1, <1>2, <1>3, <1>4, <1>5 DEF Ledgers

\* The types of the swaps of a sequence.
LEMMA SwapTypes ==
  ASSUME NEW rows \in Seq(Swaps)
  PROVE  \A i \in 1..Len(rows) :
           rows[i] \in Swaps /\ rows[i].eth \in Nat /\ rows[i].tokens \in Nat /\ rows[i].isBuy \in BOOLEAN
<1>1. \A r \in Swaps : r.eth \in Nat /\ r.tokens \in Nat /\ r.isBuy \in BOOLEAN
  BY DEF Swaps
<1>2. \A i \in 1..Len(rows) : rows[i] \in Swaps
  OBVIOUS
<1> QED BY <1>1, <1>2

\* The columns of the swaps, and their sums.
LEMMA ColumnSum ==
  ASSUME NEW rows \in Seq(Swaps), NEW buys \in BOOLEAN, NEW of \in {"eth", "tokens"}
  PROVE  /\ Total(Column(rows, buys, of), 0) = 0
         /\ \A n \in 0..Len(rows) : Total(Column(rows, buys, of), n) \in Int
         /\ \A n \in 1..Len(rows) :
              Total(Column(rows, buys, of), n) =
                Total(Column(rows, buys, of), n - 1) + (IF rows[n].isBuy = buys THEN rows[n][of] ELSE 0)
<1> DEFINE C == Column(rows, buys, of)
<1>1. \A i \in 1..Len(rows) : rows[i].eth \in Nat /\ rows[i].tokens \in Nat /\ rows[i] \in Swaps
  BY SwapTypes
<1>2. \A i \in 1..Len(rows) : rows[i][of] \in Nat
  BY <1>1
<1>3. \A i \in 1..Len(rows) : C[i] = IF rows[i].isBuy = buys THEN rows[i][of] ELSE 0
  BY DEF Column
<1>4. \A i \in 1..Len(rows) : C[i] \in Int
  BY <1>2, <1>3
<1> HIDE DEF C
<1>5. Total(C, 0) = 0
  BY TotalZero
<1>6. \A n \in 0..Len(rows) : Total(C, n) \in Int
  <2> SUFFICES ASSUME NEW n \in 0..Len(rows) PROVE Total(C, n) \in Int
    OBVIOUS
  <2>1. n \in Nat /\ \A i \in 1..n : C[i] \in Int
    BY <1>4
  <2> QED BY <2>1, TotalType
<1>7. \A n \in 1..Len(rows) : Total(C, n) = Total(C, n - 1) + C[n]
  <2> SUFFICES ASSUME NEW n \in 1..Len(rows) PROVE Total(C, n) = Total(C, n - 1) + C[n]
    OBVIOUS
  <2>1. PICK m \in Nat : n = m + 1 /\ m = n - 1
    OBVIOUS
  <2>2. \A i \in 1..(m + 1) : C[i] \in Int
    BY <1>4, <2>1
  <2> QED BY <2>1, <2>2, TotalStep
<1> QED BY <1>3, <1>5, <1>6, <1>7 DEF C

\* Both halves of the ledger move together.
LEMMA LedgerConserves ==
  ASSUME NEW rows \in Seq(Swaps), NEW burned \in Nat
  PROVE  Position(rows, burned).realizedEth - Position(rows, burned).costEth =
           Total(Column(rows, FALSE, "eth"), Len(rows)) - Total(Column(rows, TRUE, "eth"), Len(rows))
<1> DEFINE In(n) == Total(Column(rows, FALSE, "eth"), n)
           Paid(n) == Total(Column(rows, TRUE, "eth"), n)
<1>1. PICK a \in [0..Len(rows) -> Ledgers] :
        /\ a[0] = Fresh /\ \A i \in 1..Len(rows) : a[i] = Swap(a[i - 1], rows[i])
        /\ Position(rows, burned) = Burn(a[Len(rows)], burned)
  BY PositionFolds
<1>2. /\ In(0) = 0 /\ Paid(0) = 0
      /\ \A n \in 0..Len(rows) : In(n) \in Int /\ Paid(n) \in Int
      /\ \A n \in 1..Len(rows) :
           /\ In(n) = In(n - 1) + (IF rows[n].isBuy = FALSE THEN rows[n].eth ELSE 0)
           /\ Paid(n) = Paid(n - 1) + (IF rows[n].isBuy = TRUE THEN rows[n].eth ELSE 0)
  BY ColumnSum
<1> HIDE DEF In, Paid
<1>3. \A i \in 1..Len(rows) :
        rows[i] \in Swaps /\ rows[i].eth \in Nat /\ rows[i].isBuy \in BOOLEAN /\ i - 1 \in 0..Len(rows) /\ i \in 0..Len(rows)
  BY SwapTypes
<1>4. \A i \in 0..Len(rows) :
        a[i] \in Ledgers /\ a[i].realizedEth \in Int /\ a[i].costEth \in Int
  BY DEF Ledgers
<1> DEFINE S == {n \in Nat : n <= Len(rows) => a[n].realizedEth - a[n].costEth = In(n) - Paid(n)}
<1>5. 0 \in S
  BY <1>1, <1>2 DEF Fresh
<1>6. ASSUME NEW n \in Nat, n + 1 <= Len(rows), a[n].realizedEth - a[n].costEth = In(n) - Paid(n)
      PROVE  a[n + 1].realizedEth - a[n + 1].costEth = In(n + 1) - Paid(n + 1)
  <2>1. PICK m \in 1..Len(rows) : m = n + 1 /\ m - 1 = n
    BY <1>6
  <2>2. PICK p, q \in Ledgers, row \in Swaps : p = a[n] /\ q = a[m] /\ row = rows[m] /\ q = Swap(p, row)
    BY <1>1, <1>3, <1>4, <2>1
  <2>3. /\ p.realizedEth \in Int /\ p.costEth \in Int /\ row.eth \in Nat /\ row.isBuy \in BOOLEAN
        /\ In(n) \in Int /\ Paid(n) \in Int
    BY <1>2, <1>3, <2>1, <2>2 DEF Ledgers, Swaps
  <2>4. /\ In(m) = In(n) + (IF row.isBuy THEN 0 ELSE row.eth)
        /\ Paid(m) = Paid(n) + (IF row.isBuy THEN row.eth ELSE 0)
    BY <1>2, <2>1, <2>2, <2>3
  <2>5. q.realizedEth - q.costEth = p.realizedEth - p.costEth + (IF row.isBuy THEN -row.eth ELSE row.eth)
    <3>1. CASE row.isBuy
      <4>1. q.costEth = p.costEth + row.eth /\ q.realizedEth = p.realizedEth
        BY <2>2, <3>1, SwapEffect, SMTT(30)
      <4> QED BY <2>3, <3>1, <4>1
    <3>2. CASE ~row.isBuy /\ p.tokensHeld > 0
      <4>1. PICK sold : sold = Trunc(p.costEth * row.tokens, p.tokensHeld)
        OBVIOUS
      <4>2. sold \in Int /\ q.costEth = p.costEth - sold /\ q.realizedEth = p.realizedEth + row.eth - sold
        BY <2>2, <3>2, <4>1, SwapEffect
      <4> QED BY <2>3, <3>2, <4>2
    <3>3. CASE ~row.isBuy /\ ~(p.tokensHeld > 0)
      <4>1. q.costEth = p.costEth /\ q.realizedEth = p.realizedEth + row.eth
        BY <2>2, <3>3, SwapEffect
      <4> QED BY <2>3, <3>3, <4>1
    <3> QED BY <3>1, <3>2, <3>3
  <2> QED BY <1>6, <2>1, <2>2, <2>3, <2>4, <2>5
<1>7. \A n \in Nat : n \in S => n + 1 \in S
  BY <1>6
<1>8. Len(rows) \in S /\ Len(rows) \in Nat /\ Len(rows) \in 0..Len(rows)
  <2>1. Len(rows) \in Nat
    OBVIOUS
  <2>2. Nat \subseteq S
    <3> HIDE DEF S
    <3> QED BY <1>5, <1>7, Induct
  <2> QED BY <2>1, <2>2
<1>9. a[Len(rows)].realizedEth - a[Len(rows)].costEth = In(Len(rows)) - Paid(Len(rows))
  BY <1>8
<1>10. PICK p \in Ledgers : p = a[Len(rows)] /\ p.realizedEth \in Int /\ p.costEth \in Int
  BY <1>4, <1>8
<1>11. PICK lost \in Int :
         Burn(p, burned).costEth = p.costEth - lost /\ Burn(p, burned).realizedEth = p.realizedEth - lost
  BY BurnEffect
<1>12. Position(rows, burned).realizedEth - Position(rows, burned).costEth = p.realizedEth - p.costEth
  BY <1>1, <1>10, <1>11
<1> QED BY <1>9, <1>10, <1>12 DEF In, Paid

\* A wallet that never oversold holds what it bought less what it sold.
LEMMA LedgerExhausts ==
  ASSUME NEW rows \in Seq(Swaps), NEW burned \in Nat,
         \A n \in 1..Len(rows) : NetTokens(rows, n) >= 0 /\ rows[n].tokens > 0
  PROVE  LET pos == Position(rows, burned)
         IN /\ pos.tokensHeld = Max({NetTokens(rows, Len(rows)) - burned, 0})
            /\ pos.costEth >= 0
            /\ pos.tokensHeld = 0 => pos.costEth = 0
<1> DEFINE Net(n) == NetTokens(rows, n)
<1>1. PICK a \in [0..Len(rows) -> Ledgers] :
        /\ a[0] = Fresh /\ \A i \in 1..Len(rows) : a[i] = Swap(a[i - 1], rows[i])
        /\ Position(rows, burned) = Burn(a[Len(rows)], burned)
  BY PositionFolds
<1>3. \A i \in 1..Len(rows) :
        /\ rows[i] \in Swaps /\ rows[i].tokens \in Nat /\ rows[i].eth \in Nat /\ rows[i].isBuy \in BOOLEAN
        /\ i - 1 \in 0..Len(rows) /\ i \in 0..Len(rows)
  BY SwapTypes
<1>2. /\ Net(0) = 0
      /\ \A n \in 0..Len(rows) : Net(n) \in Int
      /\ \A n \in 1..Len(rows) : Net(n) = Net(n - 1) + (IF rows[n].isBuy THEN rows[n].tokens ELSE -rows[n].tokens)
  <2> DEFINE B(n) == Total(Column(rows, TRUE, "tokens"), n)
             C(n) == Total(Column(rows, FALSE, "tokens"), n)
  <2>1. /\ B(0) = 0 /\ C(0) = 0
        /\ \A n \in 0..Len(rows) : B(n) \in Int /\ C(n) \in Int
        /\ \A n \in 1..Len(rows) :
             /\ B(n) = B(n - 1) + (IF rows[n].isBuy = TRUE THEN rows[n].tokens ELSE 0)
             /\ C(n) = C(n - 1) + (IF rows[n].isBuy = FALSE THEN rows[n].tokens ELSE 0)
    BY ColumnSum
  <2>2. \A n : Net(n) = B(n) - C(n)
    BY DEF NetTokens
  <2> HIDE DEF B, C, Net
  <2>3. Net(0) = 0 /\ \A n \in 0..Len(rows) : Net(n) \in Int
    BY <2>1, <2>2
  <2>4. ASSUME NEW n \in 1..Len(rows)
        PROVE  Net(n) = Net(n - 1) + (IF rows[n].isBuy THEN rows[n].tokens ELSE -rows[n].tokens)
    <3>1. PICK t \in Nat, y \in BOOLEAN : t = rows[n].tokens /\ y = rows[n].isBuy
      BY <1>3
    <3>2. B(n - 1) \in Int /\ C(n - 1) \in Int
      BY <1>3, <2>1
    <3>3. B(n) = B(n - 1) + (IF y = TRUE THEN t ELSE 0) /\ C(n) = C(n - 1) + (IF y = FALSE THEN t ELSE 0)
      BY <2>1, <3>1
    <3>4. CASE y = TRUE
      BY <2>2, <3>1, <3>2, <3>3, <3>4
    <3>5. CASE y = FALSE
      BY <2>2, <3>1, <3>2, <3>3, <3>5
    <3> QED BY <3>4, <3>5
  <2> QED BY <2>3, <2>4
<1> DEFINE Ok(p, k) == p.tokensHeld = k /\ p.costEth >= 0 /\ (p.tokensHeld = 0 => p.costEth = 0)
           S == {n \in Nat : n <= Len(rows) => Ok(a[n], Net(n))}
<1>4. \A n \in 1..Len(rows) : Net(n) >= 0 /\ rows[n].tokens > 0
  OBVIOUS
<1> HIDE DEF Net
<1>5. 0 \in S
  BY <1>1, <1>2 DEF Fresh
<1>6. ASSUME NEW n \in Nat, n + 1 <= Len(rows), Ok(a[n], Net(n)) PROVE Ok(a[n + 1], Net(n + 1))
  <2>1. PICK m \in 1..Len(rows) : m = n + 1 /\ m - 1 = n
    BY <1>6
  <2>2. PICK p, q \in Ledgers, row \in Swaps : p = a[n] /\ q = a[m] /\ row = rows[m] /\ q = Swap(p, row)
    BY <1>1, <1>3, <2>1
  <2>3. /\ p.tokensHeld \in Int /\ p.costEth \in Int /\ row.eth \in Nat /\ row.tokens \in Nat
        /\ row.isBuy \in BOOLEAN /\ row.tokens > 0
    BY <1>4, <2>1, <2>2 DEF Ledgers, Swaps
  <2>4. PICK k, l \in Int : k = Net(n) /\ l = Net(m) /\ l >= 0 /\ l = k + (IF row.isBuy THEN row.tokens ELSE -row.tokens)
    BY <1>2, <1>3, <1>4, <2>1, <2>2
  <2>5. p.tokensHeld = k /\ p.costEth >= 0 /\ (k = 0 => p.costEth = 0)
    BY <1>6, <2>2, <2>4
  <2>6. k >= 0
    <3>1. CASE n = 0
      BY <1>2, <2>4, <3>1
    <3>2. CASE n # 0
      <4>1. n \in 1..Len(rows)
        BY <1>6, <3>2
      <4> QED BY <1>4, <2>4, <4>1
    <3> QED BY <3>1, <3>2
  <2>7. CASE row.isBuy
    <3>1. q.tokensHeld = p.tokensHeld + row.tokens /\ q.costEth = p.costEth + row.eth
      BY <2>2, <2>7, SwapEffect, SMTT(30)
    <3>2. q.tokensHeld = l /\ q.costEth >= 0 /\ q.tokensHeld # 0
      BY <2>3, <2>4, <2>5, <2>6, <2>7, <3>1
    <3> QED BY <2>1, <2>2, <2>4, <3>2
  <2>8. CASE ~row.isBuy
    <3>1. k > 0 /\ row.tokens <= k
      BY <2>3, <2>4, <2>8
    <3>2. PICK sold : sold = Trunc(p.costEth * row.tokens, k)
      OBVIOUS
    <3>3. q.tokensHeld = k - row.tokens /\ q.costEth = p.costEth - sold
      BY <2>2, <2>5, <2>8, <3>1, <3>2, SwapEffect
    <3>4. p.costEth \in Nat /\ k \in Nat
      BY <2>3, <2>5, <2>6
    <3>5. row.tokens \in Nat /\ k > 0 /\ row.tokens <= k
      BY <2>3, <3>1
    <3>6. sold \in Int /\ sold <= p.costEth /\ (row.tokens = k => sold = p.costEth)
      <4>1. PICK c, t : c = p.costEth /\ t = row.tokens
        OBVIOUS
      <4>2. c \in Nat /\ t \in Nat /\ t <= k /\ sold = Trunc(c * t, k)
        BY <3>2, <3>4, <3>5, <4>1
      <4>3. Trunc(c * t, k) \in Int /\ Trunc(c * t, k) <= c /\ (t = k => Trunc(c * t, k) = c)
        BY <3>4, <3>5, <4>2, TruncShare
      <4> QED BY <4>1, <4>2, <4>3
    <3>7. q.tokensHeld = l /\ q.costEth >= 0 /\ (q.tokensHeld = 0 => q.costEth = 0)
      <4>1. l = k - row.tokens
        BY <2>4, <2>8, <3>4, <3>5
      <4>2. PICK c, t \in Nat : c = p.costEth /\ t = row.tokens
        BY <3>4, <3>5
      <4>3. q.tokensHeld = k - t /\ q.costEth = c - sold /\ l = k - t
        BY <3>3, <4>1, <4>2
      <4>4. sold \in Int /\ sold <= c /\ (t = k => sold = c)
        BY <3>6, <4>2
      <4>5. c - sold >= 0 /\ (k - t = 0 => c - sold = 0)
        BY <3>4, <4>2, <4>4
      <4> QED BY <4>3, <4>5
    <3> QED BY <2>1, <2>2, <2>4, <3>7
  <2> QED BY <2>7, <2>8
<1>7. \A n \in Nat : n \in S => n + 1 \in S
  BY <1>6
<1>8. Len(rows) \in S /\ Len(rows) \in Nat /\ Len(rows) \in 0..Len(rows)
  <2>1. Len(rows) \in Nat
    OBVIOUS
  <2>2. Nat \subseteq S
    <3> HIDE DEF S
    <3> QED BY <1>5, <1>7, Induct
  <2> QED BY <2>1, <2>2
<1>9. PICK p \in Ledgers, k \in Int : p = a[Len(rows)] /\ k = Net(Len(rows)) /\ Ok(p, k)
  BY <1>2, <1>8
<1>10. k >= 0
  <2>1. CASE Len(rows) = 0
    BY <1>2, <1>9, <2>1
  <2>2. CASE Len(rows) # 0
    <3>1. Len(rows) \in 1..Len(rows)
      BY <1>8, <2>2
    <3> QED BY <1>4, <1>9, <3>1
  <2> QED BY <2>1, <2>2
<1>11. PICK debited : debited = IF burned > k THEN k ELSE burned
  OBVIOUS
<1>12. p.costEth \in Nat /\ k \in Nat /\ debited \in Nat /\ debited <= k
  <2>1. p.costEth \in Int
    BY DEF Ledgers
  <2> QED BY <1>9, <1>10, <1>11, <2>1
<1>13. PICK lost : lost = IF k > 0 THEN Trunc(p.costEth * debited, k) ELSE 0
  OBVIOUS
<1>14. PICK q : q = Burn(p, burned)
  OBVIOUS
<1>15. q.tokensHeld = k - debited /\ q.costEth = p.costEth - lost
  BY <1>9, <1>11, <1>13, <1>14, BurnEffect
<1>16. lost \in Int /\ lost <= p.costEth /\ (debited = k => p.costEth = lost)
  <2>1. CASE k > 0
    <3>1. p.costEth * debited >= 0
      BY <1>12
    <3>2. lost = (p.costEth * debited) \div k
      BY <1>13, <2>1, <3>1 DEF Trunc
    <3> QED BY <1>12, <2>1, <3>2, Share
  <2>2. CASE ~(k > 0)
    BY <1>9, <1>10, <1>12, <1>13, <2>2
  <2> QED BY <2>1, <2>2
<1>17. Max({k - burned, 0}) = k - debited
  <2>1. k - burned \in Int /\ 0 \in Int
    BY <1>12
  <2>2. Max({k - burned, 0}) = IF k - burned >= 0 THEN k - burned ELSE 0
    BY <2>1, MaxTwo
  <2> QED BY <1>11, <1>12, <2>2
<1>18. q.costEth >= 0 /\ (q.tokensHeld = 0 => q.costEth = 0)
  BY <1>12, <1>15, <1>16
<1> QED BY <1>1, <1>9, <1>14, <1>15, <1>17, <1>18 DEF Net

-----------------------------------------------------------------------------
(* The search for the largest buy.                                         *)

Intervals == [lo : Int, hi : Int]

\* One round of the search; n numbers its probe.
Narrow(r, eps, cap, n, flaky) ==
  LET mid == (r.lo + r.hi) \div 2
  IN IF r.hi - r.lo <= eps THEN r ELSE Halving(r.lo, r.hi, mid, Quotable(mid, cap, n, flaky))

\* The functions that Growth and MaxBuy define.
IsGrowth(c, start, grow) == c = [i \in 0..grow |-> IF i = 0 THEN start ELSE 4 * c[i - 1]]
IsSearch(c, g, steps, eps, cap, flaky) ==
  c = [i \in 0..steps |->
         IF i = 0 THEN [lo |-> 0, hi |-> g.hi] ELSE Narrow(c[i - 1], eps, cap, g.probes + i, flaky)]

\* c holds the intervals of a search whose first probes are p in number.
Searches(c, p, start, grow, steps, eps, cap, flaky) ==
  /\ c \in [0..steps -> Intervals] /\ p \in Nat
  /\ c[0] = [lo |-> 0, hi |-> Growth(start, grow, cap, flaky).hi]
  /\ \A i \in 1..steps : c[i] = Narrow(c[i - 1], eps, cap, p + i, flaky)
  /\ MaxBuy(start, grow, steps, eps, cap, flaky) = c[steps].lo

\* The upper end of the search, and the number of probes.
LEMMA GrowthType ==
  ASSUME NEW start \in Nat, NEW grow \in Nat, NEW cap, NEW flaky
  PROVE  Growth(start, grow, cap, flaky).hi \in Nat /\ Growth(start, grow, cap, flaky).probes \in Nat
<1> DEFINE s == [i \in 1..grow |-> [x \in Nat |-> 4 * x]]
<1>1. s \in [1..grow -> [Nat -> Nat]] /\ \A i \in 1..grow : \A x \in Nat : s[i][x] = 4 * x
  OBVIOUS
<1> HIDE DEF s
<1>2. PICK f \in [0..grow -> Nat] : IsRun(f, start, s, grow)
  BY <1>1, Iterates
<1>3. \A i \in 0..grow : f[i] = IF i = 0 THEN start ELSE 4 * f[i - 1]
  <2>1. \A i \in 0..grow : i = 0 \/ (i \in 1..grow /\ i # 0 /\ i - 1 \in 0..grow)
    OBVIOUS
  <2> QED BY <1>1, <1>2, <2>1 DEF IsRun
<1>4. IsGrowth(f, start, grow)
  BY <1>3 DEF IsGrowth
<1> DEFINE c == CHOOSE h : IsGrowth(h, start, grow)
           Stops(i) == i = grow \/ ~Quotable(c[i], cap, i + 2, flaky)
           S == {i \in 0..grow : Stops(i)}
           stop == Min(S)
<1>5. IsGrowth(c, start, grow)
  BY <1>4
<1>6. Growth(start, grow, cap, flaky) =
        IF ~Quotable(start, cap, 1, flaky) THEN [hi |-> start, probes |-> 1]
        ELSE [hi |-> c[stop], probes |-> Min({stop + 2, grow + 1})]
  BY DEF Growth, IsGrowth
<1>7. grow \in S /\ S \in SUBSET Nat
  OBVIOUS
<1> HIDE DEF c
<1>8. stop \in 0..grow /\ stop \in Nat
  <2>1. stop \in S
    <3> HIDE DEF S
    <3> QED BY <1>7, MinNat
  <2> QED BY <2>1
<1> HIDE DEF stop
<1>9. \A i \in 0..grow : c[i] \in Nat
  <2>1. \A i \in 0..grow : c[i] = IF i = 0 THEN start ELSE 4 * c[i - 1]
    BY <1>5 DEF IsGrowth
  <2>2. c[0] \in Nat /\ \A i \in 1..grow : c[i - 1] \in Nat => c[i] \in Nat
    <3>1. 0 \in 0..grow /\ \A i \in 1..grow : i \in 0..grow /\ i # 0
      OBVIOUS
    <3> QED BY <2>1, <3>1
  <2> QED BY <2>2, RunTyped
<1>10. Min({stop + 2, grow + 1}) \in Nat
  <2>1. stop + 2 \in Int /\ grow + 1 \in Int
    BY <1>8
  <2>2. Min({stop + 2, grow + 1}) = IF stop + 2 <= grow + 1 THEN stop + 2 ELSE grow + 1
    BY <2>1, MinTwo
  <2> QED BY <1>8, <2>2
<1> QED BY <1>6, <1>8, <1>9, <1>10

\* One round keeps what has been learnt and halves what has not.
LEMMA NarrowEffect ==
  ASSUME NEW r \in Intervals, NEW eps \in Nat, NEW cap \in Nat, NEW n, NEW flaky
  PROVE  LET q == Narrow(r, eps, cap, n, flaky)
         IN /\ q \in Intervals
            /\ r.lo <= cap => q.lo <= cap
            /\ flaky = {} => q.hi = r.hi \/ q.hi > cap
            /\ (q = r /\ r.hi - r.lo <= eps) \/ 2 * (q.hi - q.lo) <= (r.hi - r.lo) + 1
<1>1. r.lo \in Int /\ r.hi \in Int
  BY DEF Intervals
<1>2. PICK mid \in Int : mid = (r.lo + r.hi) \div 2
  BY <1>1
<1>3. PICK q : q = Narrow(r, eps, cap, n, flaky)
  OBVIOUS
<1>4. CASE r.hi - r.lo <= eps
  <2>1. q = r
    BY <1>3, <1>4 DEF Narrow
  <2> QED BY <1>1, <1>3, <1>4, <2>1
<1>5. CASE ~(r.hi - r.lo <= eps) /\ Quotable(mid, cap, n, flaky)
  <2>1. q = [lo |-> mid, hi |-> r.hi]
    BY <1>2, <1>3, <1>5 DEF Narrow, Halving
  <2>2. q.lo = mid /\ q.hi = r.hi /\ q \in Intervals
    BY <1>1, <2>1 DEF Intervals
  <2>3. mid <= cap
    BY <1>5 DEF Quotable
  <2>4. 2 * (r.hi - mid) <= (r.hi - r.lo) + 1
    BY <1>1, <1>2
  <2> QED BY <1>3, <2>2, <2>3, <2>4
<1>6. CASE ~(r.hi - r.lo <= eps) /\ ~Quotable(mid, cap, n, flaky)
  <2>1. q = [lo |-> r.lo, hi |-> mid]
    BY <1>2, <1>3, <1>6 DEF Narrow, Halving
  <2>2. q.lo = r.lo /\ q.hi = mid /\ q \in Intervals
    BY <1>1, <2>1 DEF Intervals
  <2>3. flaky = {} => mid > cap
    BY <1>6 DEF Quotable
  <2>4. 2 * (mid - r.lo) <= (r.hi - r.lo) + 1
    BY <1>1, <1>2
  <2> QED BY <1>3, <2>2, <2>3, <2>4
<1> QED BY <1>4, <1>5, <1>6

\* maxBuy narrows the interval step by step.
LEMMA SearchRuns ==
  ASSUME NEW start \in Nat, NEW grow \in Nat, NEW steps \in Nat, NEW eps \in Nat, NEW cap \in Nat, NEW flaky
  PROVE  \E c, p : Searches(c, p, start, grow, steps, eps, cap, flaky)
<1>1. PICK g : g = Growth(start, grow, cap, flaky)
  OBVIOUS
<1>2. g.hi \in Nat /\ g.probes \in Nat
  BY <1>1, GrowthType
<1> DEFINE s == [i \in 1..steps |-> [r \in Intervals |-> Narrow(r, eps, cap, g.probes + i, flaky)]]
           a == [lo |-> 0, hi |-> g.hi]
<1>3. \A n : \A r \in Intervals : Narrow(r, eps, cap, n, flaky) \in Intervals
  BY NarrowEffect
<1>4. s \in [1..steps -> [Intervals -> Intervals]]
  BY <1>3
<1>5. \A i \in 1..steps : \A r \in Intervals : s[i][r] = Narrow(r, eps, cap, g.probes + i, flaky)
  OBVIOUS
<1>6. a \in Intervals
  BY <1>2 DEF Intervals
<1> HIDE DEF s, a
<1>7. PICK f \in [0..steps -> Intervals] : IsRun(f, a, s, steps)
  BY <1>4, <1>6, Iterates
<1>8. \A i \in 0..steps : f[i] = IF i = 0 THEN a ELSE Narrow(f[i - 1], eps, cap, g.probes + i, flaky)
  <2>1. \A i \in 0..steps : i = 0 \/ (i \in 1..steps /\ i # 0 /\ i - 1 \in 0..steps)
    OBVIOUS
  <2> QED BY <1>5, <1>7, <2>1 DEF IsRun
<1>9. IsSearch(f, g, steps, eps, cap, flaky)
  BY <1>8 DEF IsSearch, a
<1> DEFINE c == CHOOSE h : IsSearch(h, g, steps, eps, cap, flaky)
<1>10. IsSearch(c, g, steps, eps, cap, flaky)
  BY <1>9
<1>11. MaxBuy(start, grow, steps, eps, cap, flaky) = c[steps].lo
  BY <1>1 DEF MaxBuy, IsSearch, Narrow
<1> HIDE DEF c
<1>12. \A i \in 0..steps : c[i] = IF i = 0 THEN a ELSE Narrow(c[i - 1], eps, cap, g.probes + i, flaky)
  BY <1>10 DEF IsSearch, a
<1>13. c[0] = a /\ \A i \in 1..steps : c[i] = Narrow(c[i - 1], eps, cap, g.probes + i, flaky)
  <2>1. 0 \in 0..steps /\ \A i \in 1..steps : i \in 0..steps /\ i # 0
    OBVIOUS
  <2> QED BY <1>12, <2>1
<1>14. \A i \in 0..steps : c[i] \in Intervals
  <2>1. c[0] \in Intervals /\ \A i \in 1..steps : c[i - 1] \in Intervals => c[i] \in Intervals
    BY <1>3, <1>6, <1>13
  <2> QED BY <2>1, RunTyped
<1>15. c \in [0..steps -> Intervals]
  BY <1>10, <1>14 DEF IsSearch
<1>16. Searches(c, g.probes, start, grow, steps, eps, cap, flaky)
  BY <1>1, <1>2, <1>11, <1>13, <1>15 DEF a, Searches
<1> QED BY <1>16

\* What maxBuy answers can be bought, whatever probes fail.
LEMMA SearchFills ==
  ASSUME NEW start \in Nat, NEW grow \in Nat, NEW steps \in Nat, NEW eps \in Nat, NEW cap \in Nat, NEW flaky
  PROVE  MaxBuy(start, grow, steps, eps, cap, flaky) <= cap
<1>0. PICK c, p : Searches(c, p, start, grow, steps, eps, cap, flaky)
  BY SearchRuns
<1>1. /\ c \in [0..steps -> Intervals] /\ p \in Nat
      /\ c[0] = [lo |-> 0, hi |-> Growth(start, grow, cap, flaky).hi]
      /\ \A i \in 1..steps : c[i] = Narrow(c[i - 1], eps, cap, p + i, flaky)
      /\ MaxBuy(start, grow, steps, eps, cap, flaky) = c[steps].lo
  BY <1>0 DEF Searches
<1> DEFINE T == {r \in Intervals : r.lo <= cap}
<1>2. c[0] \in T
  <2>1. c[0] \in Intervals /\ c[0].lo = 0 /\ 0 <= cap
    BY <1>1
  <2> QED BY <2>1
<1>3. ASSUME NEW i \in 1..steps, c[i - 1] \in T PROVE c[i] \in T
  <2>1. PICK r, q : r \in Intervals /\ r = c[i - 1] /\ r.lo <= cap /\ q = c[i] /\ q = Narrow(r, eps, cap, p + i, flaky)
    BY <1>1, <1>3
  <2>2. q \in Intervals /\ q.lo <= cap
    BY <2>1, NarrowEffect
  <2> QED BY <2>1, <2>2
<1>4. \A i \in 0..steps : c[i] \in T
  <2> HIDE DEF T
  <2> QED BY <1>2, <1>3, RunTyped
<1>5. c[steps] \in T
  BY <1>4
<1> QED BY <1>1, <1>5

\* With four halvings, what could be bought beyond the answer is a sixteenth.
LEMMA SearchTight ==
  ASSUME NEW start \in Nat, NEW grow \in Nat, NEW cap \in Nat
  PROVE  LET hi == Growth(start, grow, cap, {}).hi
         IN Min({cap, hi}) - MaxBuy(start, grow, 4, 1, cap, {}) <= Max({1, DivRoundingUp(hi, 16)})
<1>0. PICK c, p : Searches(c, p, start, grow, 4, 1, cap, {})
  <2>1. 4 \in Nat /\ 1 \in Nat
    OBVIOUS
  <2> QED BY <2>1, SearchRuns
<1>1. /\ c \in [0..4 -> Intervals] /\ p \in Nat
      /\ c[0] = [lo |-> 0, hi |-> Growth(start, grow, cap, {}).hi]
      /\ \A i \in 1..4 : c[i] = Narrow(c[i - 1], 1, cap, p + i, {})
      /\ MaxBuy(start, grow, 4, 1, cap, {}) = c[4].lo
  BY <1>0 DEF Searches
<1>2. PICK h \in Nat : h = Growth(start, grow, cap, {}).hi
  BY GrowthType
<1> DEFINE W(i) == c[i].hi - c[i].lo
<1>3. \A i \in 0..4 : c[i] \in Intervals /\ c[i].lo \in Int /\ c[i].hi \in Int
  <2>1. \A r \in Intervals : r.lo \in Int /\ r.hi \in Int
    BY DEF Intervals
  <2> QED BY <1>1, <2>1
<1>4. c[0].lo = 0 /\ c[0].hi = h
  BY <1>1, <1>2
<1>5. ASSUME NEW i \in 1..4
      PROVE  /\ c[i].hi = c[i - 1].hi \/ c[i].hi > cap
             /\ (W(i) = W(i - 1) /\ W(i - 1) <= 1) \/ 2 * W(i) <= W(i - 1) + 1
  <2>1. PICK r, q : r \in Intervals /\ r = c[i - 1] /\ q = c[i] /\ q = Narrow(r, 1, cap, p + i, {})
    BY <1>1
  <2>2. q.hi = r.hi \/ q.hi > cap
    BY <2>1, NarrowEffect
  <2>3. (q = r /\ r.hi - r.lo <= 1) \/ 2 * (q.hi - q.lo) <= (r.hi - r.lo) + 1
    BY <2>1, NarrowEffect
  <2> QED BY <2>1, <2>2, <2>3
<1>6. /\ c[1].hi = c[0].hi \/ c[1].hi > cap
      /\ c[2].hi = c[1].hi \/ c[2].hi > cap
      /\ c[3].hi = c[2].hi \/ c[3].hi > cap
      /\ c[4].hi = c[3].hi \/ c[4].hi > cap
      /\ (W(1) = W(0) /\ W(0) <= 1) \/ 2 * W(1) <= W(0) + 1
      /\ (W(2) = W(1) /\ W(1) <= 1) \/ 2 * W(2) <= W(1) + 1
      /\ (W(3) = W(2) /\ W(2) <= 1) \/ 2 * W(3) <= W(2) + 1
      /\ (W(4) = W(3) /\ W(3) <= 1) \/ 2 * W(4) <= W(3) + 1
  <2>1. 1 - 1 = 0 /\ 2 - 1 = 1 /\ 3 - 1 = 2 /\ 4 - 1 = 3 /\ 1 \in 1..4 /\ 2 \in 1..4 /\ 3 \in 1..4 /\ 4 \in 1..4
    OBVIOUS
  <2> HIDE DEF W
  <2> QED BY <1>5, <2>1
<1>7. W(0) = h /\ W(1) \in Int /\ W(2) \in Int /\ W(3) \in Int /\ W(4) \in Int
  BY <1>3, <1>4
<1>8. W(4) <= 1 \/ 16 * W(4) <= h + 15
  <2> HIDE DEF W
  <2> QED BY <1>6, <1>7
<1>9. DivRoundingUp(h, 16) \in Int /\ \A w \in Int : 16 * w <= h + 15 => w <= DivRoundingUp(h, 16)
  BY DEF DivRoundingUp
<1>10. c[4].hi = h \/ c[4].hi > cap
  BY <1>3, <1>4, <1>6
<1>11. Min({cap, h}) <= c[4].hi /\ Min({cap, h}) \in Int
  <2>1. Min({cap, h}) = IF cap <= h THEN cap ELSE h
    BY MinTwo
  <2> QED BY <1>3, <1>10, <2>1
<1>12. PICK d \in Int : d = DivRoundingUp(h, 16) /\ (W(4) <= 1 \/ W(4) <= d)
  BY <1>7, <1>8, <1>9
<1>13. PICK m \in Int : m = Max({1, d}) /\ 1 <= m /\ d <= m
  <2>1. 1 \in Int
    OBVIOUS
  <2>2. Max({1, d}) = IF 1 >= d THEN 1 ELSE d
    BY <2>1, MaxTwo
  <2> QED BY <2>2
<1>14. W(4) <= m
  BY <1>7, <1>12, <1>13
<1>15. Min({cap, h}) - c[4].lo <= m
  BY <1>3, <1>11, <1>14
<1> QED BY <1>1, <1>2, <1>12, <1>13, <1>15

-----------------------------------------------------------------------------
(* candles, walletPnl and maxBuy.                                          *)

\* The newest rows of a table.
KeptRows(full, n) == [m \in NewestRows(full, n) |-> full[m]]

\* The rows that a call of candles works on.
LEMMA CandleRows ==
  ASSUME NEW table \in Tables, NEW from \in Nat, NEW full,
         full = [m \in {n \in DOMAIN table : n >= from} |-> table[m]]
  PROVE  /\ \E b : IsTable(full, b) /\ \A n : IsTable(KeptRows(full, n), b)
         /\ \A n : Fetch(table, from, Max(Minutes) + 1, n) = KeptRows(full, n)
<1>1. PICK S \in SUBSET Minutes : table \in [S -> Rows]
  BY DEF Tables
<1>2. Minutes \in SUBSET Nat /\ IsFiniteSet(Minutes) /\ Minutes # {}
  BY InputAssumption
<1>3. PICK b \in Nat : \A m \in Minutes : m <= b
  BY <1>2, FiniteBounded
<1>4. Max(Minutes) \in Minutes /\ \A m \in Minutes : m <= Max(Minutes)
  <2>1. Minutes \in SUBSET Int /\ b \in Int
    BY <1>2
  <2> QED BY <1>2, <1>3, <2>1, MaxInt
<1>5. \A r \in Rows : /\ r.open \in Nat /\ r.close \in Nat /\ r.high \in Nat /\ r.low \in Nat
                      /\ r.low <= r.close /\ r.close <= r.high
  <2>1. \A r \in [open : Nat, close : Nat, high : Nat, low : Nat, volume : Nat] :
          r.open \in Nat /\ r.close \in Nat /\ r.high \in Nat /\ r.low \in Nat
    OBVIOUS
  <2>2. Rows \subseteq [open : Nat, close : Nat, high : Nat, low : Nat, volume : Nat]
    BY InputAssumption
  <2>3. \A r \in Rows : r.low <= r.close /\ r.close <= r.high
    BY InputAssumption
  <2> QED BY <2>1, <2>2, <2>3
<1>6. /\ DOMAIN full = {n \in DOMAIN table : n >= from}
      /\ \A m \in DOMAIN full : full[m] = table[m] /\ full[m] \in Rows /\ m \in Minutes
  BY <1>1
<1>7. \A m \in DOMAIN full : full[m] = table[m] /\ m < Max(Minutes) + 1
  <2>1. PICK top \in Nat : top = Max(Minutes) /\ \A m \in Minutes : m <= top
    BY <1>2, <1>4
  <2>2. \A m \in Minutes : m < top + 1
    BY <1>2, <2>1
  <2> QED BY <1>6, <2>1, <2>2
<1>8. IsTable(full, b)
  <2>1. DOMAIN full \subseteq 0..b
    <3>1. DOMAIN full \subseteq Minutes
      BY <1>6
    <3>2. Minutes \subseteq 0..b
      BY <1>2, <1>3
    <3> QED BY <3>1, <3>2
  <2> QED BY <1>5, <1>6, <2>1 DEF IsTable
<1>9. \A n : IsTable(KeptRows(full, n), b)
  <2> SUFFICES ASSUME NEW n, NEW tab, tab = KeptRows(full, n) PROVE IsTable(tab, b)
    OBVIOUS
  <2>1. DOMAIN tab \subseteq DOMAIN full /\ \A m \in DOMAIN tab : tab[m] = full[m]
    BY DEF KeptRows, NewestRows
  <2> QED BY <1>8, <2>1 DEF IsTable
<1>10. \A n : Fetch(table, from, Max(Minutes) + 1, n) = KeptRows(full, n)
  BY <1>6, <1>7, FetchNewest DEF KeptRows
<1> QED BY <1>8, <1>9, <1>10

\* A call of candles joins and shows its table.
LEMMA CandlesStep ==
  ASSUME Next, fn' = "candles"
  PROVE  CandlesJoin' /\ CandlesMatchTable'
<1>1. PICK table \in Tables, from \in {0, 1}, size \in 1..2, limit \in 1..3, cap \in {2, 6} :
        call' = [table |-> [m \in {n \in DOMAIN table : n >= from} |-> table[m]],
                 size |-> size, limit |-> limit, cap |-> cap,
                 answer |-> GetCandles(table, from, Max(Minutes) + 1, size, limit, cap)]
  BY Named DEF CallCandles
<1>2. PICK full, c, raw, tab :
        /\ full = [m \in {n \in DOMAIN table : n >= from} |-> table[m]]
        /\ raw = RawLimit(limit, size, cap)
        /\ tab = KeptRows(full, raw)
        /\ c = Reverse(FillJoinedCandles(tab, size, limit))
  OBVIOUS
<1>3. from \in Nat /\ size \in Nat /\ size > 0 /\ limit \in Nat /\ limit > 0 /\ cap \in Nat
  OBVIOUS
<1>4. PICK b : IsTable(full, b) /\ IsTable(tab, b)
  <2>1. PICK b : IsTable(full, b) /\ \A n : IsTable(KeptRows(full, n), b)
    BY <1>2, <1>3, CandleRows
  <2> QED BY <1>2, <2>1
<1>5. Fetch(table, from, Max(Minutes) + 1, raw) = tab
  BY <1>2, <1>3, CandleRows
<1>6. GetCandles(table, from, Max(Minutes) + 1, size, limit, cap) = c
  BY <1>2, <1>5 DEF GetCandles
<1>7. call'.table = full /\ call'.size = size /\ call'.limit = limit /\ call'.cap = cap /\ call'.answer = c
  BY <1>1, <1>2, <1>6
<1>8. CandlesJoin'
  <2>1. Joined(c, limit)
    BY <1>2, <1>3, <1>4, SeriesJoins
  <2> QED BY <1>7, <2>1 DEF Joined, CandlesJoin
<1>9. CandlesMatchTable'
  <2>1. ASSUME limit * size <= cap, \A m \in DOMAIN full : full[m].close # 0 PROVE Shows(c, full, size)
    <3>1. raw = limit * size
      BY <1>2, <1>3, <2>1, RawLimitWindow
    <3>2. tab = [m \in NewestRows(full, limit * size) |-> full[m]]
      BY <1>2, <3>1 DEF KeptRows
    <3> QED BY <1>2, <1>3, <1>4, <2>1, <3>2, SeriesShows
  <2> QED BY <1>7, <2>1 DEF CandlesMatchTable
<1> QED BY <1>8, <1>9

\* A call of walletPnl balances and ends at nothing.
LEMMA PnlStep ==
  ASSUME Next, fn' = "pnl"
  PROVE  PnlConserves' /\ PnlExhausted'
<1>n. PICK n \in 0..MaxSwaps : \E rows \in [1..n -> SwapRows], burned \in {0, 1, 5} :
        call' = [rows |-> rows, burned |-> burned, answer |-> Position(rows, burned)]
  BY Named DEF CallWalletPnl
<1>1. PICK rows \in [1..n -> SwapRows], burned \in {0, 1, 5} :
        call' = [rows |-> rows, burned |-> burned, answer |-> Position(rows, burned)]
  BY <1>n
<1>2. rows \in Seq(Swaps) /\ burned \in Nat
  <2>1. n \in Nat /\ SwapRows \subseteq Swaps
    BY InputAssumption DEF Swaps
  <2>2. rows \in [1..n -> Swaps]
    BY <2>1
  <2> QED BY <2>1, <2>2
<1>3. call'.rows = rows /\ call'.burned = burned /\ call'.answer = Position(rows, burned)
  BY <1>1
<1>4. PnlConserves'
  BY <1>2, <1>3, LedgerConserves DEF PnlConserves
<1>5. PnlExhausted'
  BY <1>2, <1>3, LedgerExhausts DEF PnlExhausted
<1> QED BY <1>4, <1>5

\* A call of maxBuy answers what can be bought.
LEMMA MaxBuyStep ==
  ASSUME Next, fn' = "maxBuy"
  PROVE  MaxBuyFillable' /\ MaxBuyTight'
<1>1. PICK cap \in 0..MaxCap, flaky \in {{}} \union {{i, j} : i, j \in 1..6} :
        call' = [cap |-> cap, flaky |-> flaky,
                 hi |-> Growth(4, 2, cap, flaky).hi, answer |-> MaxBuy(4, 2, 4, 1, cap, flaky)]
  BY Named DEF CallMaxBuy
<1>2. cap \in Nat /\ 4 \in Nat /\ 2 \in Nat /\ 1 \in Nat
  BY InputAssumption
<1>3. /\ call'.cap = cap /\ call'.flaky = flaky /\ call'.hi = Growth(4, 2, cap, flaky).hi
      /\ call'.answer = MaxBuy(4, 2, 4, 1, cap, flaky)
  BY <1>1
<1>4. MaxBuyFillable'
  <2>1. MaxBuy(4, 2, 4, 1, cap, flaky) <= cap
    BY <1>2, SearchFills
  <2> QED BY <1>3, <2>1 DEF MaxBuyFillable
<1>5. MaxBuyTight'
  <2>1. ASSUME flaky = {}
        PROVE  Min({cap, Growth(4, 2, cap, flaky).hi}) - MaxBuy(4, 2, 4, 1, cap, flaky)
                 <= Max({1, DivRoundingUp(Growth(4, 2, cap, flaky).hi, 16)})
    BY <1>2, <2>1, SearchTight
  <2> QED BY <1>3, <2>1 DEF MaxBuyTight
<1> QED BY <1>4, <1>5

\* candles, walletPnl and maxBuy (token-query.service.ts, trading.service.ts): for every
\* table of minutes, every sequence of swaps and every cap, the candles join and show all
\* rows of their buckets, the ledger balances, and maxBuy answers what can be bought.
THEOREM TradingAlwaysSound == Spec => []TradingSound
<1>1. Init => TradingSound
  BY DEF Init, TradingSound, CandlesJoin, CandlesMatchTable, PnlConserves, PnlExhausted, MaxBuyFillable, MaxBuyTight
<1>2. TradingSound /\ [Next]_vars => TradingSound'
  <2>1. CASE UNCHANGED vars
    <3>1. fn' = fn /\ call' = call
      BY <2>1 DEF vars
    <3> QED BY <3>1 DEF TradingSound, CandlesJoin, CandlesMatchTable, PnlConserves, PnlExhausted,
                        MaxBuyFillable, MaxBuyTight
  <2>2. CASE Next
    <3>1. CandlesJoin' /\ CandlesMatchTable'
      <4>1. fn' # "candles" => CandlesJoin' /\ CandlesMatchTable'
        BY DEF CandlesJoin, CandlesMatchTable
      <4> QED BY <2>2, <4>1, CandlesStep
    <3>2. PnlConserves' /\ PnlExhausted'
      <4>1. fn' # "pnl" => PnlConserves' /\ PnlExhausted'
        BY DEF PnlConserves, PnlExhausted
      <4> QED BY <2>2, <4>1, PnlStep
    <3>3. MaxBuyFillable' /\ MaxBuyTight'
      <4>1. fn' # "maxBuy" => MaxBuyFillable' /\ MaxBuyTight'
        BY DEF MaxBuyFillable, MaxBuyTight
      <4> QED BY <2>2, <4>1, MaxBuyStep
    <3> QED BY <3>1, <3>2, <3>3 DEF TradingSound
  <2> QED BY <2>1, <2>2
<1> QED BY <1>1, <1>2, PTL DEF Spec

-----------------------------------------------------------------------------
(* isqrt.                                                                  *)

IsShl(c) == c = [n \in Nat |-> IF n = 0 THEN 1 ELSE 2 * c[n - 1]]

\* Shl doubles.
LEMMA ShlDoubles ==
  /\ \A n \in Nat : Shl[n] \in Nat /\ Shl[n] > 0
  /\ Shl[0] = 1 /\ \A n \in Nat : Shl[n + 1] = 2 * Shl[n]
<1> DEFINE T == Nat \ {0}
           s == [x \in T |-> 2 * x]
<1>1. s \in [T -> T] /\ 1 \in T /\ \A x \in T : s[x] = 2 * x
  OBVIOUS
<1> HIDE DEF s
<1> HIDE DEF T
<1>a. PICK f \in [Nat -> T] : Repeats(f, 1, s)
  BY <1>1, Forever
<1> USE DEF T
<1>2. f[0] = 1 /\ \A n \in Nat : f[n + 1] = s[f[n]]
  BY <1>a DEF Repeats
<1>3. \A n \in Nat : f[n + 1] = 2 * f[n] /\ f[n] \in T
  BY <1>1, <1>2
<1>4. IsShl(f)
  <2>1. ASSUME NEW n \in Nat, n # 0 PROVE f[n] = 2 * f[n - 1]
    <3>1. n - 1 \in Nat /\ (n - 1) + 1 = n
      BY <2>1
    <3> QED BY <1>3, <3>1
  <2> QED BY <1>2, <2>1 DEF IsShl
<1>5. Shl = CHOOSE c : IsShl(c)
  BY DEF Shl, IsShl
<1>6. IsShl(Shl)
  BY <1>4, <1>5
<1>7. Shl[0] = 1
  BY <1>6 DEF IsShl
<1>8. ASSUME NEW n \in Nat PROVE Shl[n + 1] = 2 * Shl[n]
  <2>1. n + 1 \in Nat /\ n + 1 # 0 /\ (n + 1) - 1 = n
    OBVIOUS
  <2> QED BY <1>6, <2>1 DEF IsShl
<1> DEFINE S == {n \in Nat : Shl[n] \in Nat /\ Shl[n] > 0}
<1>9. 0 \in S /\ \A n \in Nat : n \in S => n + 1 \in S
  BY <1>7, <1>8
<1>10. Nat \subseteq S
  <2> HIDE DEF S
  <2> QED BY <1>9, Induct
<1> QED BY <1>7, <1>8, <1>10

\* Shl of a sum is the product, it grows, and it exceeds its argument.
LEMMA ShlAdds ==
  ASSUME NEW a \in Nat, NEW b \in Nat
  PROVE  Shl[a + b] = Shl[a] * Shl[b]
<1> DEFINE S == {n \in Nat : Shl[a + n] = Shl[a] * Shl[n]}
<1>1. 0 \in S
  <2>1. a + 0 = a /\ Shl[a] \in Nat
    BY ShlDoubles
  <2> QED BY <2>1, ShlDoubles
<1>2. ASSUME NEW n \in Nat, n \in S PROVE n + 1 \in S
  <2>1. a + (n + 1) = (a + n) + 1 /\ a + n \in Nat
    OBVIOUS
  <2>2. Shl[a + (n + 1)] = 2 * Shl[a + n] /\ Shl[n + 1] = 2 * Shl[n]
    BY <2>1, ShlDoubles
  <2>3. PICK p, q \in Nat : p = Shl[a] /\ q = Shl[n]
    BY ShlDoubles
  <2>4. Shl[a + n] = p * q
    BY <1>2, <2>3
  <2>5. 2 * (p * q) = p * (2 * q)
    OBVIOUS
  <2> QED BY <2>2, <2>3, <2>4, <2>5
<1>3. Nat \subseteq S
  <2> HIDE DEF S
  <2> QED BY <1>1, <1>2, Induct
<1> QED BY <1>3

LEMMA ShlGrows ==
  /\ \A n \in Nat : n < Shl[n]
  /\ \A m, n \in Nat : m <= n => Shl[m] <= Shl[n]
<1> DEFINE S == {n \in Nat : n < Shl[n]}
<1>1. 0 \in S /\ \A n \in Nat : n \in S => n + 1 \in S
  BY ShlDoubles
<1>2. Nat \subseteq S
  <2> HIDE DEF S
  <2> QED BY <1>1, Induct
<1>3. ASSUME NEW m \in Nat, NEW n \in Nat, m <= n PROVE Shl[m] <= Shl[n]
  <2>1. PICK d \in Nat : n = m + d
    <3>1. n - m \in Nat /\ n = m + (n - m)
      BY <1>3
    <3> QED BY <3>1
  <2>2. PICK p, q \in Nat : p = Shl[m] /\ q = Shl[d] /\ q > 0
    BY ShlDoubles
  <2>3. Shl[n] = p * q
    BY <2>1, <2>2, ShlAdds
  <2>4. p * q >= p
    BY <2>2
  <2> QED BY <2>2, <2>3, <2>4
<1> QED BY <1>2, <1>3

\* Newton's iteration starts above the root.
LEMMA FirstGuessHigh ==
  ASSUME NEW x \in Nat, x >= 2
  PROVE  /\ FirstGuess(x) \in Nat /\ FirstGuess(x) > 0
         /\ x < FirstGuess(x) * FirstGuess(x)
<1> DEFINE P(n) == n \in 1..x /\ Shl[n - 1] <= x /\ x < Shl[n]
<1>1. \E n \in 1..x : Shl[n - 1] <= x /\ x < Shl[n]
  <2> DEFINE S == {n \in Nat : x < Shl[n]}
  <2>1. x \in S
    BY ShlGrows
  <2>2. PICK n \in S : \A m \in S : n <= m
    <3>1. S \in SUBSET Nat /\ S # {}
      BY <2>1
    <3> HIDE DEF S
    <3> QED BY <3>1, LeastNat
  <2>3. n \in Nat /\ x < Shl[n] /\ n <= x /\ n # 0
    BY <2>1, <2>2, ShlDoubles
  <2>4. n - 1 \in Nat /\ n - 1 \notin S /\ Shl[n - 1] \in Nat
    <3>1. n - 1 \in Nat
      BY <2>3
    <3> QED BY <2>2, <2>3, <3>1, ShlDoubles
  <2> QED BY <2>3, <2>4
<1>2. PICK n : n = Bits(x) /\ n \in 1..x /\ x < Shl[n]
  BY <1>1 DEF Bits
<1>3. PICK k \in Nat : k = (n + 1) \div 2 /\ n <= k + k
  BY <1>2
<1>4. PICK g \in Nat : g = Shl[k] /\ g > 0
  BY ShlDoubles
<1>5. FirstGuess(x) = g
  BY <1>2, <1>3, <1>4 DEF FirstGuess
<1>6. Shl[n] <= Shl[k + k] /\ Shl[k + k] = g * g
  <2>1. k + k \in Nat /\ n \in Nat
    BY <1>2
  <2> QED BY <1>3, <1>4, <2>1, ShlGrows, ShlAdds
<1>7. Shl[n] \in Nat
  BY <1>2, ShlDoubles
<1> QED BY <1>2, <1>4, <1>5, <1>6, <1>7

\* A step of the iteration from g on: it stays above every number whose square is at
\* most x, and ends where the square of g is.
LEMMA NewtonStep ==
  ASSUME NEW x \in Nat, x >= 2, NEW g \in Nat, g > 0,
         NEW next, next = (g + x \div g) \div 2
  PROVE  /\ next \in Nat /\ next > 0
         /\ \A r \in Nat : r * r <= x => r <= next
         /\ next >= g => g * g <= x
<1>1. PICK q \in Nat : q = x \div g /\ g * q <= x /\ x < g * (q + 1)
  <2>1. x \div g \in Nat /\ g * (x \div g) <= x /\ x < g * (x \div g + 1)
    OBVIOUS
  <2> QED BY <2>1
<1>2. next \in Nat /\ 2 * next <= g + q /\ g + q <= 2 * next + 1
  BY <1>1
<1>3. next > 0
  <2>1. CASE g = 1
    <3>1. q >= 2
      BY <1>1, <2>1
    <3> QED BY <1>2, <2>1, <3>1
  <2>2. CASE g >= 2
    BY <1>2, <2>2
  <2> QED BY <2>1, <2>2
<1>4. ASSUME NEW r \in Nat, r * r <= x PROVE r <= next
  <2> SUFFICES ASSUME next < r PROVE FALSE
    BY <1>2
  <2>1. PICK b \in Nat : b = q + 1
    OBVIOUS
  <2>2. g + b <= 2 * r
    BY <1>2, <2>1
  <2>3. (g + b) * (g + b) = (g - b) * (g - b) + 4 * (g * b)
    OBVIOUS
  <2>4. (g - b) * (g - b) >= 0
    OBVIOUS
  <2>5. (g + b) * (g + b) <= (2 * r) * (2 * r)
    BY <2>2
  <2>6. (2 * r) * (2 * r) = 4 * (r * r)
    OBVIOUS
  <2>7. PICK gb, rr, dd, ss, tt \in Int : /\ gb = g * b /\ rr = r * r /\ dd = (g - b) * (g - b)
                                          /\ ss = (g + b) * (g + b) /\ tt = (2 * r) * (2 * r)
    OBVIOUS
  <2>8. ss = dd + 4 * gb /\ dd >= 0 /\ ss <= tt /\ tt = 4 * rr /\ rr <= x /\ x < gb
    BY <1>1, <1>4, <2>1, <2>3, <2>4, <2>5, <2>6, <2>7
  <2> QED BY <2>7, <2>8
<1>5. ASSUME next >= g PROVE g * g <= x
  <2>1. q >= g
    BY <1>2, <1>5
  <2>2. g * g <= g * q
    BY <2>1
  <2> QED BY <1>1, <2>2
<1> QED BY <1>2, <1>3, <1>4, <1>5
\* The guesses, the first at which the iteration stops, and what it answers.
IsNewton(c, x) == c = [i \in Nat |-> IF i = 0 THEN FirstGuess(x) ELSE LET g == c[i - 1] IN (g + x \div g) \div 2]
Stops(c, i) == c[i + 1] >= c[i] /\ \A j \in 0..i - 1 : c[j + 1] < c[j]

LEMMA IsqrtNewton ==
  ASSUME NEW x, x >= 2
  PROVE  LET c == CHOOSE c : IsNewton(c, x)
         IN Isqrt(x) = IF x < 2 THEN x ELSE c[CHOOSE i \in 0..FirstGuess(x) : Stops(c, i)]
BY DEF Isqrt, IsNewton, Stops

\* isqrt (protocol-math.ts) is the floor of the square root, for numbers of any size:
\* the iteration starts above the root, never falls below it, and ends at it.
THEOREM IsqrtIsFloor ==
  ASSUME NEW x \in Nat
  PROVE  Isqrt(x) \in Nat /\ Isqrt(x) * Isqrt(x) <= x /\ x < (Isqrt(x) + 1) * (Isqrt(x) + 1)
<1>1. CASE x < 2
  <2>1. Isqrt(x) = x
    BY <1>1 DEF Isqrt
  <2>2. x = 0 \/ x = 1
    BY <1>1
  <2> QED BY <2>1, <2>2
<1>2. CASE x >= 2
  <2> DEFINE T == Nat \ {0}
             s == [g \in T |-> (g + x \div g) \div 2]
             c == CHOOSE c : IsNewton(c, x)
  <2>1. s \in [T -> T] /\ \A g \in T : s[g] = (g + x \div g) \div 2
    <3>1. \A g \in T : (g + x \div g) \div 2 \in T
      BY <1>2, NewtonStep
    <3> QED BY <3>1
  <2>2. FirstGuess(x) \in T /\ x < FirstGuess(x) * FirstGuess(x)
    BY <1>2, FirstGuessHigh
  <2> HIDE DEF s
  <2> HIDE DEF T
  <2>a. PICK f \in [Nat -> T] : Repeats(f, FirstGuess(x), s)
    BY <2>1, <2>2, Forever
  <2> USE DEF T
  <2>3. f[0] = FirstGuess(x) /\ \A n \in Nat : f[n + 1] = s[f[n]]
    BY <2>a DEF Repeats
  <2>4. IsNewton(f, x)
    <3>1. ASSUME NEW n \in Nat, n # 0 PROVE f[n] = (f[n - 1] + x \div f[n - 1]) \div 2
      <4>1. n - 1 \in Nat /\ (n - 1) + 1 = n
        BY <3>1
      <4> QED BY <2>1, <2>3, <4>1
    <3> QED BY <2>3, <3>1 DEF IsNewton
  <2>5. IsNewton(c, x)
    BY <2>4
  <2> HIDE DEF c
  <2>6. c[0] = FirstGuess(x) /\ \A n \in Nat : c[n + 1] = (c[n] + x \div c[n]) \div 2
    <3>1. c[0] = FirstGuess(x)
      BY <2>5 DEF IsNewton
    <3>2. ASSUME NEW n \in Nat PROVE c[n + 1] = (c[n] + x \div c[n]) \div 2
      <4>1. n + 1 \in Nat /\ n + 1 # 0 /\ (n + 1) - 1 = n
        OBVIOUS
      <4> QED BY <2>5, <4>1 DEF IsNewton
    <3> QED BY <3>1, <3>2
  <2>7. \A n \in Nat : c[n] \in Nat /\ c[n] > 0 /\ \A r \in Nat : r * r <= x => r <= c[n]
    <3> DEFINE High(g) == g \in Nat /\ g > 0 /\ \A r \in Nat : r * r <= x => r <= g
               S == {n \in Nat : High(c[n])}
    <3>1. High(c[0])
      <4>1. PICK g \in Nat : g = c[0] /\ g > 0 /\ x < g * g
        BY <2>2, <2>6
      <4>2. ASSUME NEW r \in Nat, r * r <= x PROVE r <= g
        <5> SUFFICES ASSUME g < r PROVE FALSE
          OBVIOUS
        <5>1. g * g <= r * r
          OBVIOUS
        <5> QED BY <4>1, <4>2, <5>1
      <4> QED BY <4>1, <4>2
    <3>2. ASSUME NEW n \in Nat, High(c[n]) PROVE High(c[n + 1])
      <4>1. PICK g \in Nat : g = c[n] /\ g > 0
        BY <3>2
      <4>2. c[n + 1] = (g + x \div g) \div 2
        BY <2>6, <4>1
      <4> QED BY <1>2, <4>1, <4>2, NewtonStep
    <3> HIDE DEF High
    <3>3. 0 \in S /\ \A n \in Nat : n \in S => n + 1 \in S
      BY <3>1, <3>2
    <3>4. Nat \subseteq S
      <4> HIDE DEF S
      <4> QED BY <3>3, Induct
    <3> QED BY <3>4 DEF High
  <2>8. \E i \in 0..FirstGuess(x) : Stops(c, i)
    <3> DEFINE F == FirstGuess(x)
               S == {i \in Nat : c[i + 1] >= c[i]}
    <3>1. S # {}
      <4> SUFFICES ASSUME S = {} PROVE FALSE
        OBVIOUS
      <4> DEFINE D == {i \in Nat : c[i] <= F - i}
      <4>1. ASSUME NEW i \in Nat PROVE c[i + 1] < c[i] /\ c[i] \in Nat /\ c[i + 1] \in Nat
        <5>1. i + 1 \in Nat /\ ~(c[i + 1] >= c[i])
          <6>1. i \notin S
            <7> HIDE DEF S
            <7> QED OBVIOUS
          <6> QED BY <6>1
        <5> QED BY <2>7, <5>1
      <4>2. 0 \in D /\ \A i \in Nat : i \in D => i + 1 \in D
        <5>1. F \in Nat /\ c[0] = F
          BY <2>2, <2>6
        <5> HIDE DEF F
        <5> QED BY <4>1, <5>1
      <4>3. Nat \subseteq D
        <5> HIDE DEF D
        <5> QED BY <4>2, Induct
      <4>4. F \in Nat /\ F \in D
        BY <2>2, <4>3
      <4> QED BY <2>7, <4>4
    <3>2. PICK i \in S : \A j \in S : i <= j
      <4>1. S \in SUBSET Nat
        OBVIOUS
      <4> HIDE DEF S
      <4> QED BY <3>1, <4>1, LeastNat
    <3>3. \A j \in 0..i - 1 : c[j + 1] < c[j]
      <4> SUFFICES ASSUME NEW j \in 0..i - 1 PROVE c[j + 1] < c[j]
        OBVIOUS
      <4>1. j \in Nat /\ j + 1 \in Nat /\ ~(i <= j)
        BY <3>2
      <4>2. ~(c[j + 1] >= c[j])
        BY <3>2, <4>1
      <4> QED BY <2>7, <4>1, <4>2
    <3>4. i <= F
      <4> DEFINE D == {k \in Nat : k <= i => c[k] <= F - k}
      <4>1. ASSUME NEW k \in Nat, k + 1 <= i, c[k] <= F - k PROVE c[k + 1] <= F - (k + 1)
        <5>1. k \in 0..i - 1 /\ k + 1 \in Nat /\ c[k] \in Nat /\ c[k + 1] \in Nat
          BY <2>7, <4>1
        <5>2. c[k + 1] < c[k] /\ F \in Nat
          BY <2>2, <3>3, <5>1
        <5> QED BY <4>1, <5>1, <5>2
      <4>2. 0 \in D /\ \A k \in Nat : k \in D => k + 1 \in D
        BY <2>2, <2>6, <4>1
      <4>3. Nat \subseteq D
        <5> HIDE DEF D
        <5> QED BY <4>2, Induct
      <4>4. c[i] <= F - i /\ c[i] \in Nat /\ F \in Nat /\ i \in Nat
        BY <2>2, <2>7, <4>3
      <4> QED BY <4>4
    <3> QED BY <3>2, <3>3, <3>4 DEF Stops
  <2>9. PICK i \in 0..FirstGuess(x) : i = (CHOOSE k \in 0..FirstGuess(x) : Stops(c, k)) /\ Stops(c, i)
    BY <2>8
  <2>10. Isqrt(x) = c[i]
    <3>1. ~(x < 2)
      BY <1>2
    <3> QED BY <1>2, <2>9, <3>1, IsqrtNewton DEF c
  <2>11. PICK g \in Nat : g = c[i] /\ g > 0 /\ (\A r \in Nat : r * r <= x => r <= g)
                          /\ (g + x \div g) \div 2 >= g
    <3>1. i \in Nat
      BY <2>2, <2>9
    <3> QED BY <2>6, <2>7, <2>9, <3>1 DEF Stops
  <2>12. g * g <= x
    BY <1>2, <2>11, NewtonStep
  <2>13. x < (g + 1) * (g + 1)
    <3>1. g + 1 \in Nat /\ ~((g + 1) <= g) /\ (g + 1) * (g + 1) \in Nat
      OBVIOUS
    <3> QED BY <2>11, <3>1
  <2> QED BY <2>10, <2>11, <2>12, <2>13
<1> QED BY <1>1, <1>2

-----------------------------------------------------------------------------
(* The opening level, the curve and the payout plan.                       *)

\* The tick search: the price is between the tick found and the next one.
LEMMA TickBrackets ==
  ASSUME NEW p \in Nat, p >= SqrtTable[MinTick], p < SqrtTable[MaxTick]
  PROVE  LET t == GetTickAtSqrtPrice(p)
         IN /\ t \in Int /\ SqrtTable[t] \in Nat /\ SqrtTable[t] > 0 /\ SqrtTable[t] <= p
            /\ SqrtTable[t + 1] \in Nat /\ p < SqrtTable[t + 1]
<1>1. PICK n \in Nat : n = MaxTick /\ SqrtTable \in [-n..n -> Nat \ {0}]
  BY CurveAssumption
<1>2. DOMAIN SqrtTable = -n..n
  BY <1>1
<1>3. MinTick = -n
  <2>1. -n \in -n..n /\ \A x \in -n..n : -n <= x
    OBVIOUS
  <2>2. \A m : m \in -n..n /\ (\A x \in -n..n : m <= x) => m = -n
    BY <2>1
  <2> QED BY <1>2, <2>1, <2>2 DEF MinTick, Min
<1> DEFINE S == {t \in -n..n : SqrtTable[t] <= p}
<1>4. -n \in S /\ S \in SUBSET Int /\ \A t \in S : t <= n
  BY <1>1, <1>3
<1>5. PICK t : t = GetTickAtSqrtPrice(p) /\ t \in S /\ \A u \in S : u <= t
  <2>1. GetTickAtSqrtPrice(p) = Max(S)
    BY <1>2 DEF GetTickAtSqrtPrice
  <2>2. S # {} /\ n \in Int
    BY <1>4
  <2> HIDE DEF S
  <2> QED BY <1>4, <2>1, <2>2, MaxInt
<1>6. t \in -n..n /\ SqrtTable[t] <= p /\ t # n
  BY <1>1, <1>5
<1>7. t + 1 \in -n..n /\ t + 1 \notin S
  <2>1. t + 1 \in -n..n /\ ~(t + 1 <= t)
    BY <1>6
  <2> QED BY <1>5, <2>1
<1>8. SqrtTable[t] \in Nat /\ SqrtTable[t] > 0 /\ SqrtTable[t + 1] \in Nat
  BY <1>1, <1>6, <1>7
<1> QED BY <1>5, <1>6, <1>7, <1>8

\* openingLevel (protocol-math.ts): the fully diluted value at the opening level reaches
\* the template's, and one level below it does not, for every supply and every tick table.
THEOREM OpeningIsLowest ==
  ASSUME NEW supply \in Nat, NEW fdv \in Nat, fdv > 0,
         NEW level, level = OpeningLevel(supply, fdv), level # NoLevel
  PROVE  /\ FdvEthWei(supply, SqrtPriceAtLevel(level)) >= fdv
         /\ FdvEthWei(supply, SqrtPriceAtLevel(level - 1)) < fdv
<1>1. PICK S \in Nat : S = supply * Q * Q /\ S = supply * (Q * Q)
  <2>1. supply * Q * Q \in Nat /\ supply * Q * Q = supply * (Q * Q)
    BY CurveAssumption
  <2> QED BY <2>1
<1>2. PICK x \in Nat : x = S \div fdv /\ x * fdv <= S /\ S < (x + 1) * fdv
  <2>1. S \div fdv \in Nat /\ (S \div fdv) * fdv <= S /\ S < (S \div fdv) * fdv + fdv
    BY Quotient
  <2>2. PICK x \in Nat : x = S \div fdv
    BY <2>1
  <2>3. x * fdv + fdv = (x + 1) * fdv
    OBVIOUS
  <2> QED BY <2>1, <2>2, <2>3
<1>3. PICK p \in Nat : p = OpeningPrice(supply, fdv) /\ p * p <= x /\ x < (p + 1) * (p + 1)
  <2>1. OpeningPrice(supply, fdv) = Isqrt(x)
    BY <1>1, <1>2 DEF OpeningPrice, MulDiv
  <2> QED BY <2>1, IsqrtIsFloor
<1>4. /\ ~(p < SqrtTable[MinTick]) /\ ~(p >= SqrtTable[MaxTick])
      /\ level = LevelAtSqrtPrice(p)
  BY <1>3 DEF OpeningLevel
<1>5. SqrtTable[MinTick] \in Nat /\ SqrtTable[MaxTick] \in Nat
  <2>1. PICK n \in Nat : n = MaxTick /\ SqrtTable \in [-n..n -> Nat \ {0}]
    BY CurveAssumption
  <2>2. MinTick \in -n..n
    <3>1. DOMAIN SqrtTable = -n..n
      BY <2>1
    <3>2. -n \in -n..n /\ \A y \in -n..n : -n <= y
      OBVIOUS
    <3> QED BY <3>1, <3>2 DEF MinTick, Min
  <2>3. n \in -n..n
    OBVIOUS
  <2> QED BY <2>1, <2>2, <2>3
<1>6. PICK t \in Int : /\ t = GetTickAtSqrtPrice(p) /\ SqrtTable[t] \in Nat /\ SqrtTable[t] > 0
                       /\ SqrtTable[t] <= p /\ SqrtTable[t + 1] \in Nat /\ p < SqrtTable[t + 1]
  <2>1. p >= SqrtTable[MinTick] /\ p < SqrtTable[MaxTick]
    BY <1>4, <1>5
  <2> QED BY <2>1, TickBrackets
<1>7. level = -t /\ -level = t /\ -(level - 1) = t + 1
  BY <1>4, <1>6 DEF LevelAtSqrtPrice, ToLevel
<1>8. PICK a, b \in Nat : a = SqrtTable[t] /\ b = SqrtTable[t + 1] /\ a > 0 /\ a <= p /\ p + 1 <= b
  BY <1>6
<1>9. SqrtPriceAtLevel(level) = a /\ SqrtPriceAtLevel(level - 1) = b
  BY <1>7, <1>8 DEF SqrtPriceAtLevel, GetSqrtPriceAtTick, ToTick
<1>10. PICK aa, bb \in Nat : aa = a * a /\ bb = b * b /\ aa > 0 /\ bb > 0
  <2>1. a * a \in Nat /\ a * a > 0
    BY <1>8
  <2>2. b * b \in Nat /\ b * b > 0
    BY <1>8
  <2> QED BY <2>1, <2>2
<1>11. aa <= x
  <2>1. a * a <= p * p
    BY <1>8
  <2> QED BY <1>3, <1>10, <2>1
<1>12. x < bb
  <2>1. (p + 1) * (p + 1) <= b * b
    BY <1>8
  <2> QED BY <1>3, <1>10, <2>1
<1>13. FdvEthWei(supply, a) = S \div aa /\ FdvEthWei(supply, b) = S \div bb
  BY <1>1, <1>10 DEF FdvEthWei
<1>14. S \div aa >= fdv
  <2>1. fdv * aa <= S
    <3>1. fdv * aa <= x * fdv
      BY <1>11
    <3> QED BY <1>2, <3>1
  <2>2. PICK m \in Nat : m = fdv * aa
    OBVIOUS
  <2>3. m \div aa = fdv
    BY <1>10, <2>2, Multiple
  <2> QED BY <1>10, <2>1, <2>2, <2>3, QuotientGrows
<1>15. S \div bb < fdv
  <2>1. PICK q \in Nat : q = S \div bb /\ q * bb <= S
    BY <1>10, Quotient
  <2>2. (x + 1) * fdv <= bb * fdv
    BY <1>12
  <2>3. q * bb < fdv * bb
    BY <1>2, <2>1, <2>2
  <2>4. q < fdv
    BY <2>3, <1>10
  <2> QED BY <2>1, <2>4
<1> QED BY <1>9, <1>13, <1>14, <1>15

\* curvePositionStart: the starts begin at the opening level, never fall and stay below far.
LEMMA StartsRise ==
  ASSUME NEW opening \in Int, NEW far \in Int, opening < far, NEW n \in Nat, n > 0
  PROVE  /\ \A i \in 0..n - 1 : /\ opening <= CurvePositionStart(opening, far, n, i)
                                /\ CurvePositionStart(opening, far, n, i) < far
         /\ \A i, j \in 0..n - 1 :
              i <= j => CurvePositionStart(opening, far, n, i) <= CurvePositionStart(opening, far, n, j)
<1>1. PICK d \in Nat : d = far - opening /\ d > 0
  OBVIOUS
<1>2. \A i : CurvePositionStart(opening, far, n, i) = opening + (d * i) \div n
  BY <1>1 DEF CurvePositionStart
<1>3. ASSUME NEW i \in 0..n - 1 PROVE (d * i) \div n \in Nat /\ (d * i) \div n < d
  <2>1. PICK m \in Nat : m = d * i /\ m < d * n
    <3>1. d * i \in Nat
      OBVIOUS
    <3>2. d * i < d * n
      BY <1>1
    <3> QED BY <3>1, <3>2
  <2>2. PICK q \in Nat : q = m \div n /\ q * n <= m
    BY Quotient
  <2>3. q * n < d * n
    BY <2>1, <2>2
  <2>4. q < d
    BY <2>3
  <2> QED BY <2>1, <2>2, <2>4
<1>4. ASSUME NEW i \in 0..n - 1, NEW j \in 0..n - 1, i <= j PROVE (d * i) \div n <= (d * j) \div n
  <2>1. d * i \in Nat /\ d * j \in Nat /\ d * i <= d * j
    BY <1>4
  <2> QED BY <2>1, QuotientGrows
<1>5. ASSUME NEW i \in 0..n - 1
      PROVE  opening <= CurvePositionStart(opening, far, n, i) /\ CurvePositionStart(opening, far, n, i) < far
  <2>1. PICK q \in Nat : q = (d * i) \div n /\ q < d
    BY <1>3
  <2> QED BY <1>1, <1>2, <2>1
<1>6. ASSUME NEW i \in 0..n - 1, NEW j \in 0..n - 1, i <= j
      PROVE  CurvePositionStart(opening, far, n, i) <= CurvePositionStart(opening, far, n, j)
  <2>1. PICK q, r \in Nat : q = (d * i) \div n /\ r = (d * j) \div n /\ q <= r
    BY <1>3, <1>4, <1>6
  <2> QED BY <1>2, <2>1
<1> QED BY <1>5, <1>6

\* The supplies of the positions.
Amounts(supply, n) == [i \in 1..n |-> CurvePositionAmount(supply, n, i - 1)]

\* curvePositionAmount: the last position takes the remainder, so that nothing is lost.
LEMMA AmountsShare ==
  ASSUME NEW supply \in Nat, NEW n \in Nat, n > 0
  PROVE  Total(Amounts(supply, n), n) = supply /\ \A i \in 1..n : Amounts(supply, n)[i] >= 0
<1> DEFINE f == Amounts(supply, n)
<1>1. PICK e \in Nat : e = supply \div n /\ e * n <= supply
  BY Quotient
<1>2. PICK r \in Nat : r = supply - e * (n - 1)
  <2>1. e * (n - 1) <= e * n /\ e * (n - 1) \in Nat
    <3>1. n - 1 \in Nat
      OBVIOUS
    <3> QED BY <3>1
  <2> QED BY <1>1, <2>1
<1>3. \A i \in 1..n : f[i] = IF i = n THEN r ELSE e
  <2> SUFFICES ASSUME NEW i \in 1..n PROVE f[i] = IF i = n THEN r ELSE e
    OBVIOUS
  <2>1. f[i] = IF (i - 1) + 1 = n THEN supply - e * (n - 1) ELSE e
    BY <1>1 DEF CurvePositionAmount, Amounts
  <2>2. (i - 1) + 1 = i
    OBVIOUS
  <2> QED BY <1>2, <2>1, <2>2
<1>4. \A i \in 1..n : f[i] \in Nat
  BY <1>3
<1> HIDE DEF f
<1> DEFINE S == {k \in Nat : k < n => Total(f, k) = e * k}
<1>5. 0 \in S
  BY TotalZero
<1>6. ASSUME NEW k \in Nat, k \in S PROVE k + 1 \in S
  <2> SUFFICES ASSUME k + 1 < n PROVE Total(f, k + 1) = e * (k + 1)
    OBVIOUS
  <2>1. \A i \in 1..(k + 1) : f[i] \in Int
    BY <1>4
  <2>2. Total(f, k + 1) = Total(f, k) + f[k + 1]
    BY <2>1, TotalStep
  <2>3. Total(f, k) = e * k /\ f[k + 1] = e
    <3>1. k + 1 \in 1..n /\ k + 1 # n /\ k < n
      OBVIOUS
    <3> QED BY <1>3, <1>6, <3>1
  <2>4. e * k + e = e * (k + 1)
    OBVIOUS
  <2> QED BY <2>2, <2>3, <2>4
<1>7. Nat \subseteq S
  <2> HIDE DEF S
  <2> QED BY <1>5, <1>6, Induct
<1>8. PICK m \in Nat : n = m + 1 /\ m = n - 1
  OBVIOUS
<1>9. Total(f, m) = e * m
  BY <1>7, <1>8
<1>10. Total(f, m + 1) = Total(f, m) + f[m + 1]
  <2>1. \A i \in 1..(m + 1) : f[i] \in Int
    BY <1>4, <1>8
  <2> QED BY <2>1, TotalStep
<1>11. f[m + 1] = r /\ r = supply - e * m
  <2>1. m + 1 \in 1..n /\ m + 1 = n
    BY <1>8
  <2> QED BY <1>2, <1>3, <1>8, <2>1
<1>12. Total(f, n) = supply
  <2>1. PICK em \in Nat : em = e * m
    OBVIOUS
  <2> QED BY <1>8, <1>9, <1>10, <1>11, <2>1
<1> QED BY <1>4, <1>12 DEF f

\* The loop over the bits stops early only when the limit is exceeded.
LEMMA BitsCount ==
  ASSUME NEW plan \in SUBSET Nat, IsFiniteSet(plan), NEW max \in Nat
  PROVE  LET bits == SelectedBits(plan, max)
         IN /\ Cardinality(bits) <= max <=> Cardinality(plan) <= max
            /\ Cardinality(plan) <= max => bits = plan
<1>1. PICK bits : bits = SelectedBits(plan, max) /\ bits \subseteq plan
  BY DEF SelectedBits
<1>2. PICK c, d \in Nat : c = Cardinality(plan) /\ d = Cardinality(bits) /\ d <= c
  <2>1. IsFiniteSet(bits) /\ Cardinality(bits) <= Cardinality(plan)
    BY <1>1, FS_Subset
  <2> QED BY <2>1, FS_CardinalityType
<1>3. \A i : LET s == {j \in plan : j < i} IN IsFiniteSet(s) /\ Cardinality(s) \in Nat /\ Cardinality(s) <= c
  <2> SUFFICES ASSUME NEW i, NEW s, s = {j \in plan : j < i}
               PROVE  IsFiniteSet(s) /\ Cardinality(s) \in Nat /\ Cardinality(s) <= c
    OBVIOUS
  <2>1. s \in SUBSET plan
    OBVIOUS
  <2>2. IsFiniteSet(s) /\ Cardinality(s) <= Cardinality(plan)
    BY <2>1, FS_Subset
  <2> QED BY <1>2, <2>2, FS_CardinalityType
<1>4. ASSUME c <= max PROVE bits = plan
  <2>1. \A i \in plan : Cardinality({j \in plan : j < i}) <= max
    BY <1>2, <1>3, <1>4
  <2> QED BY <1>1, <2>1 DEF SelectedBits
<1>5. ASSUME d <= max PROVE c <= max
  <2> SUFFICES ASSUME c > max PROVE FALSE
    BY <1>2
  <2>1. plan \ bits # {}
    BY <1>1, <1>2, <1>5
  <2>2. PICK i \in plan \ bits : \A j \in plan \ bits : i <= j
    <3>1. plan \ bits \in SUBSET Nat
      OBVIOUS
    <3> QED BY <2>1, <3>1, LeastNat
  <2>3. PICK s : s = {j \in plan : j < i}
    OBVIOUS
  <2>4. s \subseteq bits
    <3>1. \A j \in plan : j < i => j \in bits
      <4>1. \A j \in plan : j < i => ~(i <= j)
        BY <2>2
      <4> QED BY <2>2, <4>1
    <3> QED BY <2>3, <3>1
  <2>5. Cardinality(s) <= d /\ Cardinality(s) \in Nat
    <3>1. IsFiniteSet(bits)
      BY <1>1, FS_Subset
    <3>2. Cardinality(s) <= Cardinality(bits)
      BY <2>4, <3>1, FS_Subset
    <3> QED BY <1>2, <1>3, <2>3, <3>2
  <2>6. Cardinality(s) <= max
    BY <1>2, <1>5, <2>5
  <2>7. i \in bits
    BY <1>1, <2>2, <2>3, <2>6 DEF SelectedBits
  <2> QED BY <2>2, <2>7
<1> QED BY <1>1, <1>2, <1>4, <1>5

\* validatePayoutPlan (launch-prepare.service.ts) accepts exactly the plans that the
\* protocol takes, for every registry, limit and whole.
THEOREM PlanAcceptedIffSound ==
  ASSUME NEW entries, NEW plan \in SUBSET Nat, IsFiniteSet(plan), NEW max \in Nat, NEW wad \in Nat
  PROVE  ValidatePayoutPlan(plan, entries, max, wad) = "ok" <=>
           /\ Cardinality(plan) <= max
           /\ \A i \in plan : ~entries[i].suspended /\ entries[i].role = 1
           /\ ~(Takes(entries, plan) > wad)
<1>1. PICK bits : bits = SelectedBits(plan, max)
  OBVIOUS
<1>2. /\ Cardinality(bits) <= max <=> Cardinality(plan) <= max
      /\ Cardinality(plan) <= max => bits = plan
  BY <1>1, BitsCount
<1>3. Cardinality(plan) \in Nat /\ Cardinality(bits) \in Nat
  <2>1. bits \in SUBSET plan
    BY <1>1 DEF SelectedBits
  <2> QED BY <2>1, FS_Subset, FS_CardinalityType
<1> DEFINE bad == {i \in bits : entries[i].suspended \/ entries[i].role # 1}
<1>4. ValidatePayoutPlan(plan, entries, max, wad) =
        IF plan = {} THEN "ok"
        ELSE IF Cardinality(bits) > max THEN "PAYOUT_PLAN_TOO_MANY_PLUGINS"
        ELSE IF bad # {}
        THEN IF entries[Min(bad)].suspended THEN "PAYOUT_PLAN_ENTRY_SUSPENDED"
             ELSE "PAYOUT_PLAN_ENTRY_NOT_SELECTABLE"
        ELSE IF Takes(entries, bits) > wad THEN "PAYOUT_TAKES_ABOVE_WAD"
        ELSE "ok"
  BY <1>1 DEF ValidatePayoutPlan
<1>5. CASE plan = {}
  <2>1. Takes(entries, plan) = 0 /\ Cardinality(plan) = 0
    BY <1>5, FS_EmptySet DEF Takes
  <2>2. ~(0 > wad) /\ 0 <= max
    OBVIOUS
  <2> QED BY <1>4, <1>5, <2>1, <2>2
<1>6. CASE plan # {}
  <2>1. CASE Cardinality(plan) <= max
    <3>1. bits = plan /\ ~(Cardinality(bits) > max)
      BY <1>2, <1>3, <2>1
    <3>2. bad # {} <=> ~\A i \in plan : ~entries[i].suspended /\ entries[i].role = 1
      BY <3>1
    <3> HIDE DEF bad
    <3>3. "ok" # "PAYOUT_PLAN_ENTRY_SUSPENDED" /\ "ok" # "PAYOUT_PLAN_ENTRY_NOT_SELECTABLE" /\ "ok" # "PAYOUT_TAKES_ABOVE_WAD"
      OBVIOUS
    <3> QED BY <1>4, <1>6, <2>1, <3>1, <3>2, <3>3
  <2>2. CASE ~(Cardinality(plan) <= max)
    <3>1. Cardinality(bits) > max
      BY <1>2, <1>3, <2>2
    <3>2. "ok" # "PAYOUT_PLAN_TOO_MANY_PLUGINS"
      OBVIOUS
    <3> HIDE DEF bad
    <3> QED BY <1>4, <1>6, <2>2, <3>1, <3>2
  <2> QED BY <2>1, <2>2
<1> QED BY <1>5, <1>6

\* A call of isqrt.
LEMMA IsqrtStep ==
  ASSUME Next, fn' = "isqrt"
  PROVE  IsqrtFloor'
<1>1. PICK x \in 0..MaxRoot : call' = [x |-> x, answer |-> Isqrt(x)]
  BY Named DEF CallIsqrt
<1>2. x \in Nat /\ call'.x = x /\ call'.answer = Isqrt(x)
  BY <1>1, InputAssumption
<1>3. Isqrt(x) * Isqrt(x) <= x /\ x < (Isqrt(x) + 1) * (Isqrt(x) + 1)
  BY <1>2, IsqrtIsFloor
<1> QED BY <1>2, <1>3 DEF IsqrtFloor

\* A call of openingLevel.
LEMMA OpeningStep ==
  ASSUME Next, fn' = "opening"
  PROVE  OpeningReachesFdv'
<1>1. PICK supply \in {50, 100, 217}, fdv \in {30, 77, 150, 400} :
        call' = [supply |-> supply, fdv |-> fdv, answer |-> OpeningLevel(supply, fdv)]
  BY Named DEF CallOpening
<1>2. supply \in Nat /\ fdv \in Nat /\ fdv > 0
  OBVIOUS
<1>3. PICK level : level = OpeningLevel(supply, fdv)
  OBVIOUS
<1>4. call'.supply = supply /\ call'.fdv = fdv /\ call'.answer = level
  BY <1>1, <1>3
<1>5. level # NoLevel => /\ FdvEthWei(supply, SqrtPriceAtLevel(level)) >= fdv
                         /\ FdvEthWei(supply, SqrtPriceAtLevel(level - 1)) < fdv
  BY <1>2, <1>3, OpeningIsLowest
<1> QED BY <1>4, <1>5 DEF OpeningReachesFdv

\* A call of devBuyQuote on a curve.
LEMMA CurveStep ==
  ASSUME Next, fn' = "devBuy"
  PROVE  CurveIsCovered'
<1>1. PICK opening \in {-6, 0, 4}, span \in {5, 8}, positions \in {1, 3, 4}, supply \in {100, 157} :
        /\ FarLevel(opening, span) # NoLevel
        /\ call'.opening = opening /\ call'.far = FarLevel(opening, span)
        /\ call'.positions = positions /\ call'.supply = supply
  BY Named DEF CallDevBuy
<1>2. opening \in Int /\ span \in Nat /\ span > 0 /\ positions \in Nat /\ positions > 0 /\ supply \in Nat
  OBVIOUS
<1>3. PICK far \in Int : far = FarLevel(opening, span) /\ opening < far
  BY <1>1, <1>2 DEF FarLevel
<1>4. PICK f : f = Amounts(supply, positions)
  OBVIOUS
<1>5. Total(f, positions) = supply /\ \A i \in 1..positions : f[i] >= 0
  BY <1>2, <1>4, AmountsShare
<1>6. call'.far = far
  BY <1>1, <1>3
<1>7. /\ \A i \in 0..positions - 1 : /\ opening <= CurvePositionStart(opening, far, positions, i)
                                     /\ CurvePositionStart(opening, far, positions, i) < far
      /\ \A i, j \in 0..positions - 1 :
           i <= j => CurvePositionStart(opening, far, positions, i) <= CurvePositionStart(opening, far, positions, j)
  BY <1>2, <1>3, StartsRise
<1> QED BY <1>1, <1>4, <1>5, <1>6, <1>7 DEF CurveIsCovered, Amounts

\* A call of validatePayoutPlan.
LEMMA PlanStep ==
  ASSUME Next, fn' = "plan"
  PROVE  PlanSound'
<1>1. PICK entries \in Registry : \E plan \in SUBSET DOMAIN entries :
        call' = [entries |-> entries, plan |-> plan,
                 answer |-> ValidatePayoutPlan(plan, entries, MaxPlugins, 10)]
  BY Named DEF CallPlan
<1>2. PICK plan \in SUBSET DOMAIN entries :
        call' = [entries |-> entries, plan |-> plan,
                 answer |-> ValidatePayoutPlan(plan, entries, MaxPlugins, 10)]
  BY <1>1
<1>3. DOMAIN entries \subseteq Nat /\ IsFiniteSet(DOMAIN entries) /\ MaxPlugins \in Nat
  BY InputAssumption
<1>4. plan \in SUBSET Nat /\ IsFiniteSet(plan) /\ 10 \in Nat
  BY <1>3, FS_Subset
<1>5. call'.entries = entries /\ call'.plan = plan /\ call'.answer = ValidatePayoutPlan(plan, entries, MaxPlugins, 10)
  BY <1>2
<1>6. ValidatePayoutPlan(plan, entries, MaxPlugins, 10) = "ok" <=>
        /\ Cardinality(plan) <= MaxPlugins
        /\ \A i \in plan : ~entries[i].suspended /\ entries[i].role = 1
        /\ ~(Takes(entries, plan) > 10)
  BY <1>3, <1>4, PlanAcceptedIffSound
<1> QED BY <1>5, <1>6 DEF PlanSound

\* prepare (protocol-math.ts, launch-prepare.service.ts): for every tick table, every
\* argument of isqrt and every registry, the opening level is the lowest that reaches the
\* template's value, the positions share the whole supply of the curve, and a plan is
\* accepted exactly when it is within the limit, live, selectable and at most one whole.
THEOREM LaunchPlanAlwaysSound == Spec => []LaunchPlanSound
<1>1. Init => LaunchPlanSound
  BY DEF Init, LaunchPlanSound, IsqrtFloor, OpeningReachesFdv, CurveIsCovered, PlanSound
<1>2. LaunchPlanSound /\ [Next]_vars => LaunchPlanSound'
  <2>1. ASSUME LaunchPlanSound, UNCHANGED vars PROVE LaunchPlanSound'
    <3>1. fn' = fn /\ call' = call
      BY <2>1 DEF vars
    <3>2. IsqrtFloor' /\ OpeningReachesFdv'
      BY <2>1, <3>1 DEF LaunchPlanSound, IsqrtFloor, OpeningReachesFdv
    <3>3. CurveIsCovered'
      BY <2>1, <3>1 DEF LaunchPlanSound, CurveIsCovered
    <3>4. PlanSound'
      BY <2>1, <3>1 DEF LaunchPlanSound, PlanSound
    <3> QED BY <3>2, <3>3, <3>4 DEF LaunchPlanSound
  <2>2. CASE Next
    <3>1. IsqrtFloor'
      <4>1. fn' # "isqrt" => IsqrtFloor'
        BY DEF IsqrtFloor
      <4> QED BY <2>2, <4>1, IsqrtStep
    <3>2. OpeningReachesFdv'
      <4>1. fn' # "opening" => OpeningReachesFdv'
        BY DEF OpeningReachesFdv
      <4> QED BY <2>2, <4>1, OpeningStep
    <3>3. CurveIsCovered'
      <4>1. fn' # "devBuy" => CurveIsCovered'
        BY DEF CurveIsCovered
      <4> QED BY <2>2, <4>1, CurveStep
    <3>4. PlanSound'
      <4>1. fn' # "plan" => PlanSound'
        BY DEF PlanSound
      <4> QED BY <2>2, <4>1, PlanStep
    <3> QED BY <3>1, <3>2, <3>3, <3>4 DEF LaunchPlanSound
  <2> QED BY <2>1, <2>2
<1> QED BY <1>1, <1>2, PTL DEF Spec

-----------------------------------------------------------------------------
(* The milestone ladder.                                                   *)

\* Half of decay * n * (n + 1).
LEMMA Triangle ==
  ASSUME NEW decay \in Nat, NEW n \in Nat
  PROVE  \E h \in Nat : (decay * n * (n + 1)) \div 2 = h /\ 2 * h = decay * n * (n + 1)
<1> DEFINE S == {k \in Nat : \E h \in Nat : k * (k + 1) = 2 * h}
<1>1. 0 \in S
  <2>1. 0 * (0 + 1) = 2 * 0
    OBVIOUS
  <2> QED BY <2>1
<1>2. ASSUME NEW k \in Nat, k \in S PROVE k + 1 \in S
  <2>1. PICK h \in Nat : k * (k + 1) = 2 * h
    BY <1>2
  <2>2. (k + 1) * ((k + 1) + 1) = k * (k + 1) + 2 * (k + 1)
    OBVIOUS
  <2>3. (k + 1) * ((k + 1) + 1) = 2 * (h + k + 1)
    BY <2>1, <2>2
  <2>4. h + k + 1 \in Nat /\ k + 1 \in Nat
    OBVIOUS
  <2> QED BY <2>3, <2>4
<1>3. Nat \subseteq S
  <2> HIDE DEF S
  <2> QED BY <1>1, <1>2, Induct
<1>4. PICK h \in Nat : n * (n + 1) = 2 * h
  BY <1>3
<1>5. decay * n * (n + 1) = decay * (n * (n + 1))
  OBVIOUS
<1>6. decay * (2 * h) = 2 * (decay * h)
  OBVIOUS
<1>7. PICK g \in Nat : g = decay * h
  OBVIOUS
<1>8. decay * n * (n + 1) = 2 * g
  BY <1>4, <1>5, <1>6, <1>7
<1>9. (2 * g) \div 2 = g
  OBVIOUS
<1> QED BY <1>8, <1>9

\* The offset of the next band.
Rises(m, first, decay, spacing) ==
  BandOffset(m + 1, first, decay, spacing) =
    BandOffset(m, first, decay, spacing) + Max({spacing, first - decay * m})

LEMMA OffsetStep ==
  ASSUME NEW first \in Nat, NEW decay \in Nat, decay > 0, NEW spacing \in Nat, spacing <= first, NEW m \in Nat
  PROVE  Rises(m, first, decay, spacing)
<1> USE DEF Rises
<1>1. PICK k \in Nat : /\ k = (first - spacing) \div decay
                       /\ k * decay <= first - spacing /\ first - spacing < k * decay + decay
  <2>1. first - spacing \in Nat
    OBVIOUS
  <2>2. PICK d \in Nat : d = first - spacing
    BY <2>1
  <2>3. d \div decay \in Nat /\ (d \div decay) * decay <= d /\ d < (d \div decay) * decay + decay
    BY Quotient
  <2> QED BY <2>2, <2>3
<1> DEFINE Tri(n) == (decay * n * (n + 1)) \div 2
<1>2. \A n : BandOffset(n, first, decay, spacing) =
        IF n <= k + 1 THEN first * n - (decay * n * (n - 1)) \div 2
        ELSE first * (k + 1) - Tri(k) + (n - k - 1) * spacing
  BY <1>1 DEF BandOffset
<1>3. \A n \in Nat : Tri(n) \in Nat /\ 2 * Tri(n) = decay * n * (n + 1)
  BY Triangle, ZenonT(60)
<1>4. \A n \in Nat : (decay * (n + 1) * ((n + 1) - 1)) \div 2 = Tri(n)
  <2> SUFFICES ASSUME NEW n \in Nat PROVE (decay * (n + 1) * ((n + 1) - 1)) \div 2 = Tri(n)
    OBVIOUS
  <2>1. (n + 1) - 1 = n /\ decay * (n + 1) * n = decay * n * (n + 1)
    OBVIOUS
  <2> QED BY <2>1
<1> HIDE DEF Tri
<1>5. BandOffset(0, first, decay, spacing) = 0
  <2>1. first * 0 = 0 /\ decay * 0 * (0 - 1) = 0 /\ 0 \div 2 = 0 /\ 0 <= k + 1
    OBVIOUS
  <2> QED BY <1>2, <2>1
<1>6. \A n \in Nat : n <= k => BandOffset(n + 1, first, decay, spacing) = first * (n + 1) - Tri(n)
  <2> SUFFICES ASSUME NEW n \in Nat, n <= k
               PROVE  BandOffset(n + 1, first, decay, spacing) = first * (n + 1) - Tri(n)
    OBVIOUS
  <2>1. n + 1 <= k + 1
    OBVIOUS
  <2> QED BY <1>2, <1>4, <2>1
<1>7. \A n \in Nat : n > k => BandOffset(n + 1, first, decay, spacing) = first * (k + 1) - Tri(k) + (n - k) * spacing
  <2> SUFFICES ASSUME NEW n \in Nat, n > k
               PROVE  BandOffset(n + 1, first, decay, spacing) = first * (k + 1) - Tri(k) + (n - k) * spacing
    OBVIOUS
  <2>1. ~(n + 1 <= k + 1) /\ (n + 1) - k - 1 = n - k
    OBVIOUS
  <2> QED BY <1>2, <2>1
<1>8. PICK x, y \in Int : x = first - decay * m /\ y = Max({spacing, x}) /\ y = IF spacing >= x THEN spacing ELSE x
  <2>1. PICK x \in Int : x = first - decay * m
    OBVIOUS
  <2>2. Max({spacing, x}) = IF spacing >= x THEN spacing ELSE x
    BY MaxTwo
  <2>3. PICK y \in Int : y = IF spacing >= x THEN spacing ELSE x
    OBVIOUS
  <2> QED BY <2>1, <2>2, <2>3
<1>9. CASE m = 0
  <2>1. x = first /\ y = first
    <3>1. decay * 0 = 0
      OBVIOUS
    <3> QED BY <1>8, <1>9, <3>1
  <2>2. Tri(0) = 0
    <3>1. 2 * Tri(0) = decay * 0 * (0 + 1) /\ decay * 0 * (0 + 1) = 0 /\ Tri(0) \in Nat
      BY <1>3
    <3> QED BY <3>1
  <2>3. BandOffset(0 + 1, first, decay, spacing) = first * (0 + 1) - Tri(0)
    BY <1>6
  <2> QED BY <1>5, <1>8, <1>9, <2>1, <2>2, <2>3
<1>10. CASE m # 0
  <2>1. PICK n \in Nat : m = n + 1
    <3>1. m - 1 \in Nat /\ m = (m - 1) + 1
      BY <1>10
    <3> QED BY <3>1
  <2>2. CASE m <= k
    <3>1. n <= k /\ m \in Nat
      BY <2>1, <2>2
    <3>2. PICK tm, tn \in Nat : tm = Tri(m) /\ tn = Tri(n)
      BY <1>3
    <3>3. BandOffset(m, first, decay, spacing) = first * m - tn /\ BandOffset(m + 1, first, decay, spacing) = first * (m + 1) - tm
      BY <1>6, <2>1, <2>2, <3>1, <3>2
    <3>4. 2 * tm = decay * m * (m + 1) /\ 2 * tn = decay * n * (n + 1)
      BY <1>3, <3>2
    <3>5. decay * m * (m + 1) = decay * n * (n + 1) + 2 * (decay * m)
      BY <2>1
    <3>6. PICK dm \in Int : dm = decay * m
      OBVIOUS
    <3>7. tm = tn + dm
      BY <3>4, <3>5, <3>6
    <3>8. first * (m + 1) = first * m + first
      OBVIOUS
    <3>9. x >= spacing
      <4>1. decay * m <= k * decay
        BY <2>2
      <4> QED BY <1>1, <1>8, <4>1
    <3>10. y = x /\ x = first - dm
      BY <1>8, <3>6, <3>9
    <3>11. PICK fm \in Int : fm = first * m
      OBVIOUS
    <3> QED BY <1>8, <3>3, <3>7, <3>8, <3>10, <3>11
  <2>3. CASE m > k
    <3>1. y = spacing
      <4>1. decay * m >= decay * (k + 1)
        BY <2>3
      <4>2. decay * (k + 1) = k * decay + decay
        OBVIOUS
      <4> QED BY <1>1, <1>8, <4>1, <4>2
    <3>2. PICK b \in Int : b = first * (k + 1) - Tri(k)
      BY <1>3
    <3>3. BandOffset(m + 1, first, decay, spacing) = b + (m - k) * spacing
      BY <1>7, <2>3, <3>2
    <3>4. BandOffset(m, first, decay, spacing) = b + (n - k) * spacing
      <4>1. CASE n > k
        BY <1>7, <2>1, <3>2, <4>1
      <4>2. CASE n = k
        <5>1. (n - k) * spacing = 0
          BY <4>2
        <5> QED BY <1>6, <2>1, <3>2, <4>2, <5>1
      <4> QED BY <2>1, <2>3, <4>1, <4>2
    <3>5. (m - k) * spacing = (n - k) * spacing + spacing
      BY <2>1
    <3>6. PICK c \in Int : c = (n - k) * spacing
      OBVIOUS
    <3> QED BY <1>8, <3>1, <3>2, <3>3, <3>4, <3>5, <3>6
  <2> QED BY <2>2, <2>3
<1> QED BY <1>9, <1>10

\* bandOffset (protocol-math.ts): the closed form is the sum of the decaying schedule,
\* for ladders of any length.
THEOREM ClosedFormIsSchedule ==
  ASSUME NEW first \in Nat, NEW decay \in Nat, decay > 0, NEW spacing \in Nat, spacing <= first, NEW m \in Nat
  PROVE  BandOffset(m, first, decay, spacing) = Total(Schedule(first, decay, spacing, m), m)
<1> DEFINE f == [j \in 1..m |-> Max({spacing, first - decay * (j - 1)})]
           B(n) == BandOffset(n, first, decay, spacing)
           S == {n \in Nat : n <= m => B(n) = Total(f, n)}
<1>1. \A j \in 1..m : f[j] \in Int
  <2> SUFFICES ASSUME NEW j \in 1..m PROVE f[j] \in Int
    OBVIOUS
  <2>1. PICK x \in Int : x = first - decay * (j - 1)
    OBVIOUS
  <2>2. Max({spacing, x}) = IF spacing >= x THEN spacing ELSE x
    BY MaxTwo
  <2> QED BY <2>1, <2>2
<1>2. \A n \in Nat : n + 1 <= m => f[n + 1] = Max({spacing, first - decay * n})
  <2>1. \A n \in Nat : n + 1 <= m => n + 1 \in 1..m /\ (n + 1) - 1 = n
    OBVIOUS
  <2> QED BY <2>1
<1> HIDE DEF f
<1>3. 0 \in S
  <2>1. B(0) = 0
    <3>1. PICK k \in Nat : k = (first - spacing) \div decay
      <4>1. first - spacing \in Nat
        OBVIOUS
      <4> QED BY <4>1, Quotient
    <3>2. first * 0 = 0 /\ decay * 0 * (0 - 1) = 0 /\ 0 \div 2 = 0 /\ 0 <= k + 1
      OBVIOUS
    <3> QED BY <3>1, <3>2 DEF BandOffset
  <2> QED BY <2>1, TotalZero
<1>4. ASSUME NEW n \in Nat, n \in S PROVE n + 1 \in S
  <2> SUFFICES ASSUME n + 1 <= m PROVE B(n + 1) = Total(f, n + 1)
    OBVIOUS
  <2>1. B(n) = Total(f, n)
    <3>1. n <= m
      OBVIOUS
    <3> HIDE DEF B
    <3> QED BY <1>4, <3>1
  <2>2. Total(f, n + 1) = Total(f, n) + f[n + 1]
    <3>1. \A i \in 1..(n + 1) : i \in 1..m
      OBVIOUS
    <3>2. \A i \in 1..(n + 1) : f[i] \in Int
      BY <1>1, <3>1
    <3> QED BY <3>2, TotalStep
  <2>3. B(n + 1) = B(n) + Max({spacing, first - decay * n})
    <3>1. decay > 0 /\ spacing <= first
      OBVIOUS
    <3>2. Rises(n, first, decay, spacing)
      BY <3>1, OffsetStep
    <3> QED BY <3>2 DEF Rises
  <2> QED BY <1>2, <2>1, <2>2, <2>3
<1>5. Nat \subseteq S
  <2> HIDE DEF S
  <2> QED BY <1>3, <1>4, Induct
<1>6. B(m) = Total(f, m)
  <2>1. m <= m
    OBVIOUS
  <2> HIDE DEF B
  <2> QED BY <1>5, <2>1
<1>7. f = Schedule(first, decay, spacing, m)
  BY DEF f, Schedule
<1> QED BY <1>6, <1>7
=============================================================================
