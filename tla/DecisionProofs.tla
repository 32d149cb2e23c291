--------------------------- MODULE DecisionProofs ---------------------------
(***************************************************************************)
(* What risk aggregation and reconciliation promise for every bundle,      *)
(* action, identity and list of risk factors, of any length.               *)
(*                                                                         *)
(* The library's induction theorems speak of arbitrary predicates, which   *)
(* the provers cannot instantiate.  Induction here is over sets: a set of  *)
(* numbers that has 0 and is closed under successors has them all.         *)
(***************************************************************************)
EXTENDS DecisionGrowth, WellFoundedInduction, TLAPS

(***************************************************************************)
(* Every set of natural numbers has a least one.                           *)
(***************************************************************************)
LEMMA LeastNumber ==
  ASSUME NEW S \in SUBSET Nat, S # {}
  PROVE  \E m \in S : \A k \in S : m <= k
<1>1. \E x \in S : \A y \in S : ~(<<y, x>> \in OpToRel(<, Nat))
  BY NatLessThanWellFounded, WFMin
<1>2. ASSUME NEW x \in Nat, NEW y \in Nat, ~(<<y, x>> \in OpToRel(<, Nat))
      PROVE  x <= y
  BY <1>2 DEF OpToRel
<1> QED BY <1>1, <1>2

(***************************************************************************)
(* Induction: a set with 0 and the successors of its members has every     *)
(* natural number.                                                         *)
(***************************************************************************)
LEMMA Induction ==
  ASSUME NEW S, 0 \in S, \A n \in Nat : n \in S => n + 1 \in S
  PROVE  \A n \in Nat : n \in S
<1> SUFFICES ASSUME Nat \ S # {} PROVE FALSE
  OBVIOUS
<1>1. PICK m \in Nat \ S : \A k \in Nat \ S : m <= k
  BY LeastNumber
<1>2. m # 0 /\ m - 1 \in Nat /\ m - 1 \in S
  BY <1>1
<1> QED BY <1>1, <1>2

\* The values of a recursion on 0 .. L from a on, each taken to the next by h.
Steps(h, A, L) == h \in [1 .. L -> [A -> A]]
Solves(p, h, A, L, a) ==
  /\ p \in [0 .. L -> A]
  /\ p[0] = a
  /\ \A n \in 1 .. L : p[n] = h[n][p[n - 1]]

(***************************************************************************)
(* Such a recursion has a solution.                                        *)
(***************************************************************************)
LEMMA Recursion ==
  ASSUME NEW A, NEW a \in A, NEW L \in Nat, NEW h, Steps(h, A, L)
  PROVE  \E p : Solves(p, h, A, L, a)
<1> USE DEF Steps
<1> DEFINE Upto(k, p) == p[0] = a /\ \A n \in 1 .. k : p[n] = h[n][p[n - 1]]
           S == {k \in Nat : k <= L => \E p \in [0 .. k -> A] : Upto(k, p)}
<1>1. 0 \in S
  <2>1. /\ [n \in 0 .. 0 |-> a] \in [0 .. 0 -> A]
        /\ Upto(0, [n \in 0 .. 0 |-> a])
    OBVIOUS
  <2> QED BY <2>1
<1>2. ASSUME NEW k \in Nat, k \in S PROVE k + 1 \in S
  <2> SUFFICES ASSUME k + 1 <= L
               PROVE  \E p \in [0 .. k + 1 -> A] : Upto(k + 1, p)
    OBVIOUS
  <2>1. PICK p \in [0 .. k -> A] : Upto(k, p)
    <3>1. k <= L
      OBVIOUS
    <3> QED BY <1>2, <3>1
  <2> DEFINE q == [n \in 0 .. k + 1 |-> IF n = k + 1 THEN h[k + 1][p[k]] ELSE p[n]]
  <2>2. h[k + 1][p[k]] \in A
    OBVIOUS
  <2>3. q \in [0 .. k + 1 -> A]
    BY <2>2
  <2>4. q[0] = a
    BY <2>1
  <2>5. ASSUME NEW n \in 1 .. k + 1 PROVE q[n] = h[n][q[n - 1]]
    <3>1. CASE n = k + 1
      BY <3>1
    <3>2. CASE n # k + 1
      <4>1. n \in 1 .. k /\ n - 1 \in 0 .. k /\ n - 1 # k + 1
        BY <3>2
      <4> QED BY <2>1, <4>1
    <3> QED BY <3>1, <3>2
  <2> QED BY <2>3, <2>4, <2>5
<1>3. L \in S
  <2> HIDE DEF S
  <2> QED BY <1>1, <1>2, Induction
<1> QED BY <1>3 DEF Solves

-----------------------------------------------------------------------------
(***************************************************************************)
(* Product is the recursion its definition says: there are partial         *)
(* products, from 1 on, and it is the last of them.                        *)
(***************************************************************************)
LEMMA ProductSteps ==
  ASSUME NEW s \in Seq(Nat)
  PROVE  \E p \in [0 .. Len(s) -> Nat] :
           /\ p[0] = 1 /\ \A n \in 1 .. Len(s) : p[n] = p[n - 1] * s[n]
           /\ Product(s) = p[Len(s)]
<1> DEFINE L == Len(s)
           F(p) == [n \in 0 .. L |-> IF n = 0 THEN 1 ELSE p[n - 1] * s[n]]
           h == [n \in 1 .. L |-> [v \in Nat |-> v * s[n]]]
           product == CHOOSE g : g = F(g)
<1>1. L \in Nat
  OBVIOUS
<1>2. h \in [1 .. L -> [Nat -> Nat]]
  OBVIOUS
<1>3. PICK p \in [0 .. L -> Nat] :
        p[0] = 1 /\ \A n \in 1 .. L : p[n] = p[n - 1] * s[n]
  <2>1. 1 \in Nat
    OBVIOUS
  <2>2. PICK p : Solves(p, h, Nat, L, 1)
    <3>1. Steps(h, Nat, L)
      BY <1>2 DEF Steps
    <3> HIDE DEF h, L
    <3> QED BY <1>1, <2>1, <3>1, Recursion
  <2>3. ASSUME NEW n \in 1 .. L PROVE p[n] = p[n - 1] * s[n]
    <3>1. n - 1 \in 0 .. L
      BY <1>1
    <3>2. p[n - 1] \in Nat
      BY <2>2, <3>1 DEF Solves
    <3>3. p[n] = h[n][p[n - 1]]
      BY <2>2 DEF Solves
    <3>4. h[n] = [v \in Nat |-> v * s[n]]
      OBVIOUS
    <3> HIDE DEF h
    <3> QED BY <3>2, <3>3, <3>4
  <2> QED BY <2>2, <2>3 DEF Solves
<1>4. p = F(p)
  BY <1>1, <1>3
<1>5. product = F(product)
  <2> HIDE DEF F
  <2> QED BY <1>4
<1>6. Product(s) = product[L]
  BY DEF Product
<1> HIDE DEF product
<1> DEFINE T == {n \in Nat : n <= L => product[n] = p[n]}
<1>7. 0 \in T
  BY <1>1, <1>3, <1>5
<1>8. ASSUME NEW n \in Nat, n \in T PROVE n + 1 \in T
  <2> SUFFICES ASSUME n + 1 <= L PROVE product[n + 1] = p[n + 1]
    OBVIOUS
  <2>1. product[n] = p[n] /\ n + 1 \in 1 .. L
    BY <1>1, <1>8
  <2>2. product[n + 1] = product[n] * s[n + 1]
    BY <1>5, <2>1
  <2> QED BY <1>3, <2>1, <2>2
<1>9. L \in T
  <2> HIDE DEF T
  <2> QED BY <1>1, <1>7, <1>8, Induction
<1> QED BY <1>1, <1>3, <1>6, <1>9

(***************************************************************************)
(* One more number at the end multiplies the product.                      *)
(***************************************************************************)
LEMMA ProductAppend ==
  ASSUME NEW s \in Seq(Nat), NEW x \in Nat
  PROVE  Product(Append(s, x)) = Product(s) * x
<1> DEFINE L == Len(s)
           t == Append(s, x)
<1>1. L \in Nat /\ t \in Seq(Nat) /\ Len(t) = L + 1 /\ t[L + 1] = x
  OBVIOUS
<1>2. \A n \in 1 .. L : t[n] = s[n]
  OBVIOUS
<1>3. PICK p \in [0 .. L -> Nat] :
        /\ p[0] = 1 /\ \A n \in 1 .. L : p[n] = p[n - 1] * s[n]
        /\ Product(s) = p[L]
  BY ProductSteps
<1> HIDE DEF t, L
<1>4. PICK q \in [0 .. L + 1 -> Nat] :
        /\ q[0] = 1 /\ \A n \in 1 .. L + 1 : q[n] = q[n - 1] * t[n]
        /\ Product(t) = q[L + 1]
  BY <1>1, ProductSteps
<1> DEFINE T == {n \in Nat : n <= L => q[n] = p[n]}
<1>5. 0 \in T
  BY <1>3, <1>4
<1>6. ASSUME NEW n \in Nat, n \in T PROVE n + 1 \in T
  <2> SUFFICES ASSUME n + 1 <= L PROVE q[n + 1] = p[n + 1]
    OBVIOUS
  <2>1. q[n] = p[n] /\ n + 1 \in 1 .. L /\ n + 1 \in 1 .. L + 1
    BY <1>1, <1>6
  <2>2. q[n + 1] = q[n] * t[n + 1] /\ p[n + 1] = p[n] * s[n + 1]
    BY <1>3, <1>4, <2>1
  <2> QED BY <1>2, <2>1, <2>2
<1>7. L \in T
  <2> HIDE DEF T
  <2> QED BY <1>1, <1>5, <1>6, Induction
<1>8. q[L + 1] = q[L] * t[L + 1]
  BY <1>1, <1>4
<1> QED BY <1>1, <1>3, <1>4, <1>7, <1>8 DEF t

(***************************************************************************)
(* Severities in a list of factors are numbers of twentieths.              *)
(***************************************************************************)
LEMMA FactorAt ==
  ASSUME NEW f \in Seq(Factor), NEW i \in DOMAIN f
  PROVE  f[i] \in Factor /\ f[i].severity \in 0 .. 20
<1>1. f[i] \in Factor
  OBVIOUS
<1>2. ASSUME NEW g \in Factor PROVE g.severity \in 0 .. 20
  BY DEF Factor
<1> QED BY <1>1, <1>2

(***************************************************************************)
(* What each factor leaves of the whole: the product of 1 - severity is a  *)
(* fraction of the Whole, and at most the 1 - severity of each factor.     *)
(***************************************************************************)
LEMMA SafeProductBound ==
  ASSUME NEW f \in Seq(Factor)
  PROVE  /\ Whole(f) \in Nat /\ Whole(f) >= 1
         /\ SafeProduct(f) \in Nat /\ SafeProduct(f) <= Whole(f)
         /\ \A i \in DOMAIN f :
              20 * SafeProduct(f) <= (20 - f[i].severity) * Whole(f)
<1> DEFINE L == Len(f)
           s == [i \in DOMAIN f |-> 20 - Clamp(f[i].severity, 0, 20)]
           u == [i \in DOMAIN f |-> 20]
<1>1. L \in Nat /\ DOMAIN f = 1 .. L
  OBVIOUS
<1>2. \A i \in 1 .. L : f[i].severity \in 0 .. 20
  BY <1>1, FactorAt
<1>3. \A i \in 1 .. L : s[i] = 20 - f[i].severity /\ s[i] \in 0 .. 20
  <2> SUFFICES ASSUME NEW i \in 1 .. L
               PROVE  s[i] = 20 - f[i].severity /\ s[i] \in 0 .. 20
    OBVIOUS
  <2>1. s[i] = 20 - Clamp(f[i].severity, 0, 20)
    BY <1>1
  <2>2. ASSUME NEW c \in 0 .. 20 PROVE Clamp(c, 0, 20) = c /\ 20 - c \in 0 .. 20
    BY DEF Clamp
  <2> HIDE DEF s
  <2> QED BY <1>2, <2>1, <2>2
<1>4. s \in Seq(Nat) /\ Len(s) = L /\ SafeProduct(f) = Product(s)
  <2>1. s = [i \in 1 .. L |-> s[i]]
    BY <1>1
  <2>2. SafeProduct(f) = Product(s)
    BY DEF SafeProduct
  <2> HIDE DEF s
  <2>3. 0 .. 20 \subseteq Nat
    OBVIOUS
  <2>4. \A i \in 1 .. L : s[i] \in Nat
    BY <1>3, <2>3
  <2> QED BY <1>1, <2>1, <2>2, <2>4
<1>5. u \in Seq(Nat) /\ Len(u) = L /\ Whole(f) = Product(u)
  BY <1>1 DEF Whole
<1>6. \A i \in 1 .. L : u[i] = 20
  OBVIOUS
<1> HIDE DEF s, u, L
<1>7. PICK p \in [0 .. L -> Nat] :
        /\ p[0] = 1 /\ \A n \in 1 .. L : p[n] = p[n - 1] * s[n]
        /\ SafeProduct(f) = p[L]
  BY <1>4, ProductSteps
<1>8. PICK w \in [0 .. L -> Nat] :
        /\ w[0] = 1 /\ \A n \in 1 .. L : w[n] = w[n - 1] * u[n]
        /\ Whole(f) = w[L]
  BY <1>5, ProductSteps
<1> DEFINE T == {n \in Nat : n <= L => /\ w[n] >= 1 /\ p[n] <= w[n]
                                       /\ \A i \in 1 .. L : i <= n =>
                                            20 * p[n] <= s[i] * w[n]}
<1>9. 0 \in T
  BY <1>7, <1>8
<1>10. ASSUME NEW n \in Nat, n \in T PROVE n + 1 \in T
  <2> SUFFICES ASSUME n + 1 <= L
               PROVE  /\ w[n + 1] >= 1 /\ p[n + 1] <= w[n + 1]
                      /\ \A i \in 1 .. L : i <= n + 1 => 20 * p[n + 1] <= s[i] * w[n + 1]
    OBVIOUS
  <2>1. n \in 0 .. L /\ n + 1 \in 1 .. L /\ p[n] \in Nat /\ w[n] \in Nat
    BY <1>1
  <2>2. /\ w[n] >= 1 /\ p[n] <= w[n]
        /\ \A i \in 1 .. L : i <= n => 20 * p[n] <= s[i] * w[n]
    BY <1>1, <1>10
  <2> HIDE DEF T
  <2>3. s[n + 1] \in 0 .. 20
    BY <1>3, <2>1
  <2>4. p[n + 1] = p[n] * s[n + 1]
    BY <1>7, <2>1
  <2>5. w[n + 1] = 20 * w[n]
    BY <1>6, <1>8, <2>1
  <2>6. ASSUME NEW a \in Nat, NEW b \in Nat, NEW c \in 0 .. 20, NEW d \in 0 .. 20, a <= b
        PROVE  /\ a * c <= 20 * b
               /\ 20 * (a * c) <= c * (20 * b)
               /\ 20 * a <= d * b => 20 * (a * c) <= d * (20 * b)
    BY <2>6
  <2>7. w[n + 1] >= 1 /\ p[n + 1] <= w[n + 1]
    <3>1. p[n] * s[n + 1] <= 20 * w[n]
      BY <2>1, <2>2, <2>3, <2>6
    <3> QED BY <2>1, <2>2, <2>4, <2>5, <3>1
  <2>8. 20 * p[n + 1] <= s[n + 1] * w[n + 1]
    BY <2>1, <2>2, <2>3, <2>4, <2>5, <2>6
  <2>9. ASSUME NEW i \in 1 .. L, i <= n PROVE 20 * p[n + 1] <= s[i] * w[n + 1]
    <3>1. 20 * p[n] <= s[i] * w[n] /\ s[i] \in 0 .. 20
      BY <1>3, <2>2, <2>9
    <3> QED BY <2>1, <2>2, <2>3, <2>4, <2>5, <2>6, <3>1
  <2>10. \A i \in 1 .. L : i <= n + 1 => i <= n \/ i = n + 1
    BY <1>1
  <2> QED BY <2>7, <2>8, <2>9, <2>10
<1>11. L \in T
  <2> HIDE DEF T
  <2> QED BY <1>1, <1>9, <1>10, Induction
<1>12. /\ w[L] >= 1 /\ p[L] <= w[L]
       /\ \A i \in 1 .. L : i <= L => 20 * p[L] <= s[i] * w[L]
  BY <1>1, <1>11
<1>13. p[L] \in Nat /\ w[L] \in Nat
  BY <1>1
<1>14. ASSUME NEW i \in DOMAIN f PROVE 20 * p[L] <= (20 - f[i].severity) * w[L]
  <2>1. i \in 1 .. L /\ i <= L
    BY <1>1
  <2>2. s[i] = 20 - f[i].severity /\ 20 * p[L] <= s[i] * w[L]
    BY <1>3, <1>12, <2>1
  <2> QED BY <2>2
<1> QED BY <1>7, <1>8, <1>12, <1>13, <1>14

(***************************************************************************)
(* The risk score is between 0 and 1, in ten-thousandths, and at least the *)
(* severity of each of its factors.                                        *)
(***************************************************************************)
LEMMA RiskBound ==
  ASSUME NEW f \in Seq(Factor)
  PROVE  /\ AggregateRisk(f) \in RiskScores
         /\ \A i \in DOMAIN f : AggregateRisk(f) >= 500 * f[i].severity
<1> DEFINE p == SafeProduct(f)
           w == Whole(f)
<1>1. /\ w \in Nat /\ w >= 1 /\ p \in Nat /\ p <= w
      /\ \A i \in DOMAIN f : 20 * p <= (20 - f[i].severity) * w
  BY SafeProductBound
<1>2. AggregateRisk(f) = (10000 * (w - p) + w \div 2) \div w
  BY DEF AggregateRisk
<1> HIDE DEF p, w
<1>3. w \div 2 \in Nat /\ 2 * (w \div 2) <= w
  BY <1>1
<1> DEFINE h == w \div 2
<1> HIDE DEF h
<1>4. ASSUME NEW a \in Nat, NEW b \in Nat, b >= 1, NEW k \in Nat
      PROVE  /\ a \div b \in Nat
             /\ a >= k * b => a \div b >= k
             /\ a < k * b => a \div b < k
  BY <1>4
<1>5. 10000 * (w - p) + h \in Nat /\ 10000 * (w - p) + h < 10001 * w
  BY <1>1, <1>3 DEF h
<1>6. ASSUME NEW i \in DOMAIN f
      PROVE  10000 * (w - p) + h >= (500 * f[i].severity) * w
             /\ 500 * f[i].severity \in Nat
  <2>1. PICK c \in 0 .. 20 : c = f[i].severity
    BY FactorAt
  <2>2. 20 * p <= (20 - c) * w
    BY <1>1, <2>1
  <2>3. 10000 * (w - p) + h >= (500 * c) * w
    BY <1>1, <1>3, <2>2 DEF h
  <2>4. 500 * c \in Nat
    OBVIOUS
  <2> QED BY <2>1, <2>3, <2>4
<1> DEFINE top == 10000 * (w - p) + h
<1>7. AggregateRisk(f) = top \div w /\ top \in Nat /\ top < 10001 * w
  BY <1>2, <1>5 DEF h
<1>8. w \in Nat /\ w >= 1
  BY <1>1
<1>9. AggregateRisk(f) \in RiskScores
  <2> HIDE DEF top
  <2>1. top \div w \in Nat /\ top \div w < 10001
    BY <1>4, <1>7, <1>8
  <2>2. ASSUME NEW q \in Nat, q < 10001 PROVE q \in RiskScores
    BY <2>2 DEF RiskScores
  <2> QED BY <1>7, <2>1, <2>2
<1>10. ASSUME NEW i \in DOMAIN f PROVE AggregateRisk(f) >= 500 * f[i].severity
  <2>1. PICK k \in Nat : k = 500 * f[i].severity /\ top >= k * w
    BY <1>6
  <2> HIDE DEF top
  <2>2. top \div w >= k
    BY <1>4, <1>7, <1>8, <2>1
  <2> QED BY <1>7, <2>1, <2>2
<1> QED BY <1>9, <1>10

(***************************************************************************)
(* One more factor never lowers the risk score, whatever the rounding.     *)
(***************************************************************************)
LEMMA RiskGrows ==
  ASSUME NEW f \in Seq(Factor), NEW g \in Factor
  PROVE  AggregateRisk(f) <= AggregateRisk(Append(f, g))
<1> DEFINE p == SafeProduct(f)
           w == Whole(f)
           e == Append(f, g)
           s == [i \in DOMAIN f |-> 20 - Clamp(f[i].severity, 0, 20)]
           u == [i \in DOMAIN f |-> 20]
<1>1. w \in Nat /\ w >= 1 /\ p \in Nat /\ p <= w
  BY SafeProductBound
<1>2. e \in Seq(Factor) /\ Len(e) = Len(f) + 1 /\ Len(f) \in Nat /\ e[Len(f) + 1] = g
  OBVIOUS
<1>3. \A i \in 1 .. Len(f) : e[i] = f[i]
  OBVIOUS
<1>4. PICK c \in 0 .. 20 : c = 20 - Clamp(g.severity, 0, 20)
  <2>1. PICK d \in 0 .. 20 : d = g.severity
    BY DEF Factor
  <2>2. 20 - Clamp(d, 0, 20) \in 0 .. 20
    BY DEF Clamp
  <2> QED BY <2>1, <2>2
<1>5. DOMAIN f = 1 .. Len(f) /\ DOMAIN e = 1 .. Len(f) + 1
  BY <1>2
<1> HIDE DEF e
<1>6. s \in Seq(Nat) /\ Len(s) = Len(f)
  <2>1. ASSUME NEW i \in DOMAIN f PROVE 20 - Clamp(f[i].severity, 0, 20) \in Nat
    <3>1. f[i].severity \in 0 .. 20
      BY FactorAt
    <3>2. ASSUME NEW d \in 0 .. 20 PROVE 20 - Clamp(d, 0, 20) \in Nat
      BY DEF Clamp
    <3> QED BY <3>1, <3>2
  <2> QED BY <1>2, <1>5, <2>1
<1>7. u \in Seq(Nat) /\ Len(u) = Len(f)
  BY <1>2, <1>5
<1>8. SafeProduct(e) = p * c
  <2> DEFINE t == [i \in DOMAIN e |-> 20 - Clamp(e[i].severity, 0, 20)]
  <2>1. t = Append(s, c)
    BY <1>2, <1>3, <1>4, <1>5, <1>6
  <2>2. p = Product(s)
    BY DEF SafeProduct
  <2>3. SafeProduct(e) = Product(Append(s, c)) /\ c \in Nat
    <3>1. SafeProduct(e) = Product(t)
      BY DEF SafeProduct
    <3> HIDE DEF s, t
    <3> QED BY <2>1, <3>1
  <2> HIDE DEF s
  <2> QED BY <1>6, <2>2, <2>3, ProductAppend
<1>9. Whole(e) = w * 20
  <2>1. [i \in DOMAIN e |-> 20] = Append(u, 20)
    BY <1>2, <1>5, <1>7
  <2>2. w = Product(u) /\ 20 \in Nat
    BY DEF Whole
  <2> HIDE DEF u
  <2> QED BY <1>7, <2>1, <2>2, ProductAppend DEF Whole
<1>10. /\ AggregateRisk(f) = (10000 * (w - p) + w \div 2) \div w
       /\ AggregateRisk(e) = (10000 * (w * 20 - p * c) + (w * 20) \div 2) \div (w * 20)
  BY <1>8, <1>9 DEF AggregateRisk
<1> HIDE DEF p, w
<1>11. PICK h \in Nat : h = w \div 2 /\ 2 * h <= w
  BY <1>1
<1>12. (w * 20) \div 2 = 10 * w
  BY <1>1
<1>13. PICK n \in Nat : n = 10000 * (w - p) + h
  BY <1>1
<1>14. PICK k \in Nat : k = n \div w /\ k * w <= n
  BY <1>1
<1>15. PICK m \in Nat : m = 10000 * (w * 20 - p * c) + 10 * w /\ m >= 20 * n
  <2>1. p * c \in Nat /\ p * c <= 20 * p
    BY <1>1
  <2> QED BY <1>1, <1>11, <1>13, <2>1
<1>16. m >= k * (w * 20) /\ w * 20 \in Nat /\ w * 20 >= 1
  <2>1. 20 * (k * w) <= m
    <3>1. k * w \in Nat
      BY <1>1
    <3> QED BY <1>14, <1>15, <3>1
  <2>2. 20 * (k * w) = k * (w * 20)
    BY <1>1
  <2> QED BY <1>1, <2>1, <2>2
<1>17. m \div (w * 20) >= k
  BY <1>16
<1> QED BY <1>10, <1>11, <1>12, <1>13, <1>14, <1>15, <1>17 DEF e

(***************************************************************************)
(* An action is allowed when nothing restricts it, and only then.          *)
(***************************************************************************)
LEMMA AllowedIff ==
  ASSUME NEW b, NEW a, NEW i, NEW f \in Seq(Factor)
  PROVE  Verdict(b, a, i, f) = "allow" <=>
           /\ Effects(b, a, i, f) \cap {"deny", "escalate", "throttle"} = {}
           /\ AggregateRisk(f) < ThrottleThreshold
           /\ i # NoIdentity
           /\ Adjust(i, f, "allow").tier = "observe" => a.type \in ReadOnlyTypes
<1> DEFINE E == Effects(b, a, i, f)
           R == AggregateRisk(f)
           v == Reconcile(E, R, i)
<1>1. R \in Int
  <2>1. R \in RiskScores
    BY RiskBound
  <2> HIDE DEF R
  <2> QED BY <2>1 DEF RiskScores
<1>2. Verdict(b, a, i, f) = TrustGate(a, i, f, v)
  BY DEF Verdict
<1>3. Verdict(b, a, i, f) = "allow" <=>
        v = "allow" /\ ~(/\ i # NoIdentity
                         /\ Adjust(i, f, "allow").tier = "observe"
                         /\ a.type \notin ReadOnlyTypes)
  <2> HIDE DEF v
  <2> QED BY <1>2 DEF TrustGate
<1> HIDE DEF E, R
<1>4. v = "allow" <=>
        /\ "deny" \notin E /\ "escalate" \notin E /\ "throttle" \notin E
        /\ R < ThrottleThreshold
        /\ i # NoIdentity
  BY <1>1 DEF Reconcile, DenyThreshold, EscalateThreshold, ThrottleThreshold
<1> HIDE DEF v
<1> QED BY <1>3, <1>4 DEF E, R

-----------------------------------------------------------------------------
(***************************************************************************)
(* A rule effect that restricts is the verdict itself unless a stricter    *)
(* one matches too, at any risk score and with any identity; the trust     *)
(* gate never touches it.                                                  *)
(***************************************************************************)
LEMMA StrictestEffect ==
  ASSUME NEW b, NEW a, NEW i, NEW f,
         Effects(b, a, i, f) \subseteq Verdicts,
         Effects(b, a, i, f) \ {"allow"} # {}
  PROVE  /\ Verdict(b, a, i, f) \in Effects(b, a, i, f) \ {"allow"}
         /\ \A e \in Effects(b, a, i, f) \ {"allow"} :
              Restrictiveness(e) <= Restrictiveness(Verdict(b, a, i, f))
<1> DEFINE E == Effects(b, a, i, f)
           v == Reconcile(E, AggregateRisk(f), i)
<1>1. CASE "deny" \in E
  <2>1. v = "deny"
    BY <1>1 DEF Reconcile
  <2> QED BY <1>1, <2>1 DEF Verdict, TrustGate, Restrictiveness, Verdicts
<1>2. CASE "deny" \notin E /\ "escalate" \in E
  <2>1. v = "escalate"
    BY <1>2 DEF Reconcile
  <2> QED BY <1>2, <2>1 DEF Verdict, TrustGate, Restrictiveness, Verdicts
<1>3. CASE "deny" \notin E /\ "escalate" \notin E
  <2>1. v = "throttle" /\ E \ {"allow"} = {"throttle"}
    BY <1>3 DEF Reconcile, Verdicts
  <2> QED BY <2>1 DEF Verdict, TrustGate, Restrictiveness
<1> QED BY <1>1, <1>2, <1>3


(***************************************************************************)
(* More evidence, more matches: a key that holds of a list of factors      *)
(* holds of a longer one.                                                  *)
(***************************************************************************)
LEMMA MatchesGrow ==
  ASSUME NEW r, NEW a, NEW i, NEW f \in Seq(Factor), NEW g \in Factor,
         Matches(r, a, i, f)
  PROVE  Matches(r, a, i, Append(f, g))
<1> DEFINE e == Append(f, g)
<1>1. ToSet(f) \subseteq ToSet(e)
  BY DEF ToSet
<1>2. Codes(f) \subseteq Codes(e)
  BY <1>1 DEF Codes
<1> HIDE DEF e
<1>3. ASSUME NEW k, NEW v, Satisfies(k, v, a, i, f)
      PROVE  Satisfies(k, v, a, i, e)
  <2>1. CASE k = "risk.factor_code_any"
    BY <1>2, <1>3, <2>1 DEF Satisfies
  <2>2. CASE k = "risk.factor_code_all"
    BY <1>2, <1>3, <2>2 DEF Satisfies
  <2>3. CASE k = "risk.min_severity"
    BY <1>1, <1>3, <2>3 DEF Satisfies
  <2>4. CASE k \notin {"risk.factor_code_any", "risk.factor_code_all", "risk.min_severity"}
    BY <1>3, <2>4 DEF Satisfies
  <2> QED BY <2>1, <2>2, <2>3, <2>4
<1> QED BY <1>3 DEF Matches, e

(***************************************************************************)
(* Trust after an ALLOW is below the tier CONSTRAINED only where it was    *)
(* within the clean recovery of it.                                        *)
(***************************************************************************)
LEMMA ObserveIff ==
  ASSUME NEW i, NEW f, i.trust \in 0 .. 1000
  PROVE  Adjust(i, f, "allow").tier = "observe" <=>
           i.trust + (IF f = <<>> THEN 5 ELSE 0) < 250
<1> DEFINE gain == IF f = <<>> THEN CleanRecovery ELSE 0
           t == Clamp(i.trust + gain, 0, 1000)
<1>1. gain \in 0 .. 5 /\ gain = IF f = <<>> THEN 5 ELSE 0
  BY DEF CleanRecovery
<1>2. Adjust(i, f, "allow").tier = Tier(t)
  BY DEF Adjust
<1> HIDE DEF gain
<1>3. t \in 0 .. 1000 /\ (t < 250 <=> i.trust + gain < 250)
  <2>1. PICK x \in 0 .. 1000 : x = i.trust
    OBVIOUS
  <2>2. /\ Clamp(x + gain, 0, 1000) \in 0 .. 1000
        /\ Clamp(x + gain, 0, 1000) < 250 <=> x + gain < 250
    BY <1>1 DEF Clamp
  <2> QED BY <2>1, <2>2
<1> HIDE DEF t
<1>4. Tier(t) = "observe" <=> t < 250
  BY <1>3 DEF Tier
<1> QED BY <1>1, <1>2, <1>3, <1>4

-----------------------------------------------------------------------------
(***************************************************************************)
(* What the growth of a case keeps: the bundle holds rules of the two sets *)
(* only, the factors are factors, and an identity has a trust score.       *)
(***************************************************************************)
GrowthInv ==
  /\ bundle \subseteq BaseBundle \cup Rules
  /\ factors \in Seq(Factor)
  /\ identity \in Identities \cup {NoIdentity}

(***************************************************************************)
(* Every step keeps it.                                                    *)
(***************************************************************************)
LEMMA GrowthInvariant == Spec => []GrowthInv
<1>1. Init => GrowthInv
  BY DEF Init, GrowthInv
<1>2. GrowthInv /\ [Next]_vars => GrowthInv'
  <2> SUFFICES ASSUME GrowthInv, [Next]_vars PROVE GrowthInv'
    OBVIOUS
  <2> USE DEF GrowthInv
  <2>1. ASSUME NEW r \in Rules, AddRule(r) PROVE GrowthInv'
    BY <2>1 DEF AddRule
  <2>2. ASSUME NEW f \in Factors, AddFactor(f) PROVE GrowthInv'
    <3>1. f \in Factor
      BY GrowthAssumption DEF GrowthAssumption
    <3>2. factors' \in Seq(Factor)
      BY <2>2, <3>1 DEF AddFactor
    <3> QED BY <2>2, <3>2 DEF AddFactor
  <2>3. ASSUME NEW i \in Identities, LowerTrust(i) PROVE GrowthInv'
    BY <2>3 DEF LowerTrust
  <2>4. CASE LoseIdentity
    BY <2>4 DEF LoseIdentity
  <2>5. CASE UNCHANGED vars
    BY <2>5 DEF vars
  <2> QED BY <2>1, <2>2, <2>3, <2>4, <2>5 DEF Next
<1> QED BY <1>1, <1>2, PTL DEF Spec

(***************************************************************************)
(* The effects of the rules are verdicts.                                  *)
(***************************************************************************)
LEMMA EffectsOK ==
  GrowthInv => Effects(bundle, action, identity, factors) \subseteq Verdicts
BY GrowthAssumption DEF GrowthInv, Effects, GrowthAssumption

(***************************************************************************)
(* Every input gets a verdict and a score between 0 and 1.                 *)
(***************************************************************************)
THEOREM GrowthTypeOK == Spec => []TypeOK
<1>1. GrowthInv => TypeOK
  <2> SUFFICES ASSUME GrowthInv PROVE TypeOK
    OBVIOUS
  <2>1. AggregateRisk(factors) \in RiskScores
    BY RiskBound DEF GrowthInv
  <2>2. ASSUME NEW E, NEW s, NEW i PROVE Reconcile(E, s, i) \in Verdicts
    BY DEF Reconcile, Verdicts
  <2>3. verdict \in Verdicts
    BY <2>2 DEF verdict, Verdict, TrustGate, Verdicts
  <2> QED BY <2>1, <2>3 DEF GrowthInv, TypeOK
<1> QED BY <1>1, GrowthInvariant, PTL

(***************************************************************************)
(* The strictest matching rule decides, whichever rules are added.         *)
(***************************************************************************)
THEOREM StrictestRuleDecides == Spec => []MostRestrictiveRuleWins
<1>1. GrowthInv => MostRestrictiveRuleWins
  BY EffectsOK, StrictestEffect DEF MostRestrictiveRuleWins, verdict
<1> QED BY <1>1, GrowthInvariant, PTL

(***************************************************************************)
(* Without a restricting rule the product of 1 - severity decides: at most *)
(* 0.15 of it left denies, at most 0.45 never merely throttles.            *)
(***************************************************************************)
THEOREM RiskDecides == Spec => []RiskDecidesWithoutRules
<1>1. GrowthInv => RiskDecidesWithoutRules
  <2> SUFFICES ASSUME GrowthInv,
                      Effects(bundle, action, identity, factors) \subseteq {"allow"}
               PROVE  /\ SafeProduct(factors) * 20 <= 3 * Whole(factors) => verdict = "deny"
                      /\ SafeProduct(factors) * 20 <= 9 * Whole(factors)
                           => verdict \in {"escalate", "deny"}
    BY DEF RiskDecidesWithoutRules
  <2> DEFINE E == Effects(bundle, action, identity, factors)
             R == AggregateRisk(factors)
             p == SafeProduct(factors)
             w == Whole(factors)
  <2>1. w \in Nat /\ w >= 1 /\ p \in Nat /\ p <= w
    BY SafeProductBound DEF GrowthInv
  <2>2. R = (10000 * (w - p) + w \div 2) \div w
    BY DEF AggregateRisk
  <2>3. verdict = TrustGate(action, identity, factors, Reconcile(E, R, identity))
    BY DEF verdict, Verdict
  <2>4. "deny" \notin E /\ "escalate" \notin E /\ "throttle" \notin E
    OBVIOUS
  <2> HIDE DEF E, R, p, w
  <2>5. PICK h \in Nat : h = w \div 2
    BY <2>1
  <2>6. ASSUME NEW a \in Nat, NEW k \in Nat, a >= k * w
        PROVE  a \div w \in Nat /\ a \div w >= k
    BY <2>1, <2>6
  <2>7. 10000 * (w - p) + h \in Nat
    BY <2>1
  <2>8. ASSUME p * 20 <= 3 * w PROVE verdict = "deny"
    <3>1. 10000 * (w - p) + h >= 8500 * w
      BY <2>1, <2>8
    <3>2. R >= 8500
      BY <2>2, <2>5, <2>6, <2>7, <3>1
    <3> QED BY <2>3, <2>4, <3>2 DEF Reconcile, TrustGate, DenyThreshold
  <2>9. ASSUME p * 20 <= 9 * w PROVE verdict \in {"escalate", "deny"}
    <3>1. 10000 * (w - p) + h >= 5500 * w
      BY <2>1, <2>9
    <3>2. R >= 5500
      BY <2>2, <2>5, <2>6, <2>7, <3>1
    <3>3. Reconcile(E, R, identity) \in {"escalate", "deny"}
      BY <2>4, <3>2 DEF Reconcile, DenyThreshold, EscalateThreshold
    <3> QED BY <2>3, <3>3 DEF TrustGate
  <2> QED BY <2>8, <2>9 DEF p, w
<1> QED BY <1>1, GrowthInvariant, PTL

(***************************************************************************)
(* No step against an action turns a refusal into ALLOW: rules only add    *)
(* effects, factors only add matches and risk, and less trust is never a   *)
(* higher tier.                                                            *)
(***************************************************************************)
THEOREM CaseNeverLoosens == Spec => NeverLoosens
<1>1. GrowthInv /\ GrowthInv' /\ [Next]_vars => (verdict # "allow" => verdict' # "allow")
  <2> SUFFICES ASSUME GrowthInv, GrowthInv', [Next]_vars, verdict' = "allow"
               PROVE  verdict = "allow"
    OBVIOUS
  <2> DEFINE Restricting == {"deny", "escalate", "throttle"}
             Clear(i, f) == Adjust(i, f, "allow").tier = "observe"
                              => action.type \in ReadOnlyTypes
  <2>1. /\ factors \in Seq(Factor) /\ factors' \in Seq(Factor)
        /\ \A i \in Identities : i.trust \in 0 .. 1000
        /\ identity = NoIdentity \/ identity \in Identities
    BY GrowthAssumption DEF GrowthInv, GrowthAssumption
  <2>2. action' = action
    BY DEF Next, AddRule, AddFactor, LowerTrust, LoseIdentity, vars
  <2>3. /\ Effects(bundle', action, identity', factors') \cap Restricting = {}
        /\ AggregateRisk(factors') < ThrottleThreshold
        /\ identity' # NoIdentity
        /\ Clear(identity', factors')
    BY <2>1, <2>2, AllowedIff DEF verdict
  <2> DEFINE Allowed == /\ Effects(bundle, action, identity, factors) \cap Restricting = {}
                        /\ AggregateRisk(factors) < ThrottleThreshold
                        /\ identity # NoIdentity
                        /\ Clear(identity, factors)
  <2>4. SUFFICES Allowed
    BY <2>1, AllowedIff DEF verdict
  <2>5. ASSUME NEW r \in Rules, AddRule(r) PROVE Allowed
    <3>1. UNCHANGED <<identity, factors>> /\ bundle \subseteq bundle'
      BY <2>5 DEF AddRule
    <3>2. Effects(bundle, action, identity, factors)
            \subseteq Effects(bundle', action, identity, factors)
      BY <3>1 DEF Effects
    <3> QED BY <2>3, <3>1, <3>2
  <2>6. ASSUME NEW g \in Factors, AddFactor(g) PROVE Allowed
    <3>1. UNCHANGED <<identity, bundle>> /\ factors' = Append(factors, g) /\ g \in Factor
      BY <2>6, GrowthAssumption DEF AddFactor, GrowthAssumption
    <3>2. Effects(bundle, action, identity, factors)
            \subseteq Effects(bundle, action, identity, factors')
      BY <2>1, <3>1, MatchesGrow DEF Effects
    <3>3. AggregateRisk(factors) < ThrottleThreshold
      <4>1. AggregateRisk(factors) <= AggregateRisk(factors')
        BY <2>1, <3>1, RiskGrows
      <4>2. AggregateRisk(factors) \in RiskScores /\ AggregateRisk(factors') \in RiskScores
        BY <2>1, RiskBound
      <4>3. ASSUME NEW a \in RiskScores, NEW b \in RiskScores, a <= b, b < ThrottleThreshold
            PROVE  a < ThrottleThreshold
        BY <4>3 DEF RiskScores, ThrottleThreshold
      <4> QED BY <2>3, <4>1, <4>2, <4>3
    <3>4. Clear(identity, factors)
      <4>1. factors' # <<>> /\ identity \in Identities
        BY <2>1, <2>3, <3>1
      <4>2. PICK x \in 0 .. 1000 : x = identity.trust
        BY <2>1, <4>1
      <4>3. Adjust(identity, factors', "allow").tier = "observe" <=> x + 0 < 250
        BY <4>1, <4>2, ObserveIff
      <4>4. PICK gain \in 0 .. 5 : gain = IF factors = <<>> THEN 5 ELSE 0
        OBVIOUS
      <4>5. Adjust(identity, factors, "allow").tier = "observe" <=> x + gain < 250
        BY <4>2, <4>4, ObserveIff
      <4>6. x + gain < 250 => x + 0 < 250
        OBVIOUS
      <4> QED BY <2>3, <3>1, <4>3, <4>5, <4>6
    <3> QED BY <2>3, <3>1, <3>2, <3>3, <3>4
  <2>7. ASSUME NEW i \in Identities, LowerTrust(i) PROVE Allowed
    <3>1. /\ UNCHANGED <<bundle, factors>> /\ identity' = i
          /\ identity # NoIdentity /\ i # NoIdentity
          /\ i.tier = identity.tier /\ i.trust < identity.trust
      BY <2>3, <2>7 DEF LowerTrust
    <3>2. ASSUME NEW r
          PROVE  Matches(r, action, identity, factors) <=> Matches(r, action, i, factors)
      <4>1. ASSUME NEW k, NEW v
            PROVE  Satisfies(k, v, action, identity, factors)
                     <=> Satisfies(k, v, action, i, factors)
        <5>1. CASE k = "identity.tier"
          BY <3>1, <5>1 DEF Satisfies
        <5>2. CASE k # "identity.tier"
          BY <5>2 DEF Satisfies
        <5> QED BY <5>1, <5>2
      <4> QED BY <4>1 DEF Matches
    <3>3. Effects(bundle, action, identity, factors) = Effects(bundle, action, i, factors)
      BY <3>2 DEF Effects
    <3>4. Clear(identity, factors)
      <4>1. PICK gain \in 0 .. 5 : gain = IF factors = <<>> THEN 5 ELSE 0
        OBVIOUS
      <4>2. i.trust + gain < 250 => action.type \in ReadOnlyTypes
        BY <2>1, <2>3, <3>1, <4>1, ObserveIff
      <4>3. identity.trust + gain < 250 => i.trust + gain < 250
        <5>1. identity \in Identities
          BY <2>1, <3>1
        <5>2. PICK x \in 0 .. 1000 : x = identity.trust
          BY <2>1, <5>1
        <5>3. PICK y \in 0 .. 1000 : y = i.trust
          <6>1. i.trust \in 0 .. 1000
            BY <2>1, <2>7
          <6> QED BY <6>1
        <5> QED BY <3>1, <5>2, <5>3
      <4>4. Adjust(identity, factors, "allow").tier = "observe"
              => identity.trust + gain < 250
        BY <2>1, <3>1, <4>1, ObserveIff
      <4> QED BY <4>2, <4>3, <4>4
    <3> QED BY <2>3, <3>1, <3>3, <3>4
  <2>8. CASE LoseIdentity
    BY <2>3, <2>8 DEF LoseIdentity
  <2>9. CASE UNCHANGED vars
    BY <2>3, <2>9 DEF vars
  <2> QED BY <2>5, <2>6, <2>7, <2>8, <2>9 DEF Next
<1> QED BY <1>1, GrowthInvariant, PTL DEF Spec, NeverLoosens

-----------------------------------------------------------------------------
(***************************************************************************)
(* FlattenSeq, of the reports of a gather and of the texts of an action,   *)
(* is the recursion its definition says.                                   *)
(***************************************************************************)
LEMMA FlattenSteps ==
  ASSUME NEW T, NEW ss \in Seq(Seq(T))
  PROVE  \E p \in [0 .. Len(ss) -> Seq(T)] :
           /\ p[0] = <<>> /\ \A n \in 1 .. Len(ss) : p[n] = p[n - 1] \o ss[n]
           /\ FlattenSeq(ss) = p[Len(ss)]
<1> DEFINE L == Len(ss)
           F(p) == [n \in 1 .. L |-> IF n = 1 THEN ss[n] ELSE p[n - 1] \o ss[n]]
           h == [n \in 1 .. L |-> [v \in Seq(T) |-> v \o ss[n]]]
           flatten == CHOOSE g : g = F(g)
<1>1. L \in Nat /\ \A n \in 1 .. L : ss[n] \in Seq(T)
  OBVIOUS
<1>2. PICK p : Solves(p, h, Seq(T), L, <<>>)
  <2>1. h \in [1 .. L -> [Seq(T) -> Seq(T)]]
    OBVIOUS
  <2>2. Steps(h, Seq(T), L)
    BY <2>1 DEF Steps
  <2>3. <<>> \in Seq(T)
    OBVIOUS
  <2> HIDE DEF h, L
  <2> QED BY <1>1, <2>2, <2>3, Recursion
<1>3. p \in [0 .. L -> Seq(T)] /\ p[0] = <<>>
  BY <1>2 DEF Solves
<1>4. ASSUME NEW n \in 1 .. L PROVE p[n] = p[n - 1] \o ss[n]
  <2>1. n - 1 \in 0 .. L
    BY <1>1
  <2>2. p[n - 1] \in Seq(T)
    BY <1>3, <2>1
  <2>3. p[n] = h[n][p[n - 1]]
    BY <1>2 DEF Solves
  <2>4. h[n] = [v \in Seq(T) |-> v \o ss[n]]
    OBVIOUS
  <2> HIDE DEF h
  <2> QED BY <2>2, <2>3, <2>4
<1> HIDE DEF h
<1>5. CASE L = 0
  <2>1. FlattenSeq(ss) = ss /\ ss = <<>>
    BY <1>5 DEF FlattenSeq
  <2> QED BY <1>3, <1>5, <2>1
<1>6. CASE L # 0
  <2> DEFINE q == [n \in 1 .. L |-> p[n]]
  <2>1. p[1] = ss[1]
    <3>1. 1 \in 1 .. L /\ 1 - 1 = 0
      BY <1>1, <1>6
    <3>2. p[1] = <<>> \o ss[1]
      BY <1>3, <1>4, <3>1
    <3> QED BY <1>1, <3>1, <3>2
  <2>2. ASSUME NEW n \in 1 .. L, n # 1 PROVE q[n] = q[n - 1] \o ss[n]
    <3>1. n - 1 \in 1 .. L
      BY <1>1, <2>2
    <3> QED BY <1>4, <3>1
  <2>3. q = F(q)
    <3>1. q[1] = ss[1]
      BY <1>1, <1>6, <2>1
    <3>2. DOMAIN q = 1 .. L
      OBVIOUS
    <3>3. q = [n \in 1 .. L |-> q[n]]
      OBVIOUS
    <3> HIDE DEF q
    <3> QED BY <2>2, <3>1, <3>3
  <2>4. flatten = F(flatten)
    <3> HIDE DEF F, q
    <3> QED BY <2>3
  <2>5. FlattenSeq(ss) = flatten[L]
    BY <1>6 DEF FlattenSeq
  <2> HIDE DEF flatten
  <2>6. flatten[1] = p[1]
    BY <1>1, <1>6, <2>1, <2>4
  <2>7. \A n \in 1 .. L : n # 1 => flatten[n] = flatten[n - 1] \o ss[n]
    BY <2>4
  <2> HIDE DEF F
  <2> DEFINE S == {n \in Nat : 1 <= n /\ n <= L => flatten[n] = p[n]}
  <2>8. 0 \in S
    OBVIOUS
  <2>9. ASSUME NEW n \in Nat, n \in S PROVE n + 1 \in S
    <3> SUFFICES ASSUME n + 1 <= L PROVE flatten[n + 1] = p[n + 1]
      OBVIOUS
    <3>1. CASE n = 0
      BY <2>6, <3>1
    <3>2. CASE n # 0
      <4>1. n + 1 \in 1 .. L /\ n + 1 # 1 /\ 1 <= n /\ n <= L /\ (n + 1) - 1 = n
        BY <1>1, <3>2
      <4>2. flatten[n] = p[n]
        BY <2>9, <4>1
      <4> QED BY <1>4, <2>7, <4>1, <4>2
    <3> QED BY <3>1, <3>2
  <2>10. L \in S
    <3> HIDE DEF S
    <3> QED BY <1>1, <2>8, <2>9, Induction
  <2>11. flatten[L] = p[L]
    BY <1>1, <1>6, <2>10
  <2> QED BY <1>3, <1>4, <2>5, <2>11
<1> QED BY <1>5, <1>6

\* x is a member of the sequence s.
Occurs(x, s) == \E j \in DOMAIN s : s[j] = x

(***************************************************************************)
(* FlattenSeq loses nothing: what occurs in one of the sequences occurs in *)
(* the result, which is a sequence of the same kind.                       *)
(***************************************************************************)
LEMMA FlattenKeeps ==
  ASSUME NEW T, NEW ss \in Seq(Seq(T))
  PROVE  /\ FlattenSeq(ss) \in Seq(T)
         /\ \A i \in DOMAIN ss : \A x : Occurs(x, ss[i]) => Occurs(x, FlattenSeq(ss))
<1> DEFINE L == Len(ss)
<1>1. L \in Nat /\ DOMAIN ss = 1 .. L /\ \A n \in 1 .. L : ss[n] \in Seq(T)
  OBVIOUS
<1>2. PICK p \in [0 .. L -> Seq(T)] :
        /\ p[0] = <<>> /\ \A n \in 1 .. L : p[n] = p[n - 1] \o ss[n]
        /\ FlattenSeq(ss) = p[L]
  BY FlattenSteps
<1> HIDE DEF L
<1>3. ASSUME NEW s \in Seq(T), NEW t \in Seq(T), NEW x, Occurs(x, s) \/ Occurs(x, t)
      PROVE  Occurs(x, s \o t)
  <2>1. CASE Occurs(x, s)
    BY <2>1 DEF Occurs
  <2>2. CASE Occurs(x, t)
    <3>1. PICK j \in 1 .. Len(t) : t[j] = x
      BY <2>2 DEF Occurs
    <3>2. Len(s) + j \in 1 .. Len(s \o t) /\ (s \o t)[Len(s) + j] = x
      BY <3>1
    <3>3. DOMAIN (s \o t) = 1 .. Len(s \o t)
      OBVIOUS
    <3> QED BY <3>2, <3>3 DEF Occurs
  <2> QED BY <1>3, <2>1, <2>2
<1> DEFINE S == {n \in Nat : n <= L =>
                   \A i \in 1 .. L : \A x :
                     i <= n /\ Occurs(x, ss[i]) => Occurs(x, p[n])}
<1>4. 0 \in S
  OBVIOUS
<1>5. ASSUME NEW n \in Nat, n \in S PROVE n + 1 \in S
  <2> SUFFICES ASSUME n + 1 <= L, NEW i \in 1 .. L, NEW x, i <= n + 1, Occurs(x, ss[i])
               PROVE  Occurs(x, p[n + 1])
    OBVIOUS
  <2>1. /\ n + 1 \in 1 .. L /\ n \in 0 .. L /\ n <= L /\ (n + 1) - 1 = n
        /\ i <= n \/ i = n + 1
    BY <1>1
  <2>2. p[n + 1] = p[n] \o ss[n + 1]
    BY <1>2, <2>1
  <2>3. p[n] \in Seq(T) /\ ss[n + 1] \in Seq(T)
    BY <1>1, <1>2, <2>1
  <2>4. i <= n => Occurs(x, p[n])
    BY <1>5, <2>1
  <2> HIDE DEF S
  <2> QED BY <1>3, <2>1, <2>2, <2>3, <2>4
<1>6. L \in S
  <2> HIDE DEF S
  <2> QED BY <1>1, <1>4, <1>5, Induction
<1>7. \A i \in 1 .. L : \A x : Occurs(x, ss[i]) => Occurs(x, p[L])
  BY <1>1, <1>6
<1> QED BY <1>1, <1>2, <1>7

\* How the run of a classifier ends.
Outcome == [raised : BOOLEAN, report : Seq(Factor)]

(***************************************************************************)
(* Nothing that a classifier reports, its own failure included, is lost on *)
(* the way to the risk score.                                              *)
(***************************************************************************)
LEMMA ReportsReachTheScore ==
  ASSUME NEW unknown \in BOOLEAN, NEW outcomes \in Seq(Outcome)
  PROVE  /\ RiskFactors(unknown, outcomes) \in Seq(Factor)
         /\ \A i \in DOMAIN outcomes : \A x :
              Occurs(x, SafeRun(outcomes[i])) => Occurs(x, RiskFactors(unknown, outcomes))
<1> DEFINE ss == [i \in DOMAIN outcomes |-> SafeRun(outcomes[i])]
           first == IF unknown THEN << [code |-> "identity.unknown", severity |-> 12] >>
                    ELSE <<>>
<1>1. ASSUME NEW o \in Outcome PROVE SafeRun(o) \in Seq(Factor)
  <2>1. [code |-> "classifier.error", severity |-> 12] \in Factor
    BY DEF Factor
  <2>2. o.report \in Seq(Factor)
    BY DEF Outcome
  <2> QED BY <2>1, <2>2 DEF SafeRun
<1>2. ss \in Seq(Seq(Factor)) /\ DOMAIN ss = DOMAIN outcomes
  <2>1. ASSUME NEW i \in DOMAIN outcomes PROVE SafeRun(outcomes[i]) \in Seq(Factor)
    BY <1>1
  <2>2. DOMAIN outcomes = 1 .. Len(outcomes) /\ Len(outcomes) \in Nat
    OBVIOUS
  <2> QED BY <2>1, <2>2
<1>3. first \in Seq(Factor)
  <2>1. [code |-> "identity.unknown", severity |-> 12] \in Factor
    BY DEF Factor
  <2> QED BY <2>1
<1>4. RiskFactors(unknown, outcomes) = first \o FlattenSeq(ss)
  BY DEF RiskFactors
<1>5. \A i \in DOMAIN outcomes : ss[i] = SafeRun(outcomes[i])
  OBVIOUS
<1> HIDE DEF ss, first
<1>6. FlattenSeq(ss) \in Seq(Factor)
  BY <1>2, FlattenKeeps
<1>7. \A i \in DOMAIN ss : \A x : Occurs(x, ss[i]) => Occurs(x, FlattenSeq(ss))
  BY <1>2, FlattenKeeps
<1>8. ASSUME NEW s \in Seq(Factor), NEW t \in Seq(Factor), NEW x, Occurs(x, t)
      PROVE  Occurs(x, s \o t)
  <2>1. PICK j \in 1 .. Len(t) : t[j] = x
    BY <1>8 DEF Occurs
  <2>2. Len(s) + j \in 1 .. Len(s \o t) /\ (s \o t)[Len(s) + j] = x
    BY <2>1
  <2>3. DOMAIN (s \o t) = 1 .. Len(s \o t)
    OBVIOUS
  <2> QED BY <2>2, <2>3 DEF Occurs
<1>9. first \o FlattenSeq(ss) \in Seq(Factor)
  BY <1>3, <1>6
<1> QED BY <1>2, <1>3, <1>4, <1>5, <1>6, <1>7, <1>8, <1>9

(***************************************************************************)
(* One grave factor in any report of a gather is enough: no other factor,  *)
(* no rule and no identity makes the action run.                           *)
(***************************************************************************)
LEMMA GraveReportBlocks ==
  ASSUME NEW b, NEW a, NEW d, NEW unknown \in BOOLEAN, NEW outcomes \in Seq(Outcome),
         NEW i \in DOMAIN outcomes, NEW x, Occurs(x, SafeRun(outcomes[i])),
         x.severity >= 7
  PROVE  Verdict(b, a, d, RiskFactors(unknown, outcomes)) # "allow"
<1> DEFINE f == RiskFactors(unknown, outcomes)
<1>1. f \in Seq(Factor) /\ Occurs(x, f)
  BY ReportsReachTheScore
<1> HIDE DEF f
<1>2. PICK j \in DOMAIN f : f[j] = x
  BY <1>1 DEF Occurs
<1>3. PICK c \in 0 .. 20 : c = f[j].severity
  BY <1>1, FactorAt
<1>4. AggregateRisk(f) >= 500 * f[j].severity
  BY <1>1, RiskBound
<1>5. PICK R \in RiskScores : R = AggregateRisk(f)
  BY <1>1, RiskBound
<1>6. ~(AggregateRisk(f) < ThrottleThreshold)
  <2>1. c >= 7 /\ R >= 500 * c
    BY <1>2, <1>3, <1>4, <1>5
  <2>2. ~(R < ThrottleThreshold)
    BY <2>1 DEF RiskScores, ThrottleThreshold
  <2> QED BY <1>5, <2>2
<1> QED BY <1>1, <1>6, AllowedIff DEF f

=============================================================================
