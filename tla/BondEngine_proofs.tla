-------------------------- MODULE BondEngine_proofs --------------------------
(***************************************************************************)
(* For every catalogue, calendar, rate, fee and inflation history: what    *)
(* price_series returns is in order.  Money is the subject, so the lemmas  *)
(* are about the rounded formulas first: rounding keeps the order, a       *)
(* period never makes the capital smaller, and what a period has accrued   *)
(* at its end is the capital of the next one (AccruedAtTheEnd,             *)
(* AccruedAtTheStart), which joins the formulas at the boundaries.         *)
(* Inductions are over sets of periods (Induction).                        *)
(***************************************************************************)
EXTENDS BondEngine, WellFoundedInduction, TLAPS

(* A set of naturals that is not empty has a least member.                *)
LEMMA LeastOf ==
  ASSUME NEW T \in SUBSET Nat, T # {}
  PROVE  \E m \in T : \A n \in T : m <= n
<1> DEFINE R == OpToRel(<, Nat)
<1>0. IsWellFoundedOn(R, Nat)
  BY NatLessThanWellFounded
<1>1. PICK m \in T : \A n \in T : ~ (<<n, m>> \in R)
  <2> HIDE DEF R
  <2> QED BY <1>0, WFMin
<1>2. R = {p \in Nat \X Nat : p[1] < p[2]}
  BY DEF OpToRel
<1>3. \A n \in T : n < m => <<n, m>> \in R
  <2> HIDE DEF R
  <2> QED BY <1>2
<1>4. \A n \in T : ~ (n < m)
  <2> HIDE DEF R
  <2> QED BY <1>1, <1>3
<1> QED BY <1>4

(* Induction up to N, for a set.                                           *)
LEMMA Induction ==
  ASSUME NEW N \in Nat, NEW S, 0 \in S, \A n \in 0 .. N - 1 : n \in S => n + 1 \in S
  PROVE  \A n \in 0 .. N : n \in S
<1> DEFINE T == (0 .. N) \ S
<1> SUFFICES ASSUME T # {} PROVE FALSE
  OBVIOUS
<1>0. T \in SUBSET Nat
  OBVIOUS
<1>1. PICK m \in T : \A n \in T : m <= n
  <2> HIDE DEF T
  <2> QED BY <1>0, LeastOf
<1>2. m # 0 /\ m - 1 \in 0 .. N - 1 /\ m - 1 \notin T /\ (m - 1) + 1 = m
  BY <1>1
<1>3. m - 1 \in S
  BY <1>2
<1>4. (m - 1) + 1 \in S
  BY <1>2, <1>3
<1>5. m \in S
  BY <1>2, <1>4
<1> QED BY <1>1, <1>5

(* What \div returns.                                                      *)
LEMMA Division ==
  ASSUME NEW n \in Int, NEW d \in Nat \ {0}
  PROVE  /\ n \div d \in Int
         /\ d * (n \div d) <= n
         /\ n < d * (n \div d) + d
OBVIOUS

(* Products with d order their factors, up to d.                           *)
LEMMA QuotientIsUnique ==
  ASSUME NEW d \in Nat \ {0}, NEW p \in Int, NEW q \in Int, d * p < d * q + d
  PROVE  p <= q
<1> SUFFICES ASSUME q + 1 <= p PROVE FALSE
  OBVIOUS
<1>1. d * (q + 1) <= d * p
  BY Z3
<1>2. d * (q + 1) = d * q + d
  BY Z3
<1> QED BY <1>1, <1>2

(* Rounded(n, d) is within a half of n / d.                                *)
LEMMA RoundedBounds ==
  ASSUME NEW n \in Int, NEW d \in Nat \ {0}
  PROVE  /\ Rounded(n, d) \in Int
         /\ 2 * (d * Rounded(n, d)) <= 2 * n + d
         /\ 2 * n < 2 * (d * Rounded(n, d)) + d
<1> DEFINE q == (2 * n + d) \div (2 * d)
<1>1. 2 * n + d \in Int /\ 2 * d \in Nat \ {0}
  OBVIOUS
<1>2. q \in Int /\ (2 * d) * q <= 2 * n + d /\ 2 * n + d < (2 * d) * q + 2 * d
  BY <1>1, Division
<1>3. (2 * d) * q = 2 * (d * q)
  <2> HIDE DEF q
  <2> QED BY <1>2
<1>4. Rounded(n, d) = q
  BY DEF Rounded
<1> HIDE DEF q
<1> QED BY <1>2, <1>3, <1>4

(* Rounding does not pass an integer.                                      *)
LEMMA RoundedAtLeast ==
  ASSUME NEW n \in Int, NEW d \in Nat \ {0}, NEW q \in Int, d * q <= n
  PROVE  q <= Rounded(n, d)
<1> DEFINE r == Rounded(n, d)
<1>1. r \in Int /\ 2 * n < 2 * (d * r) + d
  BY RoundedBounds
<1> HIDE DEF r
<1>2. d * q \in Int /\ d * r \in Int
  BY <1>1
<1>3. d * q < d * r + d
  BY <1>1, <1>2
<1>4. q <= r
  BY <1>1, <1>3, QuotientIsUnique
<1> QED BY <1>4 DEF r

(* Rounding keeps the order.                                               *)
LEMMA RoundedMonotone ==
  ASSUME NEW n \in Int, NEW m \in Int, NEW d \in Nat \ {0}, n <= m
  PROVE  Rounded(n, d) <= Rounded(m, d)
<1> DEFINE p == Rounded(n, d)  q == Rounded(m, d)
<1>1. /\ p \in Int /\ 2 * (d * p) <= 2 * n + d
      /\ q \in Int /\ 2 * m < 2 * (d * q) + d
  BY RoundedBounds
<1> HIDE DEF p, q
<1>2. d * p \in Int /\ d * q \in Int
  BY <1>1
<1>3. d * p < d * q + d
  BY <1>1, <1>2
<1>4. p <= q
  BY <1>1, <1>3, QuotientIsUnique
<1> QED BY <1>4 DEF p, q

(* A quotient q with 2dq <= 2n + d < 2dq + 2d is the rounded one.           *)
LEMMA RoundedIs ==
  ASSUME NEW n \in Int, NEW d \in Nat \ {0}, NEW q \in Int,
         2 * (d * q) <= 2 * n + d, 2 * n < 2 * (d * q) + d
  PROVE  Rounded(n, d) = q
<1> DEFINE r == Rounded(n, d)
<1>1. r \in Int /\ 2 * (d * r) <= 2 * n + d /\ 2 * n < 2 * (d * r) + d
  BY RoundedBounds
<1> HIDE DEF r
<1>2. d * q \in Int /\ d * r \in Int
  BY <1>1
<1>3. d * q < d * r + d /\ d * r < d * q + d
  BY <1>1, <1>2
<1>4. q <= r /\ r <= q
  BY <1>1, <1>3, QuotientIsUnique
<1>5. r = q
  BY <1>1, <1>4
<1> QED BY <1>5 DEF r

(* An integer may be added before or after rounding.                       *)
LEMMA RoundedShift ==
  ASSUME NEW n \in Int, NEW d \in Nat \ {0}, NEW q \in Int
  PROVE  Rounded(n + d * q, d) = Rounded(n, d) + q
<1> DEFINE r == Rounded(n, d)
<1>1. r \in Int /\ 2 * (d * r) <= 2 * n + d /\ 2 * n < 2 * (d * r) + d
  BY RoundedBounds
<1> HIDE DEF r
<1>2. d * q \in Int /\ d * r \in Int /\ d * (r + q) = d * r + d * q
  BY <1>1
<1>3. /\ 2 * (d * (r + q)) <= 2 * (n + d * q) + d
      /\ 2 * (n + d * q) < 2 * (d * (r + q)) + d
  BY <1>1, <1>2
<1>4. n + d * q \in Int /\ r + q \in Int
  BY <1>1, <1>2
<1>5. Rounded(n + d * q, d) = r + q
  BY <1>3, <1>4, RoundedIs
<1> QED BY <1>5 DEF r

(* A common factor does not matter.                                        *)
LEMMA RoundedScale ==
  ASSUME NEW n \in Int, NEW d \in Nat \ {0}, NEW c \in Nat \ {0}
  PROVE  Rounded(c * n, c * d) = Rounded(n, d)
<1> DEFINE r == Rounded(n, d)
<1>1. r \in Int /\ 2 * (d * r) <= 2 * n + d /\ 2 * n < 2 * (d * r) + d
  BY RoundedBounds
<1> HIDE DEF r
<1> DEFINE x == d * r
<1>2. x \in Int
  BY <1>1
<1>3. 2 * x <= 2 * n + d /\ 2 * n < 2 * x + d
  BY <1>1
<1>4. (c * d) * r = c * x
  BY <1>1
<1> HIDE DEF x
<1>5. c * (2 * x) <= c * (2 * n + d) /\ c * (2 * n) < c * (2 * x + d)
  BY <1>2, <1>3
<1>6. /\ 2 * (c * x) <= 2 * (c * n) + c * d
      /\ 2 * (c * n) < 2 * (c * x) + c * d
  BY <1>2, <1>5
<1>7. c * n \in Int /\ c * d \in Nat \ {0}
  OBVIOUS
<1>8. Rounded(c * n, c * d) = r
  BY <1>1, <1>4, <1>6, <1>7, RoundedIs
<1> QED BY <1>8 DEF r

(* A period begins no earlier than those before it.                        *)
LEMMA BoundariesRise ==
  \A k \in 0 .. Periods : \A j \in 0 .. k : Boundary[j] <= Boundary[k]
<1> USE EngineAssumption
<1> DEFINE S == {k \in 0 .. Periods : \A j \in 0 .. k : Boundary[j] <= Boundary[k]}
<1>1. 0 \in S
  OBVIOUS
<1>2. ASSUME NEW n \in 0 .. Periods - 1, n \in S PROVE n + 1 \in S
  <2>1. n + 1 \in 1 .. Periods /\ (n + 1) - 1 = n
    OBVIOUS
  <2>2. Boundary[n] < Boundary[n + 1]
    BY <2>1
  <2>3. ASSUME NEW j \in 0 .. n + 1 PROVE Boundary[j] <= Boundary[n + 1]
    <3>1. CASE j = n + 1
      BY <3>1, <2>1
    <3>2. CASE j # n + 1
      <4>1. j \in 0 .. n /\ j \in 0 .. Periods
        BY <3>2
      <4>2. Boundary[j] <= Boundary[n]
        BY <4>1, <1>2
      <4> QED BY <2>1, <2>2, <4>1, <4>2
    <3> QED BY <3>1, <3>2
  <2> QED BY <2>1, <2>3
<1>3. Periods \in Nat
  OBVIOUS
<1>4. \A n \in 0 .. Periods : n \in S
  <2> HIDE DEF S
  <2> QED BY <1>1, <1>2, <1>3, Induction
<1> QED BY <1>4

(* A day before the last boundary is in some period.                       *)
LEMMA PeriodOfDay ==
  ASSUME NEW d \in Nat, d < Boundary[Periods]
  PROVE  /\ PeriodAt(d) \in 1 .. Periods
         /\ Boundary[PeriodAt(d) - 1] <= d
         /\ d < Boundary[PeriodAt(d)]
<1> USE EngineAssumption
<1> DEFINE T == {k \in 1 .. Periods : d < Boundary[k]}
<1>1. T \in SUBSET Nat /\ Periods \in T
  OBVIOUS
<1>2. PICK m \in T : \A n \in T : m <= n
  <2> HIDE DEF T
  <2> QED BY <1>1, LeastOf
<1>3. m \in 1 .. Periods /\ d < Boundary[m]
  BY <1>2
<1>4. Boundary[m - 1] <= d
  <2>1. CASE m = 1
    BY <2>1
  <2>2. CASE m # 1
    <3>1. m - 1 \in 1 .. Periods /\ m - 1 \notin T
      BY <1>2, <1>3, <2>2
    <3> QED BY <3>1
  <2> QED BY <2>1, <2>2
<1>5. \E k \in 1 .. Periods : Boundary[k - 1] <= d /\ d < Boundary[k]
  BY <1>3, <1>4
<1> QED BY <1>5 DEF PeriodAt

(* There is one such period. *)
LEMMA PeriodIs ==
  ASSUME NEW d \in Nat, NEW k \in 1 .. Periods, Boundary[k - 1] <= d, d < Boundary[k]
  PROVE  PeriodAt(d) = k
<1> USE EngineAssumption
<1> DEFINE p == PeriodAt(d)
<1>1. d < Boundary[Periods]
  BY BoundariesRise
<1>2. p \in 1 .. Periods /\ Boundary[p - 1] <= d /\ d < Boundary[p]
  BY <1>1, PeriodOfDay
<1> HIDE DEF p
<1>3. ~ (p < k)
  <2> SUFFICES ASSUME p < k PROVE FALSE
    OBVIOUS
  <2>1. p \in 0 .. k - 1 /\ k - 1 \in 0 .. Periods
    BY <1>2
  <2>2. Boundary[p] <= Boundary[k - 1]
    BY <2>1, BoundariesRise
  <2>3. Boundary[p] \in Nat /\ Boundary[k - 1] \in Nat
    BY <1>2, <2>1
  <2> QED BY <1>2, <2>2, <2>3
<1>4. ~ (k < p)
  <2> SUFFICES ASSUME k < p PROVE FALSE
    OBVIOUS
  <2>1. k \in 0 .. p - 1 /\ p - 1 \in 0 .. Periods
    BY <1>2
  <2>2. Boundary[k] <= Boundary[p - 1]
    BY <2>1, BoundariesRise
  <2>3. Boundary[k] \in Nat /\ Boundary[p - 1] \in Nat
    BY <1>2, <2>1
  <2> QED BY <1>2, <2>2, <2>3
<1>5. p = k
  BY <1>2, <1>3, <1>4
<1> QED BY <1>5 DEF p

(* What a capital of v is worth after the k-th period. *)
Grown(b, h, k, v) == Rounded(v * (12 * Unit + Months(b) * Rate(b, h, k)), 12 * Unit)

(* The recursive definition of Capital defines a function.                 *)
LEMMA CapitalStep ==
  ASSUME NEW b, NEW h
  PROVE  /\ Capital(b, h)[0] = Nominal
         /\ \A k \in 1 .. Periods :
              Capital(b, h)[k] = Grown(b, h, k, Capital(b, h)[k - 1])
<1> USE EngineAssumption
<1> DEFINE IsCapital(K, n) ==
             K = [k \in 0 .. n |-> IF k = 0 THEN Nominal ELSE Grown(b, h, k, K[k - 1])]
           S == {n \in 0 .. Periods : \E K : IsCapital(K, n)}
<1>1. 0 \in S
  <2> DEFINE K == [k \in 0 .. 0 |-> Nominal]
  <2>1. IsCapital(K, 0)
    <3>1. \A k \in 0 .. 0 : k = 0
      OBVIOUS
    <3> QED BY <3>1
  <2>2. 0 \in 0 .. Periods
    OBVIOUS
  <2> HIDE DEF K
  <2> QED BY <2>1, <2>2
<1>2. ASSUME NEW n \in 0 .. Periods - 1, n \in S PROVE n + 1 \in S
  <2>1. PICK K : IsCapital(K, n)
    BY <1>2
  <2> DEFINE L == [k \in 0 .. n + 1 |->
                     IF k = n + 1 THEN Grown(b, h, k, K[n]) ELSE K[k]]
             M == [k \in 0 .. n + 1 |->
                     IF k = 0 THEN Nominal ELSE Grown(b, h, k, L[k - 1])]
  <2>2. ASSUME NEW k \in 0 .. n + 1 PROVE L[k] = M[k]
    <3>1. CASE k = 0
      <4>1. L[k] = K[0] /\ K[0] = Nominal
        BY <2>1, <3>1
      <4> QED BY <3>1, <4>1
    <3>2. CASE k = n + 1
      <4>1. k - 1 = n /\ k # 0 /\ n \in 0 .. n + 1 /\ n # n + 1
        BY <3>2
      <4>2. L[k - 1] = K[n]
        BY <4>1
      <4> QED BY <3>2, <4>1, <4>2
    <3>3. CASE k # 0 /\ k # n + 1
      <4>1. k \in 0 .. n /\ k - 1 \in 0 .. n + 1 /\ k - 1 # n + 1
        BY <3>3
      <4>2. L[k - 1] = K[k - 1] /\ L[k] = K[k]
        BY <3>3, <4>1
      <4>3. K[k] = Grown(b, h, k, K[k - 1])
        BY <2>1, <3>3, <4>1
      <4> QED BY <3>3, <4>2, <4>3
    <3> QED BY <3>1, <3>2, <3>3
  <2>3. L = M
    BY <2>2
  <2>4. n + 1 \in 0 .. Periods
    OBVIOUS
  <2> HIDE DEF L
  <2>5. IsCapital(L, n + 1)
    BY <2>3
  <2> QED BY <2>4, <2>5
<1>3. Periods \in S
  <2>1. Periods \in Nat /\ Periods \in 0 .. Periods
    OBVIOUS
  <2> HIDE DEF S
  <2> QED BY <1>1, <1>2, <2>1, Induction
<1>4. IsCapital(Capital(b, h), Periods)
  BY <1>3 DEF Capital, Grown
<1>5. \A k \in 1 .. Periods : k \in 0 .. Periods /\ k # 0
  OBVIOUS
<1>6. 0 \in 0 .. Periods
  OBVIOUS
<1> HIDE DEF S
<1> DEFINE C == Capital(b, h)
<1> HIDE DEF C
<1>7. C = [k \in 0 .. Periods |-> IF k = 0 THEN Nominal ELSE Grown(b, h, k, C[k - 1])]
  BY <1>4 DEF C
<1>8. C[0] = Nominal /\ \A k \in 1 .. Periods : C[k] = Grown(b, h, k, C[k - 1])
  BY <1>5, <1>6, <1>7
<1> QED BY <1>8 DEF C

(* What the assumptions say of a bond.                                     *)
LEMMA BondFacts ==
  ASSUME NEW b \in Bonds
  PROVE  /\ b.code \in Codes /\ b.margin \in Nat /\ b.fee_b \in Nat
         /\ b.code = "OTS" => b.rule = "fixed"
         /\ Months(b) \in 1 .. 12
         /\ Count(b) \in 1 .. Periods
         /\ Maturity(b) = Boundary[Count(b)]
         /\ Maturity(b) \in Nat
         /\ 0 < Maturity(b)
<1> USE EngineAssumption
<1>1. /\ b.code \in Codes /\ b.margin \in Nat /\ b.fee_b \in Nat
      /\ b.code = "OTS" => b.rule = "fixed"
  OBVIOUS
<1>2. Months(b) \in 1 .. 12
  BY DEF Months
<1>3. Count(b) \in 1 .. Periods
  BY DEF Count
<1>4. Maturity(b) = Boundary[Count(b)]
  BY DEF Maturity
<1>5. Boundary[Count(b)] \in Nat
  BY <1>3
<1>6. 0 < Boundary[Count(b)]
  BY <1>3
<1> QED BY <1>1, <1>2, <1>3, <1>4, <1>5, <1>6

(* A rate that is known is not negative: deflation is floored.             *)
LEMMA RateIsNat ==
  ASSUME NEW b \in Bonds, NEW h \in Histories, NEW k \in 1 .. Periods, Known(b, h, k)
  PROVE  Rate(b, h, k) \in Nat
<1> USE EngineAssumption
<1>1. b.margin \in Nat
  BY BondFacts
<1>2. b.rule # "fixed" => h[k] \in Int
  BY DEF Known, Histories
<1> QED BY <1>1, <1>2 DEF Rate, Larger

(* A period never makes the capital smaller.                               *)
LEMMA GrownIsLarger ==
  ASSUME NEW b \in Bonds, NEW h \in Histories, NEW k \in 1 .. Periods, Known(b, h, k),
         NEW v \in Nat
  PROVE  Grown(b, h, k, v) \in Int /\ v <= Grown(b, h, k, v)
<1> DEFINE d == 12 * Unit  e == Months(b) * Rate(b, h, k)
<1>0. Months(b) \in Nat /\ Rate(b, h, k) \in Nat
  BY RateIsNat, BondFacts
<1>1. d \in Nat \ {0} /\ e \in Nat
  BY <1>0, EngineAssumption
<1>2. Grown(b, h, k, v) = Rounded(v * (d + e), d)
  BY DEF Grown
<1> HIDE DEF d, e
<1>3. v * (d + e) \in Int /\ d * v <= v * (d + e)
  BY <1>1
<1>4. /\ Rounded(v * (d + e), d) \in Int
      /\ v <= Rounded(v * (d + e), d)
  BY <1>1, <1>3, RoundedBounds, RoundedAtLeast
<1> QED BY <1>2, <1>4

(* The capital is never below the nominal.                                 *)
LEMMA CapitalIsLarge ==
  ASSUME NEW b \in Bonds, NEW h \in Histories, NEW n \in 0 .. Periods,
         \A k \in 1 .. n : Known(b, h, k)
  PROVE  \A k \in 0 .. n : Capital(b, h)[k] \in Nat /\ Nominal <= Capital(b, h)[k]
<1> USE EngineAssumption
<1> DEFINE C == Capital(b, h)
           S == {k \in 0 .. n : C[k] \in Nat /\ Nominal <= C[k]}
<1>1. C[0] = Nominal /\ \A k \in 1 .. Periods : C[k] = Grown(b, h, k, C[k - 1])
  BY CapitalStep
<1> HIDE DEF C
<1>2. 0 \in S
  BY <1>1
<1>3. ASSUME NEW m \in 0 .. n - 1, m \in S PROVE m + 1 \in S
  <2>1. m + 1 \in 1 .. Periods /\ m + 1 \in 1 .. n /\ (m + 1) - 1 = m
    OBVIOUS
  <2>2. C[m + 1] = Grown(b, h, m + 1, C[m])
    BY <1>1, <2>1
  <2>3. C[m] \in Nat /\ Nominal <= C[m]
    BY <1>3
  <2>4. Grown(b, h, m + 1, C[m]) \in Int /\ C[m] <= Grown(b, h, m + 1, C[m])
    BY <2>1, <2>3, GrownIsLarger
  <2> QED BY <2>1, <2>2, <2>3, <2>4
<1>4. \A k \in 0 .. n : k \in S
  <2> HIDE DEF S
  <2>1. n \in Nat
    OBVIOUS
  <2> QED BY <1>2, <1>3, <2>1, Induction
<1> QED BY <1>4 DEF C

(* The periods that count for the capital of the k-th one. *)
Earlier(b, k) == IF Capitalized(b) THEN 1 .. k ELSE {k}

(* Neither is what interest accrues on.                                    *)
LEMMA BaseIsLarge ==
  ASSUME NEW b \in Bonds, NEW h \in Histories, NEW k \in 1 .. Periods,
         \A j \in Earlier(b, k) : Known(b, h, j)
  PROVE  Base(b, h, k) \in Nat /\ Nominal <= Base(b, h, k)
<1> USE EngineAssumption
<1>1. CASE ~Capitalized(b)
  BY <1>1 DEF Base
<1>2. CASE Capitalized(b)
  <2>1. k - 1 \in 0 .. Periods /\ \A j \in 1 .. (k - 1) : j \in Earlier(b, k)
    BY <1>2 DEF Earlier
  <2>2. k - 1 \in 0 .. (k - 1) /\ \A j \in 1 .. (k - 1) : Known(b, h, j)
    BY <2>1
  <2>3. Capital(b, h)[k - 1] \in Nat /\ Nominal <= Capital(b, h)[k - 1]
    BY <2>1, <2>2, CapitalIsLarge
  <2> QED BY <1>2, <2>3 DEF Base
<1> QED BY <1>1, <1>2

(* What is accrued on day a of the act days of a period. *)
AccruedOn(base, rate, act, a) ==
  Rounded((base - Nominal) * Unit * act + base * rate * a, Unit * act)

(* Accrued, of the length and the day of its period only.                  *)
LEMMA AccruedIs ==
  ASSUME NEW b \in Bonds, NEW h \in Histories, NEW k \in 1 .. Periods, NEW d \in Int,
         \A j \in Earlier(b, k) : Known(b, h, j)
  PROVE  /\ Boundary[k] - Boundary[k - 1] \in Nat \ {0}
         /\ d - Boundary[k - 1] \in Int
         /\ Rate(b, h, k) \in Nat
         /\ Accrued(b, h, k, d) = AccruedOn(Base(b, h, k), Rate(b, h, k),
                                            Boundary[k] - Boundary[k - 1],
                                            d - Boundary[k - 1])
<1> USE EngineAssumption
<1>1. k \in Earlier(b, k)
  BY DEF Earlier
<1>2. Boundary[k] \in Nat /\ Boundary[k - 1] \in Nat /\ Boundary[k - 1] < Boundary[k]
  OBVIOUS
<1>3. Rate(b, h, k) \in Nat
  BY <1>1, RateIsNat
<1>4. Accrued(b, h, k, d) = AccruedOn(Base(b, h, k), Rate(b, h, k),
                                      Boundary[k] - Boundary[k - 1],
                                      d - Boundary[k - 1])
  BY DEF Accrued, AccruedOn
<1> QED BY <1>2, <1>3, <1>4

(* Accrual grows with the days.                                            *)
LEMMA AccruedOnBounds ==
  ASSUME NEW base \in Nat, NEW rate \in Nat, NEW act \in Nat \ {0}, NEW a \in Int
  PROVE  /\ AccruedOn(base, rate, act, a) \in Int
         /\ \A e \in Int : a <= e => AccruedOn(base, rate, act, a) <= AccruedOn(base, rate, act, e)
<1> DEFINE c == (base - Nominal) * Unit * act
           g == base * rate
           u == Unit * act
<1>1. c \in Int /\ g \in Nat /\ u \in Nat \ {0}
  BY EngineAssumption
<1>2. \A e \in Int : AccruedOn(base, rate, act, e) = Rounded(c + g * e, u)
  BY DEF AccruedOn
<1> HIDE DEF c, g, u
<1>3. \A e \in Int : c + g * e \in Int
  BY <1>1
<1>4. \A e \in Int : a <= e => g * a <= g * e
  BY <1>1
<1>5. \A e \in Int : a <= e => c + g * a <= c + g * e
  <2> TAKE e \in Int
  <2> HAVE a <= e
  <2>1. g * a \in Int /\ g * e \in Int /\ g * a <= g * e
    BY <1>1, <1>4
  <2> QED BY <1>1, <2>1
<1>6. Rounded(c + g * a, u) \in Int
  BY <1>1, <1>3, RoundedBounds
<1>7. \A e \in Int : a <= e => Rounded(c + g * a, u) <= Rounded(c + g * e, u)
  BY <1>1, <1>3, <1>5, RoundedMonotone
<1> QED BY <1>2, <1>6, <1>7

(* The capital of the next period is what this one has accrued at its end. *)
LEMMA AccruedAtTheEnd ==
  ASSUME NEW b \in Bonds, NEW h \in Histories, NEW k \in 1 .. Periods,
         Months(b) = 12, Rate(b, h, k) \in Nat, NEW base \in Nat,
         NEW act \in Nat \ {0}
  PROVE  AccruedOn(base, Rate(b, h, k), act, act) = Grown(b, h, k, base) - Nominal
<1> USE EngineAssumption
<1> DEFINE rate == Rate(b, h, k)
           n == base * Unit + base * rate
<1>0. rate \in Nat
  OBVIOUS
<1> HIDE DEF rate
<1>1. n \in Int /\ Nominal \in Int /\ Unit \in Nat \ {0}
  BY <1>0
<1>2. Grown(b, h, k, base) = Rounded(n, Unit)
  <2>1. base * (12 * Unit + 12 * rate) = 12 * n
    BY <1>0
  <2>2. Grown(b, h, k, base) = Rounded(12 * n, 12 * Unit)
    BY <2>1 DEF Grown, rate
  <2> HIDE DEF n
  <2> QED BY <1>1, <2>2, RoundedScale
<1>3. AccruedOn(base, rate, act, act) = Rounded(n + Unit * (-Nominal), Unit)
  <2>1. (base - Nominal) * Unit * act + base * rate * act = act * (n + Unit * (-Nominal))
    BY <1>0
  <2>2. AccruedOn(base, rate, act, act) = Rounded(act * (n + Unit * (-Nominal)), act * Unit)
    BY <2>1 DEF AccruedOn
  <2>3. n + Unit * (-Nominal) \in Int
    BY <1>0
  <2> HIDE DEF n
  <2> QED BY <2>2, <2>3, RoundedScale
<1> HIDE DEF n
<1>4. Rounded(n + Unit * (-Nominal), Unit) = Rounded(n, Unit) + (-Nominal)
  BY <1>1, RoundedShift
<1>5. Rounded(n, Unit) \in Int
  BY <1>1, RoundedBounds
<1> QED BY <1>1, <1>2, <1>3, <1>4, <1>5 DEF rate

(* The periods a day before maturity needs.                                *)
LEMMA NeededPeriods ==
  ASSUME NEW b \in Bonds, NEW d \in Nat, d < Maturity(b), b.code # "OTS"
  PROVE  /\ PeriodAt(d) \in 1 .. Periods
         /\ Boundary[PeriodAt(d) - 1] <= d
         /\ d < Boundary[PeriodAt(d)]
         /\ Needs(b, d) = Earlier(b, PeriodAt(d))
         /\ Count(b) = Periods
<1>1. Count(b) = Periods
  BY DEF Count
<1>2. Maturity(b) = Boundary[Periods]
  BY <1>1 DEF Maturity
<1>3. d # Maturity(b)
  BY BondFacts
<1>4. Needs(b, d) = Earlier(b, PeriodAt(d))
  BY <1>3 DEF Needs, Earlier
<1> QED BY <1>1, <1>2, <1>4, PeriodOfDay

(* What redemption before maturity pays when interest has been accrued.    *)
Paid(b, k, interest) ==
  LET paid == Nominal + interest - Fee(b, k, interest)
  IN  IF k = 1 THEN Larger(paid, Nominal) ELSE paid

(* The fee takes no more than it may, and keeps the order.                 *)
LEMMA PaidBounds ==
  ASSUME NEW b \in Bonds, NEW k \in 1 .. Periods, NEW i \in Int
  PROVE  /\ Paid(b, k, i) \in Int
         /\ Capitalized(b) \/ k = 1 => Nominal <= Paid(b, k, i)
         /\ 0 <= i => Paid(b, k, i) <= Nominal + i
         /\ \A j \in Int : i <= j => Paid(b, k, i) <= Paid(b, k, j)
<1>1. b.fee_b \in Nat /\ Nominal \in Nat
  BY BondFacts, EngineAssumption
<1> QED BY <1>1 DEF Paid, Fee, Smaller, Larger

(* The value of a day before maturity.                                     *)
LEMMA ValueIs ==
  ASSUME NEW b \in Bonds, NEW h \in Histories, NEW d \in Nat, d < Maturity(b)
  PROVE  /\ b.code = "OTS" => Value(b, h, d) = Nominal
         /\ b.code # "OTS" =>
              Value(b, h, d) = Paid(b, PeriodAt(d), Accrued(b, h, PeriodAt(d), d))
<1>1. d # Maturity(b)
  BY BondFacts
<1> QED BY <1>1 DEF Value, Paid

(* The value at maturity is the capital.                                   *)
LEMMA ValueAtMaturity ==
  ASSUME NEW b \in Bonds, NEW h \in Histories,
         \A k \in Needs(b, Maturity(b)) : Known(b, h, k)
  PROVE  /\ Value(b, h, Maturity(b)) = Capital(b, h)[Count(b)]
         /\ Needs(b, Maturity(b)) = 1 .. Count(b)
         /\ \A k \in 0 .. Count(b) : Capital(b, h)[k] \in Nat /\ Nominal <= Capital(b, h)[k]
<1>0. ~(Maturity(b) < Maturity(b))
  BY BondFacts
<1>1. Value(b, h, Maturity(b)) = Capital(b, h)[Count(b)]
  BY <1>0 DEF Value
<1>2. Needs(b, Maturity(b)) = 1 .. Count(b)
  BY <1>0 DEF Needs
<1>3. Count(b) \in 0 .. Periods
  BY BondFacts, EngineAssumption
<1> QED BY <1>1, <1>2, <1>3, CapitalIsLarge

(* What has accrued on a day is an amount.                                 *)
LEMMA AccruedIsMoney ==
  ASSUME NEW b \in Bonds, NEW h \in Histories, NEW d \in Nat, d < Maturity(b),
         b.code # "OTS", \A k \in Needs(b, d) : Known(b, h, k)
  PROVE  Accrued(b, h, PeriodAt(d), d) \in Int
<1> DEFINE k == PeriodAt(d)
<1>1. k \in 1 .. Periods /\ \A j \in Earlier(b, k) : Known(b, h, j)
  BY NeededPeriods
<1>2. d \in Int
  OBVIOUS
<1> HIDE DEF k
<1>3. Base(b, h, k) \in Nat
  BY <1>1, BaseIsLarge
<1> DEFINE base == Base(b, h, k)
           rate == Rate(b, h, k)
           act == Boundary[k] - Boundary[k - 1]
           a == d - Boundary[k - 1]
<1>4. /\ act \in Nat \ {0} /\ a \in Int /\ rate \in Nat
      /\ Accrued(b, h, k, d) = AccruedOn(base, rate, act, a)
  BY <1>1, <1>2, AccruedIs
<1>5. base \in Nat
  BY <1>3
<1> HIDE DEF base, rate, act, a
<1>6. AccruedOn(base, rate, act, a) \in Int
  BY <1>4, <1>5, AccruedOnBounds
<1>7. Accrued(b, h, k, d) \in Int
  BY <1>4, <1>6
<1> QED BY <1>7 DEF k

(* The value of a day is an amount, and not below the nominal where the    *)
(* fee is capped.                                                          *)
LEMMA ValueIsMoney ==
  ASSUME NEW b \in Bonds, NEW h \in Histories, NEW d \in Nat, d <= Maturity(b),
         \A k \in Needs(b, d) : Known(b, h, k)
  PROVE  /\ Value(b, h, d) \in Int
         /\ Capitalized(b) \/ d < Boundary[1] => Nominal <= Value(b, h, d)
<1> USE EngineAssumption
<1>0. Maturity(b) \in Nat /\ Count(b) \in 1 .. Periods
  BY BondFacts
<1>1. CASE d = Maturity(b)
  <2>1. /\ Value(b, h, Maturity(b)) = Capital(b, h)[Count(b)]
        /\ \A k \in 0 .. Count(b) : Capital(b, h)[k] \in Nat /\ Nominal <= Capital(b, h)[k]
    BY <1>1, ValueAtMaturity
  <2>2. Count(b) \in 0 .. Count(b)
    BY <1>0
  <2> QED BY <1>1, <2>1, <2>2
<1>2. CASE d # Maturity(b) /\ b.code = "OTS"
  <2>1. d < Maturity(b)
    BY <1>0, <1>2
  <2>2. Value(b, h, d) = Nominal
    BY <1>2, <2>1, ValueIs
  <2> QED BY <2>2
<1>3. CASE d # Maturity(b) /\ b.code # "OTS"
  <2>1. d < Maturity(b)
    BY <1>0, <1>3
  <2>2. Accrued(b, h, PeriodAt(d), d) \in Int
    BY <1>3, <2>1, AccruedIsMoney
  <2>3. Value(b, h, d) = Paid(b, PeriodAt(d), Accrued(b, h, PeriodAt(d), d))
    BY <1>3, <2>1, ValueIs
  <2>4. PeriodAt(d) \in 1 .. Periods
    BY <1>3, <2>1, NeededPeriods
  <2>5. d < Boundary[1] => PeriodAt(d) = 1
    BY PeriodIs
  <2> QED BY <2>2, <2>3, <2>4, <2>5, PaidBounds
<1> QED BY <1>1, <1>2, <1>3

(* A larger capital grows to a larger one.                                 *)
LEMMA GrownMonotone ==
  ASSUME NEW b \in Bonds, NEW h \in Histories, NEW k \in 1 .. Periods, Known(b, h, k),
         NEW v \in Nat, NEW w \in Nat, v <= w
  PROVE  Grown(b, h, k, v) <= Grown(b, h, k, w)
<1> DEFINE d == 12 * Unit  g == 12 * Unit + Months(b) * Rate(b, h, k)
<1>0. Months(b) \in Nat /\ Rate(b, h, k) \in Nat
  BY RateIsNat, BondFacts
<1>a. Months(b) * Rate(b, h, k) \in Nat
  BY <1>0
<1>1. d \in Nat \ {0} /\ g \in Nat
  BY <1>a, EngineAssumption
<1>2. Grown(b, h, k, v) = Rounded(v * g, d) /\ Grown(b, h, k, w) = Rounded(w * g, d)
  BY DEF Grown
<1> HIDE DEF d, g
<1>3. v * g \in Int /\ w * g \in Int /\ v * g <= w * g
  BY <1>1
<1> QED BY <1>1, <1>2, <1>3, RoundedMonotone

(* On the first day of a period nothing of it has been accrued.            *)
LEMMA AccruedAtTheStart ==
  ASSUME NEW base \in Nat, NEW rate \in Nat, NEW act \in Nat \ {0}
  PROVE  AccruedOn(base, rate, act, 0) = base - Nominal
<1> USE EngineAssumption
<1> DEFINE d == Unit * act  q == base - Nominal
<1>1. d \in Nat \ {0} /\ q \in Int
  OBVIOUS
<1>2. (base - Nominal) * Unit * act + base * rate * 0 = d * q
  OBVIOUS
<1>3. AccruedOn(base, rate, act, 0) = Rounded(d * q, d)
  BY <1>2 DEF AccruedOn
<1> HIDE DEF d, q
<1>4. 2 * (d * q) <= 2 * (d * q) + d /\ 2 * (d * q) < 2 * (d * q) + d /\ d * q \in Int
  BY <1>1
<1>5. Rounded(d * q, d) = q
  BY <1>1, <1>4, RoundedIs
<1> QED BY <1>3, <1>5 DEF q

(* The next day is in the same period.                                     *)
LEMMA NextDayInPeriod ==
  ASSUME NEW b \in Bonds, NEW h \in Histories, NEW d \in Nat, b.code # "OTS",
         d < Maturity(b), d + 1 < Boundary[PeriodAt(d)],
         \A k \in Needs(b, d) : Known(b, h, k)
  PROVE  Value(b, h, d) <= Value(b, h, d + 1)
<1> USE EngineAssumption
<1> DEFINE k == PeriodAt(d)
           base == Base(b, h, k)
           rate == Rate(b, h, k)
           act == Boundary[k] - Boundary[k - 1]
           a == d - Boundary[k - 1]
           c == (d + 1) - Boundary[k - 1]
<1>1. /\ k \in 1 .. Periods /\ Boundary[k - 1] <= d /\ d + 1 < Boundary[k]
      /\ \A j \in Earlier(b, k) : Known(b, h, j)
      /\ Count(b) = Periods
  BY NeededPeriods
<1>2. d + 1 \in Nat /\ d \in Int /\ d + 1 \in Int
  OBVIOUS
<1> HIDE DEF k
<1>3. PeriodAt(d + 1) = k
  <2>1. Boundary[k - 1] \in Nat /\ Boundary[k - 1] <= d + 1
    BY <1>1
  <2> QED BY <1>1, <1>2, <2>1, PeriodIs
<1>4. d + 1 < Maturity(b)
  <2>1. Boundary[k] <= Boundary[Periods]
    BY <1>1, BoundariesRise
  <2>2. Boundary[k] \in Nat /\ Boundary[Periods] \in Nat
    BY <1>1
  <2> QED BY <1>1, <2>1, <2>2 DEF Maturity
<1>5. /\ act \in Nat \ {0} /\ rate \in Nat
      /\ Accrued(b, h, k, d) = AccruedOn(base, rate, act, a)
      /\ Accrued(b, h, k, d + 1) = AccruedOn(base, rate, act, c)
  BY <1>1, <1>2, AccruedIs
<1>6. base \in Nat
  BY <1>1, BaseIsLarge
<1>7. a \in Int /\ c \in Int /\ a <= c
  BY <1>1
<1> HIDE DEF base, rate, act, a, c
<1>8. /\ AccruedOn(base, rate, act, a) \in Int
      /\ AccruedOn(base, rate, act, c) \in Int
      /\ AccruedOn(base, rate, act, a) <= AccruedOn(base, rate, act, c)
  BY <1>5, <1>6, <1>7, AccruedOnBounds
<1>9. Paid(b, k, AccruedOn(base, rate, act, a)) <= Paid(b, k, AccruedOn(base, rate, act, c))
  BY <1>1, <1>8, PaidBounds
<1>10. Value(b, h, d) = Paid(b, k, AccruedOn(base, rate, act, a))
  BY <1>5, ValueIs DEF k
<1>11. Value(b, h, d + 1) = Paid(b, k, AccruedOn(base, rate, act, c))
  BY <1>2, <1>3, <1>4, <1>5, ValueIs
<1> QED BY <1>9, <1>10, <1>11

(* The last day of a period pays no more than all its interest less the    *)
(* fee.                                                                    *)
LEMMA LastDayOfPeriod ==
  ASSUME NEW b \in Bonds, NEW h \in Histories, NEW d \in Nat, b.code # "OTS",
         d < Maturity(b), NEW k \in 1 .. Periods, k = PeriodAt(d),
         d + 1 = Boundary[k], \A j \in Needs(b, d) : Known(b, h, j)
  PROVE  LET base == Base(b, h, k)
             whole == Grown(b, h, k, base) - Nominal
         IN  /\ base \in Nat /\ Nominal <= base
             /\ whole \in Int /\ 0 <= whole
             /\ Value(b, h, d) <= Paid(b, k, whole)
<1> DEFINE base == Base(b, h, k)
           rate == Rate(b, h, k)
           act == Boundary[k] - Boundary[k - 1]
           a == d - Boundary[k - 1]
           grown == Grown(b, h, k, base)
<1>1. /\ \A j \in Earlier(b, k) : Known(b, h, j)
      /\ Known(b, h, k)
  BY NeededPeriods DEF Earlier
<1>2. d \in Int /\ Months(b) = 12
  BY DEF Months
<1>3. /\ act \in Nat \ {0} /\ rate \in Nat
      /\ Accrued(b, h, k, d) = AccruedOn(base, rate, act, a)
  BY <1>1, <1>2, AccruedIs
<1>4. base \in Nat /\ Nominal <= base
  BY <1>1, BaseIsLarge
<1>5. a \in Int /\ act \in Int /\ a <= act
  <2>1. Boundary[k] \in Nat /\ Boundary[k - 1] \in Nat
    BY EngineAssumption
  <2> QED BY <2>1
<1>6. AccruedOn(base, rate, act, act) = grown - Nominal
  <2>1. \A v \in Nat, n \in Nat \ {0} :
          AccruedOn(v, Rate(b, h, k), n, n) = Grown(b, h, k, v) - Nominal
    BY <1>2, <1>3, AccruedAtTheEnd
  <2> HIDE DEF base, act
  <2> QED BY <1>3, <1>4, <2>1
<1>7. grown \in Int /\ base <= grown
  <2> HIDE DEF base
  <2> QED BY <1>1, <1>4, GrownIsLarger
<1>8. Value(b, h, d) = Paid(b, k, AccruedOn(base, rate, act, a))
  BY <1>3, ValueIs
<1> HIDE DEF base, rate, act, a, grown
<1>9. /\ AccruedOn(base, rate, act, a) \in Int
      /\ AccruedOn(base, rate, act, a) <= grown - Nominal
  <2>1. /\ AccruedOn(base, rate, act, a) \in Int
        /\ AccruedOn(base, rate, act, a) <= AccruedOn(base, rate, act, act)
    BY <1>3, <1>4, <1>5, AccruedOnBounds
  <2> QED BY <1>6, <2>1
<1>10. grown - Nominal \in Int /\ 0 <= grown - Nominal
  BY <1>4, <1>7, EngineAssumption
<1>11. Value(b, h, d) <= Paid(b, k, grown - Nominal)
  BY <1>8, <1>9, <1>10, PaidBounds
<1> QED BY <1>4, <1>10, <1>11 DEF base, grown

(* The next day is the bond's maturity.                                    *)
LEMMA NextDayIsMaturity ==
  ASSUME NEW b \in Bonds, NEW h \in Histories, NEW d \in Nat, b.code # "OTS",
         d + 1 = Maturity(b), d + 1 = Boundary[PeriodAt(d)],
         \A k \in Needs(b, d) : Known(b, h, k),
         \A k \in Needs(b, Maturity(b)) : Known(b, h, k)
  PROVE  Value(b, h, d) <= Value(b, h, d + 1)
<1> DEFINE n == Count(b)
           base == Base(b, h, n)
           C == Capital(b, h)
<1>1. d < Maturity(b)
  BY BondFacts
<1>2. n = Periods /\ n \in 1 .. Periods /\ Maturity(b) = Boundary[n]
  BY <1>1, NeededPeriods, BondFacts
<1>3. PeriodAt(d) = n
  <2>1. Boundary[n - 1] \in Nat /\ Boundary[n] \in Nat /\ Boundary[n - 1] < Boundary[n]
    BY <1>2, EngineAssumption
  <2>2. Boundary[n - 1] <= d /\ d < Boundary[n]
    BY <1>2, <2>1
  <2> QED BY <1>2, <2>2, PeriodIs
<1>4. /\ base \in Nat /\ Nominal <= base
      /\ Grown(b, h, n, base) - Nominal \in Int
      /\ 0 <= Grown(b, h, n, base) - Nominal
      /\ Value(b, h, d) <= Paid(b, n, Grown(b, h, n, base) - Nominal)
  BY <1>1, <1>2, <1>3, LastDayOfPeriod
<1>5. /\ Value(b, h, d + 1) = C[n]
      /\ \A k \in 1 .. n : Known(b, h, k)
      /\ \A k \in 0 .. n : C[k] \in Nat /\ Nominal <= C[k]
  BY ValueAtMaturity
<1>6. n - 1 \in 0 .. n /\ n \in 0 .. n /\ n \in 1 .. n
  BY <1>2, EngineAssumption
<1>7. base <= C[n - 1]
  BY <1>5, <1>6 DEF Base
<1>8. C[n] = Grown(b, h, n, C[n - 1])
  BY <1>2, CapitalStep
<1> HIDE DEF n, base, C
<1>9. Grown(b, h, n, base) <= C[n]
  BY <1>2, <1>4, <1>5, <1>6, <1>7, <1>8, GrownMonotone
<1>10. /\ Value(b, h, d) \in Int
       /\ Paid(b, n, Grown(b, h, n, base) - Nominal) \in Int
       /\ Paid(b, n, Grown(b, h, n, base) - Nominal)
            <= Nominal + (Grown(b, h, n, base) - Nominal)
  <2>1. d <= Maturity(b)
    BY <1>1, BondFacts
  <2>2. Value(b, h, d) \in Int
    BY <2>1, ValueIsMoney
  <2> QED BY <1>2, <1>4, <2>2, PaidBounds
<1>11. Grown(b, h, n, base) \in Int /\ C[n] \in Int /\ Nominal \in Int
  <2>1. Known(b, h, n) /\ C[n] \in Nat
    BY <1>5, <1>6
  <2>2. Grown(b, h, n, base) \in Int
    BY <1>2, <1>4, <2>1, GrownIsLarger
  <2> QED BY <2>1, <2>2, EngineAssumption
<1> QED BY <1>4, <1>5, <1>9, <1>10, <1>11

(* The next day is the first of another period, and the bond capitalises.  *)
LEMMA NextDayInNextPeriod ==
  ASSUME NEW b \in Bonds, NEW h \in Histories, NEW d \in Nat, Capitalized(b),
         d + 1 < Maturity(b), d + 1 = Boundary[PeriodAt(d)],
         \A k \in Needs(b, d) : Known(b, h, k),
         \A k \in Needs(b, d + 1) : Known(b, h, k)
  PROVE  Value(b, h, d) <= Value(b, h, d + 1)
<1> DEFINE k == PeriodAt(d)
           base == Base(b, h, k)
           grown == Grown(b, h, k, base)
           rate == Rate(b, h, k + 1)
           act == Boundary[k + 1] - Boundary[k]
<1>1. /\ b.code = "EDO" /\ b.code # "OTS" /\ d < Maturity(b)
      /\ d + 1 \in Nat /\ d + 1 \in Int
  BY BondFacts DEF Capitalized
<1>2. /\ k \in 1 .. Periods /\ Boundary[k - 1] <= d /\ d < Boundary[k]
      /\ Maturity(b) = Boundary[Periods]
  BY <1>1, NeededPeriods DEF Maturity
<1>3. /\ base \in Nat /\ Nominal <= base
      /\ grown - Nominal \in Int /\ 0 <= grown - Nominal
      /\ Value(b, h, d) <= Paid(b, k, grown - Nominal)
  BY <1>1, <1>2, LastDayOfPeriod
<1>4. d + 1 = Boundary[k]
  OBVIOUS
<1> HIDE DEF k
<1>5. k + 1 \in 1 .. Periods /\ (k + 1) - 1 = k
  BY <1>2, <1>4, EngineAssumption
<1>6. PeriodAt(d + 1) = k + 1
  <2>1. Boundary[k] < Boundary[k + 1]
    BY <1>5, EngineAssumption
  <2>2. Boundary[(k + 1) - 1] <= d + 1 /\ d + 1 < Boundary[k + 1]
    BY <1>1, <1>4, <1>5, <2>1
  <2> QED BY <1>1, <1>5, <2>2, PeriodIs
<1>7. \A j \in Earlier(b, k + 1) : Known(b, h, j)
  BY <1>1, <1>6, NeededPeriods
<1>8. Base(b, h, k + 1) = grown
  <2>1. Base(b, h, k + 1) = Capital(b, h)[k]
    BY <1>5 DEF Base
  <2>2. base = Capital(b, h)[k - 1]
    BY DEF Base
  <2> QED BY <1>2, <2>1, <2>2, CapitalStep
<1>9. /\ act \in Nat \ {0} /\ rate \in Nat
      /\ Accrued(b, h, k + 1, d + 1) = AccruedOn(Base(b, h, k + 1), rate, act,
                                                 (d + 1) - Boundary[k])
  BY <1>1, <1>5, <1>7, AccruedIs
<1>10. (d + 1) - Boundary[k] = 0
  BY <1>1, <1>4
<1>11. Base(b, h, k + 1) \in Nat
  BY <1>5, <1>7, BaseIsLarge
<1> HIDE DEF act, rate
<1>12. Accrued(b, h, k + 1, d + 1) = grown - Nominal
  <2>1. AccruedOn(Base(b, h, k + 1), rate, act, 0) = Base(b, h, k + 1) - Nominal
    BY <1>9, <1>11, AccruedAtTheStart
  <2> QED BY <1>8, <1>9, <1>10, <2>1
<1>13. Value(b, h, d + 1) = Paid(b, k + 1, grown - Nominal)
  BY <1>1, <1>6, <1>12, ValueIs
<1> HIDE DEF grown, base
<1>14. Paid(b, k, grown - Nominal) = Paid(b, k + 1, grown - Nominal)
  <2>1. b.fee_b \in Nat /\ Nominal \in Nat
    BY BondFacts, EngineAssumption
  <2>2. k + 1 # 1
    BY <1>2
  <2> QED BY <1>3, <2>1, <2>2 DEF Paid, Fee, Smaller, Larger
<1> QED BY <1>3, <1>13, <1>14

(* Interest that is paid out is gone on the first day of the next period.  *)
PaidOutOn(b, d) ==
  b.code \in {"COI", "ROR"} /\ \E k \in 1 .. Periods - 1 : d = Boundary[k]

(* The next day is worth at least as much.                                 *)
LEMMA NextDayPays ==
  ASSUME NEW b \in Bonds, NEW h \in Histories, NEW d \in Nat,
         d + 1 <= Maturity(b), ~PaidOutOn(b, d + 1),
         \A k \in Needs(b, d) : Known(b, h, k),
         \A k \in Needs(b, d + 1) : Known(b, h, k)
  PROVE  Value(b, h, d) <= Value(b, h, d + 1)
<1>1. d < Maturity(b) /\ Maturity(b) \in Nat /\ d + 1 \in Nat
  BY BondFacts
<1>2. CASE b.code = "OTS"
  <2>1. Value(b, h, d) = Nominal
    BY <1>1, <1>2, ValueIs
  <2>2. CASE d + 1 < Maturity(b)
    <3>1. Value(b, h, d + 1) = Nominal
      BY <1>1, <1>2, <2>2, ValueIs
    <3> QED BY <2>1, <3>1, EngineAssumption
  <2>3. CASE d + 1 = Maturity(b)
    <3>1. Count(b) \in 0 .. Count(b)
      <4>1. Count(b) \in 1 .. Periods
        BY BondFacts
      <4> QED BY <4>1, EngineAssumption
    <3>2. Nominal <= Value(b, h, d + 1)
      BY <2>3, <3>1, ValueAtMaturity
    <3> QED BY <2>1, <3>2
  <2> QED BY <1>1, <2>2, <2>3
<1>3. CASE b.code # "OTS"
  <2>1. /\ PeriodAt(d) \in 1 .. Periods /\ d < Boundary[PeriodAt(d)]
        /\ Count(b) = Periods
    BY <1>1, <1>3, NeededPeriods
  <2>2. Boundary[PeriodAt(d)] \in Nat
    BY <2>1, EngineAssumption
  <2>3. CASE d + 1 < Boundary[PeriodAt(d)]
    BY <1>1, <1>3, <2>3, NextDayInPeriod
  <2>4. CASE d + 1 = Boundary[PeriodAt(d)] /\ d + 1 = Maturity(b)
    BY <1>3, <2>4, NextDayIsMaturity
  <2>5. CASE d + 1 = Boundary[PeriodAt(d)] /\ d + 1 < Maturity(b)
    <3>1. PeriodAt(d) # Periods
      BY <2>1, <2>5 DEF Maturity
    <3>2. PeriodAt(d) \in 1 .. Periods - 1
      BY <2>1, <3>1, EngineAssumption
    <3>3. b.code \notin {"COI", "ROR"}
      BY <2>5, <3>2 DEF PaidOutOn
    <3>4. Capitalized(b)
      BY <1>3, <3>3, BondFacts DEF Codes, Capitalized
    <3> QED BY <2>5, <3>4, NextDayInNextPeriod
  <2> QED BY <1>1, <2>1, <2>2, <2>3, <2>4, <2>5
<1> QED BY <1>2, <1>3

-----------------------------------------------------------------------------
(* What has been priced is what the rules say of each day so far.          *)
DaysAreValued ==
  \A i \in 1 .. Len(closes) :
    /\ Low + i - 1 <= high
    /\ \A k \in Needs(bond, Low + i - 1) : Known(bond, cpi, k)
    /\ closes[i] = Value(bond, cpi, Low + i - 1)

(* A range is priced to its end or not at all. *)
WholeRange ==
  /\ phase \in {"idle", "asked"} => high = 0 /\ closes = <<>>
  /\ phase = "priced" /\ Low <= high => Len(closes) = high - Low + 1
  /\ phase = "refused" => /\ closes = <<>>
                          /\ \E k \in 1 .. Periods : /\ ~Known(bond, cpi, k)
                                                     /\ k = 1 \/ Boundary[k - 1] <= high

IInv == TypeOK /\ DaysAreValued /\ WholeRange

(* A range begins no earlier than the issue.                               *)
LEMMA LowIsDay ==
  ASSUME TypeOK
  PROVE  Low \in Nat
<1>1. start \in Int
  BY EngineAssumption DEF TypeOK
<1> QED BY <1>1 DEF Low, Larger

(* Without a request the invariant holds.                                  *)
LEMMA InitIInv == Init => IInv
<1> SUFFICES ASSUME Init PROVE IInv
  OBVIOUS
<1> USE DEF Init
<1>1. SomeBond \in Bonds
  BY EngineAssumption DEF SomeBond
<1>2. NoHistory \in Histories
  BY DEF NoHistory, Histories
<1>3. high <= Maturity(bond)
  BY <1>1, BondFacts
<1>4. TypeOK
  BY <1>1, <1>2, <1>3 DEF TypeOK
<1>5. DaysAreValued
  BY DEF DaysAreValued
<1>6. WholeRange
  BY DEF WholeRange
<1> QED BY <1>4, <1>5, <1>6 DEF IInv

(* A day whose periods are known is valued, and nothing before it changes. *)
LEMMA PriceDayIInv == IInv /\ PriceDay => IInv'
<1> SUFFICES ASSUME IInv, PriceDay PROVE IInv'
  OBVIOUS
<1> USE DEF IInv
<1> DEFINE v == Value(bond, cpi, day)
<1>1. /\ bond \in Bonds /\ cpi \in Histories /\ closes \in Seq(Int)
      /\ high \in Int /\ high <= Maturity(bond) /\ day \in Int
      /\ phase = "walking" /\ Low <= day /\ day <= high
      /\ Len(closes) = day - Low
      /\ \A k \in Needs(bond, day) : Known(bond, cpi, k)
  BY DEF TypeOK, PriceDay
<1>2. Low \in Nat /\ Low' = Low
  BY LowIsDay DEF PriceDay, request, Low
<1>3. day \in Nat /\ day <= Maturity(bond)
  BY <1>1, <1>2, BondFacts
<1>4. v \in Int
  BY <1>1, <1>3, ValueIsMoney
<1> HIDE DEF v
<1>5. /\ closes' = Append(closes, v) /\ day' = day + 1
      /\ phase' = phase /\ high' = high /\ bond' = bond /\ cpi' = cpi
      /\ start' = start /\ end' = end
  BY DEF PriceDay, request, v
<1>6. /\ closes' \in Seq(Int) /\ Len(closes') = Len(closes) + 1
      /\ closes'[Len(closes) + 1] = v
      /\ \A i \in 1 .. Len(closes) : closes'[i] = closes[i]
  BY <1>1, <1>4, <1>5
<1>7. TypeOK'
  BY <1>1, <1>2, <1>5, <1>6 DEF TypeOK, Maturity, Count
<1>8. DaysAreValued'
  <2> SUFFICES ASSUME NEW i \in 1 .. Len(closes')
               PROVE  /\ Low + i - 1 <= high
                      /\ \A k \in Needs(bond, Low + i - 1) : Known(bond, cpi, k)
                      /\ closes'[i] = Value(bond, cpi, Low + i - 1)
    BY <1>2, <1>5 DEF DaysAreValued
  <2>1. Len(closes) \in Nat
    BY <1>1
  <2>2. CASE i = Len(closes) + 1
    <3>1. Low + i - 1 = day
      BY <1>1, <1>2, <2>2
    <3> QED BY <1>1, <1>6, <2>2, <3>1 DEF v
  <2>3. CASE i # Len(closes) + 1
    <3>1. i \in 1 .. Len(closes)
      BY <1>6, <2>1, <2>3
    <3> QED BY <1>6, <3>1 DEF DaysAreValued
  <2> QED BY <2>2, <2>3
<1>9. WholeRange'
  BY <1>1, <1>5 DEF WholeRange
<1> QED BY <1>7, <1>8, <1>9

(* The gap that ends a walk is one of the range. *)
LEMMA GapIsInRange ==
  ASSUME NEW b \in Bonds, NEW h \in Histories, NEW d \in Nat, NEW k \in Needs(b, d),
         d <= Maturity(b), ~Known(b, h, k)
  PROVE  k \in 1 .. Periods /\ Boundary[k - 1] <= d
<1>1. /\ Count(b) \in 1 .. Periods /\ Maturity(b) = Boundary[Count(b)]
      /\ Maturity(b) \in Nat
  BY BondFacts
<1>2. CASE d = Maturity(b)
  <2>1. k \in 1 .. Count(b)
    BY <1>1, <1>2 DEF Needs
  <2>2. k \in 1 .. Periods /\ k - 1 \in 0 .. Count(b) /\ Count(b) \in 0 .. Periods
    BY <1>1, <2>1, EngineAssumption
  <2> QED BY <1>1, <1>2, <2>2, BoundariesRise
<1>3. CASE d < Maturity(b)
  <2>1. b.code # "OTS"
    BY <1>3, BondFacts DEF Needs
  <2> DEFINE p == PeriodAt(d)
  <2>2. p \in 1 .. Periods /\ Boundary[p - 1] <= d /\ k \in Earlier(b, p)
    BY <1>3, <2>1, NeededPeriods
  <2> HIDE DEF p
  <2>3. k \in 1 .. p
    BY <2>2 DEF Earlier
  <2>4. /\ k \in 1 .. Periods /\ k - 1 \in 0 .. (p - 1)
        /\ k - 1 \in 0 .. Periods /\ p - 1 \in 0 .. Periods
    BY <2>2, <2>3, EngineAssumption
  <2>5. Boundary[k - 1] <= Boundary[p - 1]
    BY <2>4, BoundariesRise
  <2>6. Boundary[k - 1] \in Nat /\ Boundary[p - 1] \in Nat
    BY <2>4, EngineAssumption
  <2> QED BY <2>2, <2>4, <2>5, <2>6
<1> QED BY <1>1, <1>2, <1>3

(* Every other step keeps the invariant.                                   *)
LEMMA OtherStepsIInv == IInv /\ (Ask \/ Walk \/ NotPriceable \/ Gap \/ Finish \/ Forget) => IInv'
<1> USE DEF IInv
<1>1. ASSUME IInv, Ask PROVE IInv'
  <2>1. bond' \in Bonds /\ cpi' \in Histories /\ start' \in Dates /\ end' \in Dates
    BY <1>1 DEF Ask
  <2>2. phase' = "asked" /\ high' = 0 /\ day' = day /\ closes' = <<>>
    BY <1>1 DEF Ask, WholeRange
  <2>3. high' <= Maturity(bond)'
    <3>1. 0 < Maturity(bond')
      BY <2>1, BondFacts
    <3>2. Maturity(bond') \in Nat
      BY <2>1, BondFacts
    <3> QED BY <2>2, <3>1, <3>2
  <2>4. TypeOK'
    BY <1>1, <2>1, <2>2, <2>3 DEF TypeOK
  <2>5. DaysAreValued'
    BY <2>2 DEF DaysAreValued
  <2>6. WholeRange'
    BY <2>2 DEF WholeRange
  <2> QED BY <2>4, <2>5, <2>6
<1>2. ASSUME IInv, Walk PROVE IInv'
  <2>1. /\ bond \in Bonds /\ start \in Int /\ end \in Int
        /\ Low \in Nat /\ Maturity(bond) \in Nat /\ closes = <<>>
    BY <1>2, LowIsDay, BondFacts, EngineAssumption DEF TypeOK, Walk, WholeRange
  <2>2. /\ bond' = bond /\ cpi' = cpi /\ start' = start /\ end' = end
        /\ closes' = <<>> /\ day' = Low /\ high' = Smaller(end, Maturity(bond))
        /\ phase' = IF high' < Low THEN "priced" ELSE "walking"
        /\ Low' = Low
    BY <1>2, <2>1 DEF Walk, request, Low
  <2>3. high' \in Int /\ high' <= Maturity(bond)
    BY <2>1, <2>2 DEF Smaller
  <2>4. TypeOK'
    BY <1>2, <2>1, <2>2, <2>3 DEF TypeOK, Maturity, Count
  <2>5. DaysAreValued'
    BY <2>2 DEF DaysAreValued
  <2>6. WholeRange'
    BY <2>1, <2>2, <2>3 DEF WholeRange
  <2> QED BY <2>4, <2>5, <2>6
<1>3. ASSUME IInv, NotPriceable PROVE IInv'
  <2>1. /\ UNCHANGED <<request, high, day, closes>> /\ closes = <<>>
        /\ phase' = "refused" /\ ~Known(bond, cpi, 1)
    BY <1>3 DEF NotPriceable, WholeRange
  <2>2. TypeOK'
    BY <1>3, <2>1 DEF TypeOK, request, Maturity, Count
  <2>3. DaysAreValued'
    BY <2>1 DEF DaysAreValued
  <2>4. 1 \in 1 .. Periods
    BY EngineAssumption
  <2>5. WholeRange'
    BY <2>1, <2>4 DEF WholeRange, request
  <2> QED BY <2>2, <2>3, <2>5
<1>4. ASSUME IInv, Gap PROVE IInv'
  <2>1. /\ UNCHANGED <<request, high, day>> /\ closes' = <<>>
        /\ phase' = "refused" /\ day <= high
        /\ Low <= day /\ high \in Int /\ day \in Int /\ high <= Maturity(bond)
        /\ bond \in Bonds /\ cpi \in Histories
    BY <1>4 DEF Gap, TypeOK
  <2>2. PICK k \in Needs(bond, day) : ~Known(bond, cpi, k)
    BY <1>4 DEF Gap
  <2>3. day \in Nat /\ day <= Maturity(bond)
    BY <1>4, <2>1, LowIsDay, BondFacts
  <2>4. k \in 1 .. Periods /\ Boundary[k - 1] <= day
    BY <2>1, <2>2, <2>3, GapIsInRange
  <2>5. Boundary[k - 1] <= high
    <3>1. Boundary[k - 1] \in Nat
      BY <2>4, EngineAssumption
    <3> QED BY <2>1, <2>4, <3>1
  <2>6. TypeOK'
    BY <1>4, <2>1 DEF TypeOK, request, Maturity, Count
  <2>7. DaysAreValued'
    BY <2>1 DEF DaysAreValued
  <2>8. WholeRange'
    BY <2>1, <2>2, <2>4, <2>5 DEF WholeRange, request
  <2> QED BY <2>6, <2>7, <2>8
<1>5. ASSUME IInv, Finish PROVE IInv'
  <2>1. /\ UNCHANGED <<request, high, day, closes>> /\ phase' = "priced"
        /\ phase = "walking" /\ day > high
        /\ Low' = Low
    BY <1>5 DEF Finish, request, Low
  <2>2. TypeOK'
    BY <1>5, <2>1 DEF TypeOK, request, Maturity, Count
  <2>3. DaysAreValued'
    BY <1>5, <2>1 DEF DaysAreValued, request
  <2>4. /\ Low \in Nat /\ day \in Int /\ high \in Int
        /\ day <= high + 1 /\ Len(closes) = day - Low
    BY <1>5, <2>1, LowIsDay DEF TypeOK
  <2>5. WholeRange'
    BY <2>1, <2>4 DEF WholeRange
  <2> QED BY <2>2, <2>3, <2>5
<1>6. ASSUME IInv, Forget PROVE IInv'
  <2>1. Init'
    BY <1>6 DEF Forget, Init
  <2> QED BY <2>1, InitIInv, PTL
<1> QED BY <1>1, <1>2, <1>3, <1>4, <1>5, <1>6

-----------------------------------------------------------------------------
(* Every step keeps the invariant.                                         *)
LEMMA NextIInv == IInv /\ [Next]_vars => IInv'
<1>1. ASSUME IInv, UNCHANGED vars PROVE IInv'
  BY <1>1 DEF IInv, vars, request, TypeOK, DaysAreValued, WholeRange, Low, Maturity, Count
<1> QED BY <1>1, PriceDayIInv, OtherStepsIInv DEF Next

(* The strengthening that is inductive.                                    *)
THEOREM InductiveInvariant == Spec => []IInv
<1> QED BY InitIInv, NextIInv, PTL DEF Spec

(* The state of a request stays in its ranges, and every close is an        *)
(* amount.                                                                 *)
THEOREM TypeCorrect == Spec => []TypeOK
<1>1. IInv => TypeOK
  BY DEF IInv
<1> QED BY <1>1, InductiveInvariant, PTL

(* What the invariant says of the i-th close.                              *)
LEMMA ValuedDay ==
  ASSUME IInv, NEW i \in 1 .. Len(closes)
  PROVE  /\ bond \in Bonds /\ cpi \in Histories
         /\ Low \in Nat /\ Low + i - 1 \in Nat /\ Low + i - 1 <= Maturity(bond)
         /\ \A k \in Needs(bond, Low + i - 1) : Known(bond, cpi, k)
         /\ closes[i] = Value(bond, cpi, Low + i - 1)
<1>1. /\ bond \in Bonds /\ cpi \in Histories /\ high \in Int /\ high <= Maturity(bond)
      /\ Low \in Nat
  BY LowIsDay DEF IInv, TypeOK
<1>2. Len(closes) \in Nat
  BY DEF IInv, TypeOK
<1>3. Low + i - 1 \in Nat
  BY <1>1, <1>2
<1>4. Low + i - 1 <= Maturity(bond)
  <2>1. Low + i - 1 <= high
    BY DEF IInv, DaysAreValued
  <2> QED BY <1>1, <1>3, <2>1, BondFacts
<1> QED BY <1>1, <1>3, <1>4 DEF IInv, DaysAreValued

(* For every term, rate, fee and inflation: who redeems in the first       *)
(* period, or a bond that capitalises, never gets less than the nominal.   *)
THEOREM RedemptionKeepsNominal == Spec => []NeverBelowNominal
<1>1. IInv => NeverBelowNominal
  <2> SUFFICES ASSUME IInv, NEW i \in 1 .. Len(closes),
                      Capitalized(bond) \/ Low + i - 1 < Boundary[1]
               PROVE  closes[i] >= Nominal
    BY DEF NeverBelowNominal
  <2>1. Nominal <= Value(bond, cpi, Low + i - 1) /\ Value(bond, cpi, Low + i - 1) \in Int
    BY ValuedDay, ValueIsMoney
  <2> QED BY <2>1, ValuedDay, EngineAssumption
<1> QED BY <1>1, InductiveInvariant, PTL

(* For every calendar: a day later is never worth less, across the         *)
(* rounding of the capital, of the accrual and the caps of the fee.        *)
THEOREM WaitingNeverCosts == Spec => []WaitingPays
<1>1. IInv => WaitingPays
  <2> SUFFICES ASSUME IInv, NEW i \in 1 .. Len(closes) - 1,
                      ~PaidOutOn(bond, Low + i)
               PROVE  closes[i] <= closes[i + 1]
    BY DEF WaitingPays, PaidOutOn
  <2>1. Len(closes) \in Nat
    BY DEF IInv, TypeOK
  <2>2. i \in 1 .. Len(closes) /\ i + 1 \in 1 .. Len(closes)
    BY <2>1
  <2> DEFINE d == Low + i - 1
  <2>3. /\ bond \in Bonds /\ cpi \in Histories /\ Low \in Nat /\ d \in Nat
        /\ \A k \in Needs(bond, d) : Known(bond, cpi, k)
        /\ closes[i] = Value(bond, cpi, d)
    BY <2>2, ValuedDay
  <2>4. Low + (i + 1) - 1 = d + 1 /\ Low + i = d + 1
    BY <2>2, <2>3
  <2>5. /\ d + 1 <= Maturity(bond)
        /\ \A k \in Needs(bond, d + 1) : Known(bond, cpi, k)
        /\ closes[i + 1] = Value(bond, cpi, d + 1)
    <3> HIDE DEF d
    <3> QED BY <2>2, <2>4, ValuedDay
  <2>6. ~PaidOutOn(bond, d + 1)
    BY <2>4
  <2> HIDE DEF d
  <2> QED BY <2>3, <2>5, <2>6, NextDayPays
<1> QED BY <1>1, InductiveInvariant, PTL

(* For every history: a period of a priced range has its inflation figure, *)
(* and a refusal is owed to a figure that is missing.                      *)
THEOREM GapsAreNeverPriced == Spec => []GapsAreReported
<1>1. IInv => GapsAreReported
  <2> SUFFICES ASSUME IInv PROVE GapsAreReported
    OBVIOUS
  <2>1. ASSUME phase = "priced", Low <= high,
               NEW k \in 1 .. Count(bond), ~Known(bond, cpi, k),
               Boundary[k - 1] <= high, Low < Boundary[k]
        PROVE  FALSE
    <3>1. /\ bond \in Bonds /\ high \in Int /\ high <= Maturity(bond) /\ Low \in Nat
      BY LowIsDay DEF IInv, TypeOK
    <3>2. Len(closes) = high - Low + 1
      BY <2>1 DEF IInv, WholeRange
    <3>3. ASSUME NEW d \in Low .. high PROVE d \in Nat /\ k \notin Needs(bond, d)
      <4>1. d - Low + 1 \in 1 .. Len(closes) /\ Low + (d - Low + 1) - 1 = d
        BY <3>1, <3>2
      <4>2. \A j \in Needs(bond, d) : Known(bond, cpi, j)
        BY <4>1, ValuedDay
      <4> QED BY <2>1, <3>1, <4>2
    <3>4. bond.code # "OTS"
      BY <2>1, <3>1, BondFacts DEF Known
    <3>5. /\ Count(bond) = Periods /\ k \in 1 .. Periods
          /\ Maturity(bond) = Boundary[Periods] /\ Maturity(bond) \in Nat
      BY <2>1, <3>1, <3>4, BondFacts DEF Count, Maturity
    <3>6. /\ Boundary[k - 1] \in Nat /\ Boundary[k] \in Nat
          /\ Boundary[k - 1] < Boundary[k]
      BY <3>5, EngineAssumption
    <3>7. Boundary[k] <= Maturity(bond)
      BY <3>5, BoundariesRise, EngineAssumption
    <3> DEFINE d == IF Low <= Boundary[k - 1] THEN Boundary[k - 1] ELSE Low
    <3>8. /\ d \in Low .. high /\ d \in Nat /\ Boundary[k - 1] <= d /\ d < Boundary[k]
          /\ d < Maturity(bond)
      BY <2>1, <3>1, <3>5, <3>6, <3>7
    <3> HIDE DEF d
    <3>9. PeriodAt(d) = k
      BY <3>5, <3>8, PeriodIs
    <3>10. Needs(bond, d) = Earlier(bond, k)
      BY <3>1, <3>4, <3>8, <3>9, NeededPeriods
    <3>11. k \in Needs(bond, d)
      BY <3>5, <3>10 DEF Earlier
    <3> QED BY <3>3, <3>8, <3>11
  <2> QED BY <2>1 DEF GapsAreReported, IInv, WholeRange
<1> QED BY <1>1, InductiveInvariant, PTL
=============================================================================
