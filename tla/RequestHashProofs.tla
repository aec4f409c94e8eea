-------------------------- MODULE RequestHashProofs --------------------------
(***************************************************************************)
(* What _build_request_hash tells apart, for bodies of any size and depth:  *)
(* two of them hash alike exactly if they mean the same, but for amounts    *)
(* with more digits than the decimal context keeps.                         *)
(***************************************************************************)
EXTENDS RequestHash, TLAPS

(* The bodies of the recursive functions, with what Recursion says of them. *)

TenStep(f, n) == IF n = 0 THEN 1 ELSE 10 * f[n - 1]

TenRec == INSTANCE Recursion WITH
  Domain <- Nat, Rank <- [n \in Nat |-> n], Step <- TenStep

NormalMembers(f, v) ==
  [i \in DOMAIN v.items |-> [key |-> v.items[i].key, value |-> f[v.items[i].value]]]

NormalStep(f, v) ==
  CASE v.kind = "object" -> [kind |-> "object", items |-> ByKey(NormalMembers(f, v))]
    [] v.kind = "list" ->
         [kind |-> "list", items |-> [i \in DOMAIN v.items |-> f[v.items[i]]]]
    [] OTHER -> v

NormalRec == INSTANCE Recursion WITH
  Domain <- Values, Rank <- Depth, Step <- NormalStep

MeaningStep(f, v) ==
  CASE v.kind = "object" ->
         [kind |-> "object", members |-> [k \in KeysOf(v) |-> f[ValueAt(v, k)]]]
    [] v.kind = "list" ->
         [kind |-> "list", items |-> [i \in DOMAIN v.items |-> f[v.items[i]]]]
    [] OTHER -> v

MeaningRec == INSTANCE Recursion WITH
  Domain <- Values, Rank <- Depth, Step <- MeaningStep

----------------------------------------------------------------------------
(* Powers of ten                                                           *)

\* TenTo satisfies its recursive definition.
LEMMA TenToUnfolds ==
  /\ TenTo[0] = 1
  /\ \A n \in Nat : TenTo[n + 1] = 10 * TenTo[n]
<1>1. [n \in Nat |-> n] \in [Nat -> Nat]
  OBVIOUS
<1>2. TenRec!Local
  BY DEF TenRec!Local, TenStep
<1>3. \E f : f = [n \in Nat |-> TenStep(f, n)]
  BY <1>1, <1>2, TenRec!FunctionExists
<1>4. TenTo = CHOOSE f : f = [n \in Nat |-> TenStep(f, n)]
  BY DEF TenTo, TenStep
<1>5. TenTo = [n \in Nat |-> TenStep(TenTo, n)]
  BY <1>3, <1>4
<1>6. \A n \in Nat : n + 1 # 0 /\ n + 1 \in Nat /\ (n + 1) - 1 = n
  OBVIOUS
<1>7. QED BY <1>5, <1>6 DEF TenStep

\* Powers of ten are positive natural numbers.
LEMMA TenToType ==
  ASSUME NEW n \in Nat
  PROVE  TenTo[n] \in Nat \ {0}
<1> DEFINE S == {i \in Nat : TenTo[i] \in Nat \ {0}}
<1>1. 0 \in S
  BY TenToUnfolds
<1>2. \A i \in Nat : i \in S => i + 1 \in S
  BY TenToUnfolds
<1> HIDE DEF S
<1>3. \A i \in Nat : i \in S
  BY <1>1, <1>2, TenRec!SetInduction
<1>4. QED BY <1>3 DEF S

\* Exponents add up.
LEMMA TenToSum ==
  ASSUME NEW m \in Nat, NEW n \in Nat
  PROVE  TenTo[m + n] = TenTo[m] * TenTo[n]
<1> DEFINE S == {i \in Nat : TenTo[m + i] = TenTo[m] * TenTo[i]}
<1>1. 0 \in S
  BY TenToUnfolds, TenToType
<1>2. ASSUME NEW i \in Nat, i \in S PROVE i + 1 \in S
  <2>1. m + (i + 1) = (m + i) + 1 /\ m + i \in Nat
    OBVIOUS
  <2>2. TenTo[m + (i + 1)] = 10 * (TenTo[m] * TenTo[i])
    BY <2>1, <1>2, TenToUnfolds
  <2>3. TenTo[m] * (10 * TenTo[i]) = 10 * (TenTo[m] * TenTo[i])
    BY TenToType
  <2>4. QED BY <2>2, <2>3, TenToUnfolds
<1> HIDE DEF S
<1>3. \A i \in Nat : i \in S
  BY <1>1, <1>2, TenRec!SetInduction
<1>4. QED BY <1>3 DEF S

\* A power of ten exceeds its exponent.
LEMMA TenToExceeds ==
  ASSUME NEW n \in Nat
  PROVE  n < TenTo[n]
<1> DEFINE S == {i \in Nat : i < TenTo[i]}
<1>1. 0 \in S
  BY TenToUnfolds
<1>2. \A i \in Nat : i \in S => i + 1 \in S
  BY TenToUnfolds, TenToType
<1> HIDE DEF S
<1>3. \A i \in Nat : i \in S
  BY <1>1, <1>2, TenRec!SetInduction
<1>4. QED BY <1>3 DEF S

\* A greater exponent is a factor of ten more, at least.
LEMMA TenToGrows ==
  ASSUME NEW m \in Nat, NEW n \in Nat, m < n
  PROVE  10 * TenTo[m] <= TenTo[n]
<1>1. n - (m + 1) \in Nat /\ n = (m + 1) + (n - (m + 1)) /\ m + 1 \in Nat
  OBVIOUS
<1>2. TenTo[n] = (10 * TenTo[m]) * TenTo[n - (m + 1)]
  BY <1>1, TenToSum, TenToUnfolds
<1>3. \A a, b \in Nat \ {0} : 10 * a <= (10 * a) * b
  OBVIOUS
<1>4. QED BY <1>1, <1>2, <1>3, TenToType

----------------------------------------------------------------------------
\* What \div and % are.
LEMMA Division ==
  ASSUME NEW a \in Nat, NEW b \in Nat \ {0}
  PROVE  /\ a \div b \in Nat
         /\ a % b \in 0..(b - 1)
         /\ a = b * (a \div b) + (a % b)
OBVIOUS

\* Quotient and remainder are determined by what they satisfy.
LEMMA DivisionUnique ==
  ASSUME NEW a \in Nat, NEW b \in Nat \ {0}, NEW q \in Nat, NEW r \in 0..(b - 1),
         a = b * q + r
  PROVE  a \div b = q /\ a % b = r
<1> DEFINE p == a \div b
           s == a % b
<1>1. p \in Nat /\ s \in 0..(b - 1) /\ a = b * p + s
  BY Division
<1> HIDE DEF p, s
<1>2. CASE p < q
  <2>1. b * (p + 1) <= b * q
    BY <1>1, <1>2
  <2>2. QED BY <1>1, <2>1
<1>3. CASE q < p
  <2>1. b * (q + 1) <= b * p
    BY <1>1, <1>3
  <2>2. QED BY <1>1, <2>1
<1>4. CASE p = q
  BY <1>1, <1>4 DEF p, s
<1>5. QED BY <1>1, <1>2, <1>3, <1>4

\* A common factor leaves the quotient and scales the remainder.
LEMMA DivisionScales ==
  ASSUME NEW a \in Nat, NEW b \in Nat \ {0}, NEW t \in Nat \ {0}
  PROVE  (a * t) \div (b * t) = a \div b /\ (a * t) % (b * t) = (a % b) * t
<1> DEFINE q == a \div b
           r == a % b
           c == a * t
           d == b * t
           s == r * t
<1>1. q \in Nat /\ r \in 0..(b - 1) /\ a = b * q + r
  BY Division
<1> HIDE DEF q, r
<1>2. c \in Nat /\ d \in Nat \ {0} /\ s \in Nat
  BY <1>1
<1>3. s <= (b - 1) * t
  BY <1>1
<1>4. (b - 1) * t = d - t
  OBVIOUS
<1>5. s <= d - t
  BY <1>3, <1>4
<1>6. c = d * q + s
  BY <1>1
<1> HIDE DEF c, d, s
<1>7. s \in 0..(d - 1)
  BY <1>2, <1>5
<1>8. c \div d = q /\ c % d = s
  BY <1>1, <1>2, <1>6, <1>7, DivisionUnique
<1>9. QED BY <1>8 DEF q, r, c, d, s

----------------------------------------------------------------------------
\* Amounts are compared at any exponent that neither of them is below.
Scaled(d, k) == d.coef * TenTo[d.exp - k]

\* A positive factor cancels.
LEMMA Cancel ==
  ASSUME NEW a \in Nat, NEW b \in Nat, NEW t \in Nat \ {0}
  PROVE  a * t = b * t <=> a = b
OBVIOUS

\* A smaller unit scales the number of units by a power of ten.
LEMMA ScaledFurther ==
  ASSUME NEW d \in Amounts, NEW k \in Int, NEW l \in Int, k <= l, l <= d.exp
  PROVE  /\ Scaled(d, l) \in Nat
         /\ Scaled(d, k) = Scaled(d, l) * TenTo[l - k]
<1>1. d.coef \in Nat \ {0} /\ d.exp \in Int
  BY DEF Amounts
<1>2. /\ d.exp - l \in Nat /\ l - k \in Nat /\ d.exp - k = (d.exp - l) + (l - k)
  BY <1>1
<1>3. TenTo[d.exp - k] = TenTo[d.exp - l] * TenTo[l - k]
  BY <1>2, TenToSum
<1>4. TenTo[d.exp - l] \in Nat \ {0} /\ TenTo[l - k] \in Nat \ {0}
  BY <1>2, TenToType
<1>5. \A a, b, c \in Nat : a * (b * c) = (a * b) * c /\ a * b \in Nat
  OBVIOUS
<1>6. QED BY <1>1, <1>3, <1>4, <1>5 DEF Scaled

\* Amounts can be compared at any unit that is small enough.
LEMMA SameAmountAt ==
  ASSUME NEW d \in Amounts, NEW e \in Amounts, NEW k \in Int, k <= d.exp, k <= e.exp
  PROVE  SameAmount(d, e) <=> Scaled(d, k) = Scaled(e, k)
<1> DEFINE least == IF d.exp < e.exp THEN d.exp ELSE e.exp
<1>1. /\ least \in Int /\ k <= least /\ least <= d.exp /\ least <= e.exp
      /\ least - k \in Nat
  BY DEF Amounts
<1>2. SameAmount(d, e) <=> Scaled(d, least) = Scaled(e, least)
  BY DEF SameAmount, Scaled
<1> HIDE DEF least
<1>3. /\ Scaled(d, least) \in Nat /\ Scaled(d, k) = Scaled(d, least) * TenTo[least - k]
      /\ Scaled(e, least) \in Nat /\ Scaled(e, k) = Scaled(e, least) * TenTo[least - k]
  BY <1>1, ScaledFurther
<1>4. TenTo[least - k] \in Nat \ {0}
  BY <1>1, TenToType
<1>5. Scaled(d, least) * TenTo[least - k] = Scaled(e, least) * TenTo[least - k]
        <=> Scaled(d, least) = Scaled(e, least)
  BY <1>3, <1>4, Cancel
<1>6. QED BY <1>2, <1>3, <1>5

\* SameAmount is symmetric.
LEMMA SameAmountSymmetric ==
  ASSUME NEW d \in Amounts, NEW e \in Amounts, SameAmount(d, e)
  PROVE  SameAmount(e, d)
<1>1. \E k \in Int : k <= d.exp /\ k <= e.exp
  BY DEF Amounts
<1>2. QED BY <1>1, SameAmountAt

\* SameAmount is transitive.
LEMMA SameAmountTransitive ==
  ASSUME NEW d \in Amounts, NEW e \in Amounts, NEW f \in Amounts,
         SameAmount(d, e), SameAmount(e, f)
  PROVE  SameAmount(d, f)
<1>1. PICK k \in Int : k <= d.exp /\ k <= e.exp /\ k <= f.exp
  <2>1. \A a, b, c \in Int : \E k \in Int : k <= a /\ k <= b /\ k <= c
    <3> TAKE a, b, c \in Int
    <3>1. CASE a <= b /\ a <= c
      BY <3>1
    <3>2. CASE b <= a /\ b <= c
      BY <3>2
    <3>3. CASE c <= a /\ c <= b
      BY <3>3
    <3>4. QED BY <3>1, <3>2, <3>3
  <2>2. QED BY <2>1 DEF Amounts
<1>2. QED BY <1>1, SameAmountAt

\* One of two equal amounts is the other with zeros appended.
LEMMA SameAmountShift ==
  ASSUME NEW d \in Amounts, NEW e \in Amounts, e.exp <= d.exp
  PROVE  SameAmount(d, e) <=> e.coef = d.coef * TenTo[d.exp - e.exp]
<1>1. SameAmount(d, e) <=> Scaled(d, e.exp) = Scaled(e, e.exp)
  BY SameAmountAt DEF Amounts
<1>2. e.exp - e.exp = 0 /\ e.coef \in Nat
  BY DEF Amounts
<1>3. Scaled(e, e.exp) = e.coef
  BY <1>2, TenToUnfolds DEF Scaled
<1>4. QED BY <1>1, <1>3 DEF Scaled

----------------------------------------------------------------------------
\* The digits beyond the precision are well defined.
LEMMA PrecisionType == Precision \in Nat /\ Precision >= 1
BY HashAssumption

\* Powers of ten are monotone.
LEMMA TenToMonotone ==
  ASSUME NEW m \in Nat, NEW n \in Nat, m <= n
  PROVE  TenTo[m] <= TenTo[n]
<1>1. CASE m = n
  BY <1>1, TenToType
<1>2. CASE m < n
  BY <1>2, TenToGrows, TenToType
<1>3. QED BY <1>1, <1>2

IsExcess(c, n) ==
  /\ c < TenTo[Precision + n]
  /\ n > 0 => TenTo[Precision + n - 1] <= c

\* Every coefficient has some number of digits beyond the precision.
LEMMA ExcessExists ==
  ASSUME NEW c \in Nat
  PROVE  \E n \in 0..c : IsExcess(c, n)
<1> DEFINE S == {n \in Nat : c < TenTo[Precision + n]}
<1>1. c \in S
  <2>1. Precision + c \in Nat /\ c <= Precision + c
    BY PrecisionType
  <2>2. Precision + c < TenTo[Precision + c] /\ TenTo[Precision + c] \in Nat
    BY <2>1, TenToExceeds, TenToType
  <2>3. QED BY <2>1, <2>2
<1>2. PICK n \in S : \A m \in S : n <= m
  BY <1>1, TenRec!LeastElement
<1>3. n \in 0..c
  BY <1>1, <1>2
<1>4. ASSUME n > 0 PROVE TenTo[Precision + n - 1] <= c
  <2>1. n - 1 \in Nat /\ n - 1 \notin S /\ Precision + n - 1 = Precision + (n - 1)
    BY <1>2, <1>4, PrecisionType
  <2>2. Precision + (n - 1) \in Nat
    BY <2>1, PrecisionType
  <2>3. ~(c < TenTo[Precision + (n - 1)])
    BY <2>1
  <2>4. QED BY <2>1, <2>2, <2>3, TenToType
<1>5. QED BY <1>2, <1>3, <1>4 DEF IsExcess

\* Excess is that number.
LEMMA ExcessIs ==
  ASSUME NEW d \in Amounts
  PROVE  Excess(d) \in Nat /\ IsExcess(d.coef, Excess(d))
<1>1. d.coef \in Nat
  BY DEF Amounts
<1>2. \E n \in 0..d.coef : IsExcess(d.coef, n)
  BY <1>1, ExcessExists
<1>3. Excess(d) = CHOOSE n \in 0..d.coef : IsExcess(d.coef, n)
  BY DEF Excess, IsExcess
<1>4. QED BY <1>1, <1>2, <1>3

\* There is only one such number.
LEMMA ExcessUnique ==
  ASSUME NEW d \in Amounts, NEW n \in Nat, IsExcess(d.coef, n)
  PROVE  Excess(d) = n
<1>1. ASSUME NEW c \in Nat, NEW i \in Nat, NEW j \in Nat, IsExcess(c, i), IsExcess(c, j)
      PROVE  ~(i < j)
  <2> SUFFICES ASSUME i < j PROVE FALSE
    OBVIOUS
  <2>1. Precision + i \in Nat /\ Precision + j - 1 \in Nat /\ Precision + i <= Precision + j - 1
    BY PrecisionType
  <2>2. TenTo[Precision + i] <= TenTo[Precision + j - 1]
    BY <2>1, TenToMonotone
  <2>3. c < TenTo[Precision + i] /\ TenTo[Precision + j - 1] <= c
    BY <1>1 DEF IsExcess
  <2>4. QED BY <2>1, <2>2, <2>3, TenToType
<1>2. d.coef \in Nat /\ Excess(d) \in Nat /\ IsExcess(d.coef, Excess(d))
  BY ExcessIs DEF Amounts
<1>3. QED BY <1>1, <1>2

----------------------------------------------------------------------------
\* Rounding depends on the amount, not on how it is written.
LEMMA HalfEvenType ==
  ASSUME NEW a \in Nat, NEW b \in Nat \ {0}
  PROVE  HalfEven(a, b) \in Nat /\ HalfEven(a, b) >= a \div b
<1>1. a \div b \in Nat
  BY Division
<1>2. QED BY <1>1 DEF HalfEven

\* Rounding to a unit does not depend on a common factor.
LEMMA HalfEvenScales ==
  ASSUME NEW a \in Nat, NEW b \in Nat \ {0}, NEW t \in Nat \ {0}
  PROVE  HalfEven(a * t, b * t) = HalfEven(a, b)
<1> DEFINE r == a % b
<1>1. (a * t) \div (b * t) = a \div b /\ (a * t) % (b * t) = r * t
  BY DivisionScales
<1>2. r \in Nat
  BY Division
<1> HIDE DEF r
<1>3. 2 * (r * t) = (2 * r) * t
  BY <1>2
<1>4. \A m, n \in Nat : m * t > n * t <=> m > n
  OBVIOUS
<1>5. (2 * r) * t > b * t <=> 2 * r > b
  BY <1>2, <1>4
<1>6. (2 * r) * t = b * t <=> 2 * r = b
  BY <1>2, Cancel
<1>7. QED BY <1>1, <1>3, <1>5, <1>6 DEF HalfEven, r

\* A multiple of the unit is not rounded.
LEMMA HalfEvenExact ==
  ASSUME NEW a \in Nat, NEW b \in Nat \ {0}
  PROVE  HalfEven(a * b, b) = a
<1>1. a * b \in Nat /\ a * b = b * a + 0 /\ 0 \in 0..(b - 1)
  OBVIOUS
<1>2. (a * b) \div b = a /\ (a * b) % b = 0
  BY <1>1, DivisionUnique
<1>3. QED BY <1>2 DEF HalfEven

\* A rounded amount is a positive amount still.
LEMMA RoundedType ==
  ASSUME NEW d \in Amounts
  PROVE  Rounded(d) \in Amounts
<1> DEFINE n == Excess(d)
           c == d.coef
<1>1. /\ n \in Nat /\ IsExcess(c, n) /\ c \in Nat \ {0} /\ d.exp \in Int
      /\ TenTo[n] \in Nat \ {0}
  BY ExcessIs, TenToType DEF Amounts
<1>2. TenTo[n] <= c
  <2>1. CASE n = 0
    BY <1>1, <2>1, TenToUnfolds
  <2>2. CASE n > 0
    <3>1. Precision + n - 1 \in Nat /\ n <= Precision + n - 1
      BY <1>1, PrecisionType
    <3>2. TenTo[n] <= TenTo[Precision + n - 1] /\ TenTo[Precision + n - 1] \in Nat
      BY <1>1, <3>1, TenToMonotone, TenToType
    <3>3. TenTo[Precision + n - 1] <= c
      BY <1>1, <2>2 DEF IsExcess
    <3> HIDE DEF n, c
    <3>4. QED BY <1>1, <3>2, <3>3
  <2>3. QED BY <1>1, <2>1, <2>2
<1> HIDE DEF n, c
<1>3. c \div TenTo[n] # 0
  <2>1. c = TenTo[n] * (c \div TenTo[n]) + (c % TenTo[n]) /\ c % TenTo[n] \in 0..(TenTo[n] - 1)
    BY <1>1, Division
  <2>2. QED BY <1>1, <1>2, <2>1
<1>4. HalfEven(c, TenTo[n]) \in Nat /\ HalfEven(c, TenTo[n]) >= c \div TenTo[n]
      /\ c \div TenTo[n] \in Nat
  BY <1>1, HalfEvenType, Division
<1>5. HalfEven(c, TenTo[n]) \in Nat \ {0}
  BY <1>3, <1>4
<1>6. Rounded(d) = [coef |-> HalfEven(c, TenTo[n]), exp |-> d.exp + n]
  BY DEF Rounded, n, c
<1>7. QED BY <1>1, <1>5, <1>6 DEF Amounts

\* Appending k zeros to a coefficient beyond the precision adds k digits to it.
LEMMA ExcessOfShifted ==
  ASSUME NEW c \in Nat \ {0}, NEW n \in Nat, NEW k \in Nat, n > 0, IsExcess(c, n)
  PROVE  IsExcess(c * TenTo[k], n + k)
<1>1. /\ Precision + n \in Nat /\ Precision + n - 1 \in Nat /\ n + k > 0
      /\ Precision + (n + k) = (Precision + n) + k
      /\ Precision + (n + k) - 1 = (Precision + n - 1) + k
  BY PrecisionType
<1>2. /\ TenTo[Precision + (n + k)] = TenTo[Precision + n] * TenTo[k]
      /\ TenTo[Precision + (n + k) - 1] = TenTo[Precision + n - 1] * TenTo[k]
  BY <1>1, TenToSum
<1>3. c < TenTo[Precision + n] /\ TenTo[Precision + n - 1] <= c
  BY DEF IsExcess
<1>4. /\ TenTo[Precision + n] \in Nat /\ TenTo[Precision + n - 1] \in Nat
      /\ TenTo[k] \in Nat \ {0}
  BY <1>1, TenToType
<1>5. \A a, b \in Nat, t \in Nat \ {0} : (a < b => a * t < b * t) /\ (a <= b => a * t <= b * t)
  OBVIOUS
<1>6. c * TenTo[k] < TenTo[Precision + n] * TenTo[k]
  BY <1>3, <1>4, <1>5
<1>7. TenTo[Precision + n - 1] * TenTo[k] <= c * TenTo[k]
  BY <1>3, <1>4, <1>5
<1>8. QED BY <1>2, <1>6, <1>7 DEF IsExcess

\* Zeros appended to a short coefficient are all that exceeds the precision.
LEMMA ExcessWithinZeros ==
  ASSUME NEW c \in Nat \ {0}, NEW k \in Nat, NEW m \in Nat,
         c < TenTo[Precision], IsExcess(c * TenTo[k], m)
  PROVE  m <= k
<1> SUFFICES ASSUME m > k PROVE FALSE
  OBVIOUS
<1>1. /\ Precision \in Nat /\ Precision + k \in Nat /\ Precision + m - 1 \in Nat
      /\ Precision + k <= Precision + m - 1
  BY PrecisionType
<1>2. TenTo[Precision + m - 1] <= c * TenTo[k]
  BY DEF IsExcess
<1>3. TenTo[Precision + k] <= TenTo[Precision + m - 1]
  BY <1>1, TenToMonotone
<1>4. TenTo[Precision + k] = TenTo[Precision] * TenTo[k]
  BY <1>1, TenToSum
<1>5. TenTo[Precision] \in Nat /\ TenTo[k] \in Nat \ {0} /\ TenTo[Precision + m - 1] \in Nat
  BY <1>1, TenToType
<1>6. \A a, b \in Nat, t \in Nat \ {0} : a < b => a * t < b * t /\ a * t \in Nat /\ b * t \in Nat
  OBVIOUS
<1>7. c * TenTo[k] < TenTo[Precision] * TenTo[k] /\ c * TenTo[k] \in Nat
  BY <1>5, <1>6
<1>8. QED BY <1>1, <1>2, <1>3, <1>4, <1>5, <1>7

\* Rounding an amount with zeros appended gives the same amount.
LEMMA RoundedRespectsShift ==
  ASSUME NEW d \in Amounts, NEW e \in Amounts, e.exp <= d.exp, SameAmount(d, e)
  PROVE  SameAmount(Rounded(d), Rounded(e))
<1> DEFINE c == d.coef
           k == d.exp - e.exp
           n == Excess(d)
           m == Excess(e)
<1>1. /\ c \in Nat \ {0} /\ e.coef \in Nat \ {0} /\ d.exp \in Int /\ e.exp \in Int
      /\ k \in Nat /\ n \in Nat /\ m \in Nat
  BY ExcessIs DEF Amounts
<1>2. e.coef = c * TenTo[k] /\ IsExcess(c, n) /\ IsExcess(e.coef, m)
  BY SameAmountShift, ExcessIs
<1>3. TenTo[k] \in Nat \ {0} /\ TenTo[n] \in Nat \ {0} /\ TenTo[m] \in Nat \ {0}
  BY <1>1, TenToType
<1>4. /\ Rounded(d) = [coef |-> HalfEven(c, TenTo[n]), exp |-> d.exp + n]
      /\ Rounded(e) = [coef |-> HalfEven(e.coef, TenTo[m]), exp |-> e.exp + m]
  BY DEF Rounded
<1>5. Rounded(d) \in Amounts /\ Rounded(e) \in Amounts
  BY RoundedType
<1>6. CASE n > 0
  <2>1. IsExcess(e.coef, n + k)
    BY <1>1, <1>2, <1>6, ExcessOfShifted
  <2>2. n + k \in Nat
    BY <1>1
  <2>3. m = n + k
    BY <2>1, <2>2, ExcessUnique
  <2> HIDE DEF c, k, n, m
  <2>4. TenTo[m] = TenTo[n] * TenTo[k]
    BY <1>1, <2>3, TenToSum
  <2>5. HalfEven(e.coef, TenTo[m]) = HalfEven(c, TenTo[n])
    BY <1>1, <1>2, <1>3, <2>4, HalfEvenScales
  <2>6. e.exp + m = d.exp + n
    BY <1>1, <2>3 DEF k
  <2>7. Rounded(d) = Rounded(e)
    BY <1>4, <2>5, <2>6
  <2>8. QED BY <2>7 DEF SameAmount
<1>7. CASE n = 0
  <2>1. c < TenTo[Precision]
    BY <1>1, <1>2, <1>7, PrecisionType DEF IsExcess
  <2>2. m <= k
    BY <1>1, <1>2, <2>1, ExcessWithinZeros
  <2>3. Rounded(d) = d
    <3>1. TenTo[n] = 1 /\ c * 1 = c
      BY <1>1, <1>7, TenToUnfolds
    <3>2. HalfEven(c, TenTo[n]) = c
      BY <1>1, <3>1, HalfEvenExact
    <3>3. d.exp + n = d.exp /\ d = [coef |-> c, exp |-> d.exp]
      BY <1>1, <1>7 DEF Amounts
    <3>4. QED BY <1>4, <3>2, <3>3
  <2>4. k - m \in Nat /\ k = (k - m) + m /\ e.exp + m <= d.exp /\ d.exp - (e.exp + m) = k - m
    BY <1>1, <2>2
  <2> HIDE DEF c, k, n, m
  <2>5. TenTo[k] = TenTo[k - m] * TenTo[m] /\ TenTo[k - m] \in Nat \ {0}
    BY <1>1, <2>4, TenToSum, TenToType
  <2>6. \A a, b, t \in Nat : a * (b * t) = (a * b) * t /\ a * b \in Nat
    OBVIOUS
  <2>7. e.coef = (c * TenTo[k - m]) * TenTo[m] /\ c * TenTo[k - m] \in Nat
    BY <1>1, <1>2, <1>3, <2>5, <2>6
  <2>8. HalfEven(e.coef, TenTo[m]) = c * TenTo[k - m]
    BY <1>3, <2>7, HalfEvenExact
  <2>9. Rounded(e).exp = e.exp + m /\ Rounded(e).coef = c * TenTo[k - m]
    BY <1>4, <2>8
  <2>10. Rounded(e).exp <= d.exp /\ d.exp - Rounded(e).exp = k - m
    BY <2>4, <2>9
  <2>11. SameAmount(d, Rounded(e))
    BY <1>5, <2>9, <2>10, SameAmountShift DEF c
  <2>12. QED BY <2>3, <2>11
<1>8. QED BY <1>1, <1>6, <1>7

\* Equal amounts are rounded to equal amounts.
LEMMA RoundedRespects ==
  ASSUME NEW d \in Amounts, NEW e \in Amounts, SameAmount(d, e)
  PROVE  SameAmount(Rounded(d), Rounded(e))
<1>1. CASE e.exp <= d.exp
  BY <1>1, RoundedRespectsShift
<1>2. CASE d.exp <= e.exp
  BY <1>2, RoundedRespectsShift, SameAmountSymmetric, RoundedType
<1>3. QED BY <1>1, <1>2 DEF Amounts

----------------------------------------------------------------------------
\* An amount has one form without trailing zeros.
Plainest(d) == d \in Amounts /\ d.coef % 10 # 0

\* Zeros is the number of trailing zeros.
LEMMA ZerosIs ==
  ASSUME NEW c \in Nat \ {0}
  PROVE  /\ Zeros(c) \in Nat
         /\ c % TenTo[Zeros(c)] = 0
         /\ c % TenTo[Zeros(c) + 1] # 0
<1> DEFINE S == {n \in Nat : c % TenTo[n + 1] # 0}
<1>1. c \in S
  <2>1. c + 1 \in Nat /\ c < TenTo[c + 1] /\ TenTo[c + 1] \in Nat \ {0}
    <3>1. c + 1 \in Nat
      OBVIOUS
    <3>2. c + 1 < TenTo[c + 1] /\ TenTo[c + 1] \in Nat \ {0}
      BY <3>1, TenToExceeds, TenToType
    <3>3. QED BY <3>1, <3>2
  <2>2. c \in 0..(TenTo[c + 1] - 1) /\ c = TenTo[c + 1] * 0 + c
    BY <2>1
  <2>3. c % TenTo[c + 1] = c
    BY <2>1, <2>2, DivisionUnique
  <2>4. QED BY <2>3
<1>2. PICK n \in S : \A m \in S : n <= m
  BY <1>1, TenRec!LeastElement
<1>3. n \in 0..c
  BY <1>1, <1>2
<1>4. c % TenTo[n] = 0
  <2>1. CASE n = 0
    BY <2>1, TenToUnfolds
  <2>2. CASE n > 0
    <3>1. n - 1 \in Nat /\ n - 1 \notin S /\ (n - 1) + 1 = n
      BY <1>2, <2>2
    <3>2. QED BY <3>1
  <2>3. QED BY <1>3, <2>1, <2>2
<1>5. \E i \in 0..c : c % TenTo[i] = 0 /\ c % TenTo[i + 1] # 0
  BY <1>2, <1>3, <1>4
<1>6. QED BY <1>5 DEF Zeros

\* Stripping leaves the amount as it is, and no trailing zeros.
LEMMA StrippedIs ==
  ASSUME NEW d \in Amounts
  PROVE  Plainest(Stripped(d)) /\ SameAmount(d, Stripped(d))
<1> DEFINE c == d.coef
           z == Zeros(c)
           t == TenTo[z]
           q == c \div t
<1>1. c \in Nat \ {0} /\ d.exp \in Int /\ z \in Nat /\ c % t = 0 /\ c % TenTo[z + 1] # 0
  BY ZerosIs DEF Amounts
<1>2. t \in Nat \ {0} /\ TenTo[z + 1] = 10 * t /\ 10 * t \in Nat \ {0}
  BY <1>1, TenToType, TenToUnfolds
<1>3. Stripped(d) = [coef |-> q, exp |-> d.exp + z]
  BY DEF Stripped
<1> HIDE DEF c, z, t
<1>4. q \in Nat /\ c = t * q
  <2>1. c \div t \in Nat /\ c = t * (c \div t) + (c % t)
    BY <1>1, <1>2, Division
  <2>2. \A a, b, r \in Nat : r = 0 => a * b + r = a * b
    OBVIOUS
  <2>3. QED BY <1>1, <1>2, <2>1, <2>2
<1> HIDE DEF q
<1>5. q # 0
  BY <1>1, <1>2, <1>4
<1>6. q % 10 # 0
  <2> SUFFICES ASSUME q % 10 = 0 PROVE FALSE
    OBVIOUS
  <2>1. q \div 10 \in Nat /\ q = 10 * (q \div 10)
    BY <1>4, Division
  <2> DEFINE u == 10 * t
  <2>2. u \in Nat \ {0} /\ c = u * (q \div 10) + 0 /\ 0 \in 0..(u - 1)
    BY <1>2, <1>4, <2>1
  <2> HIDE DEF u
  <2>3. c % u = 0
    BY <1>1, <2>1, <2>2, DivisionUnique
  <2>4. QED BY <1>1, <1>2, <2>3 DEF u
<1>7. Stripped(d) \in Amounts
  BY <1>1, <1>3, <1>4, <1>5 DEF Amounts
<1>8. SameAmount(Stripped(d), d)
  <2>1. /\ Stripped(d).exp = d.exp + z /\ Stripped(d).coef = q
        /\ d.exp <= d.exp + z /\ (d.exp + z) - d.exp = z
    BY <1>1, <1>3
  <2>2. d.coef = q * TenTo[z]
    BY <1>2, <1>4 DEF c, t
  <2>3. QED BY <1>7, <2>1, <2>2, SameAmountShift
<1>9. QED BY <1>3, <1>6, <1>7, <1>8, SameAmountSymmetric DEF Plainest

\* An amount has only one form without trailing zeros.
LEMMA PlainestUnique ==
  ASSUME NEW d, NEW e, Plainest(d), Plainest(e), SameAmount(d, e)
  PROVE  d = e
<1>1. ASSUME NEW f, NEW g, Plainest(f), Plainest(g), SameAmount(f, g), g.exp <= f.exp
      PROVE  f = g
  <2>1. /\ f \in Amounts /\ g \in Amounts /\ f.coef \in Nat /\ f.exp \in Int
        /\ g.coef \in Nat /\ g.exp \in Int /\ f.exp - g.exp \in Nat
    BY <1>1 DEF Plainest, Amounts
  <2>2. g.coef = f.coef * TenTo[f.exp - g.exp]
    BY <1>1, <2>1, SameAmountShift
  <2>3. f.exp - g.exp = 0
    <3> SUFFICES ASSUME f.exp - g.exp # 0 PROVE FALSE
      OBVIOUS
    <3> DEFINE k == f.exp - g.exp - 1
    <3>1. k \in Nat /\ f.exp - g.exp = k + 1
      BY <2>1
    <3> HIDE DEF k
    <3>2. TenTo[k + 1] = 10 * TenTo[k] /\ TenTo[k] \in Nat
      BY <3>1, TenToUnfolds, TenToType
    <3>3. /\ g.coef = 10 * (f.coef * TenTo[k]) + 0 /\ f.coef * TenTo[k] \in Nat
          /\ 10 \in Nat \ {0} /\ 0 \in 0..(10 - 1)
      BY <2>1, <2>2, <3>1, <3>2
    <3>4. g.coef % 10 = 0
      BY <2>1, <3>3, DivisionUnique
    <3>5. QED BY <1>1, <3>4 DEF Plainest
  <2>4. g.coef = f.coef /\ g.exp = f.exp
    BY <2>1, <2>2, <2>3, TenToUnfolds
  <2>5. QED BY <2>1, <2>4 DEF Amounts
<1>2. CASE e.exp <= d.exp
  BY <1>1, <1>2
<1>3. CASE d.exp <= e.exp
  <2>1. SameAmount(e, d)
    BY SameAmountSymmetric DEF Plainest
  <2>2. QED BY <1>1, <1>3, <2>1
<1>4. QED BY <1>2, <1>3 DEF Plainest, Amounts

\* Amounts without trailing zeros that are written alike are the same.
LEMMA PlainTellsApart ==
  ASSUME NEW d, NEW e, Plainest(d), Plainest(e), Plain(d) = Plain(e)
  PROVE  d = e
<1>1. /\ d \in Amounts /\ d.coef \in Nat /\ d.exp \in Int
      /\ e \in Amounts /\ e.coef \in Nat /\ e.exp \in Int
  BY DEF Plainest, Amounts
<1>2. CASE d.exp >= 0 /\ e.exp >= 0
  <2>1. d.coef * TenTo[d.exp] = e.coef * TenTo[e.exp]
    BY <1>2 DEF Plain
  <2>2. d.exp - 0 = d.exp /\ e.exp - 0 = e.exp
    BY <1>1
  <2>3. Scaled(d, 0) = Scaled(e, 0)
    BY <2>1, <2>2 DEF Scaled
  <2>4. SameAmount(d, e)
    BY <1>1, <1>2, <2>3, SameAmountAt
  <2>5. QED BY <2>4, PlainestUnique
<1>3. CASE d.exp < 0 /\ e.exp < 0
  <2>1. d.coef = e.coef /\ -d.exp = -e.exp
    BY <1>1, <1>3 DEF Plain
  <2>2. d.exp = e.exp
    BY <1>1, <2>1
  <2>3. QED BY <1>1, <2>1, <2>2 DEF Amounts
<1>4. CASE d.exp >= 0 /\ e.exp < 0
  BY <1>1, <1>4 DEF Plain
<1>5. CASE d.exp < 0 /\ e.exp >= 0
  BY <1>1, <1>5 DEF Plain
<1>6. QED BY <1>1, <1>2, <1>3, <1>4, <1>5

\* _normalize_decimal gives two amounts the same text exactly if the context rounds
\* them to the same amount.
THEOREM SameTextIffSameRounded ==
  \A d, e \in Amounts :
    NormalizeDecimal(d) = NormalizeDecimal(e) <=> SameAmount(Rounded(d), Rounded(e))
<1> SUFFICES ASSUME NEW d \in Amounts, NEW e \in Amounts
             PROVE  NormalizeDecimal(d) = NormalizeDecimal(e)
                      <=> SameAmount(Rounded(d), Rounded(e))
  OBVIOUS
<1> DEFINE f == Rounded(d)
           g == Rounded(e)
<1>1. f \in Amounts /\ g \in Amounts
  BY RoundedType
<1>2. NormalizeDecimal(d) = Plain(Stripped(f)) /\ NormalizeDecimal(e) = Plain(Stripped(g))
  BY DEF NormalizeDecimal
<1> HIDE DEF f, g
<1>3. /\ Plainest(Stripped(f)) /\ SameAmount(f, Stripped(f)) /\ Stripped(f) \in Amounts
      /\ Plainest(Stripped(g)) /\ SameAmount(g, Stripped(g)) /\ Stripped(g) \in Amounts
  BY <1>1, StrippedIs DEF Plainest
<1>4. SameAmount(Stripped(f), f) /\ SameAmount(Stripped(g), g)
  BY <1>1, <1>3, SameAmountSymmetric
<1>5. ASSUME Plain(Stripped(f)) = Plain(Stripped(g)) PROVE SameAmount(f, g)
  <2>1. Stripped(f) = Stripped(g)
    BY <1>3, <1>5, PlainTellsApart
  <2>2. QED BY <1>1, <1>3, <1>4, <2>1, SameAmountTransitive
<1>6. ASSUME SameAmount(f, g) PROVE Plain(Stripped(f)) = Plain(Stripped(g))
  <2>1. SameAmount(Stripped(f), g)
    BY <1>1, <1>3, <1>4, <1>6, SameAmountTransitive
  <2>2. SameAmount(Stripped(f), Stripped(g))
    BY <1>1, <1>3, <2>1, SameAmountTransitive
  <2>3. Stripped(f) = Stripped(g)
    BY <1>3, <2>2, PlainestUnique
  <2>4. QED BY <2>3
<1>7. QED BY <1>2, <1>5, <1>6 DEF f, g

\* Equal amounts have the same text, however they are written.
THEOREM SameAmountSameText ==
  \A d, e \in Amounts : SameAmount(d, e) => NormalizeDecimal(d) = NormalizeDecimal(e)
BY SameTextIffSameRounded, RoundedRespects

\* Amounts with the same text are equal, if the context rounds neither of them.
THEOREM SameTextSameAmount ==
  \A d, e \in Amounts :
    Exact(d) /\ Exact(e) /\ NormalizeDecimal(d) = NormalizeDecimal(e) => SameAmount(d, e)
<1> SUFFICES ASSUME NEW d \in Amounts, NEW e \in Amounts, Exact(d), Exact(e),
                    NormalizeDecimal(d) = NormalizeDecimal(e)
             PROVE  SameAmount(d, e)
  OBVIOUS
<1>1. Rounded(d) \in Amounts /\ Rounded(e) \in Amounts
  BY RoundedType
<1>2. SameAmount(Rounded(d), Rounded(e))
  BY SameTextIffSameRounded
<1>3. SameAmount(d, Rounded(d)) /\ SameAmount(Rounded(e), e)
  BY <1>1, SameAmountSymmetric DEF Exact
<1>4. SameAmount(d, Rounded(e))
  BY <1>1, <1>2, <1>3, SameAmountTransitive
<1>5. QED BY <1>1, <1>3, <1>4, SameAmountTransitive

----------------------------------------------------------------------------
(* Sorting the members of an object                                        *)

\* Members of an object: a sequence with distinct keys.
Keyed(s, n) ==
  /\ n \in Nat
  /\ s = [i \in 1..n |-> s[i]]
  /\ \A i \in 1..n : s[i].key \in Nat
  /\ \A i, j \in 1..n : s[i].key = s[j].key => i = j

Sorts(p, s) ==
  /\ p \in [DOMAIN s -> Elements(s)]
  /\ Elements(p) = Elements(s)
  /\ \A i, j \in DOMAIN p : i < j => p[i].key < p[j].key

\* Every sequence with distinct keys can be sorted.
LEMMA SortedExists ==
  ASSUME NEW n \in Nat
  PROVE  \A s : Keyed(s, n) => \E p : Sorts(p, s)
<1> DEFINE S == {k \in Nat : \A s : Keyed(s, k) => \E p : Sorts(p, s)}
<1>1. 0 \in S
  <2>1. ASSUME NEW s, Keyed(s, 0) PROVE Sorts(s, s)
    BY <2>1 DEF Keyed, Sorts, Elements
  <2>2. QED BY <2>1
<1>2. ASSUME NEW k \in Nat, k \in S PROVE k + 1 \in S
  <2>1. ASSUME NEW s, Keyed(s, k + 1) PROVE \E p : Sorts(p, s)
    <3>1. /\ DOMAIN s = 1..(k + 1) /\ s = [i \in 1..(k + 1) |-> s[i]]
          /\ \A i \in 1..(k + 1) : s[i].key \in Nat
          /\ \A i, j \in 1..(k + 1) : s[i].key = s[j].key => i = j
      BY <2>1 DEF Keyed
    <3>2. PICK j \in 1..(k + 1) : \A i \in 1..(k + 1) : s[j].key <= s[i].key
      <4> DEFINE K == {s[i].key : i \in 1..(k + 1)}
      <4>1. K \subseteq Nat /\ K # {}
        BY <3>1
      <4> HIDE DEF K
      <4>2. PICK m \in K : \A l \in K : m <= l
        BY <4>1, TenRec!LeastElement
      <4>3. QED BY <4>2 DEF K
    <3>3. \A i \in 1..(k + 1) : i # j => s[j].key < s[i].key
      BY <3>1, <3>2
    <3> DEFINE t == [i \in 1..k |-> IF i = j THEN s[k + 1] ELSE s[i]]
    <3>4. Keyed(t, k)
      BY <3>1 DEF Keyed
    <3>5. \A x \in Elements(t) : \E i \in 1..(k + 1) : i # j /\ x = s[i]
      BY <3>1 DEF Elements
    <3>6. \A i \in 1..(k + 1) : i # j => s[i] \in Elements(t)
      <4> TAKE i \in 1..(k + 1)
      <4> HAVE i # j
      <4>1. CASE i \in 1..k
        BY <4>1 DEF Elements
      <4>2. CASE i = k + 1
        <5>1. j \in 1..k /\ t[j] = s[k + 1] /\ DOMAIN t = 1..k
          BY <4>2
        <5>2. QED BY <4>2, <5>1 DEF Elements
      <4>3. QED BY <4>1, <4>2
    <3>7. DOMAIN t = 1..k
      OBVIOUS
    <3> HIDE DEF t
    <3>8. PICK p : Sorts(p, t)
      BY <1>2, <3>4
    <3>9. /\ DOMAIN p = 1..k /\ Elements(p) = Elements(t)
          /\ \A a, b \in 1..k : a < b => p[a].key < p[b].key
          /\ \A a \in 1..k : p[a] \in Elements(t)
      BY <3>7, <3>8 DEF Sorts, Elements
    <3> DEFINE h == [i \in 1..(k + 1) |-> IF i = 1 THEN s[j] ELSE p[i - 1]]
    <3>10. \A i \in 1..(k + 1) : i # 1 => i - 1 \in 1..k
      OBVIOUS
    <3>11. \A i \in 1..(k + 1) : i # 1 => \E l \in 1..(k + 1) : l # j /\ h[i] = s[l]
      BY <3>5, <3>9, <3>10
    <3>12. h \in [DOMAIN s -> Elements(s)]
      BY <3>1, <3>11 DEF Elements
    <3>13. Elements(h) = Elements(s)
      <4>1. Elements(h) \subseteq Elements(s)
        BY <3>12 DEF Elements
      <4>2. ASSUME NEW i \in 1..(k + 1) PROVE s[i] \in Elements(h)
        <5>1. CASE i = j
          <6>1. h[1] = s[i] /\ 1 \in DOMAIN h
            BY <5>1
          <6>2. QED BY <6>1 DEF Elements
        <5>2. CASE i # j
          <6>1. PICK a \in 1..k : p[a] = s[i]
            BY <3>6, <3>9, <5>2 DEF Elements
          <6>2. a + 1 \in DOMAIN h /\ h[a + 1] = s[i]
            BY <6>1
          <6>3. QED BY <6>2 DEF Elements
        <5>3. QED BY <5>1, <5>2
      <4> HIDE DEF h
      <4>3. \A x \in Elements(s) : \E i \in 1..(k + 1) : x = s[i]
        BY <3>1 DEF Elements
      <4>4. Elements(s) \subseteq Elements(h)
        BY <4>2, <4>3
      <4>5. QED BY <4>1, <4>4
    <3>14. ASSUME NEW a \in DOMAIN h, NEW b \in DOMAIN h, a < b PROVE h[a].key < h[b].key
      <4>1. CASE a = 1
        BY <3>3, <3>11, <3>14, <4>1
      <4>2. CASE a # 1
        <5>1. a - 1 \in 1..k /\ b - 1 \in 1..k /\ a - 1 < b - 1 /\ b # 1
          BY <3>14, <4>2
        <5>2. QED BY <3>9, <4>2, <5>1
      <4>3. QED BY <4>1, <4>2
    <3> HIDE DEF h
    <3>15. Sorts(h, s)
      BY <3>12, <3>13, <3>14 DEF Sorts
    <3>16. QED BY <3>15
  <2>2. k + 1 \in Nat
    OBVIOUS
  <2>3. QED BY <2>1, <2>2
<1> HIDE DEF S
<1>3. \A k \in Nat : k \in S
  BY <1>1, <1>2, TenRec!SetInduction
<1>4. QED BY <1>3 DEF S

\* ByKey sorts such a sequence.
LEMMA ByKeySorts ==
  ASSUME NEW n, NEW s, Keyed(s, n)
  PROVE  Sorts(ByKey(s), s)
<1>1. \E p : Sorts(p, s)
  BY SortedExists DEF Keyed
<1>2. \E p \in [DOMAIN s -> Elements(s)] :
        /\ Elements(p) = Elements(s)
        /\ \A i, j \in DOMAIN p : i < j => p[i].key < p[j].key
  BY <1>1 DEF Sorts
<1>3. QED BY <1>2 DEF ByKey, Sorts

\* The same members are sorted into one sequence only.
LEMMA SortedUnique ==
  ASSUME NEW m, NEW n, NEW s, NEW t, NEW p, NEW q, Keyed(s, m), Keyed(t, n),
         Elements(s) = Elements(t), Sorts(p, s), Sorts(q, t)
  PROVE  p = q
<1>0. /\ DOMAIN p = 1..m /\ DOMAIN q = 1..n
      /\ p = [i \in 1..m |-> p[i]] /\ q = [i \in 1..n |-> q[i]]
  BY DEF Keyed, Sorts
<1>1. /\ m \in Nat /\ n \in Nat
      /\ \A x \in Elements(s) : x.key \in Nat
      /\ \A i \in 1..m : p[i] \in Elements(s)
      /\ \A i \in 1..n : q[i] \in Elements(s)
      /\ \A x \in Elements(s) : \E i \in 1..m : x = p[i]
      /\ \A x \in Elements(s) : \E i \in 1..n : x = q[i]
  <2>1. /\ m \in Nat /\ n \in Nat /\ DOMAIN s = 1..m
        /\ \A i \in 1..m : s[i].key \in Nat
    BY DEF Keyed
  <2>2. \A x \in Elements(s) : x.key \in Nat
    BY <2>1 DEF Elements
  <2>3. Elements(p) = Elements(s) /\ Elements(q) = Elements(s)
    BY DEF Sorts
  <2>4. /\ \A i \in 1..m : p[i] \in Elements(p)
        /\ \A i \in 1..n : q[i] \in Elements(q)
        /\ \A x \in Elements(p) : \E i \in 1..m : x = p[i]
        /\ \A x \in Elements(q) : \E i \in 1..n : x = q[i]
    BY <1>0 DEF Elements
  <2>5. QED BY <2>1, <2>2, <2>3, <2>4
<1>2. /\ \A i, j \in 1..m : i < j => p[i].key < p[j].key
      /\ \A i, j \in 1..n : i < j => q[i].key < q[j].key
  BY <1>0 DEF Sorts
<1> DEFINE S == {k \in Nat : \A i \in 1..k : (i <= m <=> i <= n) /\ (i <= m => p[i] = q[i])}
<1>3. 0 \in S
  OBVIOUS
<1>4. ASSUME NEW k \in Nat, k \in S PROVE k + 1 \in S
  <2>1. ASSUME k + 1 <= m
        PROVE  k + 1 <= n /\ p[k + 1].key >= q[k + 1].key
    <3>1. k + 1 \in 1..m /\ p[k + 1].key \in Nat
      BY <1>1, <2>1
    <3>2. PICK a \in 1..n : p[k + 1] = q[a]
      BY <1>1, <3>1
    <3>3. a > k
      <4> SUFFICES ASSUME a <= k PROVE FALSE
        BY <1>1
      <4>1. a \in 1..k /\ a \in 1..m /\ p[a] = q[a]
        BY <1>1, <1>4, <3>1
      <4>2. p[a].key < p[k + 1].key
        BY <1>2, <3>1, <4>1
      <4>3. QED BY <3>1, <3>2, <4>1, <4>2
    <3>4. k + 1 <= n /\ k + 1 \in 1..n
      BY <1>1, <3>3
    <3>5. a = k + 1 \/ q[k + 1].key < q[a].key
      BY <1>1, <1>2, <3>3, <3>4
    <3>6. q[k + 1].key \in Nat
      BY <1>1, <3>4
    <3>7. QED BY <3>1, <3>2, <3>4, <3>5, <3>6
  <2>2. ASSUME k + 1 <= n
        PROVE  k + 1 <= m /\ q[k + 1].key >= p[k + 1].key
    <3>1. k + 1 \in 1..n /\ q[k + 1].key \in Nat
      BY <1>1, <2>2
    <3>2. PICK a \in 1..m : q[k + 1] = p[a]
      BY <1>1, <3>1
    <3>3. a > k
      <4> SUFFICES ASSUME a <= k PROVE FALSE
        BY <1>1
      <4>1. a \in 1..k /\ a \in 1..n /\ p[a] = q[a]
        BY <1>1, <1>4, <3>1
      <4>2. q[a].key < q[k + 1].key
        BY <1>2, <3>1, <4>1
      <4>3. QED BY <3>1, <3>2, <4>1, <4>2
    <3>4. k + 1 <= m /\ k + 1 \in 1..m
      BY <1>1, <3>3
    <3>5. a = k + 1 \/ p[k + 1].key < p[a].key
      BY <1>1, <1>2, <3>3, <3>4
    <3>6. p[k + 1].key \in Nat
      BY <1>1, <3>4
    <3>7. QED BY <3>1, <3>2, <3>4, <3>5, <3>6
  <2>3. ASSUME k + 1 <= m PROVE p[k + 1] = q[k + 1]
    <3>1. k + 1 <= n /\ k + 1 \in 1..m /\ k + 1 \in 1..n
      BY <1>1, <2>1, <2>3
    <3>2. p[k + 1].key = q[k + 1].key
      BY <1>1, <2>1, <2>2, <2>3, <3>1
    <3>3. PICK a \in 1..n : p[k + 1] = q[a]
      BY <1>1, <3>1
    <3>4. a = k + 1
      BY <1>1, <1>2, <3>1, <3>2, <3>3
    <3>5. QED BY <3>3, <3>4
  <2>4. (k + 1 <= m <=> k + 1 <= n) /\ (k + 1 <= m => p[k + 1] = q[k + 1])
    BY <2>1, <2>2, <2>3
  <2>5. \A i \in 1..(k + 1) : i \in 1..k \/ i = k + 1
    OBVIOUS
  <2>6. k + 1 \in Nat
    OBVIOUS
  <2>7. QED BY <1>4, <2>4, <2>5, <2>6
<1> HIDE DEF S
<1>5. \A k \in Nat : k \in S
  BY <1>3, <1>4, TenRec!SetInduction
<1>6. m + n \in S
  BY <1>1, <1>5
<1>7. \A i \in 1..(m + n) : (i <= m <=> i <= n) /\ (i <= m => p[i] = q[i])
  BY <1>6 DEF S
<1>8. m = n
  <2>1. ~(m < n)
    <3> SUFFICES ASSUME m < n PROVE FALSE
      OBVIOUS
    <3>1. n \in 1..(m + n)
      BY <1>1
    <3>2. QED BY <1>1, <1>7, <3>1
  <2>2. ~(n < m)
    <3> SUFFICES ASSUME n < m PROVE FALSE
      OBVIOUS
    <3>1. m \in 1..(m + n)
      BY <1>1
    <3>2. QED BY <1>1, <1>7, <3>1
  <2>3. QED BY <1>1, <2>1, <2>2
<1>9. \A i \in 1..m : p[i] = q[i]
  BY <1>1, <1>7
<1>10. QED BY <1>0, <1>8, <1>9

\* Two objects are sorted into the same sequence exactly if they have the same members.
LEMMA SortedAlike ==
  ASSUME NEW m, NEW n, NEW s, NEW t, Keyed(s, m), Keyed(t, n)
  PROVE  ByKey(s) = ByKey(t) <=> Elements(s) = Elements(t)
<1>1. Sorts(ByKey(s), s) /\ Sorts(ByKey(t), t)
  BY ByKeySorts
<1>2. Elements(ByKey(s)) = Elements(s) /\ Elements(ByKey(t)) = Elements(t)
  BY <1>1 DEF Sorts
<1>3. QED BY <1>1, <1>2, SortedUnique

----------------------------------------------------------------------------
(* JSON values                                                             *)

\* What the assumption says of objects.
LEMMA ObjectIs ==
  ASSUME NEW v \in Values, v.kind = "object"
  PROVE  /\ Len(v.items) \in Nat /\ DOMAIN v.items = 1..Len(v.items)
         /\ \A i \in DOMAIN v.items :
              /\ v.items[i].key \in Nat
              /\ v.items[i].value \in Values
              /\ Depth[v.items[i].value] < Depth[v]
         /\ \A i, j \in DOMAIN v.items : v.items[i].key = v.items[j].key => i = j
<1>1. v.items \in Seq(Member)
  BY HashAssumption
<1>2. \A i \in DOMAIN v.items : v.items[i] \in Member
  BY <1>1
<1>3. Len(v.items) \in Nat /\ DOMAIN v.items = 1..Len(v.items)
  BY <1>1
<1>4. QED BY <1>2, <1>3, HashAssumption DEF Member

\* What the assumption says of lists.
LEMMA ListIs ==
  ASSUME NEW v \in Values, v.kind = "list"
  PROVE  \A i \in DOMAIN v.items : v.items[i] \in Values /\ Depth[v.items[i]] < Depth[v]
<1>1. v.items \in Seq(Values)
  BY HashAssumption
<1>2. \A i \in DOMAIN v.items : v.items[i] \in Values
  BY <1>1
<1>3. QED BY <1>2, HashAssumption

\* The value at a key is that of the only member with the key.
LEMMA ValueAtKey ==
  ASSUME NEW v \in Values, v.kind = "object"
  PROVE  \A i \in DOMAIN v.items : ValueAt(v, v.items[i].key) = v.items[i].value
<1> TAKE i \in DOMAIN v.items
<1> DEFINE k == v.items[i].key
           j == CHOOSE l \in DOMAIN v.items : v.items[l].key = k
<1>1. j \in DOMAIN v.items /\ v.items[j].key = k
  OBVIOUS
<1> HIDE DEF j
<1>2. j = i
  BY <1>1, ObjectIs
<1>3. QED BY <1>2 DEF ValueAt, j

\* Normal satisfies its recursive definition.
LEMMA NormalUnfolds ==
  \A v \in Values : Normal[v] = NormalStep(Normal, v)
<1>1. NormalRec!Local
  <2>1. ASSUME NEW v \in Values, NEW f, NEW g,
               \A w \in Values : Depth[w] < Depth[v] => f[w] = g[w]
        PROVE  NormalStep(f, v) = NormalStep(g, v)
    <3>1. CASE v.kind = "object"
      <4>1. NormalMembers(f, v) = NormalMembers(g, v)
        BY <2>1, <3>1, ObjectIs DEF NormalMembers
      <4>2. QED BY <4>1, <3>1 DEF NormalStep
    <3>2. CASE v.kind = "list"
      <4>1. [i \in DOMAIN v.items |-> f[v.items[i]]] = [i \in DOMAIN v.items |-> g[v.items[i]]]
        BY <2>1, <3>2, ListIs
      <4>2. QED BY <4>1, <3>2 DEF NormalStep
    <3>3. CASE v.kind # "object" /\ v.kind # "list"
      BY <3>3 DEF NormalStep
    <3>4. QED BY <3>1, <3>2, <3>3
  <2>2. QED BY <2>1 DEF NormalRec!Local
<1>2. \E f : f = [v \in Values |-> NormalStep(f, v)]
  BY <1>1, HashAssumption, NormalRec!FunctionExists
<1>3. Normal = CHOOSE f : f = [v \in Values |-> NormalStep(f, v)]
  BY DEF Normal, NormalStep, NormalMembers
<1>4. Normal = [v \in Values |-> NormalStep(Normal, v)]
  BY <1>2, <1>3
<1>5. QED BY <1>4

\* Meaning satisfies its recursive definition.
LEMMA MeaningUnfolds ==
  \A v \in Values : Meaning[v] = MeaningStep(Meaning, v)
<1>1. MeaningRec!Local
  <2>1. ASSUME NEW v \in Values, NEW f, NEW g,
               \A w \in Values : Depth[w] < Depth[v] => f[w] = g[w]
        PROVE  MeaningStep(f, v) = MeaningStep(g, v)
    <3>1. CASE v.kind = "object"
      <4>1. ASSUME NEW k \in KeysOf(v) PROVE f[ValueAt(v, k)] = g[ValueAt(v, k)]
        <5>1. PICK i \in DOMAIN v.items : k = v.items[i].key
          BY DEF KeysOf
        <5>2. ValueAt(v, k) \in Values /\ Depth[ValueAt(v, k)] < Depth[v]
          BY <3>1, <5>1, ValueAtKey, ObjectIs
        <5>3. QED BY <2>1, <5>2
      <4>2. [k \in KeysOf(v) |-> f[ValueAt(v, k)]] = [k \in KeysOf(v) |-> g[ValueAt(v, k)]]
        BY <4>1
      <4>3. QED BY <4>2, <3>1 DEF MeaningStep
    <3>2. CASE v.kind = "list"
      <4>1. [i \in DOMAIN v.items |-> f[v.items[i]]] = [i \in DOMAIN v.items |-> g[v.items[i]]]
        BY <2>1, <3>2, ListIs
      <4>2. QED BY <4>1, <3>2 DEF MeaningStep
    <3>3. CASE v.kind # "object" /\ v.kind # "list"
      BY <3>3 DEF MeaningStep
    <3>4. QED BY <3>1, <3>2, <3>3
  <2>2. QED BY <2>1 DEF MeaningRec!Local
<1>2. \E f : f = [v \in Values |-> MeaningStep(f, v)]
  BY <1>1, HashAssumption, MeaningRec!FunctionExists
<1>3. Meaning = CHOOSE f : f = [v \in Values |-> MeaningStep(f, v)]
  BY DEF Meaning, MeaningStep
<1>4. Meaning = [v \in Values |-> MeaningStep(Meaning, v)]
  BY <1>2, <1>3
<1>5. QED BY <1>4

\* Objects, lists and other values are told apart by normal form and by meaning.
LEMMA KindsKept ==
  ASSUME NEW v \in Values
  PROVE  Normal[v].kind = v.kind /\ Meaning[v].kind = v.kind
<1>1. Normal[v] = NormalStep(Normal, v) /\ Meaning[v] = MeaningStep(Meaning, v)
  BY NormalUnfolds, MeaningUnfolds
<1>2. CASE v.kind = "object"
  BY <1>1, <1>2 DEF NormalStep, MeaningStep
<1>3. CASE v.kind = "list"
  BY <1>1, <1>3 DEF NormalStep, MeaningStep
<1>4. CASE v.kind # "object" /\ v.kind # "list"
  BY <1>1, <1>4 DEF NormalStep, MeaningStep
<1>5. QED BY <1>2, <1>3, <1>4

\* The keys of the normalised members are distinct.
LEMMA NormalMembersKeyed ==
  ASSUME NEW v \in Values, v.kind = "object"
  PROVE  Keyed(NormalMembers(Normal, v), Len(v.items))
<1>1. DOMAIN v.items = 1..Len(v.items) /\ Len(v.items) \in Nat
  BY ObjectIs
<1>2. \A i \in 1..Len(v.items) : NormalMembers(Normal, v)[i].key = v.items[i].key
  BY <1>1 DEF NormalMembers
<1>3. NormalMembers(Normal, v) =
        [i \in 1..Len(v.items) |-> NormalMembers(Normal, v)[i]]
  BY <1>1 DEF NormalMembers
<1>4. /\ \A i \in 1..Len(v.items) : v.items[i].key \in Nat
      /\ \A i, j \in 1..Len(v.items) : v.items[i].key = v.items[j].key => i = j
  BY <1>1, ObjectIs
<1>5. QED BY <1>1, <1>2, <1>3, <1>4 DEF Keyed

DumpedMembers(f, n) ==
  [i \in DOMAIN n.items |-> [key |-> n.items[i].key, value |-> f[n.items[i].value]]]

DumpedStep(f, n) ==
  CASE n.kind = "object" -> [kind |-> "object", items |-> ByKey(DumpedMembers(f, n))]
    [] n.kind = "list" ->
         [kind |-> "list", items |-> [i \in DOMAIN n.items |-> f[n.items[i]]]]
    [] OTHER -> n

\* The members of a normalised object are sorted, and their values are normalised.
LEMMA NormalSorted ==
  ASSUME NEW v \in Values, v.kind = "object"
  PROVE  LET s == Normal[v].items
         IN  /\ Normal[v] = [kind |-> "object", items |-> s]
             /\ s = ByKey(NormalMembers(Normal, v))
             /\ Keyed(s, Len(v.items))
             /\ ByKey(s) = s
             /\ \A i \in DOMAIN s : \E j \in DOMAIN v.items :
                  s[i] = [key |-> v.items[j].key, value |-> Normal[v.items[j].value]]
<1> DEFINE m == NormalMembers(Normal, v)
           s == ByKey(m)
           n == Len(v.items)
<1>1. Normal[v] = [kind |-> "object", items |-> s]
  BY NormalUnfolds DEF NormalStep
<1>2. Keyed(m, n) /\ Sorts(s, m)
  BY NormalMembersKeyed, ByKeySorts
<1>3. \A i \in DOMAIN m : m[i] = [key |-> v.items[i].key, value |-> Normal[v.items[i].value]]
  BY DEF NormalMembers
<1>4. DOMAIN m = DOMAIN v.items
  BY DEF NormalMembers
<1> HIDE DEF m, s
<1>5. \A i \in DOMAIN s : \E j \in DOMAIN m : s[i] = m[j]
  BY <1>2 DEF Sorts, Elements
<1>6. Keyed(s, n)
  <2>1. /\ n \in Nat /\ DOMAIN m = 1..n /\ DOMAIN s = 1..n
        /\ s = [i \in 1..n |-> s[i]]
        /\ \A i \in 1..n : m[i].key \in Nat
    BY <1>2 DEF Keyed, Sorts
  <2>2. \A i \in 1..n : s[i].key \in Nat
    BY <1>5, <2>1
  <2>3. \A i, j \in 1..n : i < j => s[i].key < s[j].key
    BY <1>2, <2>1 DEF Sorts
  <2>4. \A i, j \in 1..n : s[i].key = s[j].key => i = j
    <3> TAKE i, j \in 1..n
    <3>1. i < j \/ j < i \/ i = j
      BY <2>1
    <3>2. QED BY <2>2, <2>3, <3>1
  <2>5. QED BY <2>1, <2>2, <2>4 DEF Keyed
<1>7. Sorts(s, s)
  <2>1. s \in [DOMAIN s -> Elements(s)]
    BY <1>2 DEF Sorts, Elements
  <2>2. QED BY <1>2, <2>1 DEF Sorts
<1>8. ByKey(s) = s
  BY <1>6, <1>7, ByKeySorts, SortedUnique
<1>9. \A i \in DOMAIN s : \E j \in DOMAIN v.items :
        s[i] = [key |-> v.items[j].key, value |-> Normal[v.items[j].value]]
  BY <1>3, <1>4, <1>5
<1>10. Normal[v].items = s
  BY <1>1
<1>11. QED BY <1>1, <1>6, <1>8, <1>9, <1>10 DEF s, m

\* A function that leaves the parts of a normalised value as they are makes
\* json.dumps leave the value as it is.
LEMMA DumpedStepKeeps ==
  ASSUME NEW f, NEW v \in Values,
         \A w \in Values : Depth[w] < Depth[v] => f[Normal[w]] = Normal[w]
  PROVE  DumpedStep(f, Normal[v]) = Normal[v]
<1>1. CASE v.kind = "object"
  <2> DEFINE n == Normal[v]
             s == n.items
  <2>1. /\ n = [kind |-> "object", items |-> s]
        /\ Keyed(s, Len(v.items))
        /\ ByKey(s) = s
        /\ \A i \in DOMAIN s : \E j \in DOMAIN v.items :
             s[i] = [key |-> v.items[j].key, value |-> Normal[v.items[j].value]]
    BY <1>1, NormalSorted
  <2> HIDE DEF n
  <2>2. \A i \in DOMAIN s : s[i] = [key |-> s[i].key, value |-> f[s[i].value]]
    <3> TAKE i \in DOMAIN s
    <3>1. PICK j \in DOMAIN v.items :
            s[i] = [key |-> v.items[j].key, value |-> Normal[v.items[j].value]]
      BY <2>1
    <3>2. f[Normal[v.items[j].value]] = Normal[v.items[j].value]
      BY <1>1, ObjectIs
    <3>3. s[i].key = v.items[j].key /\ s[i].value = Normal[v.items[j].value]
      BY <3>1
    <3>4. QED BY <3>1, <3>2, <3>3
  <2>3. s = [i \in DOMAIN s |-> s[i]]
    BY <2>1 DEF Keyed
  <2>4. DumpedMembers(f, n) = s
    BY <2>2, <2>3 DEF DumpedMembers
  <2>5. n.kind = "object"
    BY <2>1
  <2>6. DumpedStep(f, n) = [kind |-> "object", items |-> ByKey(s)]
    BY <2>4, <2>5 DEF DumpedStep
  <2>7. DumpedStep(f, n) = n
    BY <2>1, <2>6
  <2>8. QED BY <2>7 DEF n
<1>2. CASE v.kind = "list"
  <2> DEFINE n == Normal[v]
             s == [i \in DOMAIN v.items |-> Normal[v.items[i]]]
  <2>1. n = [kind |-> "list", items |-> s]
    BY <1>2, NormalUnfolds DEF NormalStep
  <2>2. \A i \in DOMAIN v.items : f[Normal[v.items[i]]] = Normal[v.items[i]]
    BY <1>2, ListIs
  <2>3. [i \in DOMAIN s |-> f[s[i]]] = s
    BY <2>2
  <2> HIDE DEF n, s
  <2>4. n.kind = "list" /\ n.items = s
    BY <2>1
  <2>5. DumpedStep(f, n) = [kind |-> "list", items |-> [i \in DOMAIN s |-> f[s[i]]]]
    BY <2>4 DEF DumpedStep
  <2>6. DumpedStep(f, n) = n
    BY <2>1, <2>3, <2>5
  <2>7. QED BY <2>6 DEF n
<1>3. CASE v.kind # "object" /\ v.kind # "list"
  <2>1. Normal[v] = v
    BY <1>3, NormalUnfolds DEF NormalStep
  <2>2. QED BY <1>3, <2>1 DEF DumpedStep
<1>4. QED BY <1>1, <1>2, <1>3

\* Dumped satisfies its recursive definition.
LEMMA DumpedUnfolds ==
  \A n \in Normals : Dumped[n] = DumpedStep(Dumped, n)
<1> DEFINE same == [n \in Normals |-> n]
<1>1. \A v \in Values : same[Normal[v]] = Normal[v]
  BY DEF Normals
<1> HIDE DEF same
<1>2. \A v \in Values : DumpedStep(same, Normal[v]) = Normal[v]
  BY <1>1, DumpedStepKeeps
<1>3. \A n \in Normals : DumpedStep(same, n) = n
  BY <1>2 DEF Normals
<1>4. same = [n \in Normals |-> DumpedStep(same, n)]
  BY <1>3 DEF same
<1>5. \E f : f = [n \in Normals |-> DumpedStep(f, n)]
  BY <1>4
<1>6. Dumped = CHOOSE f : f = [n \in Normals |-> DumpedStep(f, n)]
  BY DEF Dumped, DumpedStep, DumpedMembers
<1>7. Dumped = [n \in Normals |-> DumpedStep(Dumped, n)]
  BY <1>5, <1>6
<1>8. QED BY <1>7

\* sort_keys=True changes nothing: _normalize_json has sorted every depth already.
LEMMA DumpedKeeps ==
  \A v \in Values : Dumped[Normal[v]] = Normal[v]
<1> DEFINE S == {n \in Nat : \A v \in Values : Depth[v] < n => Dumped[Normal[v]] = Normal[v]}
<1>0. \A v \in Values : Depth[v] \in Nat
  BY HashAssumption
<1>1. 0 \in S
  BY <1>0
<1>2. ASSUME NEW n \in Nat, n \in S PROVE n + 1 \in S
  <2>1. ASSUME NEW v \in Values, Depth[v] < n + 1
        PROVE  Dumped[Normal[v]] = Normal[v]
    <3>1. \A w \in Values : Depth[w] < Depth[v] => Dumped[Normal[w]] = Normal[w]
      BY <1>0, <1>2, <2>1
    <3> HIDE DEF S
    <3>2. DumpedStep(Dumped, Normal[v]) = Normal[v]
      BY <3>1, DumpedStepKeeps
    <3>3. Normal[v] \in Normals
      BY DEF Normals
    <3>4. QED BY <3>2, <3>3, DumpedUnfolds
  <2>2. n + 1 \in Nat
    OBVIOUS
  <2>3. QED BY <2>1, <2>2
<1> HIDE DEF S
<1>3. \A n \in Nat : n \in S
  BY <1>1, <1>2, TenRec!SetInduction
<1>4. ASSUME NEW v \in Values PROVE Dumped[Normal[v]] = Normal[v]
  <2>1. Depth[v] + 1 \in Nat /\ Depth[v] < Depth[v] + 1
    BY <1>0
  <2>2. QED BY <1>3, <2>1 DEF S
<1>5. QED BY <1>4

\* Two objects have the same normal form if their members have.
LEMMA ObjectsNormalAlike ==
  ASSUME NEW v \in Values, NEW w \in Values, v.kind = "object", w.kind = "object"
  PROVE  Normal[v] = Normal[w]
           <=> Elements(NormalMembers(Normal, v)) = Elements(NormalMembers(Normal, w))
<1>1. /\ Normal[v] = [kind |-> "object", items |-> ByKey(NormalMembers(Normal, v))]
      /\ Normal[w] = [kind |-> "object", items |-> ByKey(NormalMembers(Normal, w))]
  BY NormalUnfolds DEF NormalStep
<1>2. Normal[v] = Normal[w]
        <=> ByKey(NormalMembers(Normal, v)) = ByKey(NormalMembers(Normal, w))
  BY <1>1
<1>3. QED BY <1>2, NormalMembersKeyed, SortedAlike

\* Every member of v has one in w with the same key and a value with the same
\* normal form.
Covers(v, w) ==
  \A i \in DOMAIN v.items : \E j \in DOMAIN w.items :
    /\ v.items[i].key = w.items[j].key
    /\ Normal[v.items[i].value] = Normal[w.items[j].value]

\* Normal members are among those of another object as Covers says.
LEMMA ElementsCovered ==
  ASSUME NEW v, NEW w
  PROVE  Elements(NormalMembers(Normal, v)) \subseteq Elements(NormalMembers(Normal, w))
           <=> Covers(v, w)
<1> DEFINE s == NormalMembers(Normal, v)
           t == NormalMembers(Normal, w)
<1>1. /\ DOMAIN s = DOMAIN v.items /\ DOMAIN t = DOMAIN w.items
      /\ \A i \in DOMAIN s : s[i] = [key |-> v.items[i].key, value |-> Normal[v.items[i].value]]
      /\ \A j \in DOMAIN t : t[j] = [key |-> w.items[j].key, value |-> Normal[w.items[j].value]]
  BY DEF NormalMembers
<1> HIDE DEF s, t
<1>2. Elements(s) \subseteq Elements(t) <=> \A i \in DOMAIN s : \E j \in DOMAIN t : s[i] = t[j]
  BY DEF Elements
<1>3. \A i \in DOMAIN s, j \in DOMAIN t :
        s[i] = t[j] <=> /\ v.items[i].key = w.items[j].key
                        /\ Normal[v.items[i].value] = Normal[w.items[j].value]
  <2>1. \A a, b, c, d : [key |-> a, value |-> b] = [key |-> c, value |-> d] <=> a = c /\ b = d
    OBVIOUS
  <2> TAKE i \in DOMAIN s, j \in DOMAIN t
  <2>2. /\ s[i] = [key |-> v.items[i].key, value |-> Normal[v.items[i].value]]
        /\ t[j] = [key |-> w.items[j].key, value |-> Normal[w.items[j].value]]
    BY <1>1
  <2>3. QED BY <2>1, <2>2
<1>4. QED BY <1>1, <1>2, <1>3 DEF Covers, s, t

\* _normalize_json: two values are normalised alike exactly if they mean the same,
\* objects at every depth being functions from their keys.
THEOREM NormalIffMeaning ==
  \A v, w \in Values : Normal[v] = Normal[w] <=> Meaning[v] = Meaning[w]
<1> DEFINE Alike(v, w) == Normal[v] = Normal[w] <=> Meaning[v] = Meaning[w]
           S == {n \in Nat : \A v, w \in Values : Depth[v] < n => Alike(v, w)}
<1>0. \A v \in Values : Depth[v] \in Nat
  BY HashAssumption
<1>1. 0 \in S
  BY <1>0
<1>2. ASSUME NEW n \in Nat, n \in S PROVE n + 1 \in S
  <2>1. ASSUME NEW v \in Values, NEW w \in Values, Depth[v] < n + 1
        PROVE  Alike(v, w)
    <3>1. \A x, y \in Values : Depth[x] < Depth[v] => Alike(x, y)
      BY <1>0, <1>2, <2>1
    <3> HIDE DEF Alike, S
    <3>2. CASE v.kind # w.kind
      BY <3>2, KindsKept DEF Alike
    <3>3. CASE v.kind = "object" /\ w.kind = "object"
      <4>1. \A i \in DOMAIN v.items, j \in DOMAIN w.items :
              Normal[v.items[i].value] = Normal[w.items[j].value]
                <=> Meaning[v.items[i].value] = Meaning[w.items[j].value]
        BY <3>1, <3>3, ObjectIs DEF Alike
      <4>2. Normal[v] = Normal[w] <=> Covers(v, w) /\ Covers(w, v)
        <5>1. Normal[v] = Normal[w] <=>
                Elements(NormalMembers(Normal, v)) = Elements(NormalMembers(Normal, w))
          BY <3>3, ObjectsNormalAlike
        <5>2. /\ Elements(NormalMembers(Normal, v)) \subseteq Elements(NormalMembers(Normal, w))
                   <=> Covers(v, w)
              /\ Elements(NormalMembers(Normal, w)) \subseteq Elements(NormalMembers(Normal, v))
                   <=> Covers(w, v)
          BY ElementsCovered
        <5> DEFINE X == Elements(NormalMembers(Normal, v))
                   Y == Elements(NormalMembers(Normal, w))
        <5> HIDE DEF X, Y
        <5>3. X = Y <=> X \subseteq Y /\ Y \subseteq X
          OBVIOUS
        <5>4. QED BY <5>1, <5>2, <5>3 DEF X, Y
      <4>3. Meaning[v] = Meaning[w] <=>
              /\ KeysOf(v) = KeysOf(w)
              /\ \A k \in KeysOf(v) : Meaning[ValueAt(v, k)] = Meaning[ValueAt(w, k)]
        <5> DEFINE f == [k \in KeysOf(v) |-> Meaning[ValueAt(v, k)]]
                   g == [k \in KeysOf(w) |-> Meaning[ValueAt(w, k)]]
        <5>1. /\ Meaning[v] = [kind |-> "object", members |-> f]
              /\ Meaning[w] = [kind |-> "object", members |-> g]
          BY <3>3, MeaningUnfolds DEF MeaningStep
        <5>2. f = g <=> /\ KeysOf(v) = KeysOf(w)
                        /\ \A k \in KeysOf(v) : Meaning[ValueAt(v, k)] = Meaning[ValueAt(w, k)]
          <6>1. DOMAIN f = KeysOf(v) /\ DOMAIN g = KeysOf(w)
            OBVIOUS
          <6>2. QED BY <6>1
        <5> HIDE DEF f, g
        <5>3. QED BY <5>1, <5>2
      <4>4. /\ \A i \in DOMAIN v.items : ValueAt(v, v.items[i].key) = v.items[i].value
            /\ \A j \in DOMAIN w.items : ValueAt(w, w.items[j].key) = w.items[j].value
        BY <3>3, ValueAtKey
      <4>5. ASSUME Covers(v, w), Covers(w, v)
            PROVE  /\ KeysOf(v) = KeysOf(w)
                   /\ \A k \in KeysOf(v) : Meaning[ValueAt(v, k)] = Meaning[ValueAt(w, k)]
        <5>1. KeysOf(v) = KeysOf(w)
          BY <4>5 DEF Covers, KeysOf
        <5>2. ASSUME NEW k \in KeysOf(v)
              PROVE  Meaning[ValueAt(v, k)] = Meaning[ValueAt(w, k)]
          <6>1. PICK i \in DOMAIN v.items : k = v.items[i].key
            BY DEF KeysOf
          <6>2. PICK j \in DOMAIN w.items :
                  /\ k = w.items[j].key
                  /\ Normal[v.items[i].value] = Normal[w.items[j].value]
            BY <4>5, <6>1 DEF Covers
          <6>3. QED BY <4>1, <4>4, <6>1, <6>2
        <5>3. QED BY <5>1, <5>2
      <4>6. ASSUME KeysOf(v) = KeysOf(w),
                   \A k \in KeysOf(v) : Meaning[ValueAt(v, k)] = Meaning[ValueAt(w, k)]
            PROVE  Covers(v, w) /\ Covers(w, v)
        <5>1. ASSUME NEW i \in DOMAIN v.items, NEW j \in DOMAIN w.items,
                     v.items[i].key = w.items[j].key
              PROVE  Normal[v.items[i].value] = Normal[w.items[j].value]
          <6>1. v.items[i].key \in KeysOf(v)
            BY DEF KeysOf
          <6>2. QED BY <4>1, <4>4, <4>6, <5>1, <6>1
        <5>2. \A i \in DOMAIN v.items : \E j \in DOMAIN w.items :
                v.items[i].key = w.items[j].key
          BY <4>6 DEF KeysOf
        <5>3. \A j \in DOMAIN w.items : \E i \in DOMAIN v.items :
                v.items[i].key = w.items[j].key
          BY <4>6 DEF KeysOf
        <5>4. Covers(v, w)
          BY <5>1, <5>2 DEF Covers
        <5>5. Covers(w, v)
          BY <5>1, <5>3 DEF Covers
        <5>6. QED BY <5>4, <5>5
      <4>7. QED BY <4>2, <4>3, <4>5, <4>6 DEF Alike
    <3>4. CASE v.kind = "list" /\ w.kind = "list"
      <4> DEFINE Items(f, x) == [i \in DOMAIN x.items |-> f[x.items[i]]]
      <4>1. /\ Normal[v] = [kind |-> "list", items |-> Items(Normal, v)]
            /\ Normal[w] = [kind |-> "list", items |-> Items(Normal, w)]
        BY <3>4, NormalUnfolds DEF NormalStep
      <4>2. /\ Meaning[v] = [kind |-> "list", items |-> Items(Meaning, v)]
            /\ Meaning[w] = [kind |-> "list", items |-> Items(Meaning, w)]
        BY <3>4, MeaningUnfolds DEF MeaningStep
      <4>3. \A f : Items(f, v) = Items(f, w) <=>
              /\ DOMAIN v.items = DOMAIN w.items
              /\ \A i \in DOMAIN v.items : f[v.items[i]] = f[w.items[i]]
        <5> TAKE f
        <5>1. DOMAIN Items(f, v) = DOMAIN v.items /\ DOMAIN Items(f, w) = DOMAIN w.items
          OBVIOUS
        <5>2. QED BY <5>1
      <4> HIDE DEF Items
      <4>4. /\ Normal[v] = Normal[w] <=> Items(Normal, v) = Items(Normal, w)
            /\ Meaning[v] = Meaning[w] <=> Items(Meaning, v) = Items(Meaning, w)
        BY <4>1, <4>2
      <4>5. DOMAIN v.items = DOMAIN w.items =>
              \A i \in DOMAIN v.items : Normal[v.items[i]] = Normal[w.items[i]]
                                         <=> Meaning[v.items[i]] = Meaning[w.items[i]]
        BY <3>1, <3>4, ListIs DEF Alike
      <4>6. QED BY <4>3, <4>4, <4>5 DEF Alike
    <3>5. CASE v.kind = w.kind /\ v.kind # "object" /\ v.kind # "list"
      <4>1. Normal[v] = v /\ Normal[w] = w /\ Meaning[v] = v /\ Meaning[w] = w
        BY <3>5, NormalUnfolds, MeaningUnfolds DEF NormalStep, MeaningStep
      <4>2. QED BY <4>1 DEF Alike
    <3>6. QED BY <3>2, <3>3, <3>4, <3>5
  <2>2. n + 1 \in Nat
    OBVIOUS
  <2>3. QED BY <2>1, <2>2
<1> HIDE DEF S
<1>3. \A n \in Nat : n \in S
  BY <1>1, <1>2, TenRec!SetInduction
<1>4. ASSUME NEW v \in Values, NEW w \in Values PROVE Alike(v, w)
  <2>1. Depth[v] + 1 \in Nat /\ Depth[v] < Depth[v] + 1
    BY <1>0
  <2>2. QED BY <1>3, <2>1 DEF S
<1>5. QED BY <1>4

----------------------------------------------------------------------------
(* The request hash                                                        *)

\* Requests that mean the same have the same request_hash, however their amount and
\* their metadata are written.
THEOREM SameRequestSameHash ==
  ASSUME NEW b, NEW c, b.amount \in Amounts, c.amount \in Amounts,
         b.metadata \in Values, c.metadata \in Values, SameRequest(b, c)
  PROVE  BuildRequestHash(b) = BuildRequestHash(c)
BY SameAmountSameText, NormalIffMeaning, DumpedKeeps
  DEF SameRequest, BuildRequestHash, NormalizeJson

\* Requests with the same request_hash mean the same, if the context rounds neither
\* of their amounts.
THEOREM SameHashSameRequest ==
  ASSUME NEW b, NEW c, b.amount \in Amounts, c.amount \in Amounts,
         b.metadata \in Values, c.metadata \in Values,
         Exact(b.amount), Exact(c.amount), BuildRequestHash(b) = BuildRequestHash(c)
  PROVE  SameRequest(b, c)
<1>1. /\ NormalizeDecimal(b.amount) = NormalizeDecimal(c.amount)
      /\ Normal[b.metadata] = Normal[c.metadata]
      /\ b.rest = c.rest
  BY DumpedKeeps DEF BuildRequestHash, NormalizeJson
<1>2. QED BY <1>1, SameTextSameAmount, NormalIffMeaning DEF SameRequest

\* An amount written with no more digits than the context keeps is not rounded.
THEOREM ShortAmountsAreExact ==
  \A d \in Amounts : d.coef < TenTo[Precision] => Exact(d)
<1> SUFFICES ASSUME NEW d \in Amounts, d.coef < TenTo[Precision] PROVE Exact(d)
  OBVIOUS
<1>1. d.coef \in Nat \ {0} /\ d.exp \in Int
  BY DEF Amounts
<1>2. IsExcess(d.coef, 0)
  BY PrecisionType DEF IsExcess
<1>3. Excess(d) = 0
  BY <1>2, ExcessUnique
<1>4. HalfEven(d.coef, TenTo[0]) = d.coef
  <2>1. HalfEven(d.coef * 1, 1) = d.coef
    BY <1>1, HalfEvenExact
  <2>2. d.coef * 1 = d.coef
    BY <1>1
  <2>3. QED BY <2>1, <2>2, TenToUnfolds
<1>5. Rounded(d).coef = d.coef /\ Rounded(d).exp = d.exp
  BY <1>1, <1>3, <1>4 DEF Rounded
<1>6. QED BY <1>5 DEF Exact, SameAmount
=============================================================================
