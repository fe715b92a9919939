------------------------------ MODULE QuoteProofs ------------------------------
(***************************************************************************)
(* What MarketMath and LpFees compute, for every amount, fee and number of *)
(* providers: the quotes, and the steps of the fee ledger.                 *)
(***************************************************************************)
EXTENDS LpFees, NatLemmas

-------------------------------------------------------------------------------
(* The quotes of MarketMath, for every reserve and amount. *)

LEMMA MulDivNat ==
    ASSUME NEW a \in Nat, NEW b \in Nat, NEW c \in Nat \ {0}
    PROVE  /\ MulDiv(a, b, c) \in Nat
           /\ c * MulDiv(a, b, c) <= a * b
           /\ MulDivUp(a, b, c) \in Nat
           /\ a * b <= c * MulDivUp(a, b, c)
           /\ c * MulDivUp(a, b, c) < a * b + c
  <1>1. a * b \in Nat
    BY ProductNat
  <1>2. a * b + c - 1 \in Nat
    BY <1>1
  <1>3. MulDiv(a, b, c) = (a * b) \div c /\ MulDivUp(a, b, c) = (a * b + c - 1) \div c
    BY DEF MulDiv, MulDivUp
  <1> QED
    BY <1>1, <1>2, <1>3, DivBounds

\* A share of a never exceeds a, rounded either way.
LEMMA MulDivShare ==
    ASSUME NEW a \in Nat, NEW b \in Nat, NEW c \in Nat \ {0}, b <= c
    PROVE  MulDiv(a, b, c) <= a /\ MulDivUp(a, b, c) <= a
  <1>1. a * b <= a * c /\ a * b \in Nat /\ a * c = c * a
    BY ProductMonotone, ProductNat
  <1>a. /\ c * MulDiv(a, b, c) <= a * b
        /\ c * MulDivUp(a, b, c) < a * b + c
        /\ MulDiv(a, b, c) \in Nat /\ MulDivUp(a, b, c) \in Nat
    BY MulDivNat
  <1>b. /\ c * MulDiv(a, b, c) \in Nat /\ c * MulDivUp(a, b, c) \in Nat
        /\ c * a \in Nat
    BY <1>a, ProductNat
  <1> HIDE DEF MulDiv, MulDivUp
  <1>2. c * MulDiv(a, b, c) <= c * a
    BY <1>1, <1>a, <1>b
  <1>3. MulDiv(a, b, c) <= a
    BY <1>2, MulDivNat, ProductCancels
  <1>4. c * MulDivUp(a, b, c) < c * a + c
    BY <1>1, <1>a, <1>b
  <1>5. MulDivUp(a, b, c) <= a
    <2> DEFINE q == MulDivUp(a, b, c)
    <2> SUFFICES ASSUME ~(q <= a) PROVE FALSE
      OBVIOUS
    <2>1. q \in Nat /\ a + 1 \in Nat /\ a + 1 <= q
      BY MulDivNat
    <2> HIDE DEF q
    <2>2. c * (a + 1) <= c * q
      BY <2>1, ProductMonotone
    <2>3. c * (a + 1) = c * a + c /\ c * a \in Nat /\ c * q \in Nat
      BY <2>1, ProductNat
    <2>4. c * q < c * a + c
      BY <1>4 DEF q
    <2> QED
      BY <2>2, <2>3, <2>4
  <1> QED
    BY <1>3, <1>5

-------------------------------------------------------------------------------
(* Buying. *)

\* The fees are a part of the budget, and something is left to trade.
LEMMA FeesWithinBudget ==
    ASSUME NEW budget \in Nat \ {0}
    PROVE  /\ MulDiv(budget, WinnerRewardBps, BPS) \in Nat
           /\ MulDiv(budget, LIQUIDITY_FEE_BPS, BPS) \in Nat
           /\ MulDiv(budget, WinnerRewardBps, BPS)
                + MulDiv(budget, LIQUIDITY_FEE_BPS, BPS) < budget
  <1> DEFINE w == MulDiv(budget, WinnerRewardBps, BPS)
             l == MulDiv(budget, LIQUIDITY_FEE_BPS, BPS)
  <1>1. /\ w \in Nat /\ BPS * w <= budget * WinnerRewardBps
        /\ l \in Nat /\ BPS * l <= budget * LIQUIDITY_FEE_BPS
    BY MulDivNat, FeeAssumption
  <1> HIDE DEF w, l
  <1>2. BPS * (w + l) <= budget * (WinnerRewardBps + LIQUIDITY_FEE_BPS)
    <2>1. BPS * (w + l) = BPS * w + BPS * l
      BY <1>1, FeeAssumption
    <2>2. budget * (WinnerRewardBps + LIQUIDITY_FEE_BPS)
            = budget * WinnerRewardBps + budget * LIQUIDITY_FEE_BPS
      BY FeeAssumption
    <2>3. /\ BPS * w \in Nat /\ BPS * l \in Nat
          /\ budget * WinnerRewardBps \in Nat /\ budget * LIQUIDITY_FEE_BPS \in Nat
      BY <1>1, FeeAssumption, ProductNat
    <2> QED
      BY <1>1, <2>1, <2>2, <2>3
  <1>3. budget * (WinnerRewardBps + LIQUIDITY_FEE_BPS) < budget * BPS
    <2>1. /\ WinnerRewardBps + LIQUIDITY_FEE_BPS + 1 \in Nat
          /\ WinnerRewardBps + LIQUIDITY_FEE_BPS + 1 <= BPS
      BY FeeAssumption
    <2>2. budget * (WinnerRewardBps + LIQUIDITY_FEE_BPS + 1) <= budget * BPS
      BY <2>1, FeeAssumption, ProductMonotone
    <2>3. budget * (WinnerRewardBps + LIQUIDITY_FEE_BPS + 1)
            = budget * (WinnerRewardBps + LIQUIDITY_FEE_BPS) + budget
      BY FeeAssumption
    <2>4. /\ budget * (WinnerRewardBps + LIQUIDITY_FEE_BPS) \in Nat
          /\ budget * BPS \in Nat
      BY FeeAssumption, ProductNat
    <2> QED
      BY <2>2, <2>3, <2>4
  <1>4. w + l < budget
    <2> SUFFICES ASSUME budget <= w + l PROVE FALSE
      BY <1>1
    <2>1. BPS * budget <= BPS * (w + l)
      BY <1>1, FeeAssumption, ProductMonotone
    <2>2. BPS * budget = budget * BPS
      BY FeeAssumption
    <2>3. /\ BPS * (w + l) \in Nat /\ budget * BPS \in Nat
          /\ budget * (WinnerRewardBps + LIQUIDITY_FEE_BPS) \in Nat
      BY <1>1, FeeAssumption, ProductNat
    <2> QED
      BY <1>2, <1>3, <2>1, <2>2, <2>3
  <1> QED
    BY <1>1, <1>4 DEF w, l

SoundBuy(q, x, y, budget) ==
    /\ q.tradeInput \in Nat \ {0}
    /\ q.winnerRewardFee \in Nat /\ q.liquidityFee \in Nat
    /\ q.tradeInput + q.winnerRewardFee + q.liquidityFee = budget
    /\ q.positionsOut \in Nat
    /\ q.newSelectedReserve \in Nat /\ q.newOtherReserve \in Nat
    /\ q.newSelectedReserve + q.positionsOut = x + q.tradeInput
    /\ q.newOtherReserve = y + q.tradeInput
    /\ x * y <= q.newSelectedReserve * q.newOtherReserve

\* A purchase takes its whole budget into the trade input and the two fees,
\* mints as many sets as the trade input, and never lets the product of the
\* reserves fall: quoteBuy for every pool and every budget.
THEOREM QuoteBuySound ==
    ASSUME NEW x \in Nat, NEW y \in Nat, NEW budget \in Nat \ {0}
    PROVE  SoundBuy(QuoteBuy(x, y, budget), x, y, budget)
  <1> DEFINE w == MulDiv(budget, WinnerRewardBps, BPS)
             l == MulDiv(budget, LIQUIDITY_FEE_BPS, BPS)
             in == budget - w - l
             n == MulDivUp(x, y, y + in)
  <1>1. w \in Nat /\ l \in Nat /\ in \in Nat \ {0}
    BY FeesWithinBudget
  <1> HIDE DEF w, l
  <1>2. y + in \in Nat \ {0} /\ y <= y + in
    BY <1>1
  <1>3. n \in Nat /\ n <= x
    BY <1>1, <1>2, MulDivNat, MulDivShare
  <1>4. x * y <= (y + in) * n
    BY <1>2, MulDivNat
  <1>5. (y + in) * n = n * (y + in)
    BY <1>2, <1>3
  <1> HIDE DEF n
  <1>6. x + in - n \in Nat
    BY <1>1, <1>3
  <1>7. in + w + l = budget /\ n + (x + in - n) = x + in
    BY <1>1, <1>3
  <1>8. QuoteBuy(x, y, budget) =
          [tradeInput |-> in, winnerRewardFee |-> w, liquidityFee |-> l,
           positionsOut |-> x + in - n, newSelectedReserve |-> n,
           newOtherReserve |-> y + in]
    BY DEF QuoteBuy, w, l, n
  <1> HIDE DEF in
  <1> QED
    BY <1>1, <1>2, <1>3, <1>4, <1>5, <1>6, <1>7, <1>8 DEF SoundBuy

-------------------------------------------------------------------------------
(* Selling. *)

\* Math.sqrt with Ceil is defined for every n, and is the least such root.
LEMMA SqrtCeilLeast ==
    ASSUME NEW n \in Nat
    PROVE  /\ SqrtCeil(n) \in Nat
           /\ n <= SqrtCeil(n) * SqrtCeil(n)
           /\ \A k \in Nat : n <= k * k => SqrtCeil(n) <= k
  <1> DEFINE T == {r \in 0 .. n : n <= r * r}
             P(r) == n <= r * r /\ (r = 0 \/ (r - 1) * (r - 1) < n)
  <1>1. n \in T
    <2>1. CASE n = 0
      BY <2>1
    <2>2. CASE n # 0
      <3>1. n * 1 <= n * n
        BY <2>2, ProductMonotone
      <3> QED
        BY <3>1
    <2> QED
      BY <2>1, <2>2
  <1>2. PICK m \in T : \A r \in T : m <= r
    <2>1. T \in SUBSET Nat /\ T # {}
      BY <1>1
    <2> HIDE DEF T
    <2> QED
      BY <2>1, LeastNat
  <1>3. m = 0 \/ (m - 1) * (m - 1) < n
    <2> SUFFICES ASSUME m # 0, ~((m - 1) * (m - 1) < n) PROVE FALSE
      OBVIOUS
    <2>1. m - 1 \in 0 .. n /\ m - 1 \in Nat
      BY <1>2
    <2>2. (m - 1) * (m - 1) \in Nat
      BY <2>1, ProductNat
    <2>3. m - 1 \in T
      BY <2>1, <2>2
    <2> QED
      BY <2>3, <1>2
  <1>4. \E r \in 0 .. n : P(r)
    BY <1>2, <1>3
  <1>5. SqrtCeil(n) \in 0 .. n /\ P(SqrtCeil(n))
    <2>1. SqrtCeil(n) = CHOOSE r \in 0 .. n : P(r)
      BY DEF SqrtCeil
    <2> HIDE DEF P
    <2> QED
      BY <1>4, <2>1
  <1> DEFINE s == SqrtCeil(n)
  <1> HIDE DEF s
  <1>6. s \in Nat /\ n <= s * s /\ (s = 0 \/ (s - 1) * (s - 1) < n)
    BY <1>5 DEF s
  <1>7. ASSUME NEW k \in Nat, n <= k * k, k < s PROVE FALSE
    <2>1. s - 1 \in Nat /\ k <= s - 1
      BY <1>6, <1>7
    <2>2. k * k <= k * (s - 1) /\ (s - 1) * k <= (s - 1) * (s - 1)
      BY <2>1, ProductMonotone
    <2>3. k * (s - 1) = (s - 1) * k
      BY <2>1
    <2>4. k * k \in Nat /\ k * (s - 1) \in Nat /\ (s - 1) * (s - 1) \in Nat
      BY <2>1, ProductNat
    <2> QED
      BY <1>6, <1>7, <2>2, <2>3, <2>4
  <1> QED
    BY <1>6, <1>7 DEF s

LEMMA SquareCancels ==
    ASSUME NEW a \in Nat, NEW b \in Nat, a * a <= b * b
    PROVE  a <= b
  <1> SUFFICES ASSUME b < a PROVE FALSE
    OBVIOUS
  <1>1. b + 1 \in Nat /\ b + 1 <= a
    OBVIOUS
  <1>2. (b + 1) * (b + 1) <= (b + 1) * a /\ a * (b + 1) <= a * a
    BY <1>1, ProductMonotone
  <1>3. (b + 1) * a = a * (b + 1) /\ (b + 1) * (b + 1) = b * b + 2 * b + 1
    BY <1>1
  <1>4. a * a \in Nat /\ b * b \in Nat /\ a * (b + 1) \in Nat
    BY <1>1, ProductNat
  <1> QED
    BY <1>2, <1>3, <1>4

LEMMA SquareMonotone ==
    ASSUME NEW a \in Nat, NEW b \in Nat, a <= b
    PROVE  a * a <= b * b
  <1>1. a * a <= a * b /\ b * a <= b * b /\ a * b = b * a
    BY ProductMonotone
  <1>2. a * a \in Nat /\ a * b \in Nat /\ b * b \in Nat
    BY ProductNat
  <1> QED
    BY <1>1, <1>2

\* The discriminant of quoteSell in the form its bounds follow from.
LEMMA Discriminant ==
    ASSUME NEW u \in Int, NEW y \in Int, NEW p \in Int
    PROVE  (u + y) * (u + y) - 4 * p * y = (u - y) * (u - y) + 4 * ((u - p) * y)
  OBVIOUS

LEMMA ReserveIdentity ==
    ASSUME NEW u \in Int, NEW y \in Int, NEW g \in Int
    PROVE  (u + y - 2 * g) * (u + y - 2 * g) = (u - y) * (u - y) + 4 * ((u - g) * (y - g))
  OBVIOUS

LEMMA SquareNat ==
    ASSUME NEW a \in Int
    PROVE  a * a \in Nat
  <1>1. CASE a \in Nat
    BY <1>1, ProductNat
  <1>2. CASE -a \in Nat
    <2>1. (-a) * (-a) \in Nat /\ (-a) * (-a) = a * a
      BY <1>2, ProductNat
    <2> QED
      BY <2>1
  <1> QED
    BY <1>1, <1>2

SoundSell(q, x, y, p) ==
    /\ q.grossCollateral \in Nat
    /\ q.liquidityFee \in Nat /\ q.collateralOut \in Nat
    /\ q.liquidityFee + q.collateralOut = q.grossCollateral
    /\ q.newSelectedReserve \in Nat /\ q.newOtherReserve \in Nat
    /\ q.newSelectedReserve + q.grossCollateral = x + p
    /\ q.newOtherReserve + q.grossCollateral = y
    /\ x * y <= q.newSelectedReserve * q.newOtherReserve

\* A sale burns whole sets that both reserves have, and never lets the product
\* of the reserves fall: quoteSell for every pool and every amount.  So its
\* subtractions cannot revert.
THEOREM QuoteSellSound ==
    ASSUME NEW x \in Nat, NEW y \in Nat, NEW p \in Nat
    PROVE  SoundSell(QuoteSell(x, y, p), x, y, p)
  <1> DEFINE u == x + p
             sum == x + p + y
             disc == sum * sum - 4 * p * y
             r == SqrtCeil(disc)
             g == (sum - r) \div 2
             fee == MulDiv(g, LIQUIDITY_FEE_BPS, BPS)
  <1>1. u \in Nat /\ sum = u + y /\ u - p = x /\ sum \in Nat
    OBVIOUS
  <1>2. disc = (u - y) * (u - y) + 4 * (x * y)
    <2>1. (u + y) * (u + y) - 4 * p * y = (u - y) * (u - y) + 4 * ((u - p) * y)
      BY <1>1, Discriminant
    <2> QED
      BY <1>1, <2>1
  <1>3. x * y \in Nat /\ p * y \in Nat /\ (u - y) * (u - y) \in Nat /\ sum * sum \in Nat
    BY <1>1, ProductNat, SquareNat
  <1>a. 4 * p * y = 4 * (p * y)
    OBVIOUS
  <1> HIDE DEF u, sum
  <1>4. disc \in Nat /\ (u - y) * (u - y) <= disc /\ disc <= sum * sum
    BY <1>2, <1>3, <1>a
  <1> HIDE DEF disc
  <1>5. r \in Nat /\ disc <= r * r /\ r <= sum
    BY <1>1, <1>4, SqrtCeilLeast
  <1>6. r * r \in Nat /\ (u - y) * (u - y) <= r * r
    BY <1>3, <1>4, <1>5, ProductNat
  <1> HIDE DEF r
  <1>7. u - y <= r /\ y - u <= r
    <2>1. CASE y <= u
      <3>1. u - y \in Nat
        BY <1>1, <2>1
      <3> QED
        BY <1>1, <1>5, <1>6, <2>1, <3>1, SquareCancels
    <2>2. CASE u <= y
      <3>1. y - u \in Nat /\ (y - u) * (y - u) = (u - y) * (u - y)
        BY <1>1, <2>2
      <3>2. (y - u) * (y - u) <= r * r
        BY <1>6, <3>1
      <3> QED
        BY <1>1, <1>5, <2>2, <3>1, <3>2, SquareCancels
    <2> QED
      BY <1>1, <2>1, <2>2
  <1>8. /\ g \in Nat /\ g <= u /\ g <= y
        /\ r <= sum - 2 * g /\ sum - 2 * g \in Nat
    BY <1>1, <1>5, <1>7
  <1> HIDE DEF g
  <1>9. x * y <= (u - g) * (y - g)
    <2>1. r * r <= (sum - 2 * g) * (sum - 2 * g)
      BY <1>5, <1>8, SquareMonotone
    <2>2. (sum - 2 * g) * (sum - 2 * g) = (u - y) * (u - y) + 4 * ((u - g) * (y - g))
      <3>1. (u + y - 2 * g) * (u + y - 2 * g) = (u - y) * (u - y) + 4 * ((u - g) * (y - g))
        BY <1>1, <1>8, ReserveIdentity
      <3>2. sum - 2 * g = u + y - 2 * g
        BY <1>1, <1>8
      <3> QED
        BY <3>1, <3>2
    <2>3. (u - g) * (y - g) \in Nat
      BY <1>1, <1>8, ProductNat
    <2> QED
      BY <1>2, <1>3, <1>5, <1>6, <2>1, <2>2, <2>3
  <1>10. fee \in Nat /\ fee <= g
    <2>1. LIQUIDITY_FEE_BPS \in Nat /\ BPS \in Nat \ {0} /\ LIQUIDITY_FEE_BPS <= BPS
      BY FeeAssumption
    <2> QED
      BY <1>8, <2>1, MulDivNat, MulDivShare
  <1> HIDE DEF fee
  <1>11. QuoteSell(x, y, p) =
           [grossCollateral |-> g, liquidityFee |-> fee, collateralOut |-> g - fee,
            newSelectedReserve |-> x + p - g, newOtherReserve |-> y - g]
    BY DEF QuoteSell, g, fee, r, disc, sum
  <1>12. u = x + p
    BY DEF u
  <1> QED
    BY <1>1, <1>8, <1>9, <1>10, <1>11, <1>12 DEF SoundSell

-------------------------------------------------------------------------------
(* Both quotes are the best the product allows. *)

TightBuy(q, x, y) ==
    (x + q.tradeInput - (q.positionsOut + 1)) * (y + q.tradeInput) < x * y

\* A purchase gets all the product allows: one position more, and it would fall.
THEOREM QuoteBuyTight ==
    ASSUME NEW x \in Nat, NEW y \in Nat, NEW budget \in Nat \ {0}
    PROVE  TightBuy(QuoteBuy(x, y, budget), x, y)
  <1> DEFINE q == QuoteBuy(x, y, budget)
             d == y + q.tradeInput
             n == q.newSelectedReserve
  <1>1. q.tradeInput \in Nat \ {0} /\ q.positionsOut \in Nat /\ n + q.positionsOut = x + q.tradeInput
    BY QuoteBuySound DEF SoundBuy
  <1>2. n = MulDivUp(x, y, d) /\ q.newOtherReserve = d
    BY DEF QuoteBuy
  <1>3. d \in Nat \ {0} /\ x * y \in Nat
    BY <1>1, ProductNat
  <1>4. n \in Nat /\ d * n < x * y + d
    <2> HIDE DEF n, d
    <2> QED
      BY <1>2, <1>3, MulDivNat
  <1> HIDE DEF d, n, q
  <1>5. x + q.tradeInput - (q.positionsOut + 1) = n - 1
    BY <1>1, <1>4
  <1>6. (n - 1) * d = d * n - d
    BY <1>3, <1>4
  <1>7. (n - 1) * d < x * y
    BY <1>3, <1>4, <1>6, ProductNat
  <1> QED
    BY <1>5, <1>7 DEF TightBuy, d, q

TightSell(q, x, y, p) ==
    LET g == q.grossCollateral + 1
    IN  y - g < 0 \/ (x + p - g) * (y - g) < x * y

\* A sale pays all the product allows: one unit more, and it would fall, or the
\* pool would have to burn sets it does not hold.
THEOREM QuoteSellTight ==
    ASSUME NEW x \in Nat \ {0}, NEW y \in Nat \ {0}, NEW p \in Nat
    PROVE  TightSell(QuoteSell(x, y, p), x, y, p)
  <1> DEFINE u == x + p
             sum == x + p + y
             disc == sum * sum - 4 * p * y
             r == SqrtCeil(disc)
             g == (sum - r) \div 2
             G == g + 1
             h == sum - 2 * G
  <1>1. u \in Nat /\ sum = u + y /\ u - p = x /\ sum \in Nat
    OBVIOUS
  <1>2. disc = (u - y) * (u - y) + 4 * (x * y)
    <2>1. (u + y) * (u + y) - 4 * p * y = (u - y) * (u - y) + 4 * ((u - p) * y)
      BY <1>1, Discriminant
    <2> QED
      BY <1>1, <2>1
  <1>3. x * y \in Nat /\ 1 <= x * y /\ (u - y) * (u - y) \in Nat
    <2>1. x * 1 <= x * y
      BY ProductMonotone
    <2> QED
      BY <1>1, <2>1, ProductNat, SquareNat
  <1> HIDE DEF u, sum
  <1>4. disc \in Nat /\ 4 <= disc /\ disc <= sum * sum
    <2>1. sum * sum \in Nat /\ p * y \in Nat /\ 4 * p * y = 4 * (p * y)
      BY <1>1, ProductNat
    <2> QED
      BY <1>2, <1>3, <2>1
  <1>5. QuoteSell(x, y, p).grossCollateral = g
    BY DEF QuoteSell, g, r, disc, sum
  <1> HIDE DEF disc
  <1>6. r \in Nat /\ disc <= r * r /\ r <= sum
    BY <1>1, <1>4, SqrtCeilLeast
  <1>7. 2 <= r
    <2>1. CASE r = 0
      BY <1>4, <1>6, <2>1
    <2>2. CASE r = 1
      BY <1>4, <1>6, <2>2
    <2> QED
      BY <1>6, <2>1, <2>2
  <1>8. (r - 1) * (r - 1) < disc
    <2>1. r - 1 \in Nat /\ ~ (r <= r - 1)
      BY <1>6, <1>7
    <2>2. ~ (disc <= (r - 1) * (r - 1))
      BY <1>4, <2>1, SqrtCeilLeast
    <2> QED
      BY <1>4, <2>1, <2>2, ProductNat
  <1> HIDE DEF r
  <1>9. g \in Int /\ (h = r - 1 \/ h = r - 2)
    BY <1>1, <1>6
  <1> HIDE DEF g
  <1>10. h * h < disc
    <2>1. h \in Nat /\ h <= r - 1 /\ r - 1 \in Nat
      BY <1>6, <1>7, <1>9
    <2> HIDE DEF h
    <2>2. h * h <= (r - 1) * (r - 1) /\ h * h \in Nat /\ (r - 1) * (r - 1) \in Nat
      BY <2>1, SquareMonotone, ProductNat
    <2> QED
      BY <1>4, <1>8, <2>2
  <1> HIDE DEF G
  <1>11. G = g + 1 /\ G \in Int
    BY <1>9 DEF G
  <1>12. h * h = (u - y) * (u - y) + 4 * ((u - G) * (y - G))
    <2>1. (u + y - 2 * G) * (u + y - 2 * G) = (u - y) * (u - y) + 4 * ((u - G) * (y - G))
      BY <1>1, <1>11, ReserveIdentity
    <2>2. h = u + y - 2 * G
      BY <1>1, <1>11
    <2> QED
      BY <2>1, <2>2
  <1>13. (u - G) * (y - G) \in Int
    BY <1>1, <1>11
  <1> HIDE DEF h
  <1>14. (u - G) * (y - G) < x * y
    BY <1>2, <1>3, <1>10, <1>12, <1>13
  <1>15. u - G = x + p - (QuoteSell(x, y, p).grossCollateral + 1)
         /\ y - G = y - (QuoteSell(x, y, p).grossCollateral + 1)
    BY <1>5, <1>11 DEF u
  <1> QED
    BY <1>14, <1>15 DEF TightSell

-------------------------------------------------------------------------------
(* The fee ledger. *)

LEMMA AccruedNat ==
    ASSUME LpTypeOK, NEW u \in Users
    PROVE  Accumulated(u) \in Nat /\ Accrued(u) \in Nat
  <1>1. lpSharesOf[u] \in Nat /\ feePerShare \in Nat /\ lpFeeDebt[u] \in Nat
        /\ lpFeeCredit[u] \in Nat
    BY DEF LpTypeOK
  <1>2. Accumulated(u) \in Nat
    BY <1>1, ScaleAssumption, MulDivNat DEF Accumulated
  <1> QED
    BY <1>1, <1>2 DEF Accrued

LEMMA DistributeKeepsType ==
    ASSUME LpTypeOK, NEW fee \in Nat, DistributeLpFee(fee)
    PROVE  /\ LpTypeOK'
           /\ UnattributedFee(fee) \in Nat
           /\ unclaimedLpFees' + UnattributedFee(fee) = unclaimedLpFees + fee
  <1>1. unclaimedLpFees' \in Nat /\ UnattributedFee(fee) \in Nat
        /\ unclaimedLpFees' + UnattributedFee(fee) = unclaimedLpFees + fee
    BY DEF LpTypeOK, DistributeLpFee, UnattributedFee
  <1>2. feePerShare' \in Nat
    <2>1. CASE totalLpShares = 0
      BY <2>1 DEF LpTypeOK, DistributeLpFee
    <2>2. CASE totalLpShares # 0
      <3>1. MulDiv(fee, FEE_SCALE, totalLpShares) \in Nat
        BY <2>2, ScaleAssumption, MulDivNat DEF LpTypeOK
      <3> QED
        BY <2>2, <3>1 DEF LpTypeOK, DistributeLpFee
    <2> QED
      BY <2>1, <2>2
  <1> QED
    BY <1>1, <1>2 DEF LpTypeOK, DistributeLpFee

LEMMA MintKeepsType ==
    ASSUME LpTypeOK, NEW u \in Users, NEW shares \in Nat, MintShares(u, shares)
    PROVE  LpTypeOK' /\ unclaimedLpFees' = unclaimedLpFees
  <1>1. Accrued(u) \in Nat
    BY AccruedNat
  <1>2. lpSharesOf[u] + shares \in Nat /\ feePerShare \in Nat
    BY DEF LpTypeOK
  <1>3. MulDiv(lpSharesOf[u] + shares, feePerShare, FEE_SCALE) \in Nat
    BY <1>2, ScaleAssumption, MulDivNat
  <1> QED
    BY <1>1, <1>2, <1>3 DEF LpTypeOK, MintShares

LEMMA BurnKeepsType ==
    ASSUME LpTypeOK, NEW u \in Users, BurnShares(u)
    PROVE  LpTypeOK' /\ unclaimedLpFees' = unclaimedLpFees
  <1>1. Accrued(u) \in Nat
    BY AccruedNat
  <1>2. totalLpShares' \in Nat
    BY DEF LpTypeOK, BurnShares
  <1> QED
    BY <1>1, <1>2 DEF LpTypeOK, BurnShares

LEMMA CollectKeepsType ==
    ASSUME LpTypeOK, NEW u \in Users, CollectFees(u)
    PROVE  LpTypeOK' /\ unclaimedLpFees' + Accrued(u) = unclaimedLpFees
  <1>1. Accrued(u) \in Nat /\ Accumulated(u) \in Nat
    BY AccruedNat
  <1>2. unclaimedLpFees' \in Nat /\ unclaimedLpFees' + Accrued(u) = unclaimedLpFees
    BY <1>1 DEF LpTypeOK, CollectFees
  <1> QED
    BY <1>1, <1>2 DEF LpTypeOK, CollectFees

===============================================================================
