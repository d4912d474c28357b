-------------------------- MODULE VectorizeProofs --------------------------
(***************************************************************************)
(* What vectorize and quantize promise of every request, all normalization *)
(* constants that are positive and every table of risks.                   *)
(***************************************************************************)
EXTENDS Vectorize, TLAPS

Pairs == Int \X Nat

----------------------------------------------------------------------------
(* f32 operations                                                          *)

\* A number of the model is a pair.
LEMMA FloatType ==
    ASSUME NEW f \in Pairs
    PROVE  f[1] \in Int /\ f[2] \in Nat /\ f = <<f[1], f[2]>>
BY DEF Pairs

\* A product of which one factor is positive.
LEMMA Product ==
    ASSUME NEW a \in Int, NEW b \in Nat \ {0}
    PROVE  /\ a * b \in Int
           /\ a * b = 0 <=> a = 0
           /\ a * b < 0 <=> a < 0
           /\ a \in Nat => a * b \in Nat
OBVIOUS

\* Division by a positive finite number: no NaN comes from it, and none is lost.
LEMMA DivPositive ==
    ASSUME NEW a \in Pairs, NEW b \in Pairs, b[1] > 0, b[2] > 0
    PROVE  /\ Div(a, b) = <<a[1] * b[2], a[2] * b[1]>>
           /\ Div(a, b) \in Pairs
           /\ IsNaN(Div(a, b)) <=> IsNaN(a)
           /\ Div(a, b)[1] < 0 <=> a[1] < 0
           /\ Div(a, b)[1] = 0 <=> a[1] = 0
           /\ Div(a, b)[2] = 0 <=> a[2] = 0
<1> DEFINE n == a[1] * b[2]
           d == a[2] * b[1]
<1>1. /\ a[1] \in Int /\ a[2] \in Nat /\ a[2] \in Int
      /\ b[1] \in Nat \ {0} /\ b[2] \in Nat \ {0}
  BY DEF Pairs
<1>2. n \in Int /\ (n = 0 <=> a[1] = 0) /\ (n < 0 <=> a[1] < 0)
  BY <1>1, Product
<1>3. d \in Nat /\ (d = 0 <=> a[2] = 0)
  BY <1>1, Product
<1>4. Div(a, b) = <<n, d>>
  <2>1. ~ (b[1] < 0)
    BY <1>1
  <2> QED BY <2>1 DEF Div
<1> HIDE DEF n, d
<1>5. <<n, d>> \in Pairs /\ <<n, d>>[1] = n /\ <<n, d>>[2] = d
  BY <1>2, <1>3 DEF Pairs
<1> QED BY <1>2, <1>3, <1>4, <1>5 DEF IsNaN, n, d

\* Division by a positive number that may be infinite: a NaN is infinity by infinity.
LEMMA DivAmounts ==
    ASSUME NEW a \in Floats, NEW b \in Floats, b[1] > 0
    PROVE  /\ Div(a, b) \in Pairs
           /\ IsNaN(Div(a, b)) => IsInfinite(a) /\ IsInfinite(b)
<1> DEFINE n == a[1] * b[2]
           d == a[2] * b[1]
<1>1. /\ a[1] \in Int /\ a[2] \in Nat /\ a[2] \in Int /\ ~ IsNaN(a)
      /\ b[1] \in Nat \ {0} /\ b[2] \in Nat
  BY DEF Floats
<1>2. d \in Nat /\ (d = 0 <=> a[2] = 0)
  BY <1>1, Product
<1>3. n \in Int /\ (b[2] # 0 => (n = 0 <=> a[1] = 0))
  BY <1>1, Product
<1>4. Div(a, b) = <<n, d>>
  <2>1. ~ (b[1] < 0)
    BY <1>1
  <2> QED BY <2>1 DEF Div
<1> HIDE DEF n, d
<1>5. <<n, d>> \in Pairs /\ <<n, d>>[1] = n /\ <<n, d>>[2] = d
  BY <1>2, <1>3 DEF Pairs
<1>6. ASSUME n = 0, d = 0
      PROVE  IsInfinite(a) /\ IsInfinite(b)
  BY <1>1, <1>2, <1>3, <1>6 DEF IsNaN, IsInfinite
<1> QED BY <1>4, <1>5, <1>6 DEF IsNaN

\* clamp: into 0 .. 1, and only a NaN stays one.
LEMMA ClampType ==
    ASSUME NEW f \in Pairs
    PROVE  /\ clamp(f) \in Pairs
           /\ clamp(f)[1] \in 0 .. clamp(f)[2]
           /\ IsNaN(clamp(f)) => IsNaN(f)
<1>1. f[1] \in Int /\ f[2] \in Nat
  BY FloatType
<1>2. CASE f[1] < 0
  <2>1. clamp(f) = <<0, 1>>
    BY <1>2 DEF clamp
  <2> QED BY <2>1 DEF Pairs, IsNaN
<1>3. CASE ~ (f[1] < 0) /\ f[1] > f[2]
  <2>1. clamp(f) = <<1, 1>>
    BY <1>3 DEF clamp
  <2> QED BY <2>1 DEF Pairs, IsNaN
<1>4. CASE ~ (f[1] < 0) /\ ~ (f[1] > f[2])
  <2>1. clamp(f) = f
    BY <1>4 DEF clamp
  <2> QED BY <1>1, <1>4, <2>1
<1> QED BY <1>2, <1>3, <1>4

\* Rounding a share of 127 stays within 0 .. 127.
LEMMA RoundBound ==
    ASSUME NEW n \in Nat, NEW d \in Nat \ {0}, n <= d
    PROVE  (2 * (127 * n) + d) \div (2 * d) \in 0 .. 127
<1> DEFINE a == 2 * (127 * n) + d
           b == 2 * d
           q == a \div b
<1>1. a \in Nat /\ b \in Nat \ {0} /\ a <= 255 * d
  OBVIOUS
<1>2. q \in Int /\ b * q <= a /\ a < b * q + b
  BY <1>1
<1>3. q >= 0
  BY <1>1, <1>2
<1>4. q <= 127
  BY <1>1, <1>2
<1> QED BY <1>2, <1>3, <1>4

\* quantize never gives -128, whatever it gets, and nothing negative of what is not.
LEMMA QuantizeType ==
    ASSUME NEW f \in Pairs
    PROVE  quantize(f) \in -127 .. 127 /\ (f[1] >= 0 => quantize(f) \in 0 .. 127)
<1> DEFINE n == f[1]
           d == f[2]
<1>1. n \in Int /\ d \in Nat
  BY FloatType
<1>2. CASE n > d
  BY <1>1, <1>2 DEF quantize
<1>3. CASE ~ (n > d) /\ n < -d
  BY <1>1, <1>3 DEF quantize
<1>4. CASE ~ (n > d) /\ ~ (n < -d) /\ d = 0
  BY <1>1, <1>4 DEF quantize
<1>5. CASE ~ (n > d) /\ ~ (n < -d) /\ d # 0
  <2>1. quantize(f) = Round(127 * n, d)
    BY <1>5 DEF quantize
  <2>2. CASE n >= 0
    <3>1. n \in Nat /\ d \in Nat \ {0} /\ n <= d /\ 127 * n >= 0
      BY <1>1, <1>5, <2>2
    <3> HIDE DEF n, d
    <3>2. Round(127 * n, d) = (2 * (127 * n) + d) \div (2 * d)
      BY <3>1 DEF Round
    <3>3. Round(127 * n, d) \in 0 .. 127
      BY <3>1, <3>2, RoundBound
    <3> QED BY <2>1, <3>3
  <2>3. CASE n < 0
    <3>1. -n \in Nat /\ d \in Nat \ {0} /\ -n <= d /\ ~ (127 * n >= 0) /\ -(127 * n) = 127 * (-n)
      BY <1>1, <1>5, <2>3
    <3> DEFINE q == (2 * (127 * (-n)) + d) \div (2 * d)
    <3>2. q \in 0 .. 127
      BY <3>1, RoundBound
    <3>3. Round(127 * n, d) = -q
      BY <3>1 DEF Round
    <3> HIDE DEF q
    <3>4. -q \in -127 .. 127
      BY <3>2
    <3> QED BY <1>1, <2>1, <2>3, <3>3, <3>4
  <2> QED BY <1>1, <2>2, <2>3
<1> QED BY <1>2, <1>3, <1>4, <1>5

\* The sentinel -1.0 is one full scale below zero.
LEMMA SentinelQuantized == quantize(Finite(-1)) = -127
BY DEF quantize, Finite, Round

----------------------------------------------------------------------------
(* The vector                                                              *)

\* The normalization constants are finite and positive.
LEMMA NormPositive ==
    \A x \in {"max_amount", "max_installments", "amount_vs_avg_ratio", "max_minutes",
              "max_km", "max_tx_count_24h", "max_merchant_avg_amount"} :
        norm[x] \in Pairs /\ norm[x][1] > 0 /\ norm[x][2] > 0
BY RequestsAssumption DEF Positive, Floats, Pairs

\* The numbers of a request are pairs, and none is NaN: JSON has none.
LEMMA FloatsArePairs == \A f \in Floats : f \in Pairs /\ ~ IsNaN(f)
BY DEF Floats, Pairs

\* A feature that is one clamped division.
LEMMA Feature ==
    ASSUME NEW f \in Pairs, ~ IsNaN(f),
           NEW x \in {"max_amount", "max_installments", "amount_vs_avg_ratio", "max_minutes",
                      "max_km", "max_tx_count_24h", "max_merchant_avg_amount"}
    PROVE  LET c == clamp(Div(f, norm[x]))
           IN  c \in Pairs /\ c[1] \in 0 .. c[2] /\ ~ IsNaN(c)
<1>1. norm[x] \in Pairs /\ norm[x][1] > 0 /\ norm[x][2] > 0
  BY NormPositive
<1>2. Div(f, norm[x]) \in Pairs /\ ~ IsNaN(Div(f, norm[x]))
  BY <1>1, DivPositive
<1> QED BY <1>2, ClampType

\* An integer as f32.
LEMMA FiniteType == \A k \in Int : Finite(k) \in Pairs /\ ~ IsNaN(Finite(k)) /\ Finite(k)[1] = k
                                   /\ Finite(k)[2] = 1
BY DEF Finite, Pairs, IsNaN

\* What the assumption on requests says of their fields.
LEMMA RequestType ==
    ASSUME NEW r \in Requests
    PROVE  /\ r.amount \in Floats /\ r.avg_amount \in Floats /\ r.merchant_avg \in Floats
           /\ r.km_from_home \in Floats
           /\ r.installments \in Int /\ r.tx_count_24h \in Int
           /\ r.is_online \in BOOLEAN /\ r.card_present \in BOOLEAN
           /\ IsTimestamp(r.requested_at)
           /\ r.last_tx # None =>
                 IsTimestamp(r.last_tx.timestamp) /\ r.last_tx.km_from_current \in Floats
BY RequestsAssumption DEF IsRequest

\* A good feature: a pair between 0 and 1 and no NaN.
Good(f) == f \in Pairs /\ f[1] \in 0 .. f[2] /\ ~ IsNaN(f)

\* Instants are integers, the epoch that stands for an unreadable one included.
LEMMA TimesType ==
    ASSUME NEW r \in Requests
    PROVE  /\ naive_utc(tx_time(r)) \in Int
           /\ r.last_tx # None => naive_utc(last_time(r)) \in Int
<1>1. r.requested_at.local \in Int /\ r.requested_at.offset \in Int
  BY RequestType DEF IsTimestamp
<1>2. tx_time(r).local \in Int /\ tx_time(r).offset \in Int
  BY <1>1 DEF tx_time, Epoch
<1>3. ASSUME r.last_tx # None
      PROVE  last_time(r).local \in Int /\ last_time(r).offset \in Int
  <2>1. r.last_tx.timestamp.local \in Int /\ r.last_tx.timestamp.offset \in Int
    BY <1>3, RequestType DEF IsTimestamp
  <2> QED BY <1>2, <2>1 DEF last_time
<1> QED BY <1>2, <1>3 DEF naive_utc

\* Hour and weekday are within 0 .. 23 and 0 .. 6.
LEMMA TimeFeatures ==
    ASSUME NEW r \in Requests
    PROVE  /\ Good(<<hour(naive_utc(tx_time(r))), 23>>)
           /\ Good(<<num_days_from_monday(naive_utc(tx_time(r))), 6>>)
<1> DEFINE t == naive_utc(tx_time(r))
<1>1. t \in Int
  BY TimesType
<1> HIDE DEF t
<1>2. hour(t) \in 0 .. 23 /\ num_days_from_monday(t) \in 0 .. 6
  BY <1>1 DEF hour, num_days_from_monday
<1>3. \A k \in 0 .. 23 : Good(<<k, 23>>)
  BY DEF Good, Pairs, IsNaN
<1>4. \A k \in 0 .. 6 : Good(<<k, 6>>)
  BY DEF Good, Pairs, IsNaN
<1> QED BY <1>2, <1>3, <1>4 DEF t

\* The minutes since the prior transaction are a finite number.
LEMMA MinutesType ==
    ASSUME NEW r \in Requests, r.last_tx # None
    PROVE  Minutes(r) \in Pairs /\ ~ IsNaN(Minutes(r)) /\ Minutes(r)[2] = 60
<1> DEFINE s == naive_utc(tx_time(r)) - naive_utc(last_time(r))
<1>1. s \in Int
  BY TimesType
<1> HIDE DEF s
<1>2. num_seconds(s) \in Int
  BY <1>1 DEF num_seconds
<1>3. Minutes(r) = <<num_seconds(s), 60>>
  BY DEF Minutes, s
<1> QED BY <1>2, <1>3 DEF Pairs, IsNaN

\* Dims 5 and 6: within the scale with a prior transaction, the sentinel without.
LEMMA RecencyType ==
    ASSUME NEW r \in Requests
    PROVE  /\ r.last_tx = None => Recency(r)[1] = Finite(-1) /\ Recency(r)[2] = Finite(-1)
           /\ r.last_tx # None => Good(Recency(r)[1]) /\ Good(Recency(r)[2])
<1>1. CASE r.last_tx = None
  BY <1>1 DEF Recency
<1>2. CASE r.last_tx # None
  <2>1. /\ Recency(r)[1] = clamp(Div(Minutes(r), norm.max_minutes))
        /\ Recency(r)[2] = clamp(Div(r.last_tx.km_from_current, norm.max_km))
    BY <1>2 DEF Recency
  <2>2. Good(clamp(Div(Minutes(r), norm["max_minutes"])))
    BY <1>2, MinutesType, Feature DEF Good
  <2>3. r.last_tx.km_from_current \in Pairs /\ ~ IsNaN(r.last_tx.km_from_current)
    BY <1>2, RequestType, FloatsArePairs
  <2>4. Good(clamp(Div(r.last_tx.km_from_current, norm["max_km"])))
    BY <2>3, Feature DEF Good
  <2> QED BY <1>2, <2>1, <2>2, <2>4
<1> QED BY <1>1, <1>2

\* Dim 2: within the scale, or a NaN when both amounts overflow.
LEMMA AmountVsAvgType ==
    ASSUME NEW r \in Requests
    PROVE  LET f == AmountVsAvg(r)
           IN  /\ f \in Pairs /\ f[1] \in 0 .. f[2]
               /\ IsNaN(f) => IsInfinite(r.amount) /\ IsInfinite(r.avg_amount)
<1>0. r.amount \in Floats /\ r.avg_amount \in Floats
  BY RequestType
<1>1. CASE r.avg_amount[1] > 0
  <2> DEFINE a == Div(r.amount, r.avg_amount)
             c == Div(a, norm["amount_vs_avg_ratio"])
  <2>1. a \in Pairs /\ (IsNaN(a) => IsInfinite(r.amount) /\ IsInfinite(r.avg_amount))
    BY <1>0, <1>1, DivAmounts
  <2>2. AmountVsAvg(r) = clamp(c)
    BY <1>1 DEF AmountVsAvg
  <2> HIDE DEF a
  <2>3. c \in Pairs /\ (IsNaN(c) <=> IsNaN(a))
    BY <2>1, NormPositive, DivPositive
  <2> HIDE DEF c
  <2>4. clamp(c) \in Pairs /\ clamp(c)[1] \in 0 .. clamp(c)[2] /\ (IsNaN(clamp(c)) => IsNaN(c))
    BY <2>3, ClampType
  <2> QED BY <2>1, <2>2, <2>3, <2>4
<1>2. CASE ~ (r.avg_amount[1] > 0)
  <2>1. AmountVsAvg(r) = Finite(0)
    BY <1>2 DEF AmountVsAvg
  <2> QED BY <2>1, FiniteType
<1> QED BY <1>1, <1>2

\* The fourteen features of a request.
LEMMA Components ==
    ASSUME NEW r \in Requests
    PROVE  /\ \A i \in 1 .. 14 \ {3, 6, 7, 13} : Good(vectorize(r)[i])
           /\ vectorize(r)[3] = AmountVsAvg(r)
           /\ vectorize(r)[6] = Recency(r)[1] /\ vectorize(r)[7] = Recency(r)[2]
           /\ vectorize(r)[13] = MccRisk(r)
           /\ vectorize(r) \in [1 .. 14 -> Pairs]
<1>1. /\ r.amount \in Pairs /\ ~ IsNaN(r.amount)
      /\ r.km_from_home \in Pairs /\ ~ IsNaN(r.km_from_home)
      /\ r.merchant_avg \in Pairs /\ ~ IsNaN(r.merchant_avg)
  BY RequestType, FloatsArePairs
<1>2. /\ Finite(r.installments) \in Pairs /\ ~ IsNaN(Finite(r.installments))
      /\ Finite(r.tx_count_24h) \in Pairs /\ ~ IsNaN(Finite(r.tx_count_24h))
  BY RequestType, FiniteType
<1>3. \A b \in BOOLEAN : Good(bool_f(b))
  BY FiniteType DEF bool_f, Good
<1>4. Good(clamp(Div(r.amount, norm.max_amount)))
  BY <1>1, Feature DEF Good
<1>5. Good(clamp(Div(Finite(r.installments), norm.max_installments)))
  BY <1>2, Feature DEF Good
<1>6. Good(clamp(Div(r.km_from_home, norm.max_km)))
  BY <1>1, Feature DEF Good
<1>7. Good(clamp(Div(Finite(r.tx_count_24h), norm.max_tx_count_24h)))
  BY <1>2, Feature DEF Good
<1>8. Good(clamp(Div(r.merchant_avg, norm.max_merchant_avg_amount)))
  BY <1>1, Feature DEF Good
<1>9. /\ Good(bool_f(r.is_online)) /\ Good(bool_f(r.card_present))
      /\ Good(bool_f(r.merchant \notin r.known_merchants))
  BY <1>3, RequestType
<1>10. MccRisk(r) \in Pairs
  BY RequestsAssumption, FloatsArePairs DEF MccRisk, Pairs
<1>11. Recency(r)[1] \in Pairs /\ Recency(r)[2] \in Pairs
  BY RecencyType, FiniteType DEF Good
<1>12. AmountVsAvg(r) \in Pairs
  BY AmountVsAvgType
<1> DEFINE f1 == clamp(Div(r.amount, norm.max_amount))
           f2 == clamp(Div(Finite(r.installments), norm.max_installments))
           f3 == AmountVsAvg(r)
           f4 == <<hour(naive_utc(tx_time(r))), 23>>
           f5 == <<num_days_from_monday(naive_utc(tx_time(r))), 6>>
           f6 == Recency(r)[1]
           f7 == Recency(r)[2]
           f8 == clamp(Div(r.km_from_home, norm.max_km))
           f9 == clamp(Div(Finite(r.tx_count_24h), norm.max_tx_count_24h))
           f10 == bool_f(r.is_online)
           f11 == bool_f(r.card_present)
           f12 == bool_f(r.merchant \notin r.known_merchants)
           f13 == MccRisk(r)
           f14 == clamp(Div(r.merchant_avg, norm.max_merchant_avg_amount))
<1>13. vectorize(r) = <<f1, f2, f3, f4, f5, f6, f7, f8, f9, f10, f11, f12, f13, f14>>
  BY DEF vectorize
<1>14. /\ Good(f1) /\ Good(f2) /\ Good(f4) /\ Good(f5) /\ Good(f8) /\ Good(f9) /\ Good(f10)
       /\ Good(f11) /\ Good(f12) /\ Good(f14)
  BY <1>4, <1>5, <1>6, <1>7, <1>8, <1>9, TimeFeatures
<1>15. f3 \in Pairs /\ f6 \in Pairs /\ f7 \in Pairs /\ f13 \in Pairs
  BY <1>10, <1>11, <1>12
<1>16. f3 = AmountVsAvg(r) /\ f6 = Recency(r)[1] /\ f7 = Recency(r)[2] /\ f13 = MccRisk(r)
  OBVIOUS
<1> DEFINE t == <<f1, f2, f3, f4, f5, f6, f7, f8, f9, f10, f11, f12, f13, f14>>
<1> HIDE DEF f1, f2, f3, f4, f5, f6, f7, f8, f9, f10, f11, f12, f13, f14
<1>17. /\ t[1] = f1 /\ t[2] = f2 /\ t[3] = f3 /\ t[4] = f4 /\ t[5] = f5 /\ t[6] = f6
       /\ t[7] = f7 /\ t[8] = f8 /\ t[9] = f9 /\ t[10] = f10 /\ t[11] = f11 /\ t[12] = f12
       /\ t[13] = f13 /\ t[14] = f14
  OBVIOUS
<1>18. \A i \in 1 .. 14 \ {3, 6, 7, 13} : Good(t[i])
  BY <1>14, <1>17
<1>19. t \in [1 .. 14 -> Pairs]
  <2>1. f1 \in Pairs /\ f2 \in Pairs /\ f4 \in Pairs /\ f5 \in Pairs /\ f8 \in Pairs
        /\ f9 \in Pairs /\ f10 \in Pairs /\ f11 \in Pairs /\ f12 \in Pairs /\ f14 \in Pairs
    BY <1>14 DEF Good
  <2> HIDE DEF Pairs
  <2> QED BY <1>15, <2>1
<1> QED BY <1>13, <1>16, <1>17, <1>18, <1>19

----------------------------------------------------------------------------
(* The handler                                                             *)

\* What the handler has computed is what the two functions give for its request.
IInv ==
    /\ pc \in {"parsed", "vectorized", "quantized"}
    /\ req \in Requests
    /\ pc = "parsed" => v = [i \in 1 .. DIMS |-> Finite(0)]
    /\ Vectorized => v = vectorize(req)
    /\ query_i8 = IF pc = "quantized" THEN quantized(v) ELSE [i \in 1 .. DIMS |-> 0]

\* The handler computes what the two functions give for the request it has, and of
\* no other.
THEOREM Invariance == Spec => []IInv
<1>1. Init => IInv
  BY DEF Init, IInv, Vectorized
<1>2. ASSUME IInv, [Next]_vars
      PROVE  IInv'
  <2> USE <1>2 DEF IInv, Vectorized
  <2>1. CASE Receive
    BY <2>1 DEF Receive
  <2>2. CASE Vectorize
    BY <2>2 DEF Vectorize
  <2>3. CASE Quantize
    BY <2>3 DEF Quantize
  <2>4. CASE UNCHANGED vars
    BY <2>4 DEF vars, quantized
  <2> QED BY <2>1, <2>2, <2>3, <2>4 DEF Next
<1> QED BY <1>1, <1>2, PTL DEF Spec

\* The feature vector is in its ranges and the quantized query is off -128.
THEOREM TypeCorrect == Spec => []TypeOK
<1>1. ASSUME IInv
      PROVE  TypeOK
  <2> DEFINE InRange(u) ==
        /\ u \in [1 .. DIMS -> Int \X Nat]
        /\ \A i \in 1 .. DIMS \ {13} :
              u[i][1] \in (IF i \in {6, 7} THEN -u[i][2] ELSE 0) .. u[i][2]
  <2>1. ASSUME NEW r \in Requests
        PROVE  InRange(vectorize(r))
    <3> DEFINE u == vectorize(r)
    <3>1. /\ \A i \in 1 .. 14 \ {3, 6, 7, 13} : Good(u[i])
          /\ u[3] = AmountVsAvg(r) /\ u[6] = Recency(r)[1] /\ u[7] = Recency(r)[2]
          /\ u \in [1 .. 14 -> Pairs]
      BY <2>1, Components
    <3> HIDE DEF u
    <3>2. u[3][1] \in 0 .. u[3][2]
      BY <2>1, <3>1, AmountVsAvgType
    <3>3. \A i \in {6, 7} : u[i][1] \in -u[i][2] .. u[i][2]
      <4>1. CASE r.last_tx = None
        <5>1. u[6] = Finite(-1) /\ u[7] = Finite(-1)
          BY <2>1, <3>1, <4>1, RecencyType
        <5> QED BY <5>1 DEF Finite
      <4>2. CASE r.last_tx # None
        <5>1. \A i \in {6, 7} : Good(u[i])
          BY <2>1, <3>1, <4>2, RecencyType
        <5>2. \A f : Good(f) => f[1] \in -f[2] .. f[2]
          BY DEF Good, Pairs
        <5> QED BY <5>1, <5>2
      <4> QED BY <4>1, <4>2
    <3>4. \A i \in 1 .. 14 \ {3, 6, 7, 13} : u[i][1] \in 0 .. u[i][2]
      BY <3>1 DEF Good
    <3>5. \A i \in 1 .. 14 \ {13} : u[i][1] \in (IF i \in {6, 7} THEN -u[i][2] ELSE 0) .. u[i][2]
      BY <3>2, <3>3, <3>4
    <3> QED BY <3>1, <3>5 DEF DIMS, Pairs, u
  <2>2. InRange([i \in 1 .. DIMS |-> Finite(0)])
    BY DEF Finite, DIMS
  <2>3. InRange(v)
    BY <1>1, <2>1, <2>2 DEF IInv, Vectorized
  <2>4. query_i8 \in [1 .. DIMS -> -127 .. 127]
    <3>1. \A i \in 1 .. DIMS : quantize(v[i]) \in -127 .. 127
      BY <2>3, QuantizeType DEF Pairs
    <3>2. quantized(v) \in [1 .. DIMS -> -127 .. 127]
      BY <3>1 DEF quantized
    <3>3. [i \in 1 .. DIMS |-> 0] \in [1 .. DIMS -> -127 .. 127]
      OBVIOUS
    <3> QED BY <1>1, <3>2, <3>3 DEF IInv
  <2> QED BY <1>1, <2>3, <2>4 DEF IInv, TypeOK
<1> QED BY Invariance, <1>1, PTL

\* A NaN enters the vector in dimension 2 only, when both amounts overflow f32.
THEOREM NaNsOnlyFromOverflow == Spec => []NaNOnlyFromOverflow
<1>1. ASSUME IInv, Vectorized, NEW i \in 1 .. DIMS, IsNaN(v[i])
      PROVE  i = 3 /\ IsInfinite(req.amount) /\ IsInfinite(req.avg_amount)
  <2>1. v = vectorize(req) /\ req \in Requests
    BY <1>1 DEF IInv
  <2>2. i \notin 1 .. 14 \ {3, 6, 7, 13}
    BY <1>1, <2>1, Components DEF Good
  <2>3. ~ IsNaN(v[13])
    <3>1. v[13] = MccRisk(req)
      BY <2>1, Components
    <3>2. ~ IsNaN(<<1, 2>>)
      BY DEF IsNaN
    <3>3. MccRisk(req) \in Floats \/ MccRisk(req) = <<1, 2>>
      BY RequestsAssumption DEF MccRisk
    <3> QED BY <3>1, <3>2, <3>3, FloatsArePairs
  <2>4. ~ IsNaN(v[6]) /\ ~ IsNaN(v[7])
    <3>1. v[6] = Recency(req)[1] /\ v[7] = Recency(req)[2]
      BY <2>1, Components
    <3>2. ~ IsNaN(Finite(-1))
      BY FiniteType
    <3> QED BY <2>1, <3>1, <3>2, RecencyType DEF Good
  <2>5. i = 3
    BY <1>1, <2>2, <2>3, <2>4 DEF DIMS
  <2>6. IsNaN(AmountVsAvg(req))
    BY <1>1, <2>1, <2>5, Components
  <2> QED BY <2>1, <2>5, <2>6, AmountVsAvgType
<1>2. IInv => NaNOnlyFromOverflow
  BY <1>1 DEF NaNOnlyFromOverflow
<1> QED BY Invariance, <1>2, PTL

\* Two full scales in two dimensions, whatever the others are.
LEMMA FarApart ==
    ASSUME NEW s \in [1 .. 14 -> -127 .. 127], NEW q \in [1 .. 14 -> -127 .. 127],
           \A i \in {6, 7} : s[i] - q[i] >= 127 \/ s[i] - q[i] <= -127
    PROVE  dist_int8(s, q) >= 2 * 127 * 127
<1> DEFINE sq(i) == (s[i] - q[i]) * (s[i] - q[i])
<1>1. \A i \in 1 .. 14 : s[i] - q[i] \in Int
  <2>1. \A i \in 1 .. 14 : s[i] \in -127 .. 127 /\ q[i] \in -127 .. 127
    OBVIOUS
  <2>2. \A x, y \in -127 .. 127 : x - y \in Int
    OBVIOUS
  <2> QED BY <2>1, <2>2
<1>2. \A x \in Int : x * x \in Nat /\ (x >= 127 \/ x <= -127 => x * x >= 127 * 127)
  <2> SUFFICES ASSUME NEW x \in Int
               PROVE  x * x \in Nat /\ (x >= 127 \/ x <= -127 => x * x >= 127 * 127)
    OBVIOUS
  <2>1. CASE x >= 0
    BY <2>1
  <2>2. CASE x < 0
    BY <2>2
  <2> QED BY <2>1, <2>2
<1>3. \A i \in 1 .. 14 : sq(i) \in Nat
  BY <1>1, <1>2
<1>4. sq(6) >= 127 * 127 /\ sq(7) >= 127 * 127
  <2>1. /\ s[6] - q[6] \in Int /\ (s[6] - q[6] >= 127 \/ s[6] - q[6] <= -127)
        /\ s[7] - q[7] \in Int /\ (s[7] - q[7] >= 127 \/ s[7] - q[7] <= -127)
    BY <1>1
  <2> QED BY <1>2, <2>1
<1>5. dist_int8(s, q) = sq(1) + sq(2) + sq(3) + sq(4) + sq(5) + sq(6) + sq(7)
        + sq(8) + sq(9) + sq(10) + sq(11) + sq(12) + sq(13) + sq(14)
  BY DEF dist_int8
<1> HIDE DEF sq
<1> QED BY <1>3, <1>4, <1>5

\* A request without a prior transaction and one with: two full scales apart.
THEOREM HistoriesStandApart == Spec => []NoHistoryStandsApart
<1>1. ASSUME NEW r \in Requests
      PROVE  /\ quantized(vectorize(r)) \in [1 .. 14 -> -127 .. 127]
             /\ quantized(vectorize(r))[6] = quantize(Recency(r)[1])
             /\ quantized(vectorize(r))[7] = quantize(Recency(r)[2])
  <2>1. /\ vectorize(r) \in [1 .. 14 -> Pairs]
        /\ vectorize(r)[6] = Recency(r)[1] /\ vectorize(r)[7] = Recency(r)[2]
    BY <1>1, Components
  <2>2. \A i \in 1 .. 14 : quantize(vectorize(r)[i]) \in -127 .. 127
    BY <2>1, QuantizeType
  <2>3. quantized(vectorize(r)) = [i \in 1 .. 14 |-> quantize(vectorize(r)[i])]
    BY DEF quantized, DIMS
  <2>4. \A i \in 1 .. 14 : quantized(vectorize(r))[i] = quantize(vectorize(r)[i])
    BY <2>3
  <2>5. quantized(vectorize(r)) \in [1 .. 14 -> -127 .. 127]
    BY <2>2, <2>3
  <2>6. 6 \in 1 .. 14 /\ 7 \in 1 .. 14
    OBVIOUS
  <2> QED BY <2>1, <2>4, <2>5, <2>6
<1>2. ASSUME NEW r \in Requests, r.last_tx = None
      PROVE  \A i \in {6, 7} : quantized(vectorize(r))[i] = -127
  <2>1. quantize(Recency(r)[1]) = -127 /\ quantize(Recency(r)[2]) = -127
    BY <1>2, RecencyType, SentinelQuantized
  <2> QED BY <1>1, <1>2, <2>1
<1>3. ASSUME NEW r \in Requests, r.last_tx # None
      PROVE  \A i \in {6, 7} : quantized(vectorize(r))[i] \in 0 .. 127
  <2>1. Good(Recency(r)[1]) /\ Good(Recency(r)[2])
    BY <1>3, RecencyType
  <2>2. \A f : Good(f) => quantize(f) \in 0 .. 127
    BY QuantizeType DEF Good
  <2>3. quantize(Recency(r)[1]) \in 0 .. 127 /\ quantize(Recency(r)[2]) \in 0 .. 127
    BY <2>1, <2>2
  <2> QED BY <1>1, <1>3, <2>3
<1>4. ASSUME IInv, pc = "quantized", NEW r \in Requests, (r.last_tx = None) # (req.last_tx = None)
      PROVE  dist_int8(quantized(vectorize(r)), query_i8) >= 2 * 127 * 127
  <2>1. query_i8 = quantized(vectorize(req)) /\ req \in Requests
    BY <1>4 DEF IInv, Vectorized
  <2> DEFINE s == quantized(vectorize(r))
             q == quantized(vectorize(req))
  <2>2. s \in [1 .. 14 -> -127 .. 127] /\ q \in [1 .. 14 -> -127 .. 127]
    BY <1>1, <1>4, <2>1
  <2>3. \/ \A i \in {6, 7} : s[i] = -127 /\ q[i] \in 0 .. 127
        \/ \A i \in {6, 7} : q[i] = -127 /\ s[i] \in 0 .. 127
    <3>1. CASE r.last_tx = None
      BY <1>2, <1>3, <1>4, <2>1, <3>1
    <3>2. CASE r.last_tx # None
      BY <1>2, <1>3, <1>4, <2>1, <3>2
    <3> QED BY <3>1, <3>2
  <2> HIDE DEF s, q
  <2>4. \A i \in {6, 7} : s[i] - q[i] >= 127 \/ s[i] - q[i] <= -127
    BY <2>3
  <2>5. dist_int8(s, q) >= 2 * 127 * 127
    BY <2>2, <2>4, FarApart
  <2> QED BY <2>1, <2>5 DEF s, q
<1>5. IInv => NoHistoryStandsApart
  BY <1>4 DEF NoHistoryStandsApart
<1> QED BY Invariance, <1>5, PTL

\* The vector is a function of the instants, not of the offsets they are written with.
THEOREM OffsetsImmaterial == Spec => []OffsetImmaterial
<1>1. ASSUME NEW r \in Requests, NEW s \in Requests, SameButOffsets(r, s)
      PROVE  vectorize(r) = vectorize(s)
  <2>1. \A x \in {"amount", "installments", "avg_amount", "tx_count_24h", "known_merchants",
                  "merchant", "mcc", "merchant_avg", "is_online", "card_present",
                  "km_from_home"} : r[x] = s[x]
    BY <1>1, RequestsAssumption DEF SameButOffsets, IsRequest
  <2>2. naive_utc(tx_time(r)) = naive_utc(tx_time(s))
    BY <1>1 DEF SameButOffsets, SameInstant, naive_utc, tx_time
  <2>3. Recency(r) = Recency(s)
    <3>1. CASE r.last_tx = None
      <4>1. s.last_tx = None
        BY <1>1, <3>1 DEF SameButOffsets
      <4> QED BY <3>1, <4>1 DEF Recency
    <3>2. CASE r.last_tx # None
      <4>1. /\ s.last_tx # None
            /\ SameInstant(r.last_tx.timestamp, s.last_tx.timestamp)
            /\ r.last_tx.km_from_current = s.last_tx.km_from_current
        BY <1>1, <3>2 DEF SameButOffsets
      <4>2. r.last_tx.timestamp.ok \in BOOLEAN /\ s.last_tx.timestamp.ok \in BOOLEAN
        BY <3>2, <4>1, RequestType DEF IsTimestamp
      <4>3. naive_utc(last_time(r)) = naive_utc(last_time(s))
        <5>1. CASE r.last_tx.timestamp.ok
          BY <4>1, <4>2, <5>1 DEF SameInstant, naive_utc, last_time
        <5>2. CASE ~ r.last_tx.timestamp.ok
          <6>1. last_time(r) = tx_time(r) /\ last_time(s) = tx_time(s)
            BY <4>1, <4>2, <5>2 DEF SameInstant, last_time
          <6> QED BY <2>2, <6>1
        <5> QED BY <5>1, <5>2
      <4>4. Minutes(r) = Minutes(s)
        BY <2>2, <4>3 DEF Minutes
      <4> QED BY <3>2, <4>1, <4>4 DEF Recency
    <3> QED BY <3>1, <3>2
  <2>4. AmountVsAvg(r) = AmountVsAvg(s) /\ MccRisk(r) = MccRisk(s)
    BY <2>1 DEF AmountVsAvg, MccRisk
  <2> QED BY <2>1, <2>2, <2>3, <2>4 DEF vectorize
<1>2. IInv => OffsetImmaterial
  BY <1>1 DEF IInv, OffsetImmaterial
<1> QED BY Invariance, <1>2, PTL

\* A timestamp that does not parse, on either side, makes the prior transaction recent.
THEOREM UnreadablesMeanRecent == Spec => []UnreadableMeansRecent
<1>1. ASSUME IInv, Vectorized, req.last_tx # None,
             \/ ~ req.last_tx.timestamp.ok
             \/ ~ req.requested_at.ok /\ naive_utc(req.last_tx.timestamp) >= 0
      PROVE  IsZero(v[6])
  <2>1. v = vectorize(req) /\ req \in Requests
    BY <1>1 DEF IInv
  <2>2. v[6] = clamp(Div(Minutes(req), norm.max_minutes))
    <3>1. Recency(req)[1] = clamp(Div(Minutes(req), norm.max_minutes))
      BY <1>1 DEF Recency
    <3> QED BY <2>1, <3>1, Components
  <2> DEFINE gap == naive_utc(tx_time(req)) - naive_utc(last_time(req))
  <2>3. gap \in Int /\ gap <= 0
    <3>1. naive_utc(tx_time(req)) \in Int /\ naive_utc(last_time(req)) \in Int
      BY <1>1, <2>1, TimesType
    <3>2. CASE ~ req.last_tx.timestamp.ok
      <4>1. last_time(req) = tx_time(req)
        BY <3>2 DEF last_time
      <4> QED BY <3>1, <4>1
    <3>3. CASE req.last_tx.timestamp.ok
      <4>1. naive_utc(tx_time(req)) = 0
        BY <1>1, <3>3 DEF tx_time, Epoch, naive_utc
      <4>2. last_time(req) = req.last_tx.timestamp
        BY <3>3 DEF last_time
      <4>3. naive_utc(last_time(req)) >= 0
        BY <1>1, <3>3, <4>2
      <4> QED BY <3>1, <4>1, <4>3
    <3> QED BY <3>2, <3>3
  <2> HIDE DEF gap
  <2>4. num_seconds(gap) \in Int /\ num_seconds(gap) <= 0
    BY <2>3 DEF num_seconds
  <2>5. Minutes(req) = <<num_seconds(gap), 60>>
    BY DEF Minutes, gap
  <2>6. Minutes(req) \in Pairs /\ Minutes(req)[1] <= 0 /\ Minutes(req)[2] # 0 /\ Minutes(req)[1] \in Int
    BY <2>4, <2>5 DEF Pairs
  <2> DEFINE f == Div(Minutes(req), norm["max_minutes"])
  <2>7. /\ f \in Pairs /\ (f[1] < 0 <=> Minutes(req)[1] < 0) /\ (f[1] = 0 <=> Minutes(req)[1] = 0)
        /\ f[2] # 0
    BY <2>6, NormPositive, DivPositive
  <2> HIDE DEF f
  <2>8. f[1] \in Int /\ f[2] \in Nat
    BY <2>7, FloatType
  <2>9. CASE f[1] < 0
    <3>1. clamp(f) = <<0, 1>>
      BY <2>9 DEF clamp
    <3> QED BY <2>2, <3>1 DEF IsZero, f
  <2>10. CASE ~ (f[1] < 0)
    <3>1. f[1] = 0
      BY <2>6, <2>7, <2>8, <2>10
    <3>2. clamp(f) = f
      BY <2>8, <3>1 DEF clamp
    <3> QED BY <2>2, <2>7, <3>1, <3>2 DEF IsZero, f
  <2> QED BY <2>9, <2>10
<1>2. IInv => UnreadableMeansRecent
  BY <1>1 DEF UnreadableMeansRecent
<1> QED BY Invariance, <1>2, PTL
=============================================================================
