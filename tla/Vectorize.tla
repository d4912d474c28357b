----------------------------- MODULE Vectorize -----------------------------
(***************************************************************************)
(* From a parsed request to the integer query of the search: vectorize of  *)
(* vectorize.rs, then the quantize loop of Searcher::search, and the       *)
(* distance dist_int8 that the result is compared by.                      *)
(*                                                                         *)
(* An f32 is a pair <<n, d>> with d >= 0 that stands for n/d: <<n, 0>> is  *)
(* an infinity of n's sign and <<0, 0>> is NaN, and the cross products of  *)
(* Div then give what IEEE division gives.  Rounding to 24 bits and the    *)
(* sign of zero are left out.  An instant is a number of milliseconds      *)
(* since the epoch.                                                        *)
(***************************************************************************)
EXTENDS Integers

CONSTANTS
    Requests,  \* the parsed bodies that can arrive
    norm,      \* AppState.norm, the seven constants of normalization.json
    mcc_risk,  \* AppState.mcc_risk, a function from some codes to f32
    None       \* an absent last_transaction

DIMS == 14

Finite(n) == <<n, 1>>
IsNaN(f)      == f[1] = 0 /\ f[2] = 0
IsInfinite(f) == f[1] # 0 /\ f[2] = 0
IsZero(f)     == f[1] = 0 /\ f[2] # 0
Floats == {f \in Int \X Nat : ~ IsNaN(f)} \* what serde_json can produce

\* An RFC 3339 string: local time and offset, or one that does not parse.
IsTimestamp(t) == t \in [ok : BOOLEAN, local : Int, offset : Int]

IsRequest(r) ==
    /\ DOMAIN r = {"amount", "installments", "requested_at", "avg_amount",
                   "tx_count_24h", "known_merchants", "merchant", "mcc",
                   "merchant_avg", "is_online", "card_present",
                   "km_from_home", "last_tx"}
    /\ \A x \in {"amount", "avg_amount", "merchant_avg", "km_from_home"} : r[x] \in Floats
    /\ r.installments \in Int /\ r.tx_count_24h \in Int
    /\ r.is_online \in BOOLEAN /\ r.card_present \in BOOLEAN
    /\ IsTimestamp(r.requested_at)
    /\ r.last_tx # None =>
          IsTimestamp(r.last_tx.timestamp) /\ r.last_tx.km_from_current \in Floats

\* The shipped normalization.json has seven positive constants; serde would
\* accept a zero, and then 0/0 is a NaN.
Positive(f) == f \in Floats /\ f[1] > 0 /\ f[2] > 0

ASSUME RequestsAssumption ==
    /\ Requests # {}
    /\ \A r \in Requests : IsRequest(r)
    /\ DOMAIN norm = {"max_amount", "max_installments", "amount_vs_avg_ratio", "max_minutes",
                      "max_km", "max_tx_count_24h", "max_merchant_avg_amount"}
    /\ \A x \in DOMAIN norm : Positive(norm[x])
    /\ \A c \in DOMAIN mcc_risk : mcc_risk[c] \in Floats

VARIABLES
    pc,      \* where the handler is
    req,     \* its request
    v,       \* vectorize's result
    query_i8 \* Searcher::search's quantized copy

vars == <<pc, req, v, query_i8>>

----------------------------------------------------------------------------
(* f32 operations                                                          *)

Div(a, b) ==
    LET n == a[1] * b[2]
        d == a[2] * b[1]
    IN  IF b[1] < 0 THEN <<-n, -d>> ELSE <<n, d>>

ClampAbove(f) == IF f[1] > f[2] THEN <<1, 1>> ELSE f
\* clamp: NaN passes through, as f32::clamp says.
clamp(f) ==
    IF f[1] < 0 THEN <<0, 1>>
    ELSE IF f[1] > f[2] THEN <<1, 1>>
    ELSE f

bool_f(b) == IF b THEN Finite(1) ELSE Finite(0)

\* f32::round: to nearest, halves away from zero; d > 0.
Round(n, d) ==
    IF n >= 0 THEN (2 * n + d) \div (2 * d) ELSE -((2 * (-n) + d) \div (2 * d))

\* quantize: both comparisons are false of a NaN, and NaN as i8 is 0.
QuantizeUnsigned(f) ==
    IF f[1] > f[2] THEN 127
    ELSE IF f[1] < 0 \/ f[2] = 0 THEN 0
    ELSE Round(127 * f[1], f[2])
quantize(f) ==
    IF f[1] > f[2] THEN 127
    ELSE IF f[1] < -f[2] THEN -127
    ELSE IF f[2] = 0 THEN 0
    ELSE Round(127 * f[1], f[2])

\* dist_int8.  The sum is an i32: at most 14 * 255^2, far from its limit.
dist_int8(stored, query) ==
    LET sq(i) == (stored[i] - query[i]) * (stored[i] - query[i])
    IN  sq(1) + sq(2) + sq(3) + sq(4) + sq(5) + sq(6) + sq(7)
        + sq(8) + sq(9) + sq(10) + sq(11) + sq(12) + sq(13) + sq(14)

----------------------------------------------------------------------------
(* Time                                                                    *)

Epoch == [ok |-> TRUE, local |-> 0, offset |-> 0]

NaiveLocal(t) == t.local
naive_utc(t) == t.local - t.offset

hour(ms) == (ms \div 3600000) % 24
\* The epoch is a Thursday, day 3 counted from Monday.
num_days_from_monday(ms) == (ms \div 86400000 + 3) % 7
\* Duration::num_seconds: towards zero.
num_seconds(ms) == IF ms >= 0 THEN ms \div 1000 ELSE -((-ms) \div 1000)

\* parse_from_rfc3339(requested_at).unwrap_or_else(epoch)
tx_time(r) == IF r.requested_at.ok THEN r.requested_at ELSE Epoch

LastTimeOrEpoch(r) == IF r.last_tx.timestamp.ok THEN r.last_tx.timestamp ELSE Epoch
\* parse_from_rfc3339(last.timestamp).unwrap_or(tx_time)
last_time(r) == IF r.last_tx.timestamp.ok THEN r.last_tx.timestamp ELSE tx_time(r)

Minutes(r) ==
    <<num_seconds(naive_utc(tx_time(r)) - naive_utc(last_time(r))), 60>>

----------------------------------------------------------------------------
(* The features whose rule is more than one division                       *)

AmountVsAvgUnguarded(r) ==
    clamp(Div(Div(r.amount, r.avg_amount), norm.amount_vs_avg_ratio))
\* dim 2: stays 0 when the customer has no positive average.
AmountVsAvg(r) ==
    IF r.avg_amount[1] > 0
    THEN clamp(Div(Div(r.amount, r.avg_amount), norm.amount_vs_avg_ratio))
    ELSE Finite(0)

\* dims 5 and 6: -1 stands for "no prior transaction".
Recency(r) ==
    IF r.last_tx = None
    THEN <<Finite(-1), Finite(-1)>>
    ELSE <<clamp(Div(Minutes(r), norm.max_minutes)),
           clamp(Div(r.last_tx.km_from_current, norm.max_km))>>

MccRisk(r) == IF r.mcc \in DOMAIN mcc_risk THEN mcc_risk[r.mcc] ELSE <<1, 2>>

\* vectorize; dim d of the code is component d + 1.
vectorize(r) ==
    <<clamp(Div(r.amount, norm.max_amount)),
      clamp(Div(Finite(r.installments), norm.max_installments)),
      AmountVsAvg(r),
      <<hour(naive_utc(tx_time(r))), 23>>,
      <<num_days_from_monday(naive_utc(tx_time(r))), 6>>,
      Recency(r)[1],
      Recency(r)[2],
      clamp(Div(r.km_from_home, norm.max_km)),
      clamp(Div(Finite(r.tx_count_24h), norm.max_tx_count_24h)),
      bool_f(r.is_online),
      bool_f(r.card_present),
      bool_f(r.merchant \notin r.known_merchants),
      MccRisk(r),
      clamp(Div(r.merchant_avg, norm.max_merchant_avg_amount))>>

quantized(vec) == [i \in 1 .. DIMS |-> quantize(vec[i])]

----------------------------------------------------------------------------
(* The handler's use of them: one request after the other                  *)

Init ==
    /\ pc = "parsed"
    /\ req \in Requests
    /\ v = [i \in 1 .. DIMS |-> Finite(0)]
    /\ query_i8 = [i \in 1 .. DIMS |-> 0]

\* The next request of the connection: vectorize and search start from zeroed arrays.
Receive ==
    /\ pc = "quantized"
    /\ req' \in Requests
    /\ pc' = "parsed"
    /\ v' = [i \in 1 .. DIMS |-> Finite(0)]
    /\ query_i8' = [i \in 1 .. DIMS |-> 0]

Vectorize ==
    /\ pc = "parsed"
    /\ v' = vectorize(req)
    /\ pc' = "vectorized"
    /\ UNCHANGED <<req, query_i8>>

Quantize ==
    /\ pc = "vectorized"
    /\ query_i8' = quantized(v)
    /\ pc' = "quantized"
    /\ UNCHANGED <<req, v>>

Next == Receive \/ Vectorize \/ Quantize

Spec == Init /\ [][Next]_vars

----------------------------------------------------------------------------
(* Properties                                                              *)

Vectorized == pc \in {"vectorized", "quantized"}

\* The clamped features are in 0 .. 1 or NaN, the two of the prior transaction
\* may also be -1, and the quantized query stays off -128.
TypeOK ==
    /\ pc \in {"parsed", "vectorized", "quantized"}
    /\ req \in Requests
    /\ v \in [1 .. DIMS -> Int \X Nat]
    /\ \A i \in 1 .. DIMS \ {13} :
          v[i][1] \in (IF i \in {6, 7} THEN -v[i][2] ELSE 0) .. v[i][2]
    /\ query_i8 \in [1 .. DIMS -> -127 .. 127]

\* The search ranks centroids by partial_cmp, which a NaN defeats.  A NaN enters
\* the vector in dimension 2 only, and only when a request's amount and average
\* both overflow f32: zero averages, zero amounts and infinite distances do not.
NaNOnlyFromOverflow ==
    Vectorized =>
        \A i \in 1 .. DIMS :
            IsNaN(v[i]) =>
                i = 3 /\ IsInfinite(req.amount) /\ IsInfinite(req.avg_amount)

\* The sentinel survives clamping and quantization: whatever the clocks say (a
\* prior transaction in the future included), a customer without a prior
\* transaction stays two full scales of dims 5 and 6 away from every one with.
NoHistoryStandsApart ==
    pc = "quantized" =>
        \A r \in Requests :
            (r.last_tx = None) # (req.last_tx = None) =>
                dist_int8(quantized(vectorize(r)), query_i8) >= 2 * 127 * 127

\* The offset a timestamp is written with is immaterial: two requests of the same
\* instants give the same vector.
SameInstant(s, t) == s.ok = t.ok /\ (s.ok => s.local - s.offset = t.local - t.offset)

SameButOffsets(r, s) ==
    /\ SameInstant(r.requested_at, s.requested_at)
    /\ (r.last_tx = None) = (s.last_tx = None)
    /\ r.last_tx # None =>
          /\ SameInstant(r.last_tx.timestamp, s.last_tx.timestamp)
          /\ r.last_tx.km_from_current = s.last_tx.km_from_current
    /\ \A x \in DOMAIN r \ {"requested_at", "last_tx"} : r[x] = s[x]

OffsetImmaterial ==
    Vectorized => \A r \in Requests : SameButOffsets(r, req) => vectorize(r) = v

\* A timestamp that does not parse, on either side, never makes the prior
\* transaction look old: recency is 0, as for two transactions at one instant.
\* (But for a prior transaction before the epoch, the default of the other side.)
UnreadableMeansRecent ==
    /\ Vectorized
    /\ req.last_tx # None
    /\ \/ ~ req.last_tx.timestamp.ok
       \/ ~ req.requested_at.ok /\ naive_utc(req.last_tx.timestamp) >= 0
    => IsZero(v[6])
=============================================================================
