---------------------------- MODULE MCVectorize ----------------------------
(* Requests around the edges of vectorize, in two families: one varies the *)
(* times and the prior transaction, the other the amounts and the counts.  *)
EXTENDS Vectorize

Inf == <<1, 0>>
Hour == 3600000

MCNorm ==
    [max_amount |-> Finite(10), max_installments |-> Finite(12),
     amount_vs_avg_ratio |-> Finite(10), max_minutes |-> Finite(1440),
     max_km |-> Finite(4), max_tx_count_24h |-> Finite(20),
     max_merchant_avg_amount |-> Finite(10)]

\* One code within the scale, one beyond it; "new" has no entry.
MCMccRisk == [grocery |-> <<3, 20>>, casino |-> Finite(2)]

Stamp(l, o) == [ok |-> TRUE, local |-> l, offset |-> o]
Unreadable == [ok |-> FALSE, local |-> 0, offset |-> 0]

\* The epoch, an hour before it, and the two days after it: the same instant in two
\* offsets, either side of midnight, and less than a second apart.
Times ==
    {Stamp(0, 0), Stamp(0, Hour), Stamp(2 * Hour, 2 * Hour), Stamp(26 * Hour, 0),
     Stamp(23 * Hour, -3 * Hour), Stamp(26 * Hour + 999, 0), Stamp(49 * Hour, 0), Unreadable}

Kms == {Finite(0), Finite(3), Inf}

Plain ==
    [amount |-> Finite(5), installments |-> 1, requested_at |-> Stamp(26 * Hour, 0),
     avg_amount |-> Finite(2), tx_count_24h |-> 3, known_merchants |-> {"m1"},
     merchant |-> "m1", mcc |-> "grocery", merchant_avg |-> Finite(4),
     is_online |-> TRUE, card_present |-> FALSE, km_from_home |-> Finite(1),
     last_tx |-> None]

History ==
    {None} \cup {[timestamp |-> t, km_from_current |-> km] : t \in Times, km \in Kms}

TimedRequests ==
    {[Plain EXCEPT !.requested_at = t, !.last_tx = h] : t \in Times, h \in History}

Amounts == {Finite(0), <<1, 2>>, Finite(20), Finite(-1), Inf}

PricedRequests ==
    {[Plain EXCEPT !.amount = a, !.avg_amount = b, !.installments = n, !.tx_count_24h = n,
                   !.km_from_home = b, !.merchant = m, !.mcc = c, !.merchant_avg = a] :
        a \in Amounts, b \in Amounts, n \in {0, 30}, m \in {"m1", "m2"},
        c \in {"grocery", "casino", "new"}}

MCRequests == TimedRequests \cup PricedRequests
=============================================================================
