------------------------------ MODULE Anomaly ------------------------------
(***************************************************************************)
(* detect_anomalies of analysis/anomaly.py for one category: a month is    *)
(* flagged if more was spent in it than the mean of the months before it   *)
(* plus z times their standard deviation.                                  *)
(*                                                                         *)
(* The function is pure.  The state is what it reads: the spending of each *)
(* month, which grows and shrinks as transactions are posted, also late,   *)
(* and deleted or categorized anew.                                        *)
(*                                                                         *)
(* An operator whose name ends in _BUG_<what> is a plausible slip in the   *)
(* definition that follows it; the specification never uses it.            *)
(***************************************************************************)
EXTENDS Integers, FiniteSets, Sequences, Functions

CONSTANTS
    LastMonth,          \* bound on the months, which are 1..LastMonth
    MaxSpend,           \* bound on the spending of a month
    trailing_months,    \* the length of a full baseline
    min_history_months, \* months before the first that may be flagged
    z_threshold         \* standard deviations above the mean

ASSUME AnomalyAssumption ==
    /\ LastMonth \in Nat /\ MaxSpend \in Nat
    /\ trailing_months \in Nat \ {0} /\ min_history_months \in Nat \ {0}
    /\ z_threshold \in Nat

VARIABLE spend  \* month -> SUM(ABS(amount)) of its expenses, 0 if there are none

Months == 1..LastMonth

AnomalyInit == spend = [m \in Months |-> 0]

\* An expense is posted, in whatever month; one is deleted.
SpendMore(m) ==
    /\ spend[m] < MaxSpend
    /\ spend' = [spend EXCEPT ![m] = @ + 1]

SpendLess(m) ==
    /\ spend[m] > 0
    /\ spend' = [spend EXCEPT ![m] = @ - 1]

AnomalyNext == \E m \in Months : SpendMore(m) \/ SpendLess(m)

AnomalySpec == AnomalyInit /\ [][AnomalyNext]_spend

-----------------------------------------------------------------------------
(***************************************************************************)
(* The GROUP BY has no row for a month without an expense: the series, in  *)
(* the order of the months, skips it.                                      *)
(***************************************************************************)
spend_series(spent) ==
    LET active == {m \in Months : spent[m] > 0}
        period(i) == CHOOSE m \in active : Cardinality({k \in active : k < m}) = i - 1
    IN  [i \in 1..Cardinality(active) |->
            [period |-> period(i), spend |-> spent[period(i)]]]

\* series[max(0, i - trailing_months) : i], the indices counted from 1.
baseline_BUG_both_sides(s, i) == SubSeq(s, 1, i - 1) \o SubSeq(s, i + 1, Len(s))
baseline_BUG_one_more(s, i) ==
    SubSeq(s, IF i > trailing_months + 1 THEN i - trailing_months - 1 ELSE 1, i - 1)

baseline(s, i) ==
    SubSeq(s, IF i > trailing_months THEN i - trailing_months ELSE 1, i - 1)

Square(n) == n * n
Sum(window) == SumFunction([i \in DOMAIN window |-> window[i].spend])
SumOfSquares(window) == SumFunction([i \in DOMAIN window |-> Square(window[i].spend)])

\* pstdev times the length, squared.
Spread(window) == Len(window) * SumOfSquares(window) - Square(Sum(window))

\* spend > mu + z_threshold * sigma, multiplied by the length.  Where the two
\* sides are equal, floats may decide otherwise.
exceeds_BUG_one_sigma(amount, window) ==
    LET above == Len(window) * amount - Sum(window)
    IN  above > 0 /\ Square(above) > Spread(window)

exceeds(amount, window) ==
    LET above == Len(window) * amount - Sum(window)
    IN  above > 0 /\ Square(above) > Square(z_threshold) * Spread(window)

detect_anomalies(spent) ==
    LET s == spend_series(spent)
        flagged(i) == LET window == baseline(s, i)
                      IN  /\ Len(window) >= 2
                          /\ Spread(window) # 0
                          /\ exceeds(s[i].spend, window)
    IN  {s[i].period : i \in {j \in (min_history_months + 1)..Len(s) : flagged(j)}}

-----------------------------------------------------------------------------
(***************************************************************************)
(* Properties                                                              *)
(***************************************************************************)

(***************************************************************************)
(* The baseline of a month, stated without positions: the months with      *)
(* spending before it that have fewer than trailing_months such months     *)
(* between them and it.                                                    *)
(***************************************************************************)
Active(spent) == {m \in Months : spent[m] > 0}
Earlier(spent, m) == {k \in Active(spent) : k < m}
Since(spent, k, m) == {j \in Earlier(spent, m) : k < j}
Baseline(spent, m) ==
    {k \in Earlier(spent, m) : Cardinality(Since(spent, k, m)) < trailing_months}

(***************************************************************************)
(* A month is flagged exactly if enough months precede it, its baseline    *)
(* varies, and it is above the mean by more than z standard deviations, in *)
(* terms of the differences within the baseline (anomaly.py lines 48-58:   *)
(* three bounds on positions, each of which could be off by one).          *)
(***************************************************************************)
FlaggedAsDefined ==
    LET flags == detect_anomalies(spend)
    IN  \A m \in Months :
        LET B == Baseline(spend, m)
            above == SumFunction([k \in B |-> spend[m] - spend[k]])
            \* The sum over ordered pairs is twice the one over pairs.
            pairs == SumFunction([j \in B |->
                        SumFunction([k \in B |-> Square(spend[j] - spend[k])])])
        IN  m \in flags <=>
                /\ m \in Active(spend)
                /\ Cardinality(Earlier(spend, m)) >= min_history_months
                /\ \E j, k \in B : spend[j] # spend[k]
                /\ above > 0
                /\ 2 * Square(above) > Square(z_threshold) * pairs

(***************************************************************************)
(* What an alarm means: if the baseline has no more than z^2 + 1 months,   *)
(* none of them was as dear as the month flagged.  (With six months and    *)
(* z = 2, the default, one may have been.)                                 *)
(***************************************************************************)
AlarmBeatsBaseline ==
    \A m \in detect_anomalies(spend) :
        Cardinality(Baseline(spend, m)) <= Square(z_threshold) + 1 =>
            \A k \in Baseline(spend, m) : spend[k] < spend[m]

(***************************************************************************)
(* A report once given for a month is not taken back for what is spent     *)
(* later, and more spending in a month never clears its own flag.  Only an *)
(* expense of an earlier month, posted late, may change it.                *)
(***************************************************************************)
FlagsAreFinal ==
    [][LET before == detect_anomalies(spend)
           after == detect_anomalies(spend')
       IN  \A m \in Months :
              spend'[m] # spend[m] =>
                 /\ before \cap 1..(m - 1) = after \cap 1..(m - 1)
                 /\ spend'[m] > spend[m] /\ m \in before => m \in after]_spend
=============================================================================
