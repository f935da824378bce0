----------------------------- MODULE Recurring -----------------------------
(***************************************************************************)
(* detect_recurring of analysis/recurring.py: the charges of a payee are   *)
(* grouped by amount, and of a group with enough charges the gaps between  *)
(* the dates give a cadence, a confidence and the next date expected.      *)
(* Amounts are signed: an expense is negative, a refund positive.          *)
(*                                                                         *)
(* The function is pure.  The state is what it reads: the charges posted   *)
(* and withdrawn since.  Dates are day numbers.  Other payees' charges are *)
(* in lists of their own, so that one payee is enough.                     *)
(*                                                                         *)
(* An operator whose name ends in _BUG_<what> is a plausible slip in the   *)
(* definition that follows it; the specification never uses it.            *)
(***************************************************************************)
EXTENDS Integers, FiniteSets, Sequences, Functions

CONSTANTS
    ChargeAmounts,    \* amounts that may be charged
    ChargeDays,       \* days on which one may be
    MaxCharges,       \* bound on the charges there are at one time
    amount_tolerance, \* amounts of one group differ by no more
    min_occurrences,  \* charges that a series has at least
    FullGaps,         \* gaps from which confidence is not held back (5)
    Cadences          \* label -> the days that a gap of it has

ASSUME ChargesAssumption ==
    /\ ChargeAmounts \subseteq Int /\ ChargeDays \subseteq Nat /\ MaxCharges \in Nat
    /\ amount_tolerance \in Nat /\ min_occurrences \in Nat \ {0, 1}
    /\ FullGaps \in Nat \ {0}
    /\ \A c \in DOMAIN Cadences : Cadences[c] \in [low : Nat, high : Nat]

VARIABLE charges  \* the rows of the payee that detect_recurring selects

\* nr tells apart charges of one amount on one day.
Charge == [amount : ChargeAmounts, day : ChargeDays, nr : 1..MaxCharges]

Alike(amount, day) == {c \in charges : c.amount = amount /\ c.day = day}

RecurringInit == charges = {}

PostCharge(amount, day) ==
    /\ Cardinality(charges) < MaxCharges
    /\ charges' = charges \cup
          {[amount |-> amount, day |-> day, nr |-> Cardinality(Alike(amount, day)) + 1]}

\* A charge is deleted, or found to be a transfer.
WithdrawCharge(c) ==
    /\ c.nr = Cardinality(Alike(c.amount, c.day))
    /\ charges' = charges \ {c}

RecurringNext ==
    \/ \E amount \in ChargeAmounts, day \in ChargeDays : PostCharge(amount, day)
    \/ \E c \in charges : WithdrawCharge(c)

RecurringSpec == RecurringInit /\ [][RecurringNext]_charges

-----------------------------------------------------------------------------
(***************************************************************************)
(* Grouping.  The loop compares a charge with the first one of the group   *)
(* begun last, in the order of sorted(txns): the dearest expense is first. *)
(***************************************************************************)
ByAmount_BUG_by_magnitude(c, d) ==
    LET size(x) == IF x.amount < 0 THEN -x.amount ELSE x.amount
    IN  \/ size(c) < size(d)
        \/ size(c) = size(d) /\ c.amount < d.amount
        \/ c.amount = d.amount /\ c.day < d.day
        \/ c.amount = d.amount /\ c.day = d.day /\ c.nr < d.nr

ByAmount(c, d) ==
    \/ c.amount < d.amount
    \/ c.amount = d.amount /\ c.day < d.day
    \/ c.amount = d.amount /\ c.day = d.day /\ c.nr < d.nr

Distance(m, n) == IF m < n THEN n - m ELSE m - n

sorted(posted) ==
    [i \in 1..Cardinality(posted) |->
        CHOOSE c \in posted : Cardinality({d \in posted : ByAmount(d, c)}) = i - 1]

joins_BUG_last(group, c) ==
    Distance(c.amount, group[Len(group)].amount) <= amount_tolerance

joins(group, c) == Distance(c.amount, group[1].amount) <= amount_tolerance

\* One turn of the loop, for charge c.
with_charge(groups, c) ==
    IF groups # << >> /\ joins(groups[Len(groups)], c)
    THEN [groups EXCEPT ![Len(groups)] = Append(@, c)]
    ELSE Append(groups, <<c>>)

clusters(posted) ==
    LET s == sorted(posted)
        after[i \in 0..Len(s)] == IF i = 0 THEN << >> ELSE with_charge(after[i - 1], s[i])
    IN  after[Len(s)]

-----------------------------------------------------------------------------
(***************************************************************************)
(* The series of a group.  A median is given twice, an integer.            *)
(***************************************************************************)
\* sorted() of numbers.
ascending(s) ==
    LET below(k) == {j \in DOMAIN s : s[j] < s[k] \/ (s[j] = s[k] /\ j < k)}
    IN  [i \in 1..Len(s) |-> s[CHOOSE k \in DOMAIN s : Cardinality(below(k)) = i - 1]]

dates_BUG_in_group_order(group) == [i \in DOMAIN group |-> group[i].day]

dates(group) == ascending([i \in DOMAIN group |-> group[i].day])

gaps_BUG_since_first(days) == [i \in 1..(Len(days) - 1) |-> days[i + 1] - days[1]]

gaps(days) == [i \in 1..(Len(days) - 1) |-> days[i + 1] - days[i]]

twice_median(s) ==
    LET a == ascending(s)
        n == Len(s)
    IN  a[(n + 1) \div 2] + a[n \div 2 + 1]

\* Python's round: to the nearest integer, half-way to the even one.
round(n, d) ==
    LET down == n \div d
        rest == 2 * (n % d)
    IN  IF rest > d \/ (rest = d /\ down % 2 = 1) THEN down + 1 ELSE down

cadence_label(median2) ==
    {c \in DOMAIN Cadences : 2 * Cadences[c].low <= median2 /\ median2 <= 2 * Cadences[c].high}

AtMost(bound, n) == IF n < bound THEN n ELSE bound

\* In thousandths.  A tie between two of them is broken by floats in the code.
confidence(gs, median2) ==
    LET deviation == SumFunction([i \in DOMAIN gs |-> Distance(2 * gs[i], median2)])
        whole == Len(gs) * median2
    IN  IF gs = << >> \/ median2 <= 0 \/ deviation >= whole THEN 0
        ELSE round(1000 * (whole - deviation) * AtMost(FullGaps, Len(gs)), whole * FullGaps)

charge_series(group) ==
    LET days == dates(group)
        median2 == twice_median(gaps(days))
    IN  [occurrences |-> Len(group),
         typical_amount |-> round(twice_median([i \in DOMAIN group |-> group[i].amount]), 2),
         cadence |-> cadence_label(median2),
         first_seen |-> days[1],
         last_seen |-> days[Len(days)],
         next_expected |-> days[Len(days)] + round(median2, 2),
         confidence |-> confidence(gaps(days), median2)]

Groups(posted) == Range(clusters(posted))
detect_recurring(posted) ==
    {charge_series(group) : group \in {g \in Groups(posted) : Len(g) >= min_occurrences}}

-----------------------------------------------------------------------------
(***************************************************************************)
(* Properties                                                              *)
(***************************************************************************)

(***************************************************************************)
(* Whatever was posted, every charge is in one group, amounts of a group   *)
(* are within the tolerance of each other, and no grouping of that kind    *)
(* has fewer groups: to go greedily from the lowest amount, which is the   *)
(* dearest expense, does not cut a series apart without need (recurring.py *)
(* lines 60-72).                                                           *)
(***************************************************************************)
Near(S) == \A m, n \in S : Distance(m, n) <= amount_tolerance

GroupsAreFewest ==
    LET groups == clusters(charges)
        amounts == {c.amount : c \in charges}
        windows == {W \in SUBSET amounts : W # {} /\ Near(W)}
    IN  /\ \A c \in charges : \E i \in DOMAIN groups : c \in Range(groups[i])
        /\ SumFunction([i \in DOMAIN groups |-> Len(groups[i])]) = Cardinality(charges)
        /\ \A i \in DOMAIN groups : Near({c.amount : c \in Range(groups[i])})
        /\ \A cover \in SUBSET windows :
              UNION cover = amounts => Len(groups) <= Cardinality(cover)

(***************************************************************************)
(* Whether two charges belong together depends on third ones, but only on  *)
(* those of lower amounts, among expenses on dearer ones: to withdraw a    *)
(* charge, or to have posted it, leaves alone every group whose amounts    *)
(* are too low to take it (recurring.py lines 66-72).                      *)
(***************************************************************************)
Lower(groups, c) ==
    {group \in Range(groups) : group[1].amount + amount_tolerance < c.amount}

LowerGroupsStay ==
    LET groups == clusters(charges)
    IN  \A c \in charges : Lower(clusters(charges \ {c}), c) = Lower(groups, c)

(***************************************************************************)
(* What users rely on: a payee that charges every so many days, amounts    *)
(* varying within the tolerance in whatever way, has one series, of that   *)
(* cadence, expected again after as many days, and with all the confidence *)
(* that its length allows.                                                 *)
(***************************************************************************)
Days == {c.day : c \in charges}
NextDay(d) == CHOOSE e \in Days : d < e /\ \A f \in Days : d < f => e <= f

Regular(gap) ==
    /\ Cardinality(charges) >= min_occurrences
    /\ Near({c.amount : c \in charges})
    /\ Cardinality(Days) = Cardinality(charges)
    /\ \A d \in Days : (\E e \in Days : d < e) => NextDay(d) = d + gap

RegularIsFound ==
    \A gap \in {d - e : d, e \in Days} \cap (Nat \ {0}) :
        Regular(gap) =>
            \E s \in detect_recurring(charges) :
                /\ detect_recurring(charges) = {s}
                /\ s.occurrences = Cardinality(charges)
                /\ s.next_expected - gap \in Days
                /\ \A d \in Days : d < s.next_expected
                /\ \A c \in DOMAIN Cadences :
                      c \in s.cadence <=> gap \in Cadences[c].low..Cadences[c].high
                /\ s.confidence = round(1000 * AtMost(FullGaps, s.occurrences - 1), FullGaps)

(***************************************************************************)
(* A charge that comes on the very day it was expected, of an amount that  *)
(* its group takes without beginning with it, never makes the detector     *)
(* less sure of the series, however irregular it was (for a median that is *)
(* a whole number of days).                                                *)
(***************************************************************************)
Confirms(c, group, grown) ==
    LET before == charge_series(group)
    IN  c.day = before.next_expected /\ twice_median(gaps(dates(group))) % 2 = 0
        => LET now == charge_series(grown)
           IN  /\ Range(grown) = Range(group) \cup {c}
               /\ now.confidence >= before.confidence
               /\ now.cadence = before.cadence

PunctualChargeConfirms ==
    LET groups == Groups(charges)
    IN  \A c \in charges : \A group \in Groups(charges \ {c}) :
           Len(group) >= min_occurrences /\ group[1].amount <= c.amount /\ joins(group, c)
           => Confirms(c, group, CHOOSE g \in groups : c \in Range(g))
=============================================================================
