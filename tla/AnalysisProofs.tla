--------------------------- MODULE AnalysisProofs ---------------------------
(***************************************************************************)
(* Proofs about the two detectors of analysis/, each for any values of its *)
(* constants that satisfy its assumption.                                  *)
(*                                                                         *)
(* Anomaly: what detect_anomalies finds by positions in a series is what   *)
(* is said of months and sums over them (FlagsByMonth), and from it what   *)
(* an alarm means and that flags are final.                                *)
(*                                                                         *)
(* Recurring: sorting is by rank; the loop that groups keeps the groups'   *)
(* first amounts more than the tolerance apart (Grouped), so that a group  *)
(* is what lies within the tolerance of its first charge (GroupIsWindow);  *)
(* from these come the fewest groups, the groups that stay, the series of  *)
(* a regular payee and what a punctual charge does.                        *)
(***************************************************************************)
EXTENDS Anomaly, Recurring, Sums, TLAPS

-----------------------------------------------------------------------------
(***************************************************************************)
(* Positions.  The position of a month in the series is one more than the  *)
(* number of active months before it.                                      *)
(***************************************************************************)
Spending == [Months -> Nat]
position(spent, m) == Cardinality(Earlier(spent, m)) + 1

LEMMA ActiveMonths ==
    ASSUME NEW spent, NEW m
    PROVE  /\ Active(spent) \subseteq Nat /\ IsFiniteSet(Active(spent))
           /\ IsFiniteSet(Earlier(spent, m)) /\ Cardinality(Earlier(spent, m)) \in Nat
           /\ IsFiniteSet(Baseline(spent, m)) /\ Cardinality(Baseline(spent, m)) \in Nat
           /\ Cardinality(Active(spent)) \in Nat
<1>1. Active(spent) \subseteq Months /\ Months \subseteq Nat /\ IsFiniteSet(Months)
  BY AnomalyAssumption, FS_Interval DEF Active, Months
<1>2. /\ Earlier(spent, m) \subseteq Active(spent)
      /\ Baseline(spent, m) \subseteq Active(spent)
  BY DEF Earlier, Baseline
<1> QED
  BY <1>1, <1>2, FS_Subset, FS_CardinalityType

\* Between two active months there are as many as their positions tell.
LEMMA MonthsBetween ==
    ASSUME NEW spent, NEW m \in Active(spent), NEW k \in Earlier(spent, m)
    PROVE  /\ Cardinality(Since(spent, k, m)) \in Nat
           /\ Cardinality(Since(spent, k, m)) = position(spent, m) - position(spent, k) - 1
<1>1. PICK P, Q : P = Earlier(spent, k) \cup {k} /\ Q = Since(spent, k, m)
  OBVIOUS
<1>2. Earlier(spent, m) = P \cup Q /\ P \cap Q = {} /\ k \notin Earlier(spent, k)
  <2>1. Active(spent) \subseteq Nat
    BY ActiveMonths
  <2>2. Earlier(spent, k) = {j \in Active(spent) : j < k}
    BY DEF Earlier
  <2>3. Since(spent, k, m) = {j \in Active(spent) : j < m /\ k < j}
    BY DEF Earlier, Since
  <2>4. k \in Active(spent) /\ k < m
    BY DEF Earlier
  <2>5. Earlier(spent, m) = {j \in Active(spent) : j < m}
    BY DEF Earlier
  <2> QED
    BY <1>1, <2>1, <2>2, <2>3, <2>4, <2>5
<1>3. IsFiniteSet(P) /\ Cardinality(P) = position(spent, k) /\ Cardinality(P) \in Nat
  <2>1. IsFiniteSet(Earlier(spent, k)) /\ Cardinality(Earlier(spent, k)) \in Nat
    BY ActiveMonths
  <2>2. PICK E : E = Earlier(spent, k)
    OBVIOUS
  <2>3. IsFiniteSet(E \cup {k}) /\ Cardinality(E \cup {k}) = Cardinality(E) + 1
    BY <1>2, <2>1, <2>2, FS_AddElement
  <2> QED
    BY <1>1, <2>1, <2>2, <2>3 DEF position
<1>4. IsFiniteSet(Q) /\ Cardinality(Q) \in Nat
  <2>1. Q \subseteq Earlier(spent, m)
    BY <1>2
  <2> QED
    BY <2>1, ActiveMonths, FS_Subset, FS_CardinalityType
<1>5. Cardinality(P \cup Q) = Cardinality(P) + Cardinality(Q)
  <2>1. Cardinality(P \cup Q) = Cardinality(P) + Cardinality(Q) - Cardinality(P \cap Q)
    BY <1>3, <1>4, FS_Union
  <2>2. Cardinality(P \cap Q) = 0
    BY <1>2, FS_EmptySet
  <2> QED
    BY <1>3, <1>4, <2>1, <2>2
<1> QED
  BY <1>1, <1>2, <1>3, <1>4, <1>5 DEF position

\* Positions are in the order of the months.
LEMMA PositionsInOrder ==
    ASSUME NEW spent, NEW m \in Active(spent), NEW k \in Active(spent)
    PROVE  /\ position(spent, m) \in 1..Cardinality(Active(spent))
           /\ k < m <=> position(spent, k) < position(spent, m)
           /\ position(spent, k) = position(spent, m) => k = m
<1>1. \A i, j \in Active(spent) : i < j => position(spent, i) < position(spent, j)
  <2> SUFFICES ASSUME NEW i \in Active(spent), NEW j \in Active(spent), i < j
               PROVE  position(spent, i) < position(spent, j)
    OBVIOUS
  <2>1. i \in Earlier(spent, j)
    BY DEF Earlier
  <2>2. position(spent, i) \in Nat /\ position(spent, j) \in Nat
    BY ActiveMonths DEF position
  <2> QED
    BY <2>1, <2>2, MonthsBetween
<1>2. position(spent, k) \in Nat /\ position(spent, m) \in Nat /\ k \in Nat /\ m \in Nat
  BY ActiveMonths DEF position
<1>3. k < m \/ m < k \/ k = m
  BY <1>2
<1>4. position(spent, m) \in 1..Cardinality(Active(spent))
  <2>1. PICK E : E = Earlier(spent, m) \cup {m}
    OBVIOUS
  <2>2. E \subseteq Active(spent) /\ m \notin Earlier(spent, m)
    BY <1>2, <2>1 DEF Earlier
  <2>3. IsFiniteSet(Earlier(spent, m)) /\ IsFiniteSet(Active(spent))
    BY ActiveMonths
  <2>4. Cardinality(E) = position(spent, m)
    BY <2>1, <2>2, <2>3, FS_AddElement DEF position
  <2>5. position(spent, m) <= Cardinality(Active(spent))
    BY <2>2, <2>3, <2>4, FS_Subset
  <2> QED
    BY <1>2, <2>5, ActiveMonths DEF position
<1> QED
  BY <1>1, <1>2, <1>3, <1>4

\* Every position is taken.
LEMMA PositionsTaken ==
    ASSUME NEW spent, NEW i \in 1..Cardinality(Active(spent))
    PROVE  \E m \in Active(spent) : position(spent, m) = i
<1> SUFFICES ASSUME \A m \in Active(spent) : position(spent, m) # i PROVE FALSE
  OBVIOUS
<1>1. PICK A, n : A = Active(spent) /\ n = Cardinality(A) /\ IsFiniteSet(A) /\ n \in Nat
  BY ActiveMonths
<1>2. PICK pos : pos = [m \in A |-> position(spent, m)]
  OBVIOUS
<1>3. pos \in [A -> (1..n) \ {i}]
  BY <1>1, <1>2, PositionsInOrder
<1>4. IsFiniteSet((1..n) \ {i}) /\ Cardinality((1..n) \ {i}) = n - 1
  <2>1. IsFiniteSet(1..n) /\ Cardinality(1..n) = n
    BY <1>1, CardinalityOfOneTo
  <2> QED
    BY <1>1, <2>1, FS_RemoveElement
<1>5. \E x, y \in A : x # y /\ pos[x] = pos[y]
  BY <1>1, <1>3, <1>4, FS_PigeonHole
<1> QED
  BY <1>1, <1>2, <1>5, PositionsInOrder

month_at(spent, i) == CHOOSE m \in Active(spent) : Cardinality(Earlier(spent, m)) = i - 1

LEMMA MonthAt ==
    ASSUME NEW spent, NEW i \in 1..Cardinality(Active(spent))
    PROVE  month_at(spent, i) \in Active(spent) /\ position(spent, month_at(spent, i)) = i
<1>1. \E m \in Active(spent) : Cardinality(Earlier(spent, m)) = i - 1
  <2>1. PICK m \in Active(spent) : position(spent, m) = i
    BY PositionsTaken
  <2> QED
    BY <2>1, ActiveMonths DEF position
<1>2. /\ month_at(spent, i) \in Active(spent)
      /\ Cardinality(Earlier(spent, month_at(spent, i))) = i - 1
  BY <1>1 DEF month_at
<1> QED
  BY <1>2, ActiveMonths DEF position

\* The series has the active months in order.
LEMMA Series ==
    ASSUME NEW spent \in Spending, NEW s, s = spend_series(spent)
    PROVE  /\ s \in Seq([period : Months, spend : Nat])
           /\ Len(s) = Cardinality(Active(spent)) /\ DOMAIN s = 1..Len(s)
           /\ \A i \in DOMAIN s : /\ s[i].period \in Active(spent)
                                  /\ position(spent, s[i].period) = i
           /\ \A m \in Active(spent) : /\ position(spent, m) \in DOMAIN s
                                       /\ s[position(spent, m)].period = m
                                       /\ s[position(spent, m)].spend = spent[m]
<1>1. PICK n : n = Cardinality(Active(spent)) /\ n \in Nat
  BY ActiveMonths
<1>2. s = [i \in 1..n |-> [period |-> month_at(spent, i), spend |-> spent[month_at(spent, i)]]]
  BY <1>1, Zenon DEF spend_series, month_at, Active, Earlier
<1>3. \A i \in 1..n : /\ month_at(spent, i) \in Active(spent)
                      /\ position(spent, month_at(spent, i)) = i
  BY <1>1, MonthAt
<1>4. \A m \in Active(spent) : m \in Months /\ spent[m] \in Nat
  BY DEF Active, Spending
<1>5. \A i \in 1..n : /\ s[i] \in [period : Months, spend : Nat]
                      /\ s[i].period = month_at(spent, i)
                      /\ s[i].spend = spent[month_at(spent, i)]
  BY <1>2, <1>3, <1>4
<1>6. s \in Seq([period : Months, spend : Nat]) /\ Len(s) = n /\ DOMAIN s = 1..n
  <2>1. PICK R : R = [period : Months, spend : Nat]
    OBVIOUS
  <2>2. s \in [1..n -> R]
    BY <1>2, <1>5, <2>1
  <2>3. s \in Seq(R)
    BY <1>1, <2>2
  <2> QED
    BY <1>1, <2>1, <2>2, <2>3
<1>7. ASSUME NEW m \in Active(spent)
      PROVE  /\ position(spent, m) \in 1..n
             /\ s[position(spent, m)].period = m
             /\ s[position(spent, m)].spend = spent[m]
  <2>1. PICK i : i = position(spent, m) /\ i \in 1..n
    BY <1>1, <1>7, PositionsInOrder
  <2>2. month_at(spent, i) = m
    BY <1>3, <2>1, PositionsInOrder
  <2> QED
    BY <1>5, <2>1, <2>2
<1> QED
  BY <1>1, <1>3, <1>5, <1>6, <1>7

-----------------------------------------------------------------------------
(***************************************************************************)
(* The window before a position is the baseline of its month: as many      *)
(* entries, and the same sums.                                             *)
(***************************************************************************)
Squares(spent) == [m \in Months |-> Square(spent[m])]

\* h says at which place of window w each month of B is.
Places(h, spent, B, w) ==
    /\ \A k \in B : h[k] \in DOMAIN w /\ w[h[k]].spend = spent[k]
    /\ \A j, k \in B : h[j] = h[k] => j = k
    /\ \A i \in DOMAIN w : \E k \in B : h[k] = i

LEMMA WindowMonths ==
    ASSUME NEW spent \in Spending, NEW m \in Active(spent),
           NEW s, s = spend_series(spent),
           NEW w, w = baseline(s, position(spent, m)),
           NEW B, B = Baseline(spent, m)
    PROVE  /\ Len(w) \in Nat /\ DOMAIN w = 1..Len(w)
           /\ \E h : Places(h, spent, B, w)
<1>1. PICK i : i = position(spent, m) /\ i \in DOMAIN s
  BY Series
<1>2. PICK low : low = IF i > trailing_months THEN i - trailing_months ELSE 1
  OBVIOUS
<1>3. /\ i \in Nat \ {0} /\ low \in Nat \ {0} /\ low <= i /\ i <= Len(s)
      /\ trailing_months \in Nat \ {0} /\ Len(s) \in Nat
      /\ s \in Seq([period : Months, spend : Nat]) /\ DOMAIN s = 1..Len(s)
  <2>1. s \in Seq([period : Months, spend : Nat]) /\ DOMAIN s = 1..Len(s)
    BY Series
  <2>2. Len(s) \in Nat
    BY <2>1
  <2>3. trailing_months \in Nat \ {0}
    BY AnomalyAssumption
  <2> QED
    BY <1>1, <1>2, <2>1, <2>2, <2>3
<1>4. w = SubSeq(s, low, i - 1)
  BY <1>1, <1>2 DEF baseline
<1>5. /\ Len(w) = i - low /\ DOMAIN w = 1..(i - low)
      /\ \A j \in 1..(i - low) : w[j] = s[low + j - 1]
  BY <1>3, <1>4
<1>6. \A k \in Active(spent) : k \in B <=> position(spent, k) \in low..(i - 1)
  <2> SUFFICES ASSUME NEW k \in Active(spent)
               PROVE  k \in B <=> position(spent, k) \in low..(i - 1)
    OBVIOUS
  <2>1. position(spent, k) \in Nat \ {0} /\ (k < m <=> position(spent, k) < i)
    BY <1>1, ActiveMonths, PositionsInOrder DEF position
  <2>2. k \in Earlier(spent, m) <=> position(spent, k) < i
    BY <2>1 DEF Earlier
  <2>3. k \in Earlier(spent, m) =>
           Cardinality(Since(spent, k, m)) = i - position(spent, k) - 1
    BY <1>1, MonthsBetween
  <2>4. k \in B <=> k \in Earlier(spent, m) /\ Cardinality(Since(spent, k, m)) < trailing_months
    BY DEF Baseline
  <2> QED
    BY <1>2, <1>3, <2>1, <2>2, <2>3, <2>4
<1>7. PICK h : h = [k \in B |-> position(spent, k) - low + 1]
  OBVIOUS
<1>8. B \subseteq Active(spent)
  BY DEF Baseline, Earlier
<1>9. \A k \in B : h[k] \in DOMAIN w /\ w[h[k]].spend = spent[k]
  <2> SUFFICES ASSUME NEW k \in B PROVE h[k] \in DOMAIN w /\ w[h[k]].spend = spent[k]
    OBVIOUS
  <2>1. PICK p : p = position(spent, k) /\ p \in low..(i - 1)
    BY <1>6, <1>8
  <2>2. h[k] = p - low + 1 /\ h[k] \in 1..(i - low)
    BY <1>3, <1>7, <2>1
  <2>3. w[h[k]] = s[p]
    <3>1. w[h[k]] = s[low + h[k] - 1]
      BY <1>5, <2>2
    <3>2. low + h[k] - 1 = p
      BY <1>3, <2>1, <2>2
    <3> QED
      BY <3>1, <3>2
  <2> QED
    BY <1>5, <1>8, <2>1, <2>2, <2>3, Series
<1>10. \A j, k \in B : h[j] = h[k] => j = k
  <2> SUFFICES ASSUME NEW j \in B, NEW k \in B, h[j] = h[k] PROVE j = k
    OBVIOUS
  <2>1. position(spent, j) \in Nat /\ position(spent, k) \in Nat
    BY ActiveMonths DEF position
  <2>2. position(spent, j) = position(spent, k)
    BY <1>3, <1>7, <2>1
  <2> QED
    BY <1>8, <2>2, PositionsInOrder
<1>11. \A j \in DOMAIN w : \E k \in B : h[k] = j
  <2> SUFFICES ASSUME NEW j \in 1..(i - low) PROVE \E k \in B : h[k] = j
    BY <1>5
  <2>1. PICK p : p = low + j - 1 /\ p \in low..(i - 1) /\ p \in DOMAIN s
    BY <1>3
  <2>2. s[p].period \in Active(spent) /\ position(spent, s[p].period) = p
    BY <2>1, Series
  <2>3. s[p].period \in B
    BY <1>6, <2>1, <2>2
  <2>4. h[s[p].period] = j
    BY <1>3, <1>7, <2>1, <2>2, <2>3
  <2> QED
    BY <2>3, <2>4
<1>12. Places(h, spent, B, w)
  BY <1>9, <1>10, <1>11 DEF Places
<1> QED
  BY <1>3, <1>5, <1>12

LEMMA WindowSums ==
    ASSUME NEW spent \in Spending, NEW m \in Active(spent),
           NEW s, s = spend_series(spent),
           NEW w, w = baseline(s, position(spent, m)),
           NEW B, B = Baseline(spent, m)
    PROVE  /\ Len(w) = Cardinality(B)
           /\ Sum(w) = SumFunctionOnSet(spent, B)
           /\ SumOfSquares(w) = SumFunctionOnSet(Squares(spent), B)
<1>1. PICK h : Places(h, spent, B, w)
  BY WindowMonths
<1>2. Len(w) \in Nat /\ DOMAIN w = 1..Len(w)
  BY WindowMonths
<1>3. IsFiniteSet(B) /\ \A k \in B : k \in Months /\ spent[k] \in Int
  <2>1. IsFiniteSet(B)
    BY ActiveMonths
  <2>2. B \subseteq Months
    BY DEF Baseline, Earlier, Active
  <2> QED
    BY <2>1, <2>2 DEF Spending
<1>4. \A k \in B : Squares(spent)[k] = Square(spent[k]) /\ Squares(spent)[k] \in Int
  BY <1>3 DEF Squares, Square
<1>5. PICK f, g : /\ f = [i \in DOMAIN w |-> w[i].spend]
                  /\ g = [i \in DOMAIN w |-> Square(w[i].spend)]
  OBVIOUS
<1>6. Renames(h, spent, B, f, DOMAIN w)
  BY <1>1, <1>5 DEF Renames, Places
<1>7. Renames(h, Squares(spent), B, g, DOMAIN w)
  BY <1>1, <1>4, <1>5 DEF Renames, Places
<1>8. IntegersOn(spent, B) /\ IntegersOn(Squares(spent), B)
  BY <1>3, <1>4 DEF IntegersOn
<1>9. /\ Cardinality(DOMAIN w) = Cardinality(B)
      /\ SumFunctionOnSet(f, DOMAIN w) = SumFunctionOnSet(spent, B)
      /\ SumFunctionOnSet(g, DOMAIN w) = SumFunctionOnSet(Squares(spent), B)
  BY <1>3, <1>6, <1>7, <1>8, SumReindexed
<1>10. Cardinality(1..Len(w)) = Len(w)
  <2>1. PICK n : n = Len(w) /\ n \in Nat
    BY <1>2
  <2>2. Cardinality(1..n) = n
    BY <2>1, CardinalityOfOneTo
  <2> QED
    BY <2>1, <2>2
<1>11. Sum(w) = SumFunctionOnSet(f, DOMAIN w) /\ SumOfSquares(w) = SumFunctionOnSet(g, DOMAIN w)
  <2>1. DOMAIN f = DOMAIN w /\ DOMAIN g = DOMAIN w
    BY <1>5
  <2>2. Sum(w) = SumFunction(f) /\ SumOfSquares(w) = SumFunction(g)
    BY <1>5 DEF Sum, SumOfSquares
  <2>3. SumFunction(f) = SumFunctionOnSet(f, DOMAIN f)
          /\ SumFunction(g) = SumFunctionOnSet(g, DOMAIN g)
    BY Zenon DEF SumFunction
  <2> QED
    BY <2>1, <2>2, <2>3
<1> QED
  BY <1>2, <1>9, <1>10, <1>11

\* The spread and the margin of exceeds, over a set of months.
SpreadOver(spent, B) ==
    Cardinality(B) * SumFunctionOnSet(Squares(spent), B) - Square(SumFunctionOnSet(spent, B))
Margin(amount, spent, B) == Cardinality(B) * amount - SumFunctionOnSet(spent, B)

Alarming(spent, m) ==
    LET B == Baseline(spent, m)
        above == Margin(spent[m], spent, B)
    IN  /\ Cardinality(Earlier(spent, m)) >= min_history_months
        /\ Cardinality(B) >= 2
        /\ SpreadOver(spent, B) # 0
        /\ above > 0 /\ Square(above) > Square(z_threshold) * SpreadOver(spent, B)

LEMMA FlagsByMonth ==
    ASSUME NEW spent \in Spending
    PROVE  detect_anomalies(spent) = {m \in Active(spent) : Alarming(spent, m)}
<1>1. PICK s : s = spend_series(spent)
  OBVIOUS
<1> DEFINE flagged(i) == /\ Len(baseline(s, i)) >= 2
                         /\ Spread(baseline(s, i)) # 0
                         /\ exceeds(s[i].spend, baseline(s, i))
           From == {j \in (min_history_months + 1)..Len(s) : flagged(j)}
<1>2. detect_anomalies(spent) = {s[i].period : i \in From}
  BY <1>1, Zenon DEF detect_anomalies
<1>3. /\ Len(s) \in Nat /\ DOMAIN s = 1..Len(s)
      /\ \A i \in DOMAIN s : /\ s[i].period \in Active(spent)
                             /\ position(spent, s[i].period) = i
      /\ \A m \in Active(spent) : /\ position(spent, m) \in DOMAIN s
                                  /\ s[position(spent, m)].period = m
                                  /\ s[position(spent, m)].spend = spent[m]
  BY <1>1, Series
<1>4. \A m \in Active(spent) : position(spent, m) \in From <=> Alarming(spent, m)
  <2> SUFFICES ASSUME NEW m \in Active(spent)
               PROVE  position(spent, m) \in From <=> Alarming(spent, m)
    OBVIOUS
  <2>1. PICK i, w, B : i = position(spent, m) /\ w = baseline(s, i) /\ B = Baseline(spent, m)
    OBVIOUS
  <2>2. /\ Len(w) = Cardinality(B) /\ Sum(w) = SumFunctionOnSet(spent, B)
        /\ SumOfSquares(w) = SumFunctionOnSet(Squares(spent), B)
    BY <1>1, <2>1, WindowSums
  <2>3. /\ Spread(w) = SpreadOver(spent, B)
        /\ Len(w) * spent[m] - Sum(w) = Margin(spent[m], spent, B)
    BY <2>2 DEF Spread, SpreadOver, Margin
  <2>4. exceeds(s[i].spend, w) <=>
           /\ Margin(spent[m], spent, B) > 0
           /\ Square(Margin(spent[m], spent, B)) > Square(z_threshold) * SpreadOver(spent, B)
    BY <1>3, <2>1, <2>3 DEF exceeds
  <2>5. i \in (min_history_months + 1)..Len(s)
           <=> Cardinality(Earlier(spent, m)) >= min_history_months
    BY <1>3, <2>1, ActiveMonths, AnomalyAssumption DEF position
  <2>6. flagged(i) <=> /\ Cardinality(B) >= 2 /\ SpreadOver(spent, B) # 0
                       /\ Margin(spent[m], spent, B) > 0
                       /\ Square(Margin(spent[m], spent, B))
                             > Square(z_threshold) * SpreadOver(spent, B)
    BY <2>1, <2>2, <2>3, <2>4
  <2>7. Alarming(spent, m) <=>
           /\ Cardinality(Earlier(spent, m)) >= min_history_months
           /\ Cardinality(B) >= 2 /\ SpreadOver(spent, B) # 0
           /\ Margin(spent[m], spent, B) > 0
           /\ Square(Margin(spent[m], spent, B)) > Square(z_threshold) * SpreadOver(spent, B)
    BY <2>1 DEF Alarming
  <2> HIDE DEF flagged
  <2> QED
    BY <2>1, <2>5, <2>6, <2>7
<1>5. From \subseteq DOMAIN s
  BY <1>3, AnomalyAssumption
<1> HIDE DEF From
<1> QED
  BY <1>2, <1>3, <1>4, <1>5

-----------------------------------------------------------------------------
(***************************************************************************)
(* What an alarm means.  That the spread of a set of months is never       *)
(* negative is the inequality of Cauchy and Schwarz; with one more month,  *)
(* the spread is at least what that month's margin contributes to it.      *)
(***************************************************************************)
\* The sums over a set of months are natural numbers.
LEMMA MonthSums ==
    ASSUME NEW spent \in Spending, NEW B \in SUBSET Months
    PROVE  /\ IsFiniteSet(B) /\ Cardinality(B) \in Nat
           /\ IntegersOn(spent, B) /\ IntegersOn(Squares(spent), B)
           /\ \A k \in B : spent[k] \in Nat /\ Squares(spent)[k] = spent[k] * spent[k]
           /\ SumFunctionOnSet(spent, B) \in Int
           /\ SumFunctionOnSet(Squares(spent), B) \in Int
<1>1. IsFiniteSet(B) /\ Cardinality(B) \in Nat
  <2>1. IsFiniteSet(Months)
    BY AnomalyAssumption, FS_Interval DEF Months
  <2> QED
    BY <2>1, FS_Subset, FS_CardinalityType
<1>2. \A k \in B : spent[k] \in Nat /\ Squares(spent)[k] = spent[k] * spent[k]
  BY DEF Spending, Squares, Square
<1>3. IntegersOn(spent, B) /\ IntegersOn(Squares(spent), B)
  BY <1>2 DEF IntegersOn
<1> QED
  BY <1>1, <1>2, <1>3, SumType

\* The sums with one month more.
LEMMA OneMonthMore ==
    ASSUME NEW spent \in Spending, NEW B \in SUBSET Months, NEW k \in Months \ B
    PROVE  /\ Cardinality(B \cup {k}) = Cardinality(B) + 1
           /\ SumFunctionOnSet(spent, B \cup {k}) = SumFunctionOnSet(spent, B) + spent[k]
           /\ SumFunctionOnSet(Squares(spent), B \cup {k}) =
                 SumFunctionOnSet(Squares(spent), B) + spent[k] * spent[k]
<1>1. PICK C : C = B \cup {k} /\ C \in SUBSET Months
  OBVIOUS
<1>2. IsFiniteSet(B)
  BY MonthSums
<1>3. IntegersOn(spent, C) /\ IntegersOn(Squares(spent), C)
        /\ Squares(spent)[k] = spent[k] * spent[k]
  BY <1>1, MonthSums
<1> QED
  BY <1>1, <1>2, <1>3, SumWith, FS_AddElement

\* The arithmetic: n, S and Q are the number of the months, the sum and the
\* sum of squares, y is spent in the month added.
LEMMA SpreadGrows ==
    ASSUME NEW n \in Nat, NEW S \in Int, NEW Q \in Int, NEW y \in Int,
           n * Q - S * S >= 0, n = 0 => S = 0 /\ Q = 0,
           NEW more, more = (n + 1) * (Q + y * y) - (S + y) * (S + y)
    PROVE  /\ more \in Int /\ more >= 0
           /\ n * more >= (n * y - S) * (n * y - S)
<1>1. PICK V, D : V = n * Q - S * S /\ D = n * y - S
  OBVIOUS
<1>2. V \in Int /\ D \in Int /\ more \in Int /\ V >= 0
  BY <1>1
<1>3. more = V + (Q - 2 * (S * y) + n * (y * y))
  BY <1>1
<1>4. n * (Q - 2 * (S * y) + n * (y * y)) = V + D * D
  BY <1>1
<1>5. n * more = n * V + V + D * D
  BY <1>2, <1>3, <1>4
<1>6. n * V >= 0 /\ D * D >= 0
  BY <1>2
<1>7. n * more >= D * D
  BY <1>2, <1>5, <1>6
<1>8. more >= 0
  <2>1. CASE n = 0
    BY <1>1, <1>3, <2>1
  <2>2. CASE n > 0
    <3>1. n * more >= 0
      BY <1>2, <1>6, <1>7
    <3> QED
      BY <1>2, <2>2, <3>1
  <2> QED
    BY <2>1, <2>2
<1> QED
  BY <1>1, <1>2, <1>7, <1>8

LEMMA SpreadOfMore ==
    ASSUME NEW spent \in Spending, NEW B \in SUBSET Months, SpreadOver(spent, B) >= 0,
           NEW k \in Months \ B, NEW C, C = B \cup {k}
    PROVE  /\ SpreadOver(spent, C) \in Int /\ SpreadOver(spent, C) >= 0
           /\ Cardinality(B) * SpreadOver(spent, C) >= Square(Margin(spent[k], spent, C))
<1>1. PICK n, S, Q, y : /\ n = Cardinality(B) /\ S = SumFunctionOnSet(spent, B)
                        /\ Q = SumFunctionOnSet(Squares(spent), B) /\ y = spent[k]
  OBVIOUS
<1>2. n \in Nat /\ S \in Int /\ Q \in Int /\ y \in Int
  BY <1>1, MonthSums DEF Spending
<1>3. n = 0 => S = 0 /\ Q = 0
  BY <1>1, MonthSums, SumOfNothing, FS_EmptySet
<1>4. n * Q - S * S >= 0
  BY <1>1 DEF SpreadOver, Square
<1>5. /\ Cardinality(C) = n + 1 /\ SumFunctionOnSet(spent, C) = S + y
      /\ SumFunctionOnSet(Squares(spent), C) = Q + y * y
  BY <1>1, OneMonthMore
<1>6. PICK more : /\ more = SpreadOver(spent, C)
                  /\ more = (n + 1) * (Q + y * y) - (S + y) * (S + y)
  BY <1>5 DEF SpreadOver, Square
<1>7. Margin(spent[k], spent, C) = n * y - S
  BY <1>1, <1>2, <1>5 DEF Margin
<1>8. /\ more \in Int /\ more >= 0
      /\ n * more >= (n * y - S) * (n * y - S)
  BY <1>2, <1>3, <1>4, <1>6, SpreadGrows
<1> QED
  BY <1>1, <1>6, <1>7, <1>8 DEF Square

LEMMA SpreadNotNegative ==
    ASSUME NEW spent \in Spending, NEW B \in SUBSET Months
    PROVE  SpreadOver(spent, B) \in Int /\ SpreadOver(spent, B) >= 0
<1> DEFINE Good == {T \in SUBSET B : SpreadOver(spent, T) \in Int /\ SpreadOver(spent, T) >= 0}
<1>1. {} \in Good
  BY SumOfNothing, FS_EmptySet DEF SpreadOver, Square
<1>2. ASSUME NEW T \in SUBSET B, NEW k \in B \ T, T \in Good PROVE T \cup {k} \in Good
  BY <1>2, SpreadOfMore
<1>3. IsFiniteSet(B)
  BY MonthSums
<1> HIDE DEF Good
<1>4. B \in Good
  BY <1>1, <1>2, <1>3, OneByOne
<1> QED
  BY <1>4 DEF Good

\* Whoever is above the mean by more than z deviations of at most z^2 + 1
\* months is above each of them.
LEMMA AlarmAbove ==
    ASSUME NEW spent \in Spending, NEW B \in SUBSET Months, NEW k \in B, NEW x \in Int,
           Cardinality(B) <= Square(z_threshold) + 1,
           Margin(x, spent, B) > 0,
           Square(Margin(x, spent, B)) > Square(z_threshold) * SpreadOver(spent, B)
    PROVE  spent[k] < x
<1> SUFFICES ASSUME x <= spent[k] PROVE FALSE
  BY MonthSums
<1>1. PICK R : R \in SUBSET Months /\ B = R \cup {k} /\ k \in Months \ R
  <2>1. /\ B \ {k} \in SUBSET Months /\ B = (B \ {k}) \cup {k}
        /\ k \in Months \ (B \ {k})
    OBVIOUS
  <2> QED
    BY <2>1
<1>2. PICK n, V, a, d, z : /\ n = Cardinality(R) /\ V = SpreadOver(spent, B)
                           /\ a = Margin(x, spent, B) /\ d = Margin(spent[k], spent, B)
                           /\ z = Square(z_threshold)
  OBVIOUS
<1>3. n * V >= d * d /\ V \in Int /\ V >= 0
  BY <1>1, <1>2, SpreadNotNegative, SpreadOfMore DEF Square
<1>4. n \in Nat /\ n <= z /\ z \in Int /\ a \in Int /\ d \in Int /\ a <= d
  <2>1. /\ n \in Nat /\ Cardinality(B) = n + 1 /\ SumFunctionOnSet(spent, B) \in Int
        /\ spent[k] \in Int
    BY <1>1, <1>2, MonthSums, OneMonthMore
  <2>2. z \in Int
    BY <1>2, AnomalyAssumption DEF Square
  <2>3. a = (n + 1) * x - SumFunctionOnSet(spent, B)
          /\ d = (n + 1) * spent[k] - SumFunctionOnSet(spent, B)
    BY <1>2, <2>1 DEF Margin
  <2>4. (n + 1) * x <= (n + 1) * spent[k]
    BY <2>1
  <2> QED
    BY <1>2, <2>1, <2>2, <2>3, <2>4
<1>5. a > 0 /\ a * a > z * V
  BY <1>2 DEF Square
<1>6. a * a <= d * d
  BY <1>4, <1>5
<1>7. n * V <= z * V
  BY <1>3, <1>4
<1> QED
  BY <1>3, <1>4, <1>5, <1>6, <1>7

-----------------------------------------------------------------------------
(***************************************************************************)
(* The margin and the spread in terms of differences.                      *)
(***************************************************************************)
Difference(spent, B, x) == [k \in B |-> x - spent[k]]
PairsWith(spent, B, j) == [k \in B |-> Square(spent[j] - spent[k])]
Pairs(spent, B) == [j \in B |-> SumFunction(PairsWith(spent, B, j))]

LEMMA MarginIsDifference ==
    ASSUME NEW spent \in Spending, NEW B \in SUBSET Months, NEW x \in Int
    PROVE  SumFunction(Difference(spent, B, x)) = Margin(x, spent, B)
<1>0. PICK h : h = Difference(spent, B, x)
  OBVIOUS
<1>1. h = Difference(spent, B, x) /\ DOMAIN h = B
  BY <1>0 DEF Difference
<1>2. Linear(h, -1, spent, 0, spent, x, B)
  BY <1>1, MonthSums DEF Difference, Linear
<1>3. SumFunctionOnSet(h, B) =
        (-1) * SumFunctionOnSet(spent, B) + 0 * SumFunctionOnSet(spent, B) + x * Cardinality(B)
  <2>1. IsFiniteSet(B) /\ IntegersOn(spent, B) /\ -1 \in Int /\ 0 \in Int
    BY MonthSums
  <2> QED
    BY <1>2, <2>1, SumLinear
<1>4. SumFunctionOnSet(spent, B) \in Int /\ Cardinality(B) \in Nat
  BY MonthSums
<1>5. SumFunctionOnSet(h, B) = Margin(x, spent, B)
  BY <1>3, <1>4 DEF Margin
<1> QED
  BY <1>1, <1>5, Zenon DEF SumFunction

LEMMA PairsWithOne ==
    ASSUME NEW spent \in Spending, NEW B \in SUBSET Months, NEW j \in B
    PROVE  SumFunction(PairsWith(spent, B, j)) =
             SumFunctionOnSet(Squares(spent), B)
               + (-2 * spent[j]) * SumFunctionOnSet(spent, B)
               + (spent[j] * spent[j]) * Cardinality(B)
<1>0. PICK h : h = PairsWith(spent, B, j)
  OBVIOUS
<1>1. h = PairsWith(spent, B, j) /\ DOMAIN h = B
  BY <1>0 DEF PairsWith
<1>2. /\ IsFiniteSet(B) /\ IntegersOn(spent, B) /\ IntegersOn(Squares(spent), B)
      /\ \A k \in B : spent[k] \in Nat /\ Squares(spent)[k] = spent[k] * spent[k]
      /\ SumFunctionOnSet(Squares(spent), B) \in Int
  BY MonthSums
<1>3. PICK y, a, c : /\ y = spent[j] /\ y \in Int
                     /\ a = -2 * y /\ a \in Int /\ c = y * y /\ c \in Int
  BY <1>2
<1>4. Linear(h, 1, Squares(spent), a, spent, c, B)
  <2> SUFFICES ASSUME NEW k \in B PROVE h[k] = 1 * Squares(spent)[k] + a * spent[k] + c
    BY DEF Linear
  <2>1. PICK u : u = spent[k] /\ u \in Int /\ Squares(spent)[k] = u * u
    BY <1>2
  <2>2. h[k] = (y - u) * (y - u)
    BY <1>1, <1>3, <2>1 DEF PairsWith, Square
  <2>3. (y - u) * (y - u) = 1 * (u * u) + (-2 * y) * u + y * y
    BY <1>3, <2>1
  <2> QED
    BY <1>3, <2>1, <2>2, <2>3
<1>5. SumFunctionOnSet(h, B) =
        1 * SumFunctionOnSet(Squares(spent), B) + a * SumFunctionOnSet(spent, B)
          + c * Cardinality(B)
  <2>1. 1 \in Int
    OBVIOUS
  <2> QED
    BY <1>2, <1>3, <1>4, <2>1, SumLinear
<1>6. SumFunction(h) = SumFunctionOnSet(h, B)
  BY <1>1, Zenon DEF SumFunction
<1> QED
  BY <1>1, <1>2, <1>3, <1>5, <1>6

\* Summed over all pairs, the squared differences are twice the spread.
LEMMA PairsAreSpread ==
    ASSUME NEW spent \in Spending, NEW B \in SUBSET Months
    PROVE  SumFunction(Pairs(spent, B)) = 2 * SpreadOver(spent, B)
<1>0. PICK h : h = Pairs(spent, B)
  OBVIOUS
<1>1. h = Pairs(spent, B) /\ DOMAIN h = B
  BY <1>0 DEF Pairs
<1>2. PICK n, S, Q : /\ n = Cardinality(B) /\ S = SumFunctionOnSet(spent, B)
                     /\ Q = SumFunctionOnSet(Squares(spent), B)
                     /\ n \in Int /\ S \in Int /\ Q \in Int
  BY MonthSums
<1>3. PICK a : a = -2 * S /\ a \in Int
  BY <1>2
<1>4. Linear(h, a, spent, n, Squares(spent), Q, B)
  <2> SUFFICES ASSUME NEW j \in B PROVE h[j] = a * spent[j] + n * Squares(spent)[j] + Q
    BY DEF Linear
  <2>0. spent[j] \in Nat /\ Squares(spent)[j] = spent[j] * spent[j]
    BY MonthSums
  <2>1. PICK y : y = spent[j] /\ y \in Int /\ Squares(spent)[j] = y * y
    BY <2>0
  <2>2. h[j] = Q + (-2 * y) * S + (y * y) * n
    BY <1>1, <1>2, <2>1, PairsWithOne DEF Pairs
  <2>3. Q + (-2 * y) * S + (y * y) * n = (-2 * S) * y + n * (y * y) + Q
    BY <1>2, <2>1
  <2> QED
    BY <1>3, <2>1, <2>2, <2>3
<1>5. SumFunctionOnSet(h, B) = a * S + n * Q + Q * n
  <2>1. IsFiniteSet(B) /\ IntegersOn(spent, B) /\ IntegersOn(Squares(spent), B)
    BY MonthSums
  <2>2. SumFunctionOnSet(h, B) =
          a * SumFunctionOnSet(spent, B) + n * SumFunctionOnSet(Squares(spent), B)
            + Q * Cardinality(B)
    <3>1. a \in Int /\ n \in Int /\ Q \in Int
      BY <1>2, <1>3
    <3> QED
      BY <1>4, <2>1, <3>1, SumLinear
  <2> QED
    BY <1>2, <2>2
<1>6. a * S + n * Q + Q * n = 2 * (n * Q - S * S)
  BY <1>2, <1>3
<1>7. SumFunction(h) = SumFunctionOnSet(h, B)
  BY <1>1, Zenon DEF SumFunction
<1> QED
  BY <1>1, <1>2, <1>5, <1>6, <1>7 DEF SpreadOver, Square

\* The spread is zero exactly if the months are all the same.
LEMMA SpreadOfEqual ==
    ASSUME NEW spent \in Spending, NEW B \in SUBSET Months
    PROVE  SpreadOver(spent, B) # 0 <=> \E j, k \in B : spent[j] # spent[k]
<1>0. PICK h : h = Pairs(spent, B)
  OBVIOUS
<1>1. h = Pairs(spent, B) /\ DOMAIN h = B /\ IsFiniteSet(B)
  BY <1>0, MonthSums DEF Pairs
<1>2. SumFunctionOnSet(h, B) = 2 * SpreadOver(spent, B) /\ SpreadOver(spent, B) \in Int
  <2>1. SumFunction(h) = SumFunctionOnSet(h, B)
    BY <1>1, Zenon DEF SumFunction
  <2> QED
    BY <1>1, <2>1, PairsAreSpread, SpreadNotNegative
<1>3. ASSUME NEW j \in B
      PROVE  /\ h[j] \in Nat
             /\ (\E k \in B : spent[j] # spent[k]) => h[j] > 0
             /\ (\A k \in B : spent[j] = spent[k]) => h[j] = 0
  <2>0. PICK g : g = PairsWith(spent, B, j)
    OBVIOUS
  <2>1. g = PairsWith(spent, B, j) /\ DOMAIN g = B
    BY <2>0 DEF PairsWith
  <2>2. h[j] = SumFunctionOnSet(g, B)
    <3>1. SumFunction(g) = SumFunctionOnSet(g, B)
      BY <2>1, Zenon DEF SumFunction
    <3> QED
      BY <1>1, <2>1, <3>1 DEF Pairs
  <2>3. \A k \in B : /\ g[k] \in Nat
                     /\ spent[j] # spent[k] => g[k] > 0
                     /\ spent[j] = spent[k] => g[k] = 0
    <3> SUFFICES ASSUME NEW k \in B
                 PROVE  /\ g[k] \in Nat
                        /\ spent[j] # spent[k] => g[k] > 0
                        /\ spent[j] = spent[k] => g[k] = 0
      OBVIOUS
    <3>0. spent[j] \in Nat /\ spent[k] \in Nat
      BY MonthSums
    <3>1. PICK d : d = spent[j] - spent[k] /\ d \in Int /\ (d = 0 <=> spent[j] = spent[k])
      BY <3>0
    <3>2. g[k] = d * d
      BY <2>1, <3>1 DEF PairsWith, Square
    <3>3. d * d \in Nat /\ (d # 0 => d * d > 0)
      BY <3>1
    <3> QED
      BY <3>1, <3>2, <3>3
  <2>4. h[j] \in Nat /\ ((\E k \in B : g[k] > 0) => h[j] > 0)
    BY <1>1, <2>2, <2>3, SumOfNaturals
  <2>5. (\A k \in B : g[k] = 0) => h[j] = 0
    BY <1>1, <2>2, SumOfZeros
  <2> QED
    BY <2>3, <2>4, <2>5
<1>4. (\E j \in B : h[j] > 0) => SumFunctionOnSet(h, B) > 0
  BY <1>1, <1>3, SumOfNaturals
<1>5. (\A j \in B : h[j] = 0) => SumFunctionOnSet(h, B) = 0
  BY <1>1, SumOfZeros
<1> QED
  BY <1>2, <1>3, <1>4, <1>5

LEMMA BaselineMonths ==
    ASSUME NEW spent, NEW m
    PROVE  Baseline(spent, m) \in SUBSET Months /\ m \notin Baseline(spent, m)
<1>1. \A k \in Months : ~(k < k)
  BY AnomalyAssumption DEF Months
<1> QED
  BY <1>1 DEF Baseline, Earlier, Active

-----------------------------------------------------------------------------
(***************************************************************************)
(* The theorems about detect_anomalies.                                    *)
(***************************************************************************)
LEMMA SpendingTyped == AnomalySpec => [](spend \in Spending)
<1>1. AnomalyInit => spend \in Spending
  BY DEF AnomalyInit, Spending
<1>2. spend \in Spending /\ [AnomalyNext]_spend => (spend \in Spending)'
  <2> SUFFICES ASSUME spend \in Spending, [AnomalyNext]_spend PROVE spend' \in Spending
    OBVIOUS
  <2>1. CASE UNCHANGED spend
    BY <2>1
  <2>2. ASSUME NEW m \in Months, SpendMore(m) \/ SpendLess(m) PROVE spend' \in Spending
    <3>1. spend[m] \in Nat
      BY DEF Spending
    <3>2. CASE SpendMore(m)
      BY <3>1, <3>2 DEF SpendMore, Spending
    <3>3. CASE SpendLess(m)
      BY <3>1, <3>3 DEF SpendLess, Spending
    <3> QED
      BY <2>2, <3>2, <3>3
  <2> QED
    BY <2>1, <2>2 DEF AnomalyNext
<1> QED
  BY <1>1, <1>2, PTL DEF AnomalySpec

\* In every state that expenses posted late, deleted or categorized anew lead
\* to, a month flagged over at most z^2 + 1 months is dearer than each.
THEOREM AlarmsBeatTheirBaseline == AnomalySpec => []AlarmBeatsBaseline
<1>1. spend \in Spending => AlarmBeatsBaseline
  <2> SUFFICES ASSUME spend \in Spending, NEW m \in detect_anomalies(spend),
                      NEW B, B = Baseline(spend, m),
                      Cardinality(B) <= Square(z_threshold) + 1, NEW k \in B
               PROVE  spend[k] < spend[m]
    BY DEF AlarmBeatsBaseline
  <2>1. m \in Active(spend) /\ Alarming(spend, m)
    BY FlagsByMonth
  <2>2. Margin(spend[m], spend, B) > 0
          /\ Square(Margin(spend[m], spend, B)) > Square(z_threshold) * SpreadOver(spend, B)
    BY <2>1 DEF Alarming
  <2>3. spend[m] \in Int
    BY <2>1 DEF Active, Spending
  <2> QED
    BY <2>2, <2>3, BaselineMonths, AlarmAbove
<1> QED
  BY <1>1, SpendingTyped, PTL

\* Two months that differ are two.
LEMMA TwoMonths ==
    ASSUME NEW B \in SUBSET Months, NEW spent \in Spending,
           \E j, k \in B : spent[j] # spent[k]
    PROVE  Cardinality(B) >= 2
<1>1. IsFiniteSet(B) /\ Cardinality(B) \in Nat
  BY MonthSums
<1>2. B # {} /\ ~ \E x : B = {x}
  OBVIOUS
<1>3. Cardinality(B) # 0 /\ Cardinality(B) # 1
  BY <1>1, <1>2, FS_EmptySet, FS_Singleton
<1> QED
  BY <1>1, <1>3

\* A month is flagged exactly if enough months precede it, its baseline varies
\* and it exceeds the mean by z deviations: the loop's bounds on positions are
\* right for every length of history and of baseline.
THEOREM FlagsAreDefined == AnomalySpec => []FlaggedAsDefined
<1>1. spend \in Spending => FlaggedAsDefined
  <2> SUFFICES ASSUME spend \in Spending, NEW m \in Months,
                      NEW B, B = Baseline(spend, m)
               PROVE  m \in detect_anomalies(spend) <=>
                        /\ m \in Active(spend)
                        /\ Cardinality(Earlier(spend, m)) >= min_history_months
                        /\ \E j, k \in B : spend[j] # spend[k]
                        /\ SumFunction(Difference(spend, B, spend[m])) > 0
                        /\ 2 * Square(SumFunction(Difference(spend, B, spend[m])))
                              > Square(z_threshold) * SumFunction(Pairs(spend, B))
    BY Zenon DEF FlaggedAsDefined, Difference, Pairs, PairsWith
  <2>1. B \in SUBSET Months /\ spend[m] \in Int
    BY BaselineMonths DEF Spending
  <2>2. PICK a, V : /\ a = Margin(spend[m], spend, B) /\ V = SpreadOver(spend, B)
                    /\ a \in Int /\ V \in Int
    BY <2>1, MonthSums, SpreadNotNegative DEF Margin
  <2>3. /\ SumFunction(Difference(spend, B, spend[m])) = a
        /\ SumFunction(Pairs(spend, B)) = 2 * V
    BY <2>1, <2>2, MarginIsDifference, PairsAreSpread
  <2>4. /\ V # 0 <=> \E j, k \in B : spend[j] # spend[k]
        /\ V # 0 => Cardinality(B) >= 2
    BY <2>1, <2>2, SpreadOfEqual, TwoMonths
  <2>5. 2 * Square(a) > Square(z_threshold) * (2 * V) <=> Square(a) > Square(z_threshold) * V
    BY <2>2, AnomalyAssumption DEF Square
  <2>6. Alarming(spend, m) <=>
           /\ Cardinality(Earlier(spend, m)) >= min_history_months
           /\ Cardinality(B) >= 2 /\ V # 0
           /\ a > 0 /\ Square(a) > Square(z_threshold) * V
    BY <2>2 DEF Alarming
  <2>7. m \in detect_anomalies(spend) <=> m \in Active(spend) /\ Alarming(spend, m)
    BY FlagsByMonth
  <2> QED
    BY <2>3, <2>4, <2>5, <2>6, <2>7
<1> QED
  BY <1>1, SpendingTyped, PTL

\* The baseline of a month is made of what was spent before it.
LEMMA PastDecides ==
    ASSUME NEW spent \in Spending, NEW later \in Spending, NEW m \in Months,
           \A k \in Months : k < m => later[k] = spent[k],
           NEW B, B = Baseline(spent, m)
    PROVE  /\ Earlier(later, m) = Earlier(spent, m) /\ Baseline(later, m) = B
           /\ SpreadOver(later, B) = SpreadOver(spent, B)
           /\ \A x : Margin(x, later, B) = Margin(x, spent, B)
<1>1. Earlier(later, m) = Earlier(spent, m)
  BY DEF Earlier, Active
<1>2. Baseline(later, m) = B
  BY <1>1 DEF Baseline, Since
<1>3. \A k \in B : k \in Months /\ k < m
  BY DEF Baseline, Earlier, Active
<1>4. B \in SUBSET Months
  BY <1>3
<1>5. /\ IsFiniteSet(B) /\ IntegersOn(spent, B) /\ IntegersOn(Squares(spent), B)
      /\ \A k \in B : later[k] = spent[k] /\ Squares(later)[k] = Squares(spent)[k]
  <2>1. \A k \in B : later[k] = spent[k] /\ Squares(later)[k] = Squares(spent)[k]
    BY <1>3 DEF Squares
  <2> QED
    BY <1>4, <2>1, MonthSums
<1>6. /\ SumFunctionOnSet(later, B) = SumFunctionOnSet(spent, B)
      /\ SumFunctionOnSet(Squares(later), B) = SumFunctionOnSet(Squares(spent), B)
  BY <1>5, SumAgrees
<1> QED
  BY <1>1, <1>2, <1>6 DEF SpreadOver, Margin

\* A dearer month keeps its alarm.
LEMMA DearerStaysAlarming ==
    ASSUME NEW spent \in Spending, NEW later \in Spending, NEW m \in Months,
           \A k \in Months : k < m => later[k] = spent[k],
           later[m] > spent[m], Alarming(spent, m)
    PROVE  Alarming(later, m)
<1>1. PICK B : B = Baseline(spent, m)
  OBVIOUS
<1>2. /\ Earlier(later, m) = Earlier(spent, m) /\ Baseline(later, m) = B
      /\ SpreadOver(later, B) = SpreadOver(spent, B)
      /\ Margin(later[m], later, B) = Margin(later[m], spent, B)
  BY <1>1, PastDecides
<1>3. PICK a, b : a = Margin(spent[m], spent, B) /\ b = Margin(later[m], spent, B)
  OBVIOUS
<1>4. a \in Int /\ b \in Int /\ a <= b
  <2>1. PICK n, S : /\ n = Cardinality(B) /\ S = SumFunctionOnSet(spent, B)
                    /\ n \in Nat /\ S \in Int
    BY <1>1, BaselineMonths, MonthSums
  <2>2. spent[m] \in Nat /\ later[m] \in Nat
    BY DEF Spending
  <2>3. n * spent[m] <= n * later[m]
    BY <2>1, <2>2
  <2>4. a = n * spent[m] - S /\ b = n * later[m] - S
    BY <1>3, <2>1 DEF Margin
  <2> QED
    BY <2>1, <2>2, <2>3, <2>4
<1>5. /\ Cardinality(Earlier(spent, m)) >= min_history_months /\ Cardinality(B) >= 2
      /\ SpreadOver(spent, B) # 0
      /\ a > 0 /\ Square(a) > Square(z_threshold) * SpreadOver(spent, B)
  BY <1>1, <1>3 DEF Alarming
<1>6. b > 0 /\ Square(b) > Square(z_threshold) * SpreadOver(spent, B)
  <2>1. b * b >= a * a
    BY <1>4, <1>5
  <2>2. Square(z_threshold) * SpreadOver(spent, B) \in Int
    <3>1. SpreadOver(spent, B) \in Int
      BY <1>1, BaselineMonths, SpreadNotNegative
    <3> QED
      BY <3>1, AnomalyAssumption DEF Square
  <2> QED
    BY <1>4, <1>5, <2>1, <2>2 DEF Square
<1> QED
  BY <1>2, <1>3, <1>5, <1>6 DEF Alarming

\* A step changes the spending of one month.
LEMMA OneMonthChanges ==
    ASSUME spend \in Spending, AnomalyNext
    PROVE  /\ spend' \in Spending
           /\ \E c \in Months : \A k \in Months : k # c => spend'[k] = spend[k]
<1> SUFFICES ASSUME NEW c \in Months, SpendMore(c) \/ SpendLess(c)
             PROVE  /\ spend' \in Spending
                    /\ \A k \in Months : k # c => spend'[k] = spend[k]
  BY DEF AnomalyNext
<1>1. spend[c] \in Nat
  BY DEF Spending
<1>2. CASE SpendMore(c)
  BY <1>1, <1>2 DEF SpendMore, Spending
<1>3. CASE SpendLess(c)
  BY <1>1, <1>3 DEF SpendLess, Spending
<1> QED
  BY <1>2, <1>3

\* What is spent in a month changes no flag of the months before it, and
\* takes its own away only when it becomes less.
THEOREM FlagsLast == AnomalySpec => FlagsAreFinal
<1> DEFINE Final ==
      LET before == detect_anomalies(spend)
          after == detect_anomalies(spend')
      IN  \A m \in Months :
             spend'[m] # spend[m] =>
                /\ before \cap 1..(m - 1) = after \cap 1..(m - 1)
                /\ spend'[m] > spend[m] /\ m \in before => m \in after
<1>1. spend \in Spending /\ [AnomalyNext]_spend => [Final]_spend
  <2> SUFFICES ASSUME spend \in Spending, AnomalyNext, NEW m \in Months,
                      spend'[m] # spend[m]
               PROVE  /\ detect_anomalies(spend) \cap 1..(m - 1)
                            = detect_anomalies(spend') \cap 1..(m - 1)
                      /\ spend'[m] > spend[m] /\ m \in detect_anomalies(spend)
                            => m \in detect_anomalies(spend')
    OBVIOUS
  <2>1. PICK later : later = spend'
    OBVIOUS
  <2>2. later \in Spending /\ \A k \in Months : k # m => later[k] = spend[k]
    BY <2>1, OneMonthChanges
  <2>3. Months \subseteq Nat /\ m \in Nat
    BY AnomalyAssumption DEF Months
  <2>4. /\ detect_anomalies(spend) = {k \in Active(spend) : Alarming(spend, k)}
        /\ detect_anomalies(later) = {k \in Active(later) : Alarming(later, k)}
    BY <2>2, FlagsByMonth
  <2>5. ASSUME NEW k \in Months, k < m
        PROVE  k \in detect_anomalies(spend) <=> k \in detect_anomalies(later)
    <3>1. \A j \in Months : j <= k => later[j] = spend[j]
      BY <2>2, <2>3, <2>5
    <3>2. PICK B : B = Baseline(spend, k)
      OBVIOUS
    <3>3. /\ Earlier(later, k) = Earlier(spend, k) /\ Baseline(later, k) = B
          /\ SpreadOver(later, B) = SpreadOver(spend, B)
          /\ Margin(later[k], later, B) = Margin(spend[k], spend, B)
      <4>1. \A j \in Months : j < k => later[j] = spend[j]
        BY <2>3, <3>1
      <4>2. later[k] = spend[k]
        <5>1. k \in Months /\ k # m
          BY <2>3, <2>5
        <5> QED
          BY <2>2, <5>1
      <4> QED
        BY <2>2, <3>2, <4>1, <4>2, PastDecides
    <3>4. Alarming(later, k) <=> Alarming(spend, k)
      BY <3>2, <3>3 DEF Alarming
    <3>5. k \in Active(later) <=> k \in Active(spend)
      BY <2>3, <3>1 DEF Active
    <3> QED
      BY <2>4, <3>4, <3>5
  <2>6. detect_anomalies(spend) \cap 1..(m - 1) = detect_anomalies(later) \cap 1..(m - 1)
    <3>1. \A k \in 1..(m - 1) : k \in Months /\ k < m
      BY AnomalyAssumption DEF Months
    <3> QED
      BY <2>5, <3>1
  <2>7. ASSUME later[m] > spend[m], m \in detect_anomalies(spend)
        PROVE  m \in detect_anomalies(later)
    <3>1. \A j \in Months : j < m => later[j] = spend[j]
      BY <2>2, <2>3
    <3>2. Alarming(later, m)
      BY <2>2, <2>4, <2>7, <3>1, DearerStaysAlarming
    <3>3. m \in Active(later)
      BY <2>2, <2>7 DEF Active, Spending
    <3> QED
      BY <2>4, <3>2, <3>3
  <2> QED
    BY <2>1, <2>6, <2>7
<1> QED
  BY <1>1, SpendingTyped, PTL DEF AnomalySpec, FlagsAreFinal

-----------------------------------------------------------------------------
(***************************************************************************)
(* Ranks.  In a finite set with a strict total order, the rank of an       *)
(* element is the number of those before it; each rank below the number of *)
(* elements is that of one element.                                        *)
(***************************************************************************)
Before(R, S, x) == {y \in S : <<y, x>> \in R}
rank(R, S, x) == Cardinality(Before(R, S, x))

StrictOrder(R, S) ==
    /\ \A x \in S : <<x, x>> \notin R
    /\ \A x, y, z \in S : <<x, y>> \in R /\ <<y, z>> \in R => <<x, z>> \in R
    /\ \A x, y \in S : x = y \/ <<x, y>> \in R \/ <<y, x>> \in R

LEMMA RanksInOrder ==
    ASSUME NEW R, NEW S, IsFiniteSet(S), StrictOrder(R, S), NEW x \in S, NEW y \in S
    PROVE  /\ rank(R, S, x) \in 0..(Cardinality(S) - 1)
           /\ <<x, y>> \in R <=> rank(R, S, x) < rank(R, S, y)
           /\ rank(R, S, x) = rank(R, S, y) => x = y
<1>1. \A z \in S : /\ IsFiniteSet(Before(R, S, z)) /\ rank(R, S, z) \in Nat
                   /\ rank(R, S, z) < Cardinality(S)
  <2> SUFFICES ASSUME NEW z \in S
               PROVE  /\ IsFiniteSet(Before(R, S, z)) /\ rank(R, S, z) \in Nat
                      /\ rank(R, S, z) < Cardinality(S)
    OBVIOUS
  <2>1. Before(R, S, z) \in SUBSET S /\ Before(R, S, z) # S
    BY DEF Before, StrictOrder
  <2>2. PICK B : B = Before(R, S, z)
    OBVIOUS
  <2> QED
    BY <2>1, <2>2, FS_Subset, FS_CardinalityType DEF rank
<1>2. \A u, v \in S : <<u, v>> \in R => rank(R, S, u) < rank(R, S, v)
  <2> SUFFICES ASSUME NEW u \in S, NEW v \in S, <<u, v>> \in R
               PROVE  rank(R, S, u) < rank(R, S, v)
    OBVIOUS
  <2>1. PICK A, B : A = Before(R, S, u) /\ B = Before(R, S, v)
    OBVIOUS
  <2>2. A \subseteq B /\ A # B
    BY <2>1 DEF Before, StrictOrder
  <2>3. IsFiniteSet(B) /\ rank(R, S, u) = Cardinality(A) /\ rank(R, S, v) = Cardinality(B)
    BY <1>1, <2>1 DEF rank
  <2>4. Cardinality(A) <= Cardinality(B) /\ Cardinality(A) # Cardinality(B)
    BY <2>2, <2>3, FS_Subset
  <2> QED
    BY <1>1, <2>3, <2>4
<1>3. x = y \/ <<x, y>> \in R \/ <<y, x>> \in R
  BY DEF StrictOrder
<1> QED
  BY <1>1, <1>2, <1>3, FS_CardinalityType

LEMMA RanksTaken ==
    ASSUME NEW R, NEW S, IsFiniteSet(S), StrictOrder(R, S), NEW i \in 0..(Cardinality(S) - 1)
    PROVE  \E x \in S : rank(R, S, x) = i
<1> SUFFICES ASSUME \A x \in S : rank(R, S, x) # i PROVE FALSE
  OBVIOUS
<1>1. PICK n : n = Cardinality(S) /\ n \in Nat
  BY FS_CardinalityType
<1>2. PICK f : f = [x \in S |-> rank(R, S, x) + 1]
  OBVIOUS
<1>3. \A x, y \in S : /\ rank(R, S, x) \in 0..(n - 1)
                      /\ rank(R, S, x) = rank(R, S, y) => x = y
  BY <1>1, RanksInOrder
<1>4. f \in [S -> (1..n) \ {i + 1}]
  BY <1>1, <1>2, <1>3
<1>5. IsFiniteSet((1..n) \ {i + 1}) /\ Cardinality((1..n) \ {i + 1}) = n - 1
  <2>1. IsFiniteSet(1..n) /\ Cardinality(1..n) = n /\ i + 1 \in 1..n
    BY <1>1, CardinalityOfOneTo
  <2> QED
    BY <1>1, <2>1, FS_RemoveElement
<1>6. \E x, y \in S : x # y /\ f[x] = f[y]
  BY <1>1, <1>4, <1>5, FS_PigeonHole
<1> QED
  BY <1>1, <1>2, <1>3, <1>6

-----------------------------------------------------------------------------
(***************************************************************************)
(* sorted() lists the charges, each once, in the order of ByAmount.        *)
(***************************************************************************)
InOrder == {cd \in Charge \X Charge : ByAmount(cd[1], cd[2])}

LEMMA ChargeTyped ==
    ASSUME NEW c \in Charge
    PROVE  c.amount \in Int /\ c.day \in Nat /\ c.nr \in Nat
<1>1. ChargeAmounts \subseteq Int /\ ChargeDays \subseteq Nat /\ MaxCharges \in Nat
  BY ChargesAssumption
<1>2. c.amount \in ChargeAmounts /\ c.day \in ChargeDays /\ c.nr \in 1..MaxCharges
  BY DEF Charge
<1>3. c.amount \in Int /\ c.day \in Nat
  BY <1>1, <1>2
<1>4. PICK nr : nr = c.nr
  OBVIOUS
<1>5. nr \in Nat
  BY <1>1, <1>2, <1>4
<1> QED
  BY <1>3, <1>4, <1>5

LEMMA OrderOfCharges ==
    ASSUME NEW posted \in SUBSET Charge
    PROVE  StrictOrder(InOrder, posted)
<1>1. \A c \in posted : c.amount \in Int /\ c.day \in Nat /\ c.nr \in Nat
  BY ChargeTyped
<1>2. \A c, d \in posted : <<c, d>> \in InOrder <=> ByAmount(c, d)
  BY DEF InOrder
<1>3. \A c, d \in posted : c.amount = d.amount /\ c.day = d.day /\ c.nr = d.nr => c = d
  BY DEF Charge
<1>4. \A c \in posted : ~ ByAmount(c, c)
  BY <1>1 DEF ByAmount
<1>5. \A c, d, e \in posted : ByAmount(c, d) /\ ByAmount(d, e) => ByAmount(c, e)
  BY <1>1 DEF ByAmount
<1>6. \A c, d \in posted : c = d \/ ByAmount(c, d) \/ ByAmount(d, c)
  BY <1>1, <1>3 DEF ByAmount
<1> QED
  BY <1>2, <1>4, <1>5, <1>6 DEF StrictOrder

LEMMA RankByAmount ==
    ASSUME NEW posted \in SUBSET Charge, NEW c \in posted
    PROVE  Before(InOrder, posted, c) = {d \in posted : ByAmount(d, c)}
BY DEF Before, InOrder

LEMMA Sorted ==
    ASSUME NEW posted \in SUBSET Charge, IsFiniteSet(posted), NEW s, s = sorted(posted)
    PROVE  /\ s \in Seq(posted) /\ Len(s) \in Nat /\ Len(s) = Cardinality(posted)
           /\ DOMAIN s = 1..Len(s)
           /\ \A i \in DOMAIN s : s[i] \in posted /\ rank(InOrder, posted, s[i]) = i - 1
           /\ \A c \in posted : /\ rank(InOrder, posted, c) + 1 \in DOMAIN s
                                /\ s[rank(InOrder, posted, c) + 1] = c
<1>1. PICK n : n = Cardinality(posted) /\ n \in Nat
  BY FS_CardinalityType
<1>2. \A c \in posted : Cardinality({d \in posted : ByAmount(d, c)}) = rank(InOrder, posted, c)
  BY RankByAmount DEF rank
<1> DEFINE at(i) == CHOOSE c \in posted : Cardinality({d \in posted : ByAmount(d, c)}) = i - 1
<1>3. s = [i \in 1..n |-> at(i)]
  BY <1>1 DEF sorted
<1>4. \A i \in 1..n : \E c \in posted : Cardinality({d \in posted : ByAmount(d, c)}) = i - 1
  BY <1>1, <1>2, RanksTaken, OrderOfCharges
<1>5. \A i \in 1..n : /\ at(i) \in posted
                      /\ Cardinality({d \in posted : ByAmount(d, at(i))}) = i - 1
  BY <1>4
<1>6. \A i \in 1..n : at(i) \in posted /\ rank(InOrder, posted, at(i)) = i - 1
  BY <1>2, <1>5
<1> HIDE DEF at
<1>7. /\ s \in [1..n -> posted]
      /\ \A i \in 1..n : s[i] \in posted /\ rank(InOrder, posted, s[i]) = i - 1
  BY <1>3, <1>6
<1>8. s \in Seq(posted) /\ Len(s) = n /\ DOMAIN s = 1..n
  BY <1>1, <1>7
<1>9. ASSUME NEW c \in posted
      PROVE  /\ rank(InOrder, posted, c) + 1 \in 1..n
             /\ s[rank(InOrder, posted, c) + 1] = c
  <2>1. StrictOrder(InOrder, posted) /\ rank(InOrder, posted, c) \in 0..(n - 1)
    BY <1>1, OrderOfCharges, RanksInOrder
  <2>2. PICK i : i = rank(InOrder, posted, c) + 1 /\ i \in 1..n
    BY <1>1, <2>1
  <2>3. s[i] \in posted /\ rank(InOrder, posted, s[i]) = rank(InOrder, posted, c)
    BY <1>7, <2>1, <2>2
  <2> QED
    BY <2>1, <2>2, <2>3, RanksInOrder
<1> QED
  BY <1>1, <1>7, <1>8, <1>9

\* No charge has a lower amount than one listed before it.
LEMMA SortedByAmount ==
    ASSUME NEW posted \in SUBSET Charge, IsFiniteSet(posted), NEW s, s = sorted(posted),
           NEW i \in DOMAIN s, NEW j \in DOMAIN s, i < j
    PROVE  ByAmount(s[i], s[j]) /\ s[i].amount <= s[j].amount
<1>1. /\ s[i] \in posted /\ rank(InOrder, posted, s[i]) = i - 1
      /\ s[j] \in posted /\ rank(InOrder, posted, s[j]) = j - 1
      /\ i \in Nat /\ j \in Nat
  BY Sorted
<1>2. <<s[i], s[j]>> \in InOrder
  BY <1>1, OrderOfCharges, RanksInOrder
<1>3. ByAmount(s[i], s[j])
  BY <1>2 DEF InOrder
<1> QED
  BY <1>1, <1>3, ChargeTyped DEF ByAmount

-----------------------------------------------------------------------------
(***************************************************************************)
(* The loop over the charges: one turn, and what holds after each.         *)
(***************************************************************************)
Turns(after, s, n) ==
    after = [i \in 0..n |-> IF i = 0 THEN << >> ELSE with_charge(after[i - 1], s[i])]

LEMMA LoopRuns ==
    ASSUME NEW s, NEW n \in Nat
    PROVE  \E after : Turns(after, s, n)
<1> DEFINE Good == {m \in Nat : \E after : Turns(after, s, m)}
<1>1. 0 \in Good
  <2>1. Turns([i \in 0..0 |-> << >>], s, 0)
    BY DEF Turns
  <2> QED
    BY <2>1
<1>2. ASSUME NEW m \in Nat, m \in Good PROVE m + 1 \in Good
  <2>1. PICK after : Turns(after, s, m)
    BY <1>2
  <2> DEFINE longer == [i \in 0..(m + 1) |->
                          IF i = 0 THEN << >> ELSE with_charge(after[i - 1], s[i])]
  <2>2. \A i \in 0..m : longer[i] = after[i]
    BY <2>1 DEF Turns
  <2>3. \A i \in 0..(m + 1) : i # 0 => i - 1 \in 0..m
    OBVIOUS
  <2>4. longer = [i \in 0..(m + 1) |->
                    IF i = 0 THEN << >> ELSE with_charge(longer[i - 1], s[i])]
    <3>1. \A i \in 0..(m + 1) : i # 0 =>
             with_charge(after[i - 1], s[i]) = with_charge(longer[i - 1], s[i])
      BY <2>2, <2>3
    <3> QED
      BY <3>1
  <2> HIDE DEF longer
  <2>5. Turns(longer, s, m + 1)
    BY <2>4 DEF Turns
  <2> QED
    BY <2>5
<1>3. Nat \subseteq Good
  <2> HIDE DEF Good
  <2> QED
    BY <1>1, <1>2, NaturalSteps
<1> QED
  BY <1>3

LEMMA ClustersAreTurns ==
    ASSUME NEW posted \in SUBSET Charge, IsFiniteSet(posted), NEW s, s = sorted(posted)
    PROVE  \E after : Turns(after, s, Len(s)) /\ clusters(posted) = after[Len(s)]
<1>1. Len(s) \in Nat
  BY Sorted
<1>2. \E after : Turns(after, s, Len(s))
  BY <1>1, LoopRuns
<1>3. clusters(posted) = (CHOOSE after : Turns(after, s, Len(s)))[Len(s)]
  BY Zenon DEF clusters, Turns
<1> QED
  BY <1>2, <1>3

LEMMA Appended ==
    ASSUME NEW posted, NEW group \in Seq(posted), group # << >>, NEW c \in posted
    PROVE  /\ Append(group, c) \in Seq(posted) /\ Append(group, c) # << >>
           /\ Append(group, c)[1] = group[1]
           /\ Len(Append(group, c)) = Len(group) + 1
           /\ Range(Append(group, c)) = Range(group) \cup {c}
<1>1. PICK g : g = Append(group, c)
  OBVIOUS
<1>2. /\ g \in Seq(posted) /\ Len(g) = Len(group) + 1 /\ Len(group) \in Nat /\ Len(group) # 0
      /\ DOMAIN g = 1..(Len(group) + 1) /\ DOMAIN group = 1..Len(group)
      /\ \A i \in 1..Len(group) : g[i] = group[i]
      /\ g[Len(group) + 1] = c
  BY <1>1
<1>3. Range(g) = Range(group) \cup {c}
  BY <1>2 DEF Range
<1> QED
  BY <1>1, <1>2, <1>3

\* Of a list of groups that are not empty.
GroupsOf(posted) == Seq({group \in Seq(posted) : group # << >>})

Joins(groups, c) == groups # << >> /\ joins(groups[Len(groups)], c)

LEMMA OneTurn ==
    ASSUME NEW posted, NEW groups \in GroupsOf(posted), NEW c \in posted,
           NEW longer, longer = with_charge(groups, c)
    PROVE  /\ longer \in GroupsOf(posted)
           /\ \A k \in 1..(Len(groups) - 1) : longer[k] = groups[k]
           /\ Joins(groups, c) => /\ Len(groups) \in DOMAIN groups
                                  /\ Len(longer) = Len(groups)
                                  /\ longer[Len(groups)] = Append(groups[Len(groups)], c)
           /\ ~ Joins(groups, c) => /\ Len(longer) = Len(groups) + 1
                                    /\ \A k \in DOMAIN groups : longer[k] = groups[k]
                                    /\ longer[Len(groups) + 1] = <<c>>
<1>1. PICK G : G = {group \in Seq(posted) : group # << >>}
  OBVIOUS
<1>2. PICK n : n = Len(groups) /\ n \in Nat /\ DOMAIN groups = 1..n /\ groups \in Seq(G)
  BY <1>1 DEF GroupsOf
<1>3. CASE Joins(groups, c)
  <2>1. n \in 1..n /\ groups[n] \in G
    BY <1>2, <1>3 DEF Joins
  <2>2. Append(groups[n], c) \in G
    BY <1>1, <2>1, Appended
  <2>3. longer = [groups EXCEPT ![n] = Append(groups[n], c)]
    BY <1>2, <1>3 DEF with_charge, Joins
  <2>4. longer \in Seq(G) /\ Len(longer) = n
    BY <1>2, <2>1, <2>2, <2>3
  <2>5. longer[n] = Append(groups[n], c) /\ \A k \in 1..(n - 1) : longer[k] = groups[k]
    BY <1>2, <2>1, <2>3
  <2> QED
    BY <1>1, <1>2, <1>3, <2>1, <2>4, <2>5 DEF GroupsOf
<1>4. CASE ~ Joins(groups, c)
  <2>1. <<c>> \in G
    BY <1>1
  <2>2. longer = Append(groups, <<c>>)
    BY <1>4 DEF with_charge, Joins
  <2>3. longer \in Seq(G) /\ Len(longer) = n + 1
    BY <1>2, <2>1, <2>2
  <2>4. longer[n + 1] = <<c>> /\ \A k \in 1..n : longer[k] = groups[k]
    BY <1>2, <2>1, <2>2
  <2> QED
    BY <1>1, <1>2, <1>4, <2>3, <2>4 DEF GroupsOf
<1> QED
  BY <1>3, <1>4

LEMMA LastTerm ==
    ASSUME NEW n \in Nat, n # 0, NEW f, DOMAIN f = 1..n, IntegersOn(f, 1..n)
    PROVE  SumFunction(f) = SumFunctionOnSet(f, 1..(n - 1)) + f[n]
<1>1. IsFiniteSet(1..(n - 1)) /\ (1..(n - 1)) \cup {n} = 1..n /\ n \notin 1..(n - 1)
  BY CardinalityOfOneTo
<1>2. SumFunction(f) = SumFunctionOnSet(f, (1..(n - 1)) \cup {n})
  BY <1>1, Zenon DEF SumFunction
<1> QED
  BY <1>1, <1>2, SumWith

sizes(groups) == [k \in DOMAIN groups |-> Len(groups[k])]

LEMMA SizesTyped ==
    ASSUME NEW posted, NEW groups \in GroupsOf(posted)
    PROVE  /\ Len(groups) \in Nat /\ DOMAIN groups = 1..Len(groups)
           /\ DOMAIN sizes(groups) = 1..Len(groups)
           /\ \A k \in DOMAIN groups : /\ groups[k] \in Seq(posted) /\ groups[k] # << >>
                                       /\ sizes(groups)[k] = Len(groups[k])
                                       /\ sizes(groups)[k] \in Nat \ {0}
           /\ IntegersOn(sizes(groups), 1..Len(groups))
<1>1. PICK G : G = {group \in Seq(posted) : group # << >>}
  OBVIOUS
<1>2. groups \in Seq(G)
  BY <1>1 DEF GroupsOf
<1>3. /\ Len(groups) \in Nat /\ DOMAIN groups = 1..Len(groups)
      /\ \A k \in DOMAIN groups : groups[k] \in G
  BY <1>2
<1>4. \A k \in DOMAIN groups : Len(groups[k]) \in Nat \ {0}
  BY <1>1, <1>3
<1> QED
  BY <1>1, <1>3, <1>4 DEF sizes, IntegersOn

LEMMA SizesGrow ==
    ASSUME NEW posted, NEW groups \in GroupsOf(posted), NEW c \in posted,
           NEW longer, longer = with_charge(groups, c)
    PROVE  SumFunction(sizes(longer)) = SumFunction(sizes(groups)) + 1
<1>1. longer \in GroupsOf(posted)
  BY OneTurn
<1>2. PICK f, g : f = sizes(groups) /\ g = sizes(longer)
  OBVIOUS
<1>3. PICK n : n = Len(groups) /\ n \in Nat /\ DOMAIN groups = 1..n /\ DOMAIN f = 1..n
               /\ IntegersOn(f, 1..n)
  BY <1>2, SizesTyped
<1>4. /\ Len(longer) \in Nat /\ DOMAIN longer = 1..Len(longer) /\ DOMAIN g = 1..Len(longer)
      /\ IntegersOn(g, 1..Len(longer))
  BY <1>1, <1>2, SizesTyped
<1>5. /\ \A k \in 1..n : f[k] = Len(groups[k])
      /\ \A k \in 1..Len(longer) : g[k] = Len(longer[k])
  BY <1>1, <1>2, <1>3, <1>4, SizesTyped
<1>6. SumFunctionOnSet(f, 1..(n - 1)) \in Int /\ SumFunction(f) \in Int
  <2>1. IsFiniteSet(1..(n - 1)) /\ IntegersOn(f, 1..(n - 1)) /\ IsFiniteSet(1..n)
    BY <1>3, CardinalityOfOneTo DEF IntegersOn
  <2>2. SumFunction(f) = SumFunctionOnSet(f, 1..n)
    BY <1>3, Zenon DEF SumFunction
  <2> QED
    BY <1>3, <2>1, <2>2, SumType
<1>7. CASE Joins(groups, c)
  <2>1. /\ n \in 1..n /\ Len(longer) = n /\ longer[n] = Append(groups[n], c)
        /\ \A k \in 1..(n - 1) : longer[k] = groups[k]
    BY <1>3, <1>7, OneTurn
  <2>2. g[n] = f[n] + 1 /\ f[n] \in Int
    <3>1. groups[n] \in Seq(posted)
      BY <1>3, <2>1, SizesTyped
    <3> QED
      BY <1>3, <1>5, <2>1, <3>1
  <2>3. IsFiniteSet(1..(n - 1)) /\ IntegersOn(f, 1..(n - 1))
    BY <1>3, CardinalityOfOneTo DEF IntegersOn
  <2>4. \A k \in 1..(n - 1) : g[k] = f[k]
    BY <1>3, <1>5, <2>1
  <2>5. SumFunctionOnSet(g, 1..(n - 1)) = SumFunctionOnSet(f, 1..(n - 1))
    BY <2>3, <2>4, SumAgrees
  <2>6. SumFunction(f) = SumFunctionOnSet(f, 1..(n - 1)) + f[n]
    BY <1>3, <2>1, LastTerm
  <2>7. SumFunction(g) = SumFunctionOnSet(g, 1..(n - 1)) + g[n]
    BY <1>3, <1>4, <2>1, LastTerm
  <2> QED
    BY <1>2, <1>6, <2>2, <2>5, <2>6, <2>7
<1>8. CASE ~ Joins(groups, c)
  <2>1. /\ Len(longer) = n + 1 /\ longer[n + 1] = <<c>>
        /\ \A k \in 1..n : longer[k] = groups[k]
    BY <1>3, <1>8, OneTurn
  <2>2. g[n + 1] = 1
    <3>1. n + 1 \in 1..Len(longer) /\ Len(longer[n + 1]) = 1
      BY <1>3, <2>1
    <3> QED
      BY <1>5, <3>1
  <2>3. IsFiniteSet(1..n) /\ \A k \in 1..n : g[k] = f[k]
    BY <1>3, <1>5, <2>1, CardinalityOfOneTo
  <2>4. SumFunctionOnSet(g, 1..n) = SumFunctionOnSet(f, 1..n)
    BY <1>3, <2>3, SumAgrees
  <2>5. SumFunction(f) = SumFunctionOnSet(f, 1..n)
    BY <1>3, Zenon DEF SumFunction
  <2>6. SumFunction(g) = SumFunctionOnSet(g, 1..n) + g[n + 1]
    <3>1. n + 1 \in Nat /\ n + 1 # 0 /\ (n + 1) - 1 = n
      BY <1>3
    <3>2. DOMAIN g = 1..(n + 1) /\ IntegersOn(g, 1..(n + 1))
      BY <1>4, <2>1
    <3>3. SumFunction(g) = SumFunctionOnSet(g, 1..((n + 1) - 1)) + g[n + 1]
      BY <3>1, <3>2, LastTerm
    <3> QED
      BY <3>1, <3>3
  <2> QED
    BY <1>2, <1>6, <2>2, <2>4, <2>5, <2>6
<1> QED
  BY <1>7, <1>8

(***************************************************************************)
(* After the first i charges of s: they are in groups, one place each; a   *)
(* group begins with its lowest amount, and has none above that by more    *)
(* than the tolerance; the next group does begin so much higher.           *)
(***************************************************************************)
Grouped(groups, s, i) ==
    /\ \A j \in 1..i : \E k \in DOMAIN groups : s[j] \in Range(groups[k])
    /\ \A k \in DOMAIN groups : \A c \in Range(groups[k]) : \E j \in 1..i : c = s[j]
    /\ SumFunction(sizes(groups)) = i
    /\ \A k \in DOMAIN groups : \A c \in Range(groups[k]) :
          groups[k][1].amount <= c.amount /\ c.amount <= groups[k][1].amount + amount_tolerance
    /\ \A k, l \in DOMAIN groups :
          k < l => groups[k][1].amount + amount_tolerance < groups[l][1].amount

LEMMA TurnGroups ==
    ASSUME NEW posted \in SUBSET Charge, IsFiniteSet(posted), NEW s, s = sorted(posted),
           NEW i \in Nat, i + 1 \in DOMAIN s,
           NEW groups \in GroupsOf(posted), Grouped(groups, s, i),
           NEW longer, longer = with_charge(groups, s[i + 1])
    PROVE  Grouped(longer, s, i + 1)
<1>1. PICK c : c = s[i + 1] /\ c \in posted
  BY Sorted
<1>2. longer \in GroupsOf(posted) /\ SumFunction(sizes(longer)) = i + 1
  BY <1>1, OneTurn, SizesGrow DEF Grouped
<1>3. PICK n : n = Len(groups) /\ n \in Nat /\ DOMAIN groups = 1..n
               /\ \A k \in 1..n : groups[k] \in Seq(posted) /\ groups[k] # << >>
  BY SizesTyped
<1>4. DOMAIN longer = 1..Len(longer)
  BY <1>2, SizesTyped
<1>5. amount_tolerance \in Nat
  BY ChargesAssumption
<1>6. \A d \in posted : d.amount \in Int
  BY ChargeTyped
<1>7. \A k \in 1..n : /\ groups[k][1] \in Range(groups[k])
                      /\ \A d \in Range(groups[k]) : d \in posted /\ d.amount <= c.amount
  <2> SUFFICES ASSUME NEW k \in 1..n
               PROVE  /\ groups[k][1] \in Range(groups[k])
                      /\ \A d \in Range(groups[k]) : d \in posted /\ d.amount <= c.amount
    OBVIOUS
  <2>1. groups[k] \in Seq(posted) /\ groups[k] # << >>
    BY <1>3
  <2>2. groups[k][1] \in Range(groups[k]) /\ \A d \in Range(groups[k]) : d \in posted
    BY <2>1 DEF Range
  <2>3. ASSUME NEW d \in Range(groups[k]) PROVE d.amount <= c.amount
    <3>1. PICK j \in 1..i : d = s[j]
      BY <1>3, <2>3 DEF Grouped
    <3>2. j \in DOMAIN s /\ j < i + 1
      BY Sorted
    <3> QED
      BY <1>1, <3>1, <3>2, SortedByAmount
  <2> QED
    BY <2>2, <2>3
<1>8. PICK first, members :
          /\ first = [k \in 1..n |-> groups[k][1].amount]
          /\ members = [k \in 1..n |-> Range(groups[k])]
  OBVIOUS
<1>9. \A k \in 1..n : first[k] \in Int /\ first[k] <= c.amount
  BY <1>6, <1>7, <1>8
<1>10. /\ \A j \in 1..i : \E k \in 1..n : s[j] \in members[k]
       /\ \A k \in 1..n : \A d \in members[k] : \E j \in 1..i : d = s[j]
       /\ \A k \in 1..n : \A d \in members[k] :
             first[k] <= d.amount /\ d.amount <= first[k] + amount_tolerance
       /\ \A k, l \in 1..n : k < l => first[k] + amount_tolerance < first[l]
  BY <1>3, <1>8 DEF Grouped
<1>11. PICK N : N = Len(longer) /\ N \in Nat
  BY <1>2, SizesTyped
<1>12. PICK first2, members2 :
          /\ first2 = [k \in 1..N |-> longer[k][1].amount]
          /\ members2 = [k \in 1..N |-> Range(longer[k])]
  OBVIOUS
<1>13. SUFFICES
         /\ \A j \in 1..(i + 1) : \E k \in 1..N : s[j] \in members2[k]
         /\ \A k \in 1..N : \A d \in members2[k] : \E j \in 1..(i + 1) : d = s[j]
         /\ \A k \in 1..N : \A d \in members2[k] :
               first2[k] <= d.amount /\ d.amount <= first2[k] + amount_tolerance
         /\ \A k, l \in 1..N : k < l => first2[k] + amount_tolerance < first2[l]
  <2>1. /\ DOMAIN longer = 1..N
        /\ \A k \in 1..N : members2[k] = Range(longer[k]) /\ first2[k] = longer[k][1].amount
    BY <1>4, <1>11, <1>12
  <2>2. \A j \in 1..(i + 1) : \E k \in DOMAIN longer : s[j] \in Range(longer[k])
    <3> SUFFICES ASSUME NEW j \in 1..(i + 1)
                 PROVE  \E k \in DOMAIN longer : s[j] \in Range(longer[k])
      OBVIOUS
    <3>1. PICK k \in 1..N : s[j] \in members2[k]
      BY <1>13
    <3> QED
      BY <2>1, <3>1
  <2>3. \A k \in DOMAIN longer : \A d \in Range(longer[k]) : \E j \in 1..(i + 1) : d = s[j]
    BY <1>13, <2>1
  <2>4. \A k \in DOMAIN longer : \A d \in Range(longer[k]) :
           /\ longer[k][1].amount <= d.amount
           /\ d.amount <= longer[k][1].amount + amount_tolerance
    BY <1>13, <2>1
  <2>5. \A k, l \in DOMAIN longer :
           k < l => longer[k][1].amount + amount_tolerance < longer[l][1].amount
    BY <1>13, <2>1
  <2> QED
    BY <1>2, <2>2, <2>3, <2>4, <2>5 DEF Grouped
<1>14. \A j \in 1..(i + 1) : j \in 1..i \/ s[j] = c
  BY <1>1
<1>15. \A j \in 1..i : j \in 1..(i + 1)
  OBVIOUS
<1>16. i + 1 \in 1..(i + 1) /\ s[i + 1] = c
  BY <1>1
<1>17. CASE Joins(groups, c)
  <2>1. /\ n \in 1..n /\ N = n /\ longer[n] = Append(groups[n], c)
        /\ \A k \in 1..(n - 1) : longer[k] = groups[k]
    BY <1>1, <1>3, <1>11, <1>17, OneTurn
  <2>2. Range(longer[n]) = Range(groups[n]) \cup {c} /\ longer[n][1] = groups[n][1]
    BY <1>1, <1>3, <2>1, Appended
  <2>3. \A k \in 1..n : k = n \/ k \in 1..(n - 1)
    BY <1>3
  <2>4. \A k \in 1..n : /\ first2[k] = first[k]
                        /\ members2[k] = IF k = n THEN members[k] \cup {c} ELSE members[k]
    BY <1>8, <1>12, <2>1, <2>2, <2>3
  <2>5. c.amount <= first[n] + amount_tolerance
    <3>1. Distance(c.amount, first[n]) <= amount_tolerance
      BY <1>3, <1>8, <1>17, <2>1 DEF Joins, joins
    <3> QED
      BY <1>1, <1>5, <1>6, <1>9, <2>1, <3>1 DEF Distance
  <2>6. \A j \in 1..(i + 1) : \E k \in 1..N : s[j] \in members2[k]
    BY <1>10, <1>14, <2>1, <2>4
  <2>7. \A k \in 1..N : \A d \in members2[k] : \E j \in 1..(i + 1) : d = s[j]
    <3> SUFFICES ASSUME NEW k \in 1..N, NEW d \in members2[k]
                 PROVE  \E j \in 1..(i + 1) : d = s[j]
      OBVIOUS
    <3>1. d = c \/ (k \in 1..n /\ d \in members[k])
      BY <2>1, <2>4
    <3> QED
      BY <1>10, <1>15, <1>16, <3>1
  <2>8. \A k \in 1..N : \A d \in members2[k] :
           first2[k] <= d.amount /\ d.amount <= first2[k] + amount_tolerance
    <3> SUFFICES ASSUME NEW k \in 1..N, NEW d \in members2[k]
                 PROVE  first2[k] <= d.amount /\ d.amount <= first2[k] + amount_tolerance
      OBVIOUS
    <3>1. (d = c /\ k = n) \/ (k \in 1..n /\ d \in members[k])
      BY <2>1, <2>4
    <3>2. first2[k] = first[k] /\ first[k] <= c.amount
      BY <1>9, <2>1, <2>4
    <3> QED
      BY <1>10, <2>5, <3>1, <3>2
  <2> QED
    BY <1>10, <2>1, <2>4, <2>6, <2>7, <2>8
<1>18. CASE ~ Joins(groups, c)
  <2>1. /\ N = n + 1 /\ longer[n + 1] = <<c>>
        /\ \A k \in 1..n : longer[k] = groups[k]
    BY <1>1, <1>3, <1>11, <1>18, OneTurn
  <2>2. Range(longer[n + 1]) = {c} /\ longer[n + 1][1] = c
    BY <2>1 DEF Range
  <2>3. /\ \A k \in 1..(n + 1) : k = n + 1 \/ k \in 1..n
        /\ n + 1 \in 1..(n + 1) /\ \A k \in 1..n : k \in 1..(n + 1) /\ k # n + 1
    BY <1>3
  <2>4. /\ \A k \in 1..n : first2[k] = first[k] /\ members2[k] = members[k]
        /\ first2[n + 1] = c.amount /\ members2[n + 1] = {c}
    BY <1>8, <1>12, <2>1, <2>2, <2>3
  <2>5. \A k \in 1..n : first[k] + amount_tolerance < c.amount
    <3> SUFFICES ASSUME NEW k \in 1..n PROVE first[k] + amount_tolerance < c.amount
      OBVIOUS
    <3>1. n \in 1..n /\ groups # << >>
      BY <1>3
    <3>2. ~ (Distance(c.amount, first[n]) <= amount_tolerance)
      BY <1>3, <1>8, <1>18, <3>1 DEF Joins, joins
    <3>3. first[n] + amount_tolerance < c.amount
      BY <1>1, <1>5, <1>6, <1>9, <3>1, <3>2 DEF Distance
    <3>4. k = n \/ k < n
      BY <1>3
    <3>5. k = n \/ first[k] + amount_tolerance < first[n]
      BY <1>10, <3>1, <3>4
    <3>6. first[k] \in Int /\ first[n] \in Int /\ c.amount \in Int
      BY <1>1, <1>6, <1>9, <3>1
    <3> QED
      BY <1>5, <3>3, <3>5, <3>6
  <2>6. \A j \in 1..(i + 1) : \E k \in 1..N : s[j] \in members2[k]
    BY <1>10, <1>14, <2>1, <2>3, <2>4
  <2>7. \A k \in 1..N : \A d \in members2[k] : \E j \in 1..(i + 1) : d = s[j]
    <3> SUFFICES ASSUME NEW k \in 1..N, NEW d \in members2[k]
                 PROVE  \E j \in 1..(i + 1) : d = s[j]
      OBVIOUS
    <3>1. (k = n + 1 /\ d = c) \/ (k \in 1..n /\ d \in members[k])
      BY <2>1, <2>3, <2>4
    <3> QED
      BY <1>10, <1>15, <1>16, <3>1
  <2>8. \A k \in 1..N : \A d \in members2[k] :
           first2[k] <= d.amount /\ d.amount <= first2[k] + amount_tolerance
    <3>1. c.amount <= c.amount /\ c.amount <= c.amount + amount_tolerance
      BY <1>1, <1>5, <1>6
    <3> SUFFICES ASSUME NEW k \in 1..N, NEW d \in members2[k]
                 PROVE  first2[k] <= d.amount /\ d.amount <= first2[k] + amount_tolerance
      OBVIOUS
    <3>2. (k = n + 1 /\ d = c) \/ (k \in 1..n /\ d \in members[k])
      BY <2>1, <2>3, <2>4
    <3> QED
      BY <1>10, <2>4, <3>1, <3>2
  <2>9. \A k, l \in 1..N : k < l => first2[k] + amount_tolerance < first2[l]
    <3>1. \A k, l \in 1..N : k < l => k \in 1..n
      BY <1>3, <2>1
    <3> QED
      BY <1>10, <2>1, <2>3, <2>4, <2>5, <3>1
  <2> QED
    BY <2>6, <2>7, <2>8, <2>9
<1> QED
  BY <1>17, <1>18

LEMMA LoopGroups ==
    ASSUME NEW posted \in SUBSET Charge, IsFiniteSet(posted), NEW s, s = sorted(posted),
           NEW after, Turns(after, s, Len(s)), NEW i \in 0..Len(s)
    PROVE  after[i] \in GroupsOf(posted) /\ Grouped(after[i], s, i)
<1> DEFINE Good == {m \in Nat : m <= Len(s) =>
                       after[m] \in GroupsOf(posted) /\ Grouped(after[m], s, m)}
<1>1. Len(s) \in Nat /\ DOMAIN s = 1..Len(s) /\ \A j \in DOMAIN s : s[j] \in posted
  BY Sorted
<1>2. 0 \in Good
  <2>1. after[0] = << >>
    BY <1>1 DEF Turns
  <2>2. << >> \in GroupsOf(posted)
    BY DEF GroupsOf
  <2>3. Grouped(<< >>, s, 0)
    <3>1. DOMAIN << >> = {} /\ DOMAIN sizes(<< >>) = {}
      BY DEF sizes
    <3>2. SumFunction(sizes(<< >>)) = 0
      BY <3>1, SumOfNothing, Zenon DEF SumFunction
    <3> QED
      BY <3>1, <3>2 DEF Grouped
  <2> QED
    BY <2>1, <2>2, <2>3
<1>3. ASSUME NEW m \in Nat, m \in Good PROVE m + 1 \in Good
  <2> SUFFICES ASSUME m + 1 <= Len(s)
               PROVE  after[m + 1] \in GroupsOf(posted) /\ Grouped(after[m + 1], s, m + 1)
    OBVIOUS
  <2>1. after[m] \in GroupsOf(posted) /\ Grouped(after[m], s, m)
    BY <1>1, <1>3
  <2>2. after[m + 1] = with_charge(after[m], s[m + 1])
    <3>1. m + 1 \in 0..Len(s) /\ m + 1 # 0 /\ (m + 1) - 1 = m
      BY <1>1
    <3>2. after[m + 1] = with_charge(after[(m + 1) - 1], s[m + 1])
      BY <3>1 DEF Turns
    <3> QED
      BY <3>1, <3>2
  <2>3. m + 1 \in DOMAIN s /\ s[m + 1] \in posted
    BY <1>1
  <2> QED
    BY <2>1, <2>2, <2>3, OneTurn, TurnGroups
<1>4. Nat \subseteq Good
  <2> HIDE DEF Good
  <2> QED
    BY <1>2, <1>3, NaturalSteps
<1> QED
  BY <1>1, <1>4

\* What detect_recurring's grouping is, without the order in which it came about.
LEMMA ClustersGrouped ==
    ASSUME NEW posted \in SUBSET Charge, IsFiniteSet(posted), NEW groups, groups = clusters(posted)
    PROVE  groups \in GroupsOf(posted) /\ Grouped(groups, sorted(posted), Cardinality(posted))
<1>1. PICK s : s = sorted(posted)
  OBVIOUS
<1>2. Len(s) \in Nat /\ Len(s) = Cardinality(posted)
  BY <1>1, Sorted
<1>3. PICK after : Turns(after, s, Len(s)) /\ groups = after[Len(s)]
  BY <1>1, ClustersAreTurns
<1> QED
  BY <1>1, <1>2, <1>3, LoopGroups

-----------------------------------------------------------------------------
(***************************************************************************)
(* The charges of a behaviour.                                             *)
(***************************************************************************)
ChargesTyped ==
    charges \in SUBSET Charge /\ IsFiniteSet(charges) /\ Cardinality(charges) <= MaxCharges

LEMMA ChargesAlwaysTyped == RecurringSpec => []ChargesTyped
<1>0. MaxCharges \in Nat
  BY ChargesAssumption
<1>1. RecurringInit => ChargesTyped
  BY <1>0, FS_EmptySet DEF RecurringInit, ChargesTyped
<1>2. ChargesTyped /\ [RecurringNext]_charges => ChargesTyped'
  <2> SUFFICES ASSUME ChargesTyped, [RecurringNext]_charges PROVE ChargesTyped'
    OBVIOUS
  <2>1. ASSUME NEW amount \in ChargeAmounts, NEW day \in ChargeDays, PostCharge(amount, day)
        PROVE  ChargesTyped'
    <3>1. PICK nr : nr = Cardinality(Alike(amount, day)) + 1
      OBVIOUS
    <3>2. PICK c : c = [amount |-> amount, day |-> day, nr |-> nr]
      OBVIOUS
    <3>3. charges' = charges \cup {c} /\ Cardinality(charges) < MaxCharges
      BY <2>1, <3>1, <3>2 DEF PostCharge
    <3>4. nr \in 1..MaxCharges
      <4>1. Alike(amount, day) \subseteq charges
        BY DEF Alike
      <4>2. /\ Cardinality(Alike(amount, day)) <= Cardinality(charges)
            /\ Cardinality(Alike(amount, day)) \in Nat /\ Cardinality(charges) \in Nat
        BY <4>1, FS_Subset, FS_CardinalityType DEF ChargesTyped
      <4> QED
        BY <1>0, <3>1, <3>3, <4>2
    <3>5. c \in Charge
      BY <3>2, <3>4 DEF Charge
    <3>6. /\ IsFiniteSet(charges \cup {c})
          /\ Cardinality(charges \cup {c}) <= Cardinality(charges) + 1
          /\ Cardinality(charges) \in Nat
      <4>1. /\ IsFiniteSet(charges \cup {c})
            /\ Cardinality(charges \cup {c}) = IF c \in charges THEN Cardinality(charges)
                                               ELSE Cardinality(charges) + 1
        BY FS_AddElement DEF ChargesTyped
      <4> QED
        BY <4>1, FS_CardinalityType DEF ChargesTyped
    <3>7. Cardinality(charges \cup {c}) \in Nat
      BY <3>6, FS_CardinalityType
    <3> QED
      BY <1>0, <3>3, <3>5, <3>6, <3>7 DEF ChargesTyped
  <2>2. ASSUME NEW c \in charges, WithdrawCharge(c)
        PROVE  ChargesTyped'
    <3>1. charges' = charges \ {c}
      BY <2>2 DEF WithdrawCharge
    <3>2. /\ IsFiniteSet(charges \ {c}) /\ Cardinality(charges \ {c}) <= Cardinality(charges)
          /\ Cardinality(charges \ {c}) \in Nat /\ Cardinality(charges) \in Nat
      BY FS_Subset, FS_CardinalityType DEF ChargesTyped
    <3> QED
      BY <1>0, <3>1, <3>2 DEF ChargesTyped
  <2>3. CASE UNCHANGED charges
    BY <2>3 DEF ChargesTyped
  <2> QED
    BY <2>1, <2>2, <2>3 DEF RecurringNext
<1> QED
  BY <1>1, <1>2, PTL DEF RecurringSpec

-----------------------------------------------------------------------------
(***************************************************************************)
(* No grouping has fewer groups                                            *)
(***************************************************************************)
LEMMA FewestGroups ==
    ASSUME charges \in SUBSET Charge, IsFiniteSet(charges)
    PROVE  GroupsAreFewest
<1>1. PICK groups, s, amounts :
         /\ groups = clusters(charges) /\ s = sorted(charges)
         /\ amounts = {c.amount : c \in charges}
  OBVIOUS
<1>2. groups \in GroupsOf(charges) /\ Grouped(groups, s, Cardinality(charges))
  BY <1>1, ClustersGrouped
<1>3. PICK n : /\ n = Len(groups) /\ n \in Nat /\ DOMAIN groups = 1..n
               /\ \A k \in 1..n : groups[k] \in Seq(charges) /\ groups[k] # << >>
  BY <1>2, SizesTyped
<1>4. \A k \in 1..n : groups[k][1] \in Range(groups[k]) /\ Range(groups[k]) \subseteq charges
  BY <1>3 DEF Range
<1>5. amount_tolerance \in Nat /\ \A c \in charges : c.amount \in Int
  BY ChargesAssumption, ChargeTyped
<1>6. \A c \in charges : \E k \in DOMAIN groups : c \in Range(groups[k])
  <2> SUFFICES ASSUME NEW c \in charges
               PROVE  \E k \in DOMAIN groups : c \in Range(groups[k])
    OBVIOUS
  <2>1. PICK j \in 1..Cardinality(charges) : s[j] = c
    BY <1>1, Sorted
  <2> QED
    BY <1>2, <2>1 DEF Grouped
<1>7. SumFunction([k \in DOMAIN groups |-> Len(groups[k])]) = Cardinality(charges)
  BY <1>2, Zenon DEF Grouped, sizes
<1>8. \A k \in DOMAIN groups : Near({c.amount : c \in Range(groups[k])})
  <2> SUFFICES ASSUME NEW k \in 1..n, NEW c \in Range(groups[k]), NEW d \in Range(groups[k])
               PROVE  Distance(c.amount, d.amount) <= amount_tolerance
    BY <1>3 DEF Near
  <2>1. /\ groups[k][1].amount <= c.amount /\ c.amount <= groups[k][1].amount + amount_tolerance
        /\ groups[k][1].amount <= d.amount /\ d.amount <= groups[k][1].amount + amount_tolerance
    BY <1>2, <1>3 DEF Grouped
  <2>2. c.amount \in Int /\ d.amount \in Int /\ groups[k][1].amount \in Int
    BY <1>4, <1>5
  <2> QED
    BY <1>5, <2>1, <2>2 DEF Distance
<1>9. ASSUME NEW cover \in SUBSET {W \in SUBSET amounts : W # {} /\ Near(W)},
             UNION cover = amounts
      PROVE  Len(groups) <= Cardinality(cover)
  <2>1. IsFiniteSet(cover)
    <3>1. IsFiniteSet(amounts)
      <4>1. PICK f : f = [c \in charges |-> c.amount]
        OBVIOUS
      <4>2. f \in Surjection(charges, amounts)
        BY <1>1, <4>1 DEF Surjection
      <4> QED
        BY <4>2, FS_Surjection
    <3>2. IsFiniteSet(SUBSET amounts) /\ cover \subseteq SUBSET amounts
      BY <3>1, FS_SUBSET
    <3> QED
      BY <3>2, FS_Subset
  <2> DEFINE home == [k \in 1..n |-> CHOOSE W \in cover : groups[k][1].amount \in W]
  <2>2. \A k \in 1..n : home[k] \in cover /\ groups[k][1].amount \in home[k]
    <3> SUFFICES ASSUME NEW k \in 1..n PROVE \E W \in cover : groups[k][1].amount \in W
      OBVIOUS
    <3>1. groups[k][1].amount \in amounts
      BY <1>1, <1>4
    <3> QED
      BY <1>9, <3>1
  <2> HIDE DEF home
  <2>3. \A k, l \in 1..n : k < l => home[k] # home[l]
    <3> SUFFICES ASSUME NEW k \in 1..n, NEW l \in 1..n, k < l, home[k] = home[l] PROVE FALSE
      OBVIOUS
    <3>1. Near(home[k]) /\ groups[k][1].amount \in home[k] /\ groups[l][1].amount \in home[k]
      BY <2>2
    <3>2. Distance(groups[k][1].amount, groups[l][1].amount) <= amount_tolerance
      BY <3>1 DEF Near
    <3>3. groups[k][1].amount + amount_tolerance < groups[l][1].amount
      BY <1>2, <1>3 DEF Grouped
    <3>4. groups[k][1].amount \in Int /\ groups[l][1].amount \in Int
      BY <1>4, <1>5
    <3> QED
      BY <1>5, <3>2, <3>3, <3>4 DEF Distance
  <2>4. home \in [1..n -> cover] /\ \A k, l \in 1..n : home[k] = home[l] => k = l
    <3>1. home \in [1..n -> cover]
      BY <2>2 DEF home
    <3>2. \A k, l \in 1..n : k = l \/ k < l \/ l < k
      BY <1>3
    <3> QED
      BY <2>3, <3>1, <3>2
  <2>5. Cardinality(1..n) = n
    BY <1>3, CardinalityOfOneTo
  <2>6. home \in Injection(1..n, cover)
    BY <2>4 DEF Injection, IsInjective
  <2>7. Cardinality(1..n) <= Cardinality(cover)
    BY <1>3, <2>1, <2>6, FS_Injection
  <2> QED
    BY <1>3, <2>5, <2>7
<1> QED
  BY <1>1, <1>6, <1>7, <1>8, <1>9, Zenon DEF GroupsAreFewest

(***************************************************************************)
(* GroupsAreFewest: whatever was posted, the greedy grouping has every     *)
(* charge in one group, groups of near amounts, and as few of them as      *)
(* such groups can be.                                                     *)
(***************************************************************************)
THEOREM FewestGroupsAlways == RecurringSpec => []GroupsAreFewest
<1>1. ChargesTyped => GroupsAreFewest
  BY FewestGroups DEF ChargesTyped
<1> QED
  BY <1>1, ChargesAlwaysTyped, PTL

-----------------------------------------------------------------------------
(***************************************************************************)
(* Charges leave the groups of lower amounts alone.  Up to where the       *)
(* withdrawn charge was listed the two lists agree, and so do the loops;   *)
(* what comes later is no lower, and joins none of those groups.           *)
(***************************************************************************)

\* Whether two charges are in order does not depend on the others.
LEMMA RankWithout ==
    ASSUME NEW P \in SUBSET Charge, IsFiniteSet(P), NEW c \in P, NEW Q, Q = P \ {c},
           NEW d \in Q, ByAmount(d, c)
    PROVE  rank(InOrder, Q, d) = rank(InOrder, P, d)
<1>1. ~ ByAmount(c, d)
  BY ChargeTyped DEF ByAmount
<1>2. {e \in Q : ByAmount(e, d)} = {e \in P : ByAmount(e, d)}
  BY <1>1
<1>3. Before(InOrder, Q, d) = Before(InOrder, P, d)
  BY <1>2, RankByAmount
<1> QED
  BY <1>3 DEF rank

LEMMA ListsAgree ==
    ASSUME NEW P \in SUBSET Charge, IsFiniteSet(P), NEW c \in P, NEW Q, Q = P \ {c},
           NEW s, s = sorted(Q), NEW t, t = sorted(P), NEW r, r = rank(InOrder, P, c)
    PROVE  /\ r \in Nat /\ r + 1 \in DOMAIN t /\ r \in 0..Len(s)
           /\ \A i \in 1..r : s[i] = t[i]
           /\ \A i \in DOMAIN t : i > r => c.amount <= t[i].amount
           /\ \A i \in DOMAIN s : i > r => c.amount <= s[i].amount
<1>1. IsFiniteSet(Q) /\ Q \in SUBSET Charge /\ Cardinality(Q) = Cardinality(P) - 1
  BY FS_RemoveElement
<1>2. Cardinality(P) \in Nat
  BY FS_CardinalityType
<1>3. StrictOrder(InOrder, P) /\ StrictOrder(InOrder, Q)
  BY <1>1, OrderOfCharges
<1>4. r \in 0..(Cardinality(P) - 1)
  BY <1>3, RanksInOrder
<1>5. /\ DOMAIN t = 1..Cardinality(P) /\ t[r + 1] = c
      /\ DOMAIN s = 1..Cardinality(Q) /\ Len(s) = Cardinality(Q)
  BY <1>1, Sorted
<1>6. r \in Nat /\ r + 1 \in DOMAIN t /\ r \in 0..Len(s)
  BY <1>1, <1>2, <1>4, <1>5
<1>7. ASSUME NEW i \in 1..r PROVE s[i] = t[i]
  <2>1. i \in DOMAIN t /\ i < r + 1
    BY <1>2, <1>4, <1>5
  <2>2. PICK d : d = t[i] /\ d \in P /\ rank(InOrder, P, d) = i - 1
    BY <2>1, Sorted
  <2>3. ByAmount(d, c)
    BY <1>5, <1>6, <2>1, <2>2, SortedByAmount
  <2>4. d # c
    BY <1>4, <2>2
  <2>5. rank(InOrder, Q, d) = i - 1
    BY <2>2, <2>3, <2>4, RankWithout
  <2>6. s[(i - 1) + 1] = d
    BY <1>1, <2>2, <2>4, <2>5, Sorted
  <2>7. (i - 1) + 1 = i
    BY <1>4
  <2> QED
    BY <2>2, <2>6, <2>7
<1>8. ASSUME NEW i \in DOMAIN t, i > r PROVE c.amount <= t[i].amount
  <2>1. i = r + 1 \/ r + 1 < i
    BY <1>4, <1>5, <1>8
  <2>2. c.amount \in Int
    BY ChargeTyped
  <2>3. ASSUME r + 1 < i PROVE t[r + 1].amount <= t[i].amount
    BY <1>6, <1>8, <2>3, SortedByAmount
  <2> QED
    BY <1>5, <2>1, <2>2, <2>3
<1>9. ASSUME NEW i \in DOMAIN s, i > r PROVE c.amount <= s[i].amount
  <2>1. PICK d : d = s[i] /\ d \in Q /\ rank(InOrder, Q, d) = i - 1
    BY <1>1, Sorted
  <2>2. d \in P /\ d # c
    BY <2>1
  <2>3. CASE ByAmount(d, c)
    <3>1. rank(InOrder, P, d) = i - 1
      BY <2>1, <2>3, RankWithout
    <3>2. <<d, c>> \in InOrder
      BY <2>2, <2>3 DEF InOrder
    <3>3. rank(InOrder, P, d) < rank(InOrder, P, c)
      BY <1>3, <2>2, <3>2, RanksInOrder
    <3> QED
      BY <1>4, <1>5, <1>9, <3>1, <3>3
  <2>4. CASE ~ ByAmount(d, c)
    <3>1. <<d, c>> \notin InOrder
      BY <2>4 DEF InOrder
    <3>2. <<c, d>> \in InOrder
      BY <1>3, <2>2, <3>1 DEF StrictOrder
    <3>3. ByAmount(c, d)
      BY <3>2 DEF InOrder
    <3> QED
      BY <2>1, <2>2, <3>3, ChargeTyped DEF ByAmount
  <2> QED
    BY <2>3, <2>4
<1> QED
  BY <1>6, <1>7, <1>8, <1>9

\* As long as they see the same charges two loops have the same groups.
LEMMA LoopsAgree ==
    ASSUME NEW s, NEW n \in Nat, NEW a, Turns(a, s, n),
           NEW t, NEW m \in Nat, NEW b, Turns(b, t, m),
           NEW r \in Nat, r <= n, r <= m, \A i \in 1..r : s[i] = t[i]
    PROVE  a[r] = b[r]
<1> DEFINE Good == {k \in Nat : k <= r => a[k] = b[k]}
<1>1. 0 \in Good
  BY DEF Turns
<1>2. ASSUME NEW k \in Nat, k \in Good PROVE k + 1 \in Good
  <2> SUFFICES ASSUME k + 1 <= r PROVE a[k + 1] = b[k + 1]
    OBVIOUS
  <2>1. a[k] = b[k] /\ s[k + 1] = t[k + 1]
    BY <1>2
  <2>2. k + 1 \in 0..n /\ k + 1 \in 0..m /\ k + 1 # 0 /\ (k + 1) - 1 = k
    OBVIOUS
  <2>3. a[k + 1] = with_charge(a[(k + 1) - 1], s[k + 1])
    BY <2>2 DEF Turns
  <2>4. b[k + 1] = with_charge(b[(k + 1) - 1], t[k + 1])
    BY <2>2 DEF Turns
  <2> QED
    BY <2>1, <2>2, <2>3, <2>4
<1>3. Nat \subseteq Good
  <2> HIDE DEF Good
  <2> QED
    BY <1>1, <1>2, NaturalSteps
<1> QED
  BY <1>3

\* A charge no lower than c joins or begins no group that is too low for c.
LEMMA LowerUntouched ==
    ASSUME NEW posted \in SUBSET Charge, NEW groups \in GroupsOf(posted),
           NEW d \in posted, NEW c \in Charge, c.amount <= d.amount
    PROVE  Lower(with_charge(groups, d), c) = Lower(groups, c)
<1>1. PICK longer, C : longer = with_charge(groups, d) /\ C = Lower(groups, c)
  OBVIOUS
<1>2. longer \in GroupsOf(posted)
  BY <1>1, OneTurn
<1>3. PICK n : /\ n = Len(groups) /\ n \in Nat /\ DOMAIN groups = 1..n
               /\ \A k \in 1..n : groups[k] \in Seq(posted) /\ groups[k] # << >>
  BY SizesTyped
<1>4. PICK N : N = Len(longer) /\ N \in Nat /\ DOMAIN longer = 1..N
  BY <1>2, SizesTyped
<1>5. /\ amount_tolerance \in Nat /\ c.amount \in Int /\ d.amount \in Int
  BY ChargesAssumption, ChargeTyped
<1>6. \A k \in 1..n : groups[k][1].amount \in Int
  <2>1. \A k \in 1..n : groups[k][1] \in posted
    BY <1>3
  <2> QED
    BY <2>1, ChargeTyped
<1>7. \A g : g \in C <=> \E k \in 1..n : g = groups[k]
                                         /\ groups[k][1].amount + amount_tolerance < c.amount
  BY <1>1, <1>3 DEF Lower, Range
<1>8. \A g : g \in Lower(longer, c) <=>
                \E k \in 1..N : g = longer[k]
                                /\ longer[k][1].amount + amount_tolerance < c.amount
  BY <1>4 DEF Lower, Range
<1>9. /\ \A k \in 1..(Len(groups) - 1) : longer[k] = groups[k]
      /\ Joins(groups, d) => /\ Len(groups) \in DOMAIN groups
                             /\ Len(longer) = Len(groups)
                             /\ longer[Len(groups)] = Append(groups[Len(groups)], d)
      /\ ~ Joins(groups, d) => /\ Len(longer) = Len(groups) + 1
                               /\ \A k \in DOMAIN groups : longer[k] = groups[k]
                               /\ longer[Len(groups) + 1] = <<d>>
  BY <1>1, OneTurn
<1>10. CASE Joins(groups, d)
  <2>1. /\ n \in 1..n /\ N = n /\ longer[n] = Append(groups[n], d)
        /\ \A k \in 1..(n - 1) : longer[k] = groups[k]
    BY <1>3, <1>4, <1>10, <1>9
  <2>2. longer[n][1] = groups[n][1]
    BY <1>3, <2>1, Appended
  <2>3. ~ (groups[n][1].amount + amount_tolerance < c.amount)
    <3>1. Distance(d.amount, groups[n][1].amount) <= amount_tolerance
      BY <1>3, <1>10 DEF Joins, joins
    <3>2. groups[n][1].amount \in Int
      BY <1>6, <2>1
    <3> QED
      BY <1>5, <3>1, <3>2 DEF Distance
  <2>4. \A k \in 1..n : k = n \/ k \in 1..(n - 1)
    BY <1>3
  <2>5. \A g : g \in Lower(longer, c) <=> g \in C
    BY <1>7, <1>8, <2>1, <2>2, <2>3, <2>4
  <2> QED
    BY <1>1, <2>5
<1>11. CASE ~ Joins(groups, d)
  <2>1. /\ N = n + 1 /\ longer[n + 1] = <<d>>
        /\ \A k \in 1..n : longer[k] = groups[k]
    BY <1>3, <1>4, <1>11, <1>9
  <2>2. ~ (longer[n + 1][1].amount + amount_tolerance < c.amount)
    BY <1>5, <2>1
  <2>3. /\ \A k \in 1..(n + 1) : k = n + 1 \/ k \in 1..n
        /\ \A k \in 1..n : k \in 1..(n + 1)
    BY <1>3
  <2>4. \A g : g \in Lower(longer, c) <=> g \in C
    BY <1>7, <1>8, <2>1, <2>2, <2>3
  <2> QED
    BY <1>1, <2>4
<1> QED
  BY <1>10, <1>11

LEMMA LowerFromThere ==
    ASSUME NEW posted \in SUBSET Charge, IsFiniteSet(posted), NEW s, s = sorted(posted),
           NEW after, Turns(after, s, Len(s)),
           NEW c \in Charge, NEW r \in 0..Len(s),
           \A i \in DOMAIN s : i > r => c.amount <= s[i].amount
    PROVE  Lower(after[Len(s)], c) = Lower(after[r], c)
<1>1. Len(s) \in Nat /\ DOMAIN s = 1..Len(s) /\ \A j \in DOMAIN s : s[j] \in posted
  BY Sorted
<1> DEFINE Good == {k \in Nat : r + k <= Len(s) =>
                       Lower(after[r + k], c) = Lower(after[r], c)}
<1>2. 0 \in Good
  BY <1>1
<1>3. ASSUME NEW k \in Nat, k \in Good PROVE k + 1 \in Good
  <2> SUFFICES ASSUME r + (k + 1) <= Len(s)
               PROVE  Lower(after[r + (k + 1)], c) = Lower(after[r], c)
    OBVIOUS
  <2>1. PICK i : i = r + k /\ i \in 0..Len(s) /\ i + 1 \in 1..Len(s) /\ i + 1 = r + (k + 1)
    BY <1>1
  <2>2. Lower(after[i], c) = Lower(after[r], c)
    BY <1>1, <1>3, <2>1
  <2>3. after[i + 1] = with_charge(after[i], s[i + 1])
    <3>1. i + 1 \in 0..Len(s) /\ i + 1 # 0 /\ (i + 1) - 1 = i
      BY <1>1, <2>1
    <3>2. after[i + 1] = with_charge(after[(i + 1) - 1], s[i + 1])
      BY <3>1 DEF Turns
    <3> QED
      BY <3>1, <3>2
  <2>4. after[i] \in GroupsOf(posted)
    BY <2>1, LoopGroups
  <2>5. s[i + 1] \in posted /\ c.amount <= s[i + 1].amount
    BY <1>1, <2>1
  <2>6. Lower(after[i + 1], c) = Lower(after[i], c)
    BY <2>3, <2>4, <2>5, LowerUntouched
  <2> QED
    BY <2>1, <2>2, <2>6
<1>4. Nat \subseteq Good
  <2> HIDE DEF Good
  <2> QED
    BY <1>2, <1>3, NaturalSteps
<1>5. Len(s) - r \in Nat /\ r + (Len(s) - r) = Len(s)
  BY <1>1
<1>6. Len(s) - r \in Good
  BY <1>4, <1>5
<1>7. \A k \in Good : r + k <= Len(s) => Lower(after[r + k], c) = Lower(after[r], c)
  OBVIOUS
<1> HIDE DEF Good
<1> QED
  BY <1>1, <1>5, <1>6, <1>7

LEMMA LowerStay ==
    ASSUME NEW P \in SUBSET Charge, IsFiniteSet(P), NEW c \in P
    PROVE  Lower(clusters(P \ {c}), c) = Lower(clusters(P), c)
<1>1. PICK Q, s, t, r : /\ Q = P \ {c} /\ s = sorted(Q) /\ t = sorted(P)
                        /\ r = rank(InOrder, P, c)
  OBVIOUS
<1>2. IsFiniteSet(Q) /\ Q \in SUBSET Charge
  BY <1>1, FS_Subset
<1>3. PICK a : Turns(a, s, Len(s)) /\ clusters(Q) = a[Len(s)]
  BY <1>1, <1>2, ClustersAreTurns
<1>4. PICK b : Turns(b, t, Len(t)) /\ clusters(P) = b[Len(t)]
  BY <1>1, ClustersAreTurns
<1>5. Len(s) \in Nat /\ Len(t) \in Nat /\ DOMAIN t = 1..Len(t)
  BY <1>1, <1>2, Sorted
<1>6. /\ r \in Nat /\ r + 1 \in DOMAIN t /\ r \in 0..Len(s)
      /\ \A i \in 1..r : s[i] = t[i]
      /\ \A i \in DOMAIN t : i > r => c.amount <= t[i].amount
      /\ \A i \in DOMAIN s : i > r => c.amount <= s[i].amount
  BY <1>1, ListsAgree
<1>7. r <= Len(s) /\ r <= Len(t) /\ r \in 0..Len(t)
  BY <1>5, <1>6
<1>8. a[r] = b[r]
  BY <1>3, <1>4, <1>5, <1>6, <1>7, LoopsAgree
<1>9. c \in Charge
  OBVIOUS
<1>10. Lower(clusters(Q), c) = Lower(a[r], c)
  <2>1. Q \in SUBSET Charge /\ IsFiniteSet(Q) /\ s = sorted(Q) /\ Turns(a, s, Len(s))
    BY <1>1, <1>2, <1>3
  <2>2. r \in 0..Len(s) /\ \A i \in DOMAIN s : i > r => c.amount <= s[i].amount
    BY <1>6
  <2>3. Lower(a[Len(s)], c) = Lower(a[r], c)
    BY <1>9, <2>1, <2>2, LowerFromThere
  <2> QED
    BY <1>3, <2>3
<1>11. Lower(clusters(P), c) = Lower(b[r], c)
  BY <1>1, <1>4, <1>6, <1>7, <1>9, LowerFromThere
<1> QED
  BY <1>1, <1>8, <1>10, <1>11

(***************************************************************************)
(* LowerGroupsStay: a charge has no influence on the groups whose amounts  *)
(* are too low to take it; among expenses, which are negative, on dearer   *)
(* ones.                                                                   *)
(***************************************************************************)
THEOREM LowerGroupsAlwaysStay == RecurringSpec => []LowerGroupsStay
<1>1. ChargesTyped => LowerGroupsStay
  BY LowerStay, Zenon DEF ChargesTyped, LowerGroupsStay
<1> QED
  BY <1>1, ChargesAlwaysTyped, PTL

-----------------------------------------------------------------------------
(***************************************************************************)
(* sorted() of numbers: a rearrangement that never descends.               *)
(***************************************************************************)
InPlace(s) ==
    {jk \in (DOMAIN s) \X (DOMAIN s) :
       s[jk[1]] < s[jk[2]] \/ (s[jk[1]] = s[jk[2]] /\ jk[1] < jk[2])}

Rearranges(p, t, s) ==
    /\ \A i \in DOMAIN t : p[i] \in DOMAIN s /\ t[i] = s[p[i]]
    /\ \A i, j \in DOMAIN t : p[i] = p[j] => i = j
    /\ \A k \in DOMAIN s : \E i \in DOMAIN t : p[i] = k

LEMMA Ascending ==
    ASSUME NEW s \in Seq(Int), NEW t, t = ascending(s)
    PROVE  /\ t \in Seq(Int) /\ Len(t) = Len(s) /\ Len(t) \in Nat
           /\ DOMAIN t = 1..Len(t) /\ DOMAIN s = 1..Len(t)
           /\ \A i, j \in DOMAIN t : i < j => t[i] <= t[j]
           /\ \E p : Rearranges(p, t, s)
<1>1. PICK n : n = Len(s) /\ n \in Nat /\ DOMAIN s = 1..n /\ \A k \in 1..n : s[k] \in Int
  OBVIOUS
<1>2. PICK R, S : R = InPlace(s) /\ S = 1..n
  OBVIOUS
<1>3. IsFiniteSet(S) /\ Cardinality(S) = n
  BY <1>1, <1>2, CardinalityOfOneTo
<1>4. \A j, k \in S : <<j, k>> \in R <=> (s[j] < s[k] \/ (s[j] = s[k] /\ j < k))
  BY <1>1, <1>2 DEF InPlace
<1>5. StrictOrder(R, S)
  <2>1. \A j, k \in S : s[j] \in Int /\ s[k] \in Int /\ j \in Int /\ k \in Int
    BY <1>1, <1>2
  <2>2. \A j \in S : <<j, j>> \notin R
    BY <1>4, <2>1
  <2>3. \A j, k, l \in S : <<j, k>> \in R /\ <<k, l>> \in R => <<j, l>> \in R
    BY <1>4, <2>1
  <2>4. \A j, k \in S : j = k \/ <<j, k>> \in R \/ <<k, j>> \in R
    <3> SUFFICES ASSUME NEW j \in S, NEW k \in S
                 PROVE  j = k \/ <<j, k>> \in R \/ <<k, j>> \in R
      OBVIOUS
    <3>1. s[j] < s[k] \/ s[k] < s[j] \/ s[j] = s[k]
      BY <2>1
    <3>2. j < k \/ k < j \/ j = k
      BY <2>1
    <3> QED
      BY <1>4, <3>1, <3>2
  <2> QED
    BY <2>2, <2>3, <2>4 DEF StrictOrder
<1> DEFINE below(k) == {j \in DOMAIN s : s[j] < s[k] \/ (s[j] = s[k] /\ j < k)}
           from(i) == CHOOSE k \in DOMAIN s : Cardinality(below(k)) = i - 1
<1>6. \A k \in S : Cardinality(below(k)) = rank(R, S, k)
  <2> SUFFICES ASSUME NEW k \in S PROVE below(k) = Before(R, S, k)
    BY DEF rank
  <2>1. \A j : j \in below(k) <=> j \in Before(R, S, k)
    BY <1>1, <1>2, <1>4 DEF Before
  <2> QED
    BY <2>1
<1>7. t = [i \in 1..n |-> s[from(i)]]
  BY <1>1, Zenon DEF ascending
<1>8. \A i \in 1..n : from(i) \in S /\ rank(R, S, from(i)) = i - 1
  <2> SUFFICES ASSUME NEW i \in 1..n PROVE from(i) \in S /\ rank(R, S, from(i)) = i - 1
    OBVIOUS
  <2>1. i - 1 \in 0..(Cardinality(S) - 1)
    BY <1>1, <1>3
  <2>2. \E k \in S : rank(R, S, k) = i - 1
    BY <1>3, <1>5, <2>1, RanksTaken
  <2>3. \E k \in DOMAIN s : Cardinality(below(k)) = i - 1
    BY <1>1, <1>2, <1>6, <2>2
  <2>4. from(i) \in DOMAIN s /\ Cardinality(below(from(i))) = i - 1
    BY <2>3
  <2> QED
    BY <1>1, <1>2, <1>6, <2>4
<1> HIDE DEF below, from
<1>9. PICK p : p = [i \in 1..n |-> from(i)]
  OBVIOUS
<1>10. \A i \in 1..n : p[i] \in S /\ rank(R, S, p[i]) = i - 1 /\ t[i] = s[p[i]] /\ t[i] \in Int
  BY <1>1, <1>2, <1>7, <1>8, <1>9
<1>11. t \in Seq(Int) /\ Len(t) = n /\ DOMAIN t = 1..n
  <2>1. t \in [1..n -> Int]
    BY <1>7, <1>10
  <2> QED
    BY <1>1, <2>1
<1>12. ASSUME NEW i \in 1..n, NEW j \in 1..n, i < j PROVE t[i] <= t[j]
  <2>1. <<p[i], p[j]>> \in R
    BY <1>3, <1>5, <1>10, <1>12, RanksInOrder
  <2> QED
    BY <1>4, <1>10, <2>1
<1>13. \A i, j \in 1..n : p[i] = p[j] => i = j
  BY <1>10
<1>14. ASSUME NEW k \in S PROVE \E i \in 1..n : p[i] = k
  <2>1. rank(R, S, k) \in 0..(n - 1)
    BY <1>3, <1>5, RanksInOrder
  <2>2. PICK i : i = rank(R, S, k) + 1 /\ i \in 1..n
    BY <1>1, <2>1
  <2>3. p[i] \in S /\ rank(R, S, p[i]) = rank(R, S, k)
    BY <1>10, <2>1, <2>2
  <2> QED
    BY <1>3, <1>5, <2>2, <2>3, RanksInOrder
<1>15. Rearranges(p, t, s)
  BY <1>1, <1>2, <1>10, <1>11, <1>13, <1>14 DEF Rearranges
<1> QED
  BY <1>1, <1>11, <1>12, <1>15

-----------------------------------------------------------------------------
(***************************************************************************)
(* Rounding                                                                *)
(***************************************************************************)
LEMMA Product ==
    ASSUME NEW a \in Nat, NEW b \in Nat
    PROVE  a * b \in Nat /\ (a # 0 /\ b # 0 => a * b # 0)
OBVIOUS

LEMMA ProductGrows ==
    ASSUME NEW a \in Int, NEW b \in Int, NEW w \in Nat, a <= b
    PROVE  a * w <= b * w
<1>1. PICK k : k = b - a /\ k \in Nat
  OBVIOUS
<1>2. b * w = a * w + k * w /\ k * w \in Nat /\ a * w \in Int /\ b * w \in Int
  <2>1. b = a + k
    BY <1>1
  <2>2. (a + k) * w = a * w + k * w
    BY <1>1
  <2> QED
    BY <1>1, <2>1, <2>2, Product
<1> QED
  BY <1>2

LEMMA QuotientUnique ==
    ASSUME NEW d \in Nat, d # 0, NEW q \in Int, NEW r \in Int, 0 <= r, r < d,
           NEW n \in Int, n = q * d + r
    PROVE  n \div d = q /\ n % d = r
<1>1. PICK e, m : e = n \div d /\ m = n % d
  OBVIOUS
<1>2. e \in Int /\ m \in Int /\ 0 <= m /\ m < d /\ n = e * d + m
  BY <1>1
<1>3. ~ (q < e)
  <2> SUFFICES ASSUME q < e PROVE FALSE
    OBVIOUS
  <2>1. (q + 1) * d <= e * d
    BY <1>2, ProductGrows
  <2>2. (q + 1) * d = q * d + d /\ q * d \in Int /\ e * d \in Int
    BY <1>2
  <2> QED
    BY <1>2, <2>1, <2>2
<1>4. ~ (e < q)
  <2> SUFFICES ASSUME e < q PROVE FALSE
    OBVIOUS
  <2>1. (e + 1) * d <= q * d
    BY <1>2, ProductGrows
  <2>2. (e + 1) * d = e * d + d /\ q * d \in Int /\ e * d \in Int
    BY <1>2
  <2> QED
    BY <1>2, <2>1, <2>2
<1>5. q = e
  BY <1>2, <1>3, <1>4
<1>6. q * d \in Int
  OBVIOUS
<1> QED
  BY <1>1, <1>2, <1>5, <1>6

\* A fraction may be reduced before it is rounded.
LEMMA RoundReduced ==
    ASSUME NEW n \in Nat, NEW d \in Nat, d # 0, NEW w \in Nat, w # 0
    PROVE  round(n * w, d * w) = round(n, d)
<1>1. PICK q, r : q = n \div d /\ r = n % d
  OBVIOUS
<1>2. q \in Nat /\ r \in Nat /\ r < d /\ n = q * d + r
  BY <1>1
<1>3. PICK D, W : D = d * w /\ W = r * w
  OBVIOUS
<1>4. D \in Nat /\ D # 0 /\ W \in Nat /\ n * w \in Nat
  BY <1>2, <1>3, Product
<1>5. n * w = q * D + W
  <2>1. (q * d + r) * w = (q * d) * w + r * w
    BY <1>2
  <2>2. (q * d) * w = q * (d * w)
    BY <1>2
  <2> QED
    BY <1>2, <1>3, <2>1, <2>2
<1>6. \A a, b \in Int : a < b => a * w < b * w
  <2> SUFFICES ASSUME NEW a \in Int, NEW b \in Int, a < b PROVE a * w < b * w
    OBVIOUS
  <2>1. (a + 1) * w <= b * w
    BY ProductGrows
  <2>2. (a + 1) * w = a * w + w /\ a * w \in Int /\ b * w \in Int
    OBVIOUS
  <2> QED
    BY <2>1, <2>2
<1>7. W < D
  BY <1>2, <1>3, <1>6
<1>8. (n * w) \div D = q /\ (n * w) % D = W
  BY <1>2, <1>4, <1>5, <1>7, QuotientUnique
<1>9. (2 * r) * w = 2 * W
  BY <1>2, <1>3
<1>10. (2 * W > D <=> 2 * r > d) /\ (2 * W = D <=> 2 * r = d)
  <2>1. 2 * r \in Int /\ d \in Int
    BY <1>2
  <2>2. 2 * r < d => 2 * W < D
    BY <1>3, <1>6, <1>9, <2>1
  <2>3. d < 2 * r => D < 2 * W
    BY <1>3, <1>6, <1>9, <2>1
  <2>4. 2 * r = d => 2 * W = D
    BY <1>3, <1>9
  <2>5. 2 * r < d \/ d < 2 * r \/ 2 * r = d
    BY <2>1
  <2> QED
    BY <1>4, <2>1, <2>2, <2>3, <2>4, <2>5
<1> QED
  BY <1>1, <1>3, <1>8, <1>10 DEF round

LEMMA RoundOfWhole ==
    ASSUME NEW n \in Nat
    PROVE  round(2 * n, 2) = n
<1>1. (2 * n) \div 2 = n /\ (2 * n) % 2 = 0
  OBVIOUS
<1> QED
  BY <1>1 DEF round

-----------------------------------------------------------------------------
(***************************************************************************)
(* The median, and the confidence, of gaps that are all the same.          *)
(***************************************************************************)
LEMMA MedianOfEqual ==
    ASSUME NEW s \in Seq(Int), Len(s) # 0, NEW v \in Int, \A i \in DOMAIN s : s[i] = v
    PROVE  twice_median(s) = 2 * v
<1>1. PICK n, t : n = Len(s) /\ t = ascending(s)
  OBVIOUS
<1>2. n \in Nat /\ n # 0 /\ DOMAIN t = 1..n /\ DOMAIN s = 1..n
  BY <1>1, Ascending
<1>3. PICK p : Rearranges(p, t, s)
  BY <1>1, Ascending
<1>4. \A i \in 1..n : t[i] = v
  BY <1>2, <1>3 DEF Rearranges
<1>5. (n + 1) \div 2 \in 1..n /\ n \div 2 + 1 \in 1..n
  BY <1>2
<1>6. twice_median(s) = t[(n + 1) \div 2] + t[n \div 2 + 1]
  BY <1>1, Zenon DEF twice_median
<1> QED
  BY <1>4, <1>5, <1>6

LEMMA ConfidenceOfEqual ==
    ASSUME NEW gs \in Seq(Int), Len(gs) # 0,
           NEW gap \in Nat, gap # 0, \A i \in DOMAIN gs : gs[i] = gap
    PROVE  confidence(gs, 2 * gap) = round(1000 * AtMost(FullGaps, Len(gs)), FullGaps)
<1>1. PICK n : n = Len(gs) /\ n \in Nat /\ n # 0 /\ DOMAIN gs = 1..n /\ gs # << >>
  OBVIOUS
<1>2. FullGaps \in Nat /\ FullGaps # 0
  BY ChargesAssumption
<1>3. PICK distances : distances = [i \in DOMAIN gs |-> Distance(2 * gs[i], 2 * gap)]
  OBVIOUS
<1>4. SumFunction(distances) = 0
  <2>1. \A i \in DOMAIN gs : Distance(2 * gs[i], 2 * gap) = 0
    BY DEF Distance
  <2>2. DOMAIN distances = 1..n /\ \A i \in 1..n : distances[i] = 0
    BY <1>1, <1>3, <2>1
  <2>3. SumFunction(distances) = SumFunctionOnSet(distances, 1..n)
    BY <2>2, Zenon DEF SumFunction
  <2> QED
    BY <1>1, <2>2, <2>3, CardinalityOfOneTo, SumOfZeros
<1>5. PICK whole, A : whole = n * (2 * gap) /\ A = AtMost(FullGaps, n)
  OBVIOUS
<1>6. whole \in Nat /\ whole # 0 /\ A \in Nat /\ 1000 * A \in Nat
  <2>1. 2 * gap \in Nat /\ 2 * gap # 0
    OBVIOUS
  <2> QED
    BY <1>1, <1>2, <1>5, <2>1, Product DEF AtMost
<1>7. confidence(gs, 2 * gap) =
         IF gs = << >> \/ 2 * gap <= 0 \/ SumFunction(distances) >= whole THEN 0
         ELSE round(1000 * (whole - SumFunction(distances)) * A, whole * FullGaps)
  <2>1. whole = Len(gs) * (2 * gap) /\ A = AtMost(FullGaps, Len(gs))
    BY <1>1, <1>5
  <2>2. confidence(gs, 2 * gap) =
           IF \/ gs = << >> \/ 2 * gap <= 0
              \/ SumFunction([i \in DOMAIN gs |-> Distance(2 * gs[i], 2 * gap)])
                    >= Len(gs) * (2 * gap)
           THEN 0
           ELSE round(1000 * (Len(gs) * (2 * gap) -
                                SumFunction([i \in DOMAIN gs |-> Distance(2 * gs[i], 2 * gap)]))
                        * AtMost(FullGaps, Len(gs)),
                      Len(gs) * (2 * gap) * FullGaps)
    BY Zenon DEF confidence
  <2> QED
    BY <1>3, <2>1, <2>2
<1>8. confidence(gs, 2 * gap) = round(1000 * (whole - 0) * A, whole * FullGaps)
  BY <1>1, <1>4, <1>6, <1>7
<1>9. 1000 * (whole - 0) * A = (1000 * A) * whole /\ whole * FullGaps = FullGaps * whole
  BY <1>2, <1>6
<1>10. round((1000 * A) * whole, FullGaps * whole) = round(1000 * A, FullGaps)
  <2>1. \A m \in Nat : round(m * whole, FullGaps * whole) = round(m, FullGaps)
    BY <1>2, <1>6, RoundReduced
  <2> QED
    BY <1>6, <2>1
<1> QED
  BY <1>1, <1>5, <1>8, <1>9, <1>10

-----------------------------------------------------------------------------
(***************************************************************************)
(* Charges of near amounts, a day of its own each.                         *)
(***************************************************************************)
LEMMA OneGroup ==
    ASSUME NEW P \in SUBSET Charge, IsFiniteSet(P), P # {}, Near({c.amount : c \in P}),
           NEW groups, groups = clusters(P)
    PROVE  /\ Range(groups) = {groups[1]} /\ groups[1] \in Seq(P)
           /\ Range(groups[1]) = P /\ Len(groups[1]) = Cardinality(P)
<1>1. groups \in GroupsOf(P) /\ Grouped(groups, sorted(P), Cardinality(P))
  BY ClustersGrouped
<1>2. PICK n : /\ n = Len(groups) /\ n \in Nat /\ DOMAIN groups = 1..n
               /\ \A k \in 1..n : groups[k] \in Seq(P) /\ groups[k] # << >>
  BY <1>1, SizesTyped
<1>3. \A c \in P : \E k \in 1..n : c \in Range(groups[k])
  <2> SUFFICES ASSUME NEW c \in P PROVE \E k \in 1..n : c \in Range(groups[k])
    OBVIOUS
  <2>1. PICK j \in 1..Cardinality(P) : sorted(P)[j] = c
    BY Sorted
  <2> QED
    BY <1>1, <1>2, <2>1 DEF Grouped
<1>4. n # 0
  BY <1>2, <1>3
<1>5. ~ (n > 1)
  <2> SUFFICES ASSUME n > 1 PROVE FALSE
    OBVIOUS
  <2>1. 1 \in 1..n /\ 2 \in 1..n
    BY <1>2
  <2>2. groups[1][1] \in P /\ groups[2][1] \in P
    BY <1>2, <2>1
  <2>3. PICK a, b : a = groups[1][1].amount /\ b = groups[2][1].amount
    OBVIOUS
  <2>4. Distance(a, b) <= amount_tolerance
    BY <2>2, <2>3 DEF Near
  <2>5. a + amount_tolerance < b
    BY <1>1, <1>2, <2>1, <2>3 DEF Grouped
  <2>6. a \in Int /\ b \in Int /\ amount_tolerance \in Nat
    BY <2>2, <2>3, ChargeTyped, ChargesAssumption
  <2> QED
    BY <2>4, <2>5, <2>6 DEF Distance
<1>6. n = 1
  BY <1>2, <1>4, <1>5
<1>7. groups[1] \in Seq(P) /\ Range(groups) = {groups[1]}
  BY <1>2, <1>6 DEF Range
<1>8. Range(groups[1]) = P
  <2>1. Range(groups[1]) \subseteq P
    BY <1>7 DEF Range
  <2>2. P \subseteq Range(groups[1])
    BY <1>3, <1>6
  <2> QED
    BY <2>1, <2>2
<1>9. Len(groups[1]) = Cardinality(P)
  <2>1. PICK f : f = sizes(groups)
    OBVIOUS
  <2>2. SumFunction(f) = Cardinality(P)
    BY <1>1, <2>1 DEF Grouped
  <2>3. DOMAIN f = 1..1 /\ IntegersOn(f, 1..1) /\ f[1] = Len(groups[1]) /\ f[1] \in Nat
    BY <1>1, <1>2, <1>6, <2>1, SizesTyped
  <2>4. PICK m : m = 1
    OBVIOUS
  <2>5. m \in Nat /\ m # 0 /\ DOMAIN f = 1..m /\ IntegersOn(f, 1..m)
    BY <2>3, <2>4
  <2>6. SumFunction(f) = SumFunctionOnSet(f, 1..(m - 1)) + f[m]
    BY <2>5, LastTerm
  <2>7. SumFunctionOnSet(f, 1..(m - 1)) = 0
    <3>1. 1..(m - 1) = {}
      BY <2>4
    <3> QED
      BY <3>1, SumOfNothing
  <2> QED
    BY <2>2, <2>3, <2>4, <2>6, <2>7
<1> QED
  BY <1>7, <1>8, <1>9

LEMMA DatesAscend ==
    ASSUME NEW P \in SUBSET Charge, NEW group \in Seq(P), NEW days, days = dates(group)
    PROVE  /\ days \in Seq(Int) /\ Len(days) = Len(group) /\ Len(days) \in Nat
           /\ DOMAIN days = 1..Len(days)
           /\ \A i, j \in DOMAIN days : i < j => days[i] <= days[j]
           /\ Range(days) = {c.day : c \in Range(group)}
           /\ \A i \in DOMAIN days : days[i] \in Nat
<1>1. PICK n, s : n = Len(group) /\ s = [i \in DOMAIN group |-> group[i].day]
  OBVIOUS
<1>2. n \in Nat /\ DOMAIN group = 1..n /\ \A i \in 1..n : group[i] \in P
  BY <1>1
<1>3. \A i \in 1..n : s[i] = group[i].day /\ s[i] \in Nat
  BY <1>1, <1>2, ChargeTyped
<1>4. s \in Seq(Int) /\ Len(s) = n
  <2>1. s \in [1..n -> Int]
    BY <1>1, <1>2, <1>3
  <2> QED
    BY <1>2, <2>1
<1>5. days = ascending(s)
  BY <1>1 DEF dates
<1>6. /\ days \in Seq(Int) /\ Len(days) = n /\ DOMAIN days = 1..n /\ DOMAIN s = 1..n
      /\ \A i, j \in DOMAIN days : i < j => days[i] <= days[j]
  BY <1>4, <1>5, Ascending
<1>7. PICK p : Rearranges(p, days, s)
  BY <1>4, <1>5, Ascending
<1>8. \A i \in 1..n : p[i] \in 1..n /\ days[i] = group[p[i]].day /\ days[i] \in Nat
  <2>1. \A i \in 1..n : p[i] \in 1..n /\ days[i] = s[p[i]]
    BY <1>6, <1>7 DEF Rearranges
  <2> QED
    BY <1>3, <2>1
<1>9. Range(days) = {c.day : c \in Range(group)}
  <2>1. \A d \in Range(days) : d \in {c.day : c \in Range(group)}
    BY <1>2, <1>6, <1>8 DEF Range
  <2>2. ASSUME NEW k \in 1..n PROVE group[k].day \in Range(days)
    <3>1. PICK i \in 1..n : p[i] = k
      BY <1>6, <1>7 DEF Rearranges
    <3> QED
      BY <1>6, <1>8, <3>1 DEF Range
  <2>3. \A c \in Range(group) : c.day \in Range(days)
    BY <1>2, <2>2 DEF Range
  <2> QED
    BY <2>1, <2>3
<1> QED
  BY <1>1, <1>2, <1>6, <1>8, <1>9

\* Days that differ ascend strictly.
LEMMA DatesDiffer ==
    ASSUME NEW days \in Seq(Int), NEW n, n = Len(days),
           \A i, j \in 1..n : i < j => days[i] <= days[j],
           Cardinality(Range(days)) = n
    PROVE  \A i, j \in 1..n : i < j => days[i] < days[j]
<1>1. n \in Nat /\ DOMAIN days = 1..n /\ \A i \in 1..n : days[i] \in Int
  OBVIOUS
<1>2. IsFiniteSet(1..n) /\ Cardinality(1..n) = n
  BY <1>1, CardinalityOfOneTo
<1>3. days \in Surjection(1..n, Range(days))
  BY <1>1 DEF Surjection, Range
<1>4. days \in Injection(1..n, Range(days))
  BY <1>2, <1>3, FS_Surjection
<1>5. \A i, j \in 1..n : days[i] = days[j] => i = j
  BY <1>1, <1>4 DEF Injection, IsInjective
<1> QED
  BY <1>1, <1>5

LEMMA DaysInStep ==
    ASSUME charges \in SUBSET Charge, NEW gap \in Nat, NEW days \in Seq(Int), NEW n, n = Len(days),
           \A i, j \in 1..n : i < j => days[i] < days[j],
           Range(days) = Days,
           \A d \in Days : (\E e \in Days : d < e) => NextDay(d) = d + gap
    PROVE  \A i \in 1..(n - 1) : days[i + 1] - days[i] = gap
<1>1. n \in Nat /\ DOMAIN days = 1..n /\ \A i \in 1..n : days[i] \in Int /\ days[i] \in Days
  BY DEF Range
<1> SUFFICES ASSUME NEW i \in 1..(n - 1) PROVE days[i + 1] - days[i] = gap
  OBVIOUS
<1>2. PICK d, e : d = days[i] /\ e = days[i + 1]
  OBVIOUS
<1>3. i \in 1..n /\ i + 1 \in 1..n /\ i < i + 1
  BY <1>1
<1>4. d \in Days /\ e \in Days /\ d < e /\ d \in Int /\ e \in Int
  BY <1>1, <1>2, <1>3
<1>5. \A f \in Days : d < f => e <= f
  <2> SUFFICES ASSUME NEW f \in Days, d < f PROVE e <= f
    OBVIOUS
  <2>1. PICK j \in 1..n : days[j] = f
    BY <1>1 DEF Range
  <2>2. ~ (j <= i)
    <3>1. j < i => f < d
      BY <1>2, <1>3, <2>1
    <3> QED
      BY <1>1, <1>2, <1>3, <1>4, <2>1, <3>1
  <2>3. j = i + 1 \/ i + 1 < j
    BY <1>1, <1>3, <2>2
  <2> QED
    BY <1>1, <1>2, <1>3, <1>4, <2>1, <2>3
<1>6. NextDay(d) = e
  <2>1. \A f \in Days : d < f /\ (\A g \in Days : d < g => f <= g) => f = e
    <3> SUFFICES ASSUME NEW f \in Days, d < f, \A g \in Days : d < g => f <= g PROVE f = e
      OBVIOUS
    <3>1. f <= e /\ e <= f
      BY <1>4, <1>5
    <3>2. f \in Int
      BY ChargeTyped DEF Days
    <3> QED
      BY <1>4, <3>1, <3>2
  <2> QED
    BY <1>4, <1>5, <2>1 DEF NextDay
<1>7. NextDay(d) = d + gap
  BY <1>4
<1> QED
  BY <1>2, <1>4, <1>6, <1>7

(***************************************************************************)
(* RegularIsFound                                                          *)
(***************************************************************************)
LEMMA SeriesOfRegular ==
    ASSUME charges \in SUBSET Charge, IsFiniteSet(charges), NEW gap \in Nat, gap # 0, Regular(gap),
           NEW group \in Seq(charges), Range(group) = charges, Len(group) = Cardinality(charges),
           NEW s, s = charge_series(group)
    PROVE  /\ s.occurrences = Cardinality(charges)
           /\ s.next_expected - gap \in Days
           /\ \A d \in Days : d < s.next_expected
           /\ \A c \in DOMAIN Cadences :
                 c \in s.cadence <=> gap \in Cadences[c].low..Cadences[c].high
           /\ s.confidence = round(1000 * AtMost(FullGaps, s.occurrences - 1), FullGaps)
<1>1. PICK n, days, gs :
         n = Cardinality(charges) /\ days = dates(group) /\ gs = gaps(days)
  OBVIOUS
<1>2. n \in Nat /\ n >= 2
  <2>1. n \in Nat /\ n >= min_occurrences
    BY <1>1, FS_CardinalityType DEF Regular
  <2>2. min_occurrences \in Nat /\ min_occurrences # 0 /\ min_occurrences # 1
    BY ChargesAssumption
  <2> QED
    BY <2>1, <2>2
<1>3. /\ days \in Seq(Int) /\ Len(days) = n /\ DOMAIN days = 1..n
      /\ \A i, j \in 1..n : i < j => days[i] <= days[j]
      /\ Range(days) = Days /\ \A i \in 1..n : days[i] \in Nat
  BY <1>1, DatesAscend DEF Days
<1>4. \A i, j \in 1..n : i < j => days[i] < days[j]
  BY <1>1, <1>3, DatesDiffer DEF Regular
<1>5. \A i \in 1..(n - 1) : days[i + 1] - days[i] = gap
  BY <1>3, <1>4, DaysInStep DEF Regular
<1>6. /\ gs \in Seq(Int) /\ Len(gs) = n - 1 /\ DOMAIN gs = 1..(n - 1)
      /\ \A i \in DOMAIN gs : gs[i] = gap
  <2>1. gs = [i \in 1..(n - 1) |-> days[i + 1] - days[i]]
    BY <1>1, <1>3 DEF gaps
  <2>2. \A i \in 1..(n - 1) : gs[i] = gap
    BY <1>5, <2>1
  <2>3. gs \in [1..(n - 1) -> Int]
    BY <2>1, <2>2
  <2> QED
    BY <1>2, <2>2, <2>3
<1>7. Len(gs) \in Nat /\ Len(gs) # 0
  BY <1>2, <1>6
<1>8. twice_median(gs) = 2 * gap
  <2>1. \A v \in Int : (\A i \in DOMAIN gs : gs[i] = v) => twice_median(gs) = 2 * v
    BY <1>6, <1>7, MedianOfEqual
  <2> QED
    BY <1>6, <2>1
<1>9. /\ s.occurrences = n
      /\ s.cadence = cadence_label(2 * gap)
      /\ s.next_expected = days[n] + round(2 * gap, 2)
      /\ s.confidence = confidence(gs, 2 * gap)
  <2>1. /\ s.occurrences = Len(group)
        /\ s.cadence = cadence_label(twice_median(gs))
        /\ s.next_expected = days[Len(days)] + round(twice_median(gs), 2)
        /\ s.confidence = confidence(gs, twice_median(gs))
    BY <1>1 DEF charge_series
  <2> QED
    BY <1>1, <1>3, <1>8, <2>1
<1>10. s.next_expected = days[n] + gap
  BY <1>9, RoundOfWhole
<1>11. days[n] \in Days /\ days[n] \in Nat /\ s.next_expected - gap = days[n]
  BY <1>2, <1>3, <1>10 DEF Range
<1>12. \A d \in Days : d < s.next_expected
  <2> SUFFICES ASSUME NEW d \in Days PROVE d < s.next_expected
    OBVIOUS
  <2>1. PICK i \in 1..n : days[i] = d
    BY <1>3 DEF Range
  <2>2. i = n \/ i < n
    BY <1>2
  <2>3. d <= days[n] /\ d \in Nat
    BY <1>2, <1>3, <2>1, <2>2
  <2> QED
    BY <1>10, <1>11, <2>3
<1>13. ASSUME NEW c \in DOMAIN Cadences
       PROVE  c \in s.cadence <=> gap \in Cadences[c].low..Cadences[c].high
  <2>1. Cadences[c].low \in Nat /\ Cadences[c].high \in Nat
    BY ChargesAssumption
  <2>2. c \in s.cadence <=> 2 * Cadences[c].low <= 2 * gap /\ 2 * gap <= 2 * Cadences[c].high
    BY <1>9 DEF cadence_label
  <2> QED
    BY <2>1, <2>2
<1>14. s.confidence = round(1000 * AtMost(FullGaps, s.occurrences - 1), FullGaps)
  <2>1. confidence(gs, 2 * gap) = round(1000 * AtMost(FullGaps, Len(gs)), FullGaps)
    <3>1. gs \in Seq(Int) /\ Len(gs) # 0 /\ \A i \in DOMAIN gs : gs[i] = gap
      BY <1>6, <1>7
    <3> QED
      BY <3>1, ConfidenceOfEqual
  <2>2. Len(gs) = s.occurrences - 1
    BY <1>2, <1>6, <1>9
  <2> QED
    BY <1>9, <2>1, <2>2
<1> QED
  BY <1>1, <1>9, <1>11, <1>12, <1>13, <1>14

LEMMA RegularFound ==
    ASSUME charges \in SUBSET Charge, IsFiniteSet(charges), NEW gap \in Nat, gap # 0, Regular(gap)
    PROVE  \E s \in detect_recurring(charges) :
              /\ detect_recurring(charges) = {s}
              /\ s.occurrences = Cardinality(charges)
              /\ s.next_expected - gap \in Days
              /\ \A d \in Days : d < s.next_expected
              /\ \A c \in DOMAIN Cadences :
                    c \in s.cadence <=> gap \in Cadences[c].low..Cadences[c].high
              /\ s.confidence = round(1000 * AtMost(FullGaps, s.occurrences - 1), FullGaps)
<1>1. PICK group : group = clusters(charges)[1]
  OBVIOUS
<1>2. charges # {}
  <2>1. Cardinality({}) = 0
    BY FS_EmptySet
  <2>2. Cardinality(charges) >= min_occurrences /\ min_occurrences \in Nat /\ min_occurrences # 0
    BY ChargesAssumption DEF Regular
  <2> QED
    BY <2>1, <2>2
<1>3. /\ Groups(charges) = {group} /\ group \in Seq(charges)
      /\ Range(group) = charges /\ Len(group) = Cardinality(charges)
  BY <1>1, <1>2, OneGroup DEF Regular, Groups
<1>4. Len(group) >= min_occurrences
  BY <1>3 DEF Regular
<1>5. PICK s : s = charge_series(group)
  OBVIOUS
<1>6. detect_recurring(charges) = {s}
  <2>1. {g \in Groups(charges) : Len(g) >= min_occurrences} = {group}
    BY <1>3, <1>4
  <2>2. detect_recurring(charges) = {charge_series(g) : g \in {group}}
    BY <2>1, Zenon DEF detect_recurring
  <2> QED
    BY <1>5, <2>2
<1> QED
  BY <1>3, <1>5, <1>6, SeriesOfRegular

(***************************************************************************)
(* RegularIsFound: charges of near amounts on days that are all the same   *)
(* number of days apart make one series, with that cadence and the next    *)
(* date as far again.                                                      *)
(***************************************************************************)
THEOREM RegularIsAlwaysFound == RecurringSpec => []RegularIsFound
<1>1. ChargesTyped => RegularIsFound
  <2> SUFFICES ASSUME ChargesTyped PROVE RegularIsFound
    OBVIOUS
  <2> SUFFICES ASSUME NEW gap \in {d - e : d, e \in Days} \cap (Nat \ {0}), Regular(gap)
               PROVE  \E s \in detect_recurring(charges) :
                         /\ detect_recurring(charges) = {s}
                         /\ s.occurrences = Cardinality(charges)
                         /\ s.next_expected - gap \in Days
                         /\ \A d \in Days : d < s.next_expected
                         /\ \A c \in DOMAIN Cadences :
                               c \in s.cadence <=> gap \in Cadences[c].low..Cadences[c].high
                         /\ s.confidence =
                               round(1000 * AtMost(FullGaps, s.occurrences - 1), FullGaps)
    BY DEF RegularIsFound
  <2>1. gap \in Nat /\ gap # 0
    OBVIOUS
  <2> QED
    BY <2>1, RegularFound DEF ChargesTyped
<1> QED
  BY <1>1, ChargesAlwaysTyped, PTL

-----------------------------------------------------------------------------
(***************************************************************************)
(* A group is the charges within the tolerance of its lowest one, each     *)
(* once.                                                                   *)
(***************************************************************************)
Distinct(groups) == \A k \in DOMAIN groups : Cardinality(Range(groups[k])) = Len(groups[k])

LEMMA TurnDistinct ==
    ASSUME NEW posted \in SUBSET Charge, IsFiniteSet(posted), NEW s, s = sorted(posted),
           NEW i \in Nat, i + 1 \in DOMAIN s,
           NEW groups \in GroupsOf(posted), Grouped(groups, s, i), Distinct(groups),
           NEW longer, longer = with_charge(groups, s[i + 1])
    PROVE  Distinct(longer)
<1>1. PICK c : c = s[i + 1] /\ c \in posted
  BY Sorted
<1>2. longer \in GroupsOf(posted)
  BY <1>1, OneTurn
<1>3. PICK n : n = Len(groups) /\ n \in Nat /\ DOMAIN groups = 1..n
               /\ \A k \in 1..n : groups[k] \in Seq(posted) /\ groups[k] # << >>
  BY SizesTyped
<1>4. PICK N : N = Len(longer) /\ N \in Nat /\ DOMAIN longer = 1..N
  BY <1>2, SizesTyped
<1>5. \A k \in 1..n : IsFiniteSet(Range(groups[k])) /\ c \notin Range(groups[k])
  <2> SUFFICES ASSUME NEW k \in 1..n
               PROVE  IsFiniteSet(Range(groups[k])) /\ c \notin Range(groups[k])
    OBVIOUS
  <2>1. Range(groups[k]) \in SUBSET posted
    BY <1>3 DEF Range
  <2>2. ASSUME c \in Range(groups[k]) PROVE FALSE
    <3>1. PICK j \in 1..i : c = s[j]
      BY <1>3, <2>2 DEF Grouped
    <3>2. j \in DOMAIN s /\ j # i + 1
      BY Sorted
    <3>3. rank(InOrder, posted, s[j]) = j - 1 /\ rank(InOrder, posted, s[i + 1]) = (i + 1) - 1
      BY <3>2, Sorted
    <3> QED
      BY <1>1, <3>1, <3>2, <3>3
  <2> QED
    BY <2>1, <2>2, FS_Subset
<1>6. \A k \in 1..n : Cardinality(Range(groups[k])) = Len(groups[k])
  BY <1>3 DEF Distinct
<1>7. CASE Joins(groups, c)
  <2>1. /\ n \in 1..n /\ N = n /\ longer[n] = Append(groups[n], c)
        /\ \A k \in 1..(n - 1) : longer[k] = groups[k]
    BY <1>1, <1>3, <1>4, <1>7, OneTurn
  <2>2. /\ Range(longer[n]) = Range(groups[n]) \cup {c} /\ Len(longer[n]) = Len(groups[n]) + 1
    BY <1>1, <1>3, <2>1, Appended
  <2>3. Cardinality(Range(groups[n]) \cup {c}) = Cardinality(Range(groups[n])) + 1
    BY <1>5, <2>1, FS_AddElement
  <2>4. Cardinality(Range(longer[n])) = Len(longer[n])
    BY <1>6, <2>1, <2>2, <2>3
  <2>5. \A k \in 1..n : k = n \/ k \in 1..(n - 1)
    BY <1>3
  <2> QED
    BY <1>4, <1>6, <2>1, <2>4, <2>5 DEF Distinct
<1>8. CASE ~ Joins(groups, c)
  <2>1. /\ N = n + 1 /\ longer[n + 1] = <<c>>
        /\ \A k \in 1..n : longer[k] = groups[k]
    BY <1>1, <1>3, <1>4, <1>8, OneTurn
  <2>2. Range(longer[n + 1]) = {c} /\ Len(longer[n + 1]) = 1
    BY <2>1 DEF Range
  <2>3. Cardinality(Range(longer[n + 1])) = Len(longer[n + 1])
    BY <2>2, FS_Singleton
  <2>4. \A k \in 1..(n + 1) : k = n + 1 \/ k \in 1..n
    BY <1>3
  <2> QED
    BY <1>4, <1>6, <2>1, <2>3, <2>4 DEF Distinct
<1> QED
  BY <1>7, <1>8

LEMMA ClustersDistinct ==
    ASSUME NEW posted \in SUBSET Charge, IsFiniteSet(posted)
    PROVE  Distinct(clusters(posted))
<1>1. PICK s : s = sorted(posted)
  OBVIOUS
<1>2. PICK after : Turns(after, s, Len(s)) /\ clusters(posted) = after[Len(s)]
  BY <1>1, ClustersAreTurns
<1>3. Len(s) \in Nat /\ DOMAIN s = 1..Len(s)
  BY <1>1, Sorted
<1> DEFINE Good == {m \in Nat : m <= Len(s) => Distinct(after[m])}
<1>4. 0 \in Good
  <2>1. after[0] = << >>
    BY <1>2, <1>3 DEF Turns
  <2> QED
    BY <2>1 DEF Distinct
<1>5. ASSUME NEW m \in Nat, m \in Good PROVE m + 1 \in Good
  <2> SUFFICES ASSUME m + 1 <= Len(s) PROVE Distinct(after[m + 1])
    OBVIOUS
  <2>1. m \in 0..Len(s) /\ m + 1 \in DOMAIN s /\ Distinct(after[m])
    BY <1>3, <1>5
  <2>2. after[m] \in GroupsOf(posted) /\ Grouped(after[m], s, m)
    BY <1>1, <1>2, <2>1, LoopGroups
  <2>3. after[m + 1] = with_charge(after[m], s[m + 1])
    <3>1. m + 1 \in 0..Len(s) /\ m + 1 # 0 /\ (m + 1) - 1 = m
      BY <1>3
    <3>2. after[m + 1] = with_charge(after[(m + 1) - 1], s[m + 1])
      BY <1>2, <3>1 DEF Turns
    <3> QED
      BY <3>1, <3>2
  <2> QED
    BY <1>1, <2>1, <2>2, <2>3, TurnDistinct
<1>6. Nat \subseteq Good
  <2> HIDE DEF Good
  <2> QED
    BY <1>4, <1>5, NaturalSteps
<1> QED
  BY <1>2, <1>3, <1>6

Window(posted, low) == {d \in posted : low <= d.amount /\ d.amount <= low + amount_tolerance}

LEMMA GroupIsWindow ==
    ASSUME NEW P \in SUBSET Charge, IsFiniteSet(P), NEW group \in Groups(P)
    PROVE  /\ group \in Seq(P) /\ group # << >> /\ group[1] \in P
           /\ Range(group) = Window(P, group[1].amount)
           /\ IsFiniteSet(Range(group)) /\ Cardinality(Range(group)) = Len(group)
           /\ \A other \in Groups(P) :
                 \/ other = group
                 \/ other[1].amount + amount_tolerance < group[1].amount
                 \/ group[1].amount + amount_tolerance < other[1].amount
<1>1. PICK groups : groups = clusters(P)
  OBVIOUS
<1>2. groups \in GroupsOf(P) /\ Grouped(groups, sorted(P), Cardinality(P)) /\ Distinct(groups)
  BY <1>1, ClustersGrouped, ClustersDistinct
<1>3. PICK n : /\ n = Len(groups) /\ n \in Nat /\ DOMAIN groups = 1..n
               /\ \A k \in 1..n : groups[k] \in Seq(P) /\ groups[k] # << >>
  BY <1>2, SizesTyped
<1>4. Groups(P) = {groups[k] : k \in 1..n}
  BY <1>1, <1>3 DEF Groups, Range
<1>5. \A c \in P : \E k \in 1..n : c \in Range(groups[k])
  <2> SUFFICES ASSUME NEW c \in P PROVE \E k \in 1..n : c \in Range(groups[k])
    OBVIOUS
  <2>1. PICK j \in 1..Cardinality(P) : sorted(P)[j] = c
    BY Sorted
  <2> QED
    BY <1>2, <1>3, <2>1 DEF Grouped
<1>6. PICK k \in 1..n : group = groups[k]
  BY <1>4
<1>7. PICK first : first = [l \in 1..n |-> groups[l][1].amount]
  OBVIOUS
<1>8. \A l \in 1..n : groups[l][1] \in P /\ Range(groups[l]) \in SUBSET P
  BY <1>3 DEF Range
<1>9. amount_tolerance \in Nat /\ \A c \in P : c.amount \in Int
  BY ChargesAssumption, ChargeTyped
<1>10. \A l \in 1..n : first[l] \in Int
  BY <1>7, <1>8, <1>9
<1>11. \A l \in 1..n : \A c \in Range(groups[l]) :
          c \in P /\ first[l] <= c.amount /\ c.amount <= first[l] + amount_tolerance
  BY <1>2, <1>3, <1>7, <1>8 DEF Grouped
<1>12. \A l, m \in 1..n : l < m => first[l] + amount_tolerance < first[m]
  BY <1>2, <1>3, <1>7 DEF Grouped
<1>13. \A l, m \in 1..n : l = m \/ first[l] + amount_tolerance < first[m]
                                \/ first[m] + amount_tolerance < first[l]
  <2> SUFFICES ASSUME NEW l \in 1..n, NEW m \in 1..n
               PROVE  l = m \/ first[l] + amount_tolerance < first[m]
                            \/ first[m] + amount_tolerance < first[l]
    OBVIOUS
  <2>1. l = m \/ l < m \/ m < l
    BY <1>3
  <2> QED
    BY <1>12, <2>1
<1>14. Range(group) = Window(P, first[k])
  <2>1. \A c \in Range(group) : c \in Window(P, first[k])
    BY <1>6, <1>11 DEF Window
  <2>2. ASSUME NEW c \in Window(P, first[k]) PROVE c \in Range(group)
    <3>1. c \in P /\ first[k] <= c.amount /\ c.amount <= first[k] + amount_tolerance
      BY DEF Window
    <3>2. PICK l \in 1..n : c \in Range(groups[l])
      BY <1>5, <3>1
    <3>3. first[l] <= c.amount /\ c.amount <= first[l] + amount_tolerance
      BY <1>11, <3>2
    <3>4. l = k
      BY <1>9, <1>10, <1>13, <3>1, <3>3
    <3> QED
      BY <1>6, <3>2, <3>4
  <2> QED
    BY <2>1, <2>2
<1>15. IsFiniteSet(Range(group)) /\ Cardinality(Range(group)) = Len(group)
  BY <1>2, <1>3, <1>6, <1>8, FS_Subset DEF Distinct
<1>16. \A other \in Groups(P) :
          \/ other = group
          \/ other[1].amount + amount_tolerance < group[1].amount
          \/ group[1].amount + amount_tolerance < other[1].amount
  BY <1>4, <1>6, <1>7, <1>13
<1> QED
  BY <1>3, <1>6, <1>7, <1>8, <1>14, <1>15, <1>16

LEMMA InSomeGroup ==
    ASSUME NEW P \in SUBSET Charge, IsFiniteSet(P), NEW c \in P
    PROVE  \E group \in Groups(P) : c \in Range(group)
<1>1. PICK groups : groups = clusters(P)
  OBVIOUS
<1>2. Grouped(groups, sorted(P), Cardinality(P))
  BY <1>1, ClustersGrouped
<1>3. PICK j \in 1..Cardinality(P) : sorted(P)[j] = c
  BY Sorted
<1>4. PICK k \in DOMAIN groups : c \in Range(groups[k])
  BY <1>2, <1>3 DEF Grouped
<1> QED
  BY <1>1, <1>4 DEF Groups, Range

\* A charge that a group could take is taken by it.
LEMMA GrownGroup ==
    ASSUME NEW P \in SUBSET Charge, IsFiniteSet(P), NEW c \in P, NEW Q, Q = P \ {c},
           NEW group \in Groups(Q), group[1].amount <= c.amount,
           c.amount <= group[1].amount + amount_tolerance,
           NEW grown \in Groups(P), c \in Range(grown)
    PROVE  Range(grown) = Range(group) \cup {c}
<1>1. IsFiniteSet(Q) /\ Q \in SUBSET Charge
  BY FS_Subset
<1>2. amount_tolerance \in Nat /\ \A d \in P : d.amount \in Int
  BY ChargesAssumption, ChargeTyped
<1>3. PICK f, g, F, G : /\ f = group[1] /\ F = f.amount /\ g = grown[1] /\ G = g.amount
  OBVIOUS
<1>4. /\ f \in Q /\ Range(group) = Window(Q, F)
      /\ \A other \in Groups(Q) : \/ other = group
                                  \/ other[1].amount + amount_tolerance < F
                                  \/ F + amount_tolerance < other[1].amount
  BY <1>1, <1>3, GroupIsWindow
<1>5. /\ g \in P /\ Range(grown) = Window(P, G)
      /\ \A other \in Groups(P) : \/ other = grown
                                  \/ other[1].amount + amount_tolerance < G
                                  \/ G + amount_tolerance < other[1].amount
  BY <1>3, GroupIsWindow
<1>6. /\ F \in Int /\ G \in Int /\ c.amount \in Int
      /\ F <= c.amount /\ c.amount <= F + amount_tolerance
      /\ G <= c.amount /\ c.amount <= G + amount_tolerance
  BY <1>2, <1>3, <1>4, <1>5 DEF Window
<1>7. \A h : h \in Groups(Q) /\ h[1].amount + amount_tolerance < c.amount
                <=> h \in Groups(P) /\ h[1].amount + amount_tolerance < c.amount
  <2>1. Lower(clusters(Q), c) = Lower(clusters(P), c)
    BY LowerStay
  <2>2. \A h : /\ h \in Lower(clusters(Q), c)
                     <=> h \in Groups(Q) /\ h[1].amount + amount_tolerance < c.amount
               /\ h \in Lower(clusters(P), c)
                     <=> h \in Groups(P) /\ h[1].amount + amount_tolerance < c.amount
    BY DEF Lower, Groups
  <2> QED
    BY <2>1, <2>2
<1>8. ~ (G < F)
  <2> SUFFICES ASSUME G < F PROVE FALSE
    OBVIOUS
  <2>1. g \in Q
    BY <1>3, <1>5, <1>6
  <2>2. PICK h \in Groups(Q) : g \in Range(h)
    BY <1>1, <2>1, InSomeGroup
  <2>3. h[1] \in Q /\ Range(h) = Window(Q, h[1].amount)
    BY <1>1, GroupIsWindow
  <2>4. PICK H : H = h[1].amount /\ H \in Int /\ H <= G /\ G <= H + amount_tolerance
    BY <1>2, <1>3, <2>2, <2>3 DEF Window
  <2>5. H + amount_tolerance < F
    <3>1. h = group \/ H + amount_tolerance < F \/ F + amount_tolerance < H
      BY <1>4, <2>4
    <3>2. h = group => H = F
      BY <1>3, <2>4
    <3> QED
      BY <1>2, <1>6, <2>4, <3>1, <3>2
  <2>6. h \in Groups(P)
    <3>1. H + amount_tolerance < c.amount
      BY <1>2, <1>6, <2>4, <2>5
    <3> QED
      BY <1>7, <2>4, <3>1
  <2>7. h = grown
    <3>1. h = grown \/ H + amount_tolerance < G \/ G + amount_tolerance < H
      BY <1>5, <2>4, <2>6
    <3> QED
      BY <1>2, <1>6, <2>4, <3>1
  <2> QED
    BY <1>2, <1>3, <1>6, <2>4, <2>5, <2>7
<1>9. ~ (F < G)
  <2> SUFFICES ASSUME F < G PROVE FALSE
    OBVIOUS
  <2>1. PICK h \in Groups(P) : f \in Range(h)
    BY <1>4, InSomeGroup
  <2>2. h[1] \in P /\ Range(h) = Window(P, h[1].amount)
    BY GroupIsWindow
  <2>3. PICK H : H = h[1].amount /\ H \in Int /\ H <= F /\ F <= H + amount_tolerance
    BY <1>2, <1>3, <2>1, <2>2 DEF Window
  <2>4. H + amount_tolerance < G
    <3>1. h = grown \/ H + amount_tolerance < G \/ G + amount_tolerance < H
      BY <1>5, <2>3
    <3>2. h = grown => H = G
      BY <1>3, <2>3
    <3> QED
      BY <1>2, <1>6, <2>3, <3>1, <3>2
  <2>5. h \in Groups(Q)
    <3>1. H + amount_tolerance < c.amount
      BY <1>2, <1>6, <2>3, <2>4
    <3> QED
      BY <1>7, <2>3, <3>1
  <2>6. h = group
    <3>1. h = group \/ H + amount_tolerance < F \/ F + amount_tolerance < H
      BY <1>4, <2>3, <2>5
    <3> QED
      BY <1>2, <1>6, <2>3, <3>1
  <2> QED
    BY <1>2, <1>3, <1>6, <2>3, <2>4, <2>6
<1>10. F = G
  BY <1>6, <1>8, <1>9
<1>11. Window(P, F) = Window(Q, F) \cup {c}
  BY <1>6 DEF Window
<1> QED
  BY <1>4, <1>5, <1>10, <1>11

-----------------------------------------------------------------------------
(***************************************************************************)
(* There is one way to sort.                                               *)
(***************************************************************************)
Ascends(a, n) ==
    /\ n \in Nat /\ a \in Seq(Int) /\ Len(a) = n /\ DOMAIN a = 1..n
    /\ \A i, j \in 1..n : i < j => a[i] <= a[j]

LEMMA NotBelow ==
    ASSUME NEW n, NEW a, Ascends(a, n), NEW b, Ascends(b, n), NEW f,
           NEW p, Rearranges(p, a, f), NEW q, Rearranges(q, b, f), NEW i \in 1..n
    PROVE  ~ (a[i] < b[i])
<1> SUFFICES ASSUME a[i] < b[i] PROVE FALSE
  OBVIOUS
<1>1. /\ n \in Nat /\ DOMAIN a = 1..n /\ DOMAIN b = 1..n
      /\ \A j \in 1..n : a[j] \in Int /\ b[j] \in Int
  BY DEF Ascends
<1> DEFINE at(j) == CHOOSE k \in 1..n : q[k] = p[j]
<1>2. \A j \in 1..n : at(j) \in 1..n /\ q[at(j)] = p[j] /\ b[at(j)] = a[j]
  <2> SUFFICES ASSUME NEW j \in 1..n
               PROVE  at(j) \in 1..n /\ q[at(j)] = p[j] /\ b[at(j)] = a[j]
    OBVIOUS
  <2>1. p[j] \in DOMAIN f /\ a[j] = f[p[j]]
    BY <1>1 DEF Rearranges
  <2>2. \E k \in 1..n : q[k] = p[j]
    BY <1>1, <2>1 DEF Rearranges
  <2>3. at(j) \in 1..n /\ q[at(j)] = p[j]
    BY <2>2
  <2> HIDE DEF at
  <2>4. b[at(j)] = f[q[at(j)]]
    BY <1>1, <2>3 DEF Rearranges
  <2> QED
    BY <2>1, <2>3, <2>4
<1> HIDE DEF at
<1>3. PICK h : h = [j \in 1..i |-> at(j)]
  OBVIOUS
<1>4. \A j \in 1..i : h[j] \in 1..(i - 1)
  <2> SUFFICES ASSUME NEW j \in 1..i PROVE h[j] \in 1..(i - 1)
    OBVIOUS
  <2>1. j \in 1..n /\ a[j] <= a[i]
    <3>1. j = i \/ j < i
      OBVIOUS
    <3> QED
      BY <1>1, <3>1 DEF Ascends
  <2>2. PICK k : k = at(j) /\ k \in 1..n /\ b[k] = a[j]
    BY <1>2, <2>1
  <2>3. ~ (i <= k)
    <3> SUFFICES ASSUME i <= k PROVE FALSE
      OBVIOUS
    <3>1. k = i \/ i < k
      BY <1>1, <2>2
    <3>2. b[i] <= b[k]
      BY <1>1, <2>2, <3>1 DEF Ascends
    <3> QED
      BY <1>1, <2>1, <2>2, <3>2
  <2> QED
    BY <1>1, <1>3, <2>2, <2>3
<1>5. \A j, k \in 1..i : h[j] = h[k] => j = k
  <2> SUFFICES ASSUME NEW j \in 1..i, NEW k \in 1..i, h[j] = h[k] PROVE j = k
    OBVIOUS
  <2>1. j \in 1..n /\ k \in 1..n /\ at(j) = at(k)
    BY <1>1, <1>3
  <2>2. p[j] = p[k]
    BY <1>2, <2>1
  <2> QED
    BY <1>1, <2>1, <2>2 DEF Rearranges
<1>6. h \in [1..i -> 1..(i - 1)]
  BY <1>3, <1>4
<1>7. /\ IsFiniteSet(1..i) /\ Cardinality(1..i) = i
      /\ IsFiniteSet(1..(i - 1)) /\ Cardinality(1..(i - 1)) = i - 1
  BY <1>1, CardinalityOfOneTo
<1>8. \E j, k \in 1..i : j # k /\ h[j] = h[k]
  <2>1. PICK S, T : S = 1..i /\ T = 1..(i - 1)
    OBVIOUS
  <2>2. IsFiniteSet(S) /\ IsFiniteSet(T) /\ Cardinality(T) < Cardinality(S) /\ h \in [S -> T]
    BY <1>6, <1>7, <2>1
  <2>3. \E j, k \in S : j # k /\ h[j] = h[k]
    BY <2>2, FS_PigeonHole
  <2> QED
    BY <2>1, <2>3
<1> QED
  BY <1>5, <1>8

LEMMA SortedOnce ==
    ASSUME NEW n, NEW a, Ascends(a, n), NEW b, Ascends(b, n), NEW f,
           NEW p, Rearranges(p, a, f), NEW q, Rearranges(q, b, f)
    PROVE  a = b
<1>1. \A i \in 1..n : ~ (a[i] < b[i]) /\ ~ (b[i] < a[i])
  BY NotBelow
<1>2. /\ a \in Seq(Int) /\ b \in Seq(Int) /\ DOMAIN a = 1..n /\ DOMAIN b = 1..n
      /\ \A i \in 1..n : a[i] \in Int /\ b[i] \in Int
  BY DEF Ascends
<1>3. \A i \in 1..n : a[i] = b[i]
  BY <1>1, <1>2
<1>4. a \in [1..n -> Int] /\ b \in [1..n -> Int]
  BY DEF Ascends
<1>5. PICK D : D = 1..n
  OBVIOUS
<1>6. a \in [D -> Int] /\ b \in [D -> Int] /\ \A i \in D : a[i] = b[i]
  BY <1>3, <1>4, <1>5
<1> QED
  BY <1>6

\* Extends(g, f, x, v): g is f, and v at x.
Extends(g, f, x, v) ==
    /\ x \notin DOMAIN f /\ DOMAIN g = DOMAIN f \cup {x}
    /\ g[x] = v /\ \A y \in DOMAIN f : g[y] = f[y]

\* One number more is sorted into place q, where it fits.
LEMMA SortedInto ==
    ASSUME NEW n, NEW a, Ascends(a, n), NEW f, NEW p, Rearranges(p, a, f),
           NEW x, NEW v \in Int, NEW g, Extends(g, f, x, v),
           NEW q \in 1..(n + 1), q > 1 => a[q - 1] <= v, q <= n => v <= a[q],
           NEW b, Ascends(b, n + 1), NEW r, Rearranges(r, b, g)
    PROVE  /\ \A i \in 1..(q - 1) : b[i] = a[i]
           /\ b[q] = v
           /\ \A i \in q..n : b[i + 1] = a[i]
<1>1. /\ n \in Nat /\ DOMAIN a = 1..n /\ \A i \in 1..n : a[i] \in Int
      /\ \A i, j \in 1..n : i < j => a[i] <= a[j]
  BY DEF Ascends
<1>2. /\ \A i \in 1..n : p[i] \in DOMAIN f /\ a[i] = f[p[i]]
      /\ \A i, j \in 1..n : p[i] = p[j] => i = j
      /\ \A k \in DOMAIN f : \E i \in 1..n : p[i] = k
  BY <1>1 DEF Rearranges
<1>3. PICK N : N = n + 1 /\ N \in Nat /\ q \in 1..N
  BY <1>1
<1>4. PICK d, e : /\ d = [i \in 1..N |-> IF i < q THEN a[i] ELSE IF i = q THEN v ELSE a[i - 1]]
                  /\ e = [i \in 1..N |-> IF i < q THEN p[i] ELSE IF i = q THEN x ELSE p[i - 1]]
  OBVIOUS
<1>5. \A i \in 1..N : /\ i < q => i \in 1..n /\ d[i] = a[i] /\ e[i] = p[i]
                      /\ i = q => d[i] = v /\ e[i] = x
                      /\ i > q => i - 1 \in 1..n /\ d[i] = a[i - 1] /\ e[i] = p[i - 1]
  BY <1>1, <1>3, <1>4
<1>6. \A i \in 1..N : d[i] \in Int /\ (i < q \/ i = q \/ i > q)
  BY <1>1, <1>3, <1>5
<1>7. Ascends(d, N)
  <2>1. d \in [1..N -> Int]
    BY <1>4, <1>6
  <2>2. d \in Seq(Int) /\ Len(d) = N /\ DOMAIN d = 1..N
    BY <1>3, <2>1
  <2>3. \A i \in 1..N : (i < q => d[i] <= v) /\ (i > q => v <= d[i])
    <3> SUFFICES ASSUME NEW i \in 1..N
                 PROVE  (i < q => d[i] <= v) /\ (i > q => v <= d[i])
      OBVIOUS
    <3>1. CASE i < q
      <4>1. q - 1 \in 1..n /\ a[q - 1] <= v
        BY <1>1, <1>3, <3>1
      <4>2. i = q - 1 \/ i < q - 1
        BY <1>1, <1>3, <3>1
      <4>3. a[i] <= a[q - 1]
        BY <1>1, <1>5, <3>1, <4>1, <4>2
      <4> QED
        BY <1>1, <1>3, <1>5, <3>1, <4>1, <4>3
    <3>2. CASE i > q
      <4>1. q \in 1..n /\ v <= a[q]
        BY <1>1, <1>3, <3>2
      <4>2. q = i - 1 \/ q < i - 1
        BY <1>1, <1>3, <3>2
      <4>3. a[q] <= a[i - 1]
        BY <1>1, <1>5, <3>2, <4>1, <4>2
      <4> QED
        BY <1>1, <1>3, <1>5, <3>2, <4>1, <4>3
    <3> QED
      BY <1>3, <3>1, <3>2
  <2>4. ASSUME NEW i \in 1..N, NEW j \in 1..N, i < j PROVE d[i] <= d[j]
    <3>1. CASE j < q
      BY <1>1, <1>3, <1>5, <2>4, <3>1
    <3>2. CASE i > q
      <4>1. /\ i - 1 \in 1..n /\ j - 1 \in 1..n /\ i - 1 < j - 1
            /\ d[i] = a[i - 1] /\ d[j] = a[j - 1]
        BY <1>3, <1>5, <2>4, <3>2
      <4> QED
        BY <1>1, <4>1
    <3>3. CASE i <= q /\ q <= j
      <4>1. d[i] <= v
        BY <1>3, <1>5, <1>6, <2>3, <3>3
      <4>2. v <= d[j]
        BY <1>3, <1>5, <1>6, <2>3, <3>3
      <4> QED
        BY <1>6, <4>1, <4>2
    <3> QED
      BY <1>3, <3>1, <3>2, <3>3
  <2> QED
    BY <1>3, <2>2, <2>4 DEF Ascends
<1>8. Rearranges(e, d, g)
  <2>1. DOMAIN d = 1..N
    BY <1>4
  <2>2. /\ x \notin DOMAIN f /\ DOMAIN g = DOMAIN f \cup {x}
        /\ g[x] = v /\ \A y \in DOMAIN f : g[y] = f[y]
    BY DEF Extends
  <2>3. \A i \in 1..N : e[i] \in DOMAIN g /\ d[i] = g[e[i]]
    BY <1>2, <1>5, <1>6, <2>2
  <2>4. ASSUME NEW i \in 1..N, NEW j \in 1..N, e[i] = e[j] PROVE i = j
    <3>1. i = q <=> e[i] = x
      BY <1>2, <1>5, <1>6, <2>2
    <3>2. j = q <=> e[j] = x
      BY <1>2, <1>5, <1>6, <2>2
    <3>3. CASE i = q
      BY <2>4, <3>1, <3>2, <3>3
    <3>4. CASE i # q
      <4>1. i # q /\ j # q
        BY <2>4, <3>1, <3>2, <3>4
      <4>2. PICK k, l : /\ k = (IF i < q THEN i ELSE i - 1) /\ l = (IF j < q THEN j ELSE j - 1)
        OBVIOUS
      <4>3. k \in 1..n /\ l \in 1..n /\ e[i] = p[k] /\ e[j] = p[l]
        BY <1>5, <1>6, <4>1, <4>2
      <4>4. k = l
        BY <1>2, <2>4, <4>3
      <4> QED
        BY <1>3, <4>1, <4>2, <4>4
    <3> QED
      BY <3>3, <3>4
  <2>5. ASSUME NEW k \in DOMAIN g PROVE \E i \in 1..N : e[i] = k
    <3>1. CASE k = x
      BY <1>3, <1>5, <3>1
    <3>2. CASE k \in DOMAIN f
      <4>1. PICK i \in 1..n : p[i] = k
        BY <1>2, <3>2
      <4>2. PICK j : j = (IF i < q THEN i ELSE i + 1)
        OBVIOUS
      <4>3. j \in 1..N /\ e[j] = p[i]
        <5>1. CASE i < q
          BY <1>1, <1>3, <1>5, <4>2, <5>1
        <5>2. CASE ~ (i < q)
          <6>1. j \in 1..N /\ j > q /\ j - 1 = i
            BY <1>1, <1>3, <4>2, <5>2
          <6> QED
            BY <1>5, <6>1
        <5> QED
          BY <5>1, <5>2
      <4> QED
        BY <4>1, <4>3
    <3> QED
      BY <2>2, <3>1, <3>2
  <2> QED
    BY <2>1, <2>3, <2>4, <2>5 DEF Rearranges
<1>9. d = b
  BY <1>3, <1>7, <1>8, SortedOnce
<1>10. \A i \in 1..(q - 1) : i \in 1..N /\ i < q
  BY <1>1, <1>3
<1>11. \A i \in q..n : i + 1 \in 1..N /\ i + 1 > q /\ (i + 1) - 1 = i
  BY <1>1, <1>3
<1>12. \A i \in q..n : d[i + 1] = a[i]
  <2> SUFFICES ASSUME NEW i \in q..n PROVE d[i + 1] = a[i]
    OBVIOUS
  <2>1. PICK j : j = i + 1 /\ j \in 1..N /\ j > q /\ j - 1 = i
    BY <1>11
  <2> QED
    BY <1>5, <2>1
<1> QED
  BY <1>3, <1>5, <1>9, <1>10, <1>12

LEMMA DatesSorted ==
    ASSUME NEW P \in SUBSET Charge, NEW group \in Seq(P), NEW days, days = dates(group),
           IsFiniteSet(Range(group)), Cardinality(Range(group)) = Len(group)
    PROVE  /\ Ascends(days, Len(group))
           /\ \E e : Rearranges(e, days, [c \in Range(group) |-> c.day])
<1>1. PICK n, s : n = Len(group) /\ s = [i \in DOMAIN group |-> group[i].day]
  OBVIOUS
<1>2. n \in Nat /\ DOMAIN group = 1..n /\ \A i \in 1..n : group[i] \in P
  BY <1>1
<1>3. \A i \in 1..n : s[i] = group[i].day /\ s[i] \in Int
  BY <1>1, <1>2, ChargeTyped
<1>4. s \in Seq(Int) /\ Len(s) = n /\ DOMAIN s = 1..n
  <2>1. s \in [1..n -> Int]
    BY <1>1, <1>2, <1>3
  <2> QED
    BY <1>2, <2>1
<1>5. days = ascending(s)
  BY <1>1 DEF dates
<1>6. Ascends(days, n)
  BY <1>4, <1>5, Ascending DEF Ascends
<1>7. PICK p : Rearranges(p, days, s)
  BY <1>4, <1>5, Ascending
<1>8. \A i, j \in 1..n : group[i] = group[j] => i = j
  <2>1. IsFiniteSet(1..n) /\ Cardinality(1..n) = n
    BY <1>2, CardinalityOfOneTo
  <2>2. group \in [1..n -> Range(group)] /\ \A c \in Range(group) : \E i \in 1..n : group[i] = c
    <3>1. group \in [1..n -> P]
      BY <1>1
    <3>2. PICK T : T = {group[i] : i \in 1..n} /\ T = Range(group)
      BY <1>2 DEF Range
    <3>3. group \in [1..n -> T]
      BY <3>1, <3>2
    <3> QED
      BY <3>2, <3>3
  <2>3. group \in Surjection(1..n, Range(group))
    BY <2>2 DEF Surjection
  <2>4. group \in Injection(1..n, Range(group))
    BY <1>1, <2>1, <2>3, FS_Surjection
  <2> QED
    BY <2>4 DEF Injection, IsInjective
<1>9. PICK e, f : e = [i \in 1..n |-> group[p[i]]] /\ f = [c \in Range(group) |-> c.day]
  OBVIOUS
<1>10. /\ DOMAIN days = 1..n
       /\ \A i \in 1..n : p[i] \in 1..n /\ days[i] = s[p[i]] /\ e[i] = group[p[i]]
       /\ \A i, j \in 1..n : p[i] = p[j] => i = j
       /\ \A k \in 1..n : \E i \in 1..n : p[i] = k
  BY <1>4, <1>6, <1>7, <1>9 DEF Rearranges, Ascends
<1>11. \A k \in 1..n : group[k] \in Range(group)
  BY <1>2 DEF Range
<1>12. \A i \in 1..n : e[i] \in DOMAIN f /\ days[i] = f[e[i]]
  BY <1>3, <1>9, <1>10, <1>11
<1>13. \A i, j \in 1..n : e[i] = e[j] => i = j
  <2> SUFFICES ASSUME NEW i \in 1..n, NEW j \in 1..n, e[i] = e[j] PROVE i = j
    OBVIOUS
  <2>1. p[i] \in 1..n /\ p[j] \in 1..n /\ group[p[i]] = group[p[j]]
    BY <1>10
  <2>2. p[i] = p[j]
    BY <1>8, <2>1
  <2> QED
    BY <1>10, <2>2
<1>14. ASSUME NEW c \in Range(group) PROVE \E i \in 1..n : e[i] = c
  <2>1. PICK k \in 1..n : group[k] = c
    BY <1>2 DEF Range
  <2>2. PICK i \in 1..n : p[i] = k
    BY <1>10
  <2> QED
    BY <1>10, <2>1, <2>2
<1>15. Rearranges(e, days, f)
  <2>1. DOMAIN f = Range(group) /\ DOMAIN days = 1..n
    BY <1>9, <1>10
  <2> QED
    BY <1>12, <1>13, <1>14, <2>1 DEF Rearranges
<1> QED
  BY <1>1, <1>6, <1>9, <1>15

\* OneMore(t, s, n, v): t goes on as s does, n terms, and then has v.
OneMore(t, s, n, v) == (\A i \in 1..n : t[i] = s[i]) /\ t[n + 1] = v

LEMMA DatesOfGrown ==
    ASSUME NEW P \in SUBSET Charge, NEW group \in Seq(P), NEW grown \in Seq(P), NEW c \in P,
           IsFiniteSet(Range(group)), Cardinality(Range(group)) = Len(group),
           IsFiniteSet(Range(grown)), Cardinality(Range(grown)) = Len(grown),
           c \notin Range(group), Range(grown) = Range(group) \cup {c},
           Len(group) # 0, dates(group)[Len(group)] <= c.day
    PROVE  OneMore(dates(grown), dates(group), Len(group), c.day) /\ Len(grown) = Len(group) + 1
<1>0. PICK n : n = Len(group)
  OBVIOUS
<1>1. PICK a, b, f, g : /\ a = dates(group) /\ b = dates(grown)
                        /\ f = [d \in Range(group) |-> d.day]
                        /\ g = [d \in Range(grown) |-> d.day]
  OBVIOUS
<1>2. n \in Nat /\ Len(grown) = n + 1
  BY <1>0, FS_AddElement
<1>3. Ascends(a, n) /\ \E p : Rearranges(p, a, f)
  BY <1>0, <1>1, DatesSorted
<1>4. Ascends(b, n + 1) /\ \E r : Rearranges(r, b, g)
  BY <1>1, <1>2, DatesSorted
<1>5. PICK p : Rearranges(p, a, f)
  BY <1>3
<1>6. PICK r : Rearranges(r, b, g)
  BY <1>4
<1>7. Extends(g, f, c, c.day) /\ c.day \in Int
  BY <1>1, ChargeTyped DEF Extends
<1>8. PICK q : q = n + 1 /\ q \in 1..(n + 1) /\ q - 1 = n /\ ~ (q <= n)
  BY <1>2
<1>9. a[q - 1] <= c.day
  BY <1>0, <1>1, <1>8
<1>10. (\A i \in 1..(q - 1) : b[i] = a[i]) /\ b[q] = c.day
  BY <1>3, <1>4, <1>5, <1>6, <1>7, <1>8, <1>9, SortedInto
<1> QED
  BY <1>0, <1>1, <1>2, <1>8, <1>10 DEF OneMore

-----------------------------------------------------------------------------
(***************************************************************************)
(* One gap more, equal to the median: the median stays, the confidence     *)
(* does not fall.                                                          *)
(***************************************************************************)
LEMMA Halves ==
    ASSUME NEW k \in Nat
    PROVE  (2 * k) \div 2 = k /\ (2 * k + 1) \div 2 = k
<1>1. PICK d, m, n : d = 2 /\ m = 2 * k /\ n = 2 * k + 1
  OBVIOUS
<1>2. d \in Nat /\ d # 0 /\ m \in Int /\ m = k * d + 0 /\ n \in Int /\ n = k * d + 1
  BY <1>1
<1>3. 0 < d /\ 1 < d
  BY <1>1
<1>4. m \div d = k /\ n \div d = k
  BY <1>2, <1>3, QuotientUnique
<1> QED
  BY <1>1, <1>4

LEMMA MedianKept ==
    ASSUME NEW gs \in Seq(Int), Len(gs) # 0,
           NEW mu \in Int, twice_median(gs) = 2 * mu,
           NEW hs \in Seq(Int), Len(hs) = Len(gs) + 1, OneMore(hs, gs, Len(gs), mu)
    PROVE  twice_median(hs) = 2 * mu
<1>0. PICK n : n = Len(gs)
  OBVIOUS
<1>1. /\ n \in Nat /\ n # 0 /\ DOMAIN gs = 1..n /\ DOMAIN hs = 1..(n + 1)
      /\ Len(gs) = n /\ Len(hs) = n + 1
      /\ (\A i \in 1..n : hs[i] = gs[i]) /\ hs[n + 1] = mu
  BY <1>0 DEF OneMore
<1>2. PICK a, b : a = ascending(gs) /\ b = ascending(hs)
  OBVIOUS
<1>3. Ascends(a, n) /\ \E p : Rearranges(p, a, gs)
  BY <1>1, <1>2, Ascending DEF Ascends
<1>4. Ascends(b, n + 1) /\ \E r : Rearranges(r, b, hs)
  BY <1>1, <1>2, Ascending DEF Ascends
<1>5. PICK p : Rearranges(p, a, gs)
  BY <1>3
<1>6. PICK r : Rearranges(r, b, hs)
  BY <1>4
<1>7. Extends(hs, gs, n + 1, mu)
  BY <1>1 DEF Extends
<1>8. PICK low, q : low = (n + 1) \div 2 /\ q = n \div 2 + 1
  OBVIOUS
<1>9. /\ q \in 1..n /\ q \in 1..(n + 1) /\ low \in 1..n
      /\ (low = q \/ low = q - 1)
      /\ (n + 2) \div 2 = q
      /\ (n + 1) \div 2 + 1 = IF low = q THEN q + 1 ELSE q
  <2>0. PICK k : k = n \div 2
    OBVIOUS
  <2>1. k = n \div 2 /\ k \in Nat /\ (n = 2 * k \/ n = 2 * k + 1)
    <3>1. PICK m : m = n % 2
      OBVIOUS
    <3>2. k \in Nat /\ m \in 0..1 /\ n = 2 * k + m
      BY <1>1, <2>0, <3>1
    <3>3. CASE m = 0
      BY <1>1, <2>0, <3>2, <3>3
    <3>4. CASE m = 1
      BY <1>1, <2>0, <3>2, <3>4
    <3> QED
      BY <3>2, <3>3, <3>4
  <2>2. q = k + 1 /\ (n + 2) \div 2 = k + 1
    <3>1. PICK m : m = k + 1 /\ m \in Nat
      BY <2>1
    <3>2. (2 * m) \div 2 = m /\ (2 * m + 1) \div 2 = m
      BY <3>1, Halves
    <3>3. n + 2 = 2 * m \/ n + 2 = 2 * m + 1
      <4>1. CASE n = 2 * k
        BY <1>1, <2>1, <3>1, <4>1
      <4>2. CASE n = 2 * k + 1
        <5>1. n + 2 = (2 * k + 1) + 2 /\ 2 * m + 1 = 2 * (k + 1) + 1
          BY <3>1, <4>2
        <5>2. (2 * k + 1) + 2 = 2 * (k + 1) + 1
          BY <2>1
        <5> QED
          BY <5>1, <5>2
      <4> QED
        BY <2>1, <4>1, <4>2
    <3> QED
      BY <1>8, <2>1, <3>1, <3>2, <3>3
  <2>3. CASE n = 2 * k
    <3>1. (2 * k + 1) \div 2 = k /\ k # 0
      BY <1>1, <2>1, <2>3, Halves
    <3>2. low = k
      BY <1>8, <2>3, <3>1
    <3>3. q \in 1..n /\ q \in 1..(n + 1) /\ low \in 1..n
      BY <1>1, <2>1, <2>2, <2>3, <3>1, <3>2
    <3>4. low = q - 1 /\ low # q /\ low + 1 = q
      BY <2>1, <2>2, <3>2
    <3>5. (n + 1) \div 2 + 1 = q
      BY <1>8, <3>4
    <3> QED
      BY <2>2, <3>3, <3>4, <3>5
  <2>4. CASE n = 2 * k + 1
    <3>1. PICK m : m = k + 1 /\ m \in Nat
      BY <2>1
    <3>2. low = k + 1
      <4>1. (2 * m) \div 2 = m /\ n + 1 = 2 * m
        BY <2>1, <2>4, <3>1, Halves
      <4> QED
        BY <1>8, <3>1, <4>1
    <3>3. q \in 1..n /\ q \in 1..(n + 1) /\ low \in 1..n
      BY <1>1, <2>1, <2>2, <2>4, <3>2
    <3>4. low = q /\ (n + 1) \div 2 + 1 = q + 1
      BY <1>8, <2>1, <2>2, <3>2
    <3> QED
      BY <2>2, <3>3, <3>4
  <2> QED
    BY <2>1, <2>3, <2>4
<1>10. a[low] + a[q] = 2 * mu
  <2>1. twice_median(gs) = a[(n + 1) \div 2] + a[n \div 2 + 1]
    <3>1. twice_median(gs) = a[(Len(gs) + 1) \div 2] + a[Len(gs) \div 2 + 1]
      BY <1>2, Zenon DEF twice_median
    <3> QED
      BY <1>1, <3>1
  <2> QED
    BY <1>8, <2>1
<1>11. /\ \A i \in 1..n : a[i] \in Int
       /\ \A i, j \in 1..n : i < j => a[i] <= a[j]
  BY <1>3 DEF Ascends
<1>12. a[low] <= mu /\ mu <= a[q] /\ (low = q => a[q] = mu)
  <2>1. a[low] <= a[q]
    BY <1>1, <1>9, <1>11
  <2> QED
    BY <1>9, <1>10, <1>11, <2>1
<1>13. q > 1 => a[q - 1] <= mu
  <2> SUFFICES ASSUME q > 1 PROVE a[q - 1] <= mu
    OBVIOUS
  <2>1. q - 1 \in 1..n /\ q - 1 < q
    BY <1>1, <1>9
  <2>2. a[q - 1] <= a[q]
    BY <1>9, <1>11, <2>1
  <2> QED
    BY <1>9, <1>12, <2>2
<1>14. b[q] = mu /\ \A i \in q..n : b[i + 1] = a[i]
  BY <1>3, <1>4, <1>5, <1>6, <1>7, <1>9, <1>12, <1>13, SortedInto
<1>15. twice_median(hs) = b[(n + 2) \div 2] + b[(n + 1) \div 2 + 1]
  <2>1. twice_median(hs) = b[(Len(hs) + 1) \div 2] + b[Len(hs) \div 2 + 1]
    BY <1>2, Zenon DEF twice_median
  <2>2. Len(hs) + 1 = n + 2 /\ Len(hs) = n + 1
    BY <1>1
  <2> QED
    BY <2>1, <2>2
<1>16. low = q => b[q + 1] = mu
  <2>1. q \in q..n
    BY <1>1, <1>9
  <2> QED
    BY <1>12, <1>14, <2>1
<1> QED
  BY <1>9, <1>14, <1>15, <1>16

LEMMA RoundTyped ==
    ASSUME NEW n \in Nat, NEW d \in Nat, d # 0
    PROVE  /\ round(n, d) \in Nat
           /\ n \div d <= round(n, d) /\ round(n, d) <= n \div d + 1
           /\ n \div d \in Nat /\ n % d \in Nat
<1>1. n \div d \in Nat /\ n % d \in Nat
  OBVIOUS
<1>2. round(n, d) = n \div d \/ round(n, d) = n \div d + 1
  BY DEF round
<1> QED
  BY <1>1, <1>2

LEMMA RoundGrows ==
    ASSUME NEW m \in Nat, NEW n \in Nat, NEW d \in Nat, d # 0, m <= n
    PROVE  round(m, d) <= round(n, d)
<1>1. PICK e, r, f, s : e = m \div d /\ r = m % d /\ f = n \div d /\ s = n % d
  OBVIOUS
<1>2. /\ e \in Nat /\ r \in Nat /\ r < d /\ m = e * d + r
      /\ f \in Nat /\ s \in Nat /\ s < d /\ n = f * d + s
  BY <1>1
<1>3. ~ (f < e)
  <2> SUFFICES ASSUME f < e PROVE FALSE
    OBVIOUS
  <2>1. (f + 1) * d <= e * d
    BY <1>2, ProductGrows
  <2>2. (f + 1) * d = f * d + d /\ f * d \in Int /\ e * d \in Int
    BY <1>2
  <2> QED
    BY <1>2, <2>1, <2>2
<1>4. CASE e < f
  <2>1. round(m, d) \in Nat /\ round(n, d) \in Nat /\ round(m, d) <= e + 1 /\ f <= round(n, d)
    BY <1>1, RoundTyped
  <2> QED
    BY <1>2, <1>4, <2>1
<1>5. CASE e = f
  <2>1. r <= s
    <3>1. e * d \in Int
      BY <1>2
    <3> QED
      BY <1>2, <1>5, <3>1
  <2>2. /\ round(m, d) = IF 2 * r > d \/ (2 * r = d /\ e % 2 = 1) THEN e + 1 ELSE e
        /\ round(n, d) = IF 2 * s > d \/ (2 * s = d /\ f % 2 = 1) THEN f + 1 ELSE f
    BY <1>1 DEF round
  <2> QED
    BY <1>2, <1>5, <2>1, <2>2
<1> QED
  BY <1>2, <1>3, <1>4, <1>5

\* A larger fraction is not rounded to less.
LEMMA RoundOfLarger ==
    ASSUME NEW m \in Nat, NEW d \in Nat, d # 0, NEW n \in Nat, NEW e \in Nat, e # 0,
           m * e <= n * d
    PROVE  round(m, d) <= round(n, e)
<1>1. round(m * e, d * e) = round(m, d) /\ round(n * d, e * d) = round(n, e)
  BY RoundReduced
<1>2. PICK D : D = d * e /\ D = e * d /\ D \in Nat /\ D # 0
  BY Product
<1>3. m * e \in Nat /\ n * d \in Nat
  BY Product
<1>4. round(m * e, D) <= round(n * d, D)
  BY <1>2, <1>3, RoundGrows
<1> QED
  BY <1>1, <1>2, <1>4

\* What is left of the whole grows with the whole, in proportion too.
Share(whole, less, held, full) == round(1000 * (whole - less) * held, whole * full)

LEMMA ShareGrows ==
    ASSUME NEW W \in Nat, NEW V \in Nat, NEW D \in Nat, W <= V, D < W,
           NEW A \in Nat, NEW B \in Nat, A <= B, NEW F \in Nat, F # 0
    PROVE  Share(W, D, A, F) <= Share(V, D, B, F)
<1>1. PICK x, y : x = W - D /\ y = V - D /\ x \in Nat /\ y \in Nat
  OBVIOUS
<1>2. x * V <= y * W
  <2>1. x * V = W * V - D * V /\ y * W = W * V - D * W
    BY <1>1
  <2>2. W * D <= V * D
    BY ProductGrows
  <2>3. W * D = D * W /\ V * D = D * V /\ W * V \in Int /\ D * V \in Int /\ D * W \in Int
    OBVIOUS
  <2> QED
    BY <2>1, <2>2, <2>3
<1>3. PICK X, Y : X = x * V /\ Y = y * W /\ X \in Nat /\ Y \in Nat
  BY <1>1, Product
<1>4. X * A <= Y * A /\ Y * A <= Y * B
  <2>1. X * A <= Y * A
    BY <1>2, <1>3, ProductGrows
  <2>2. A * Y <= B * Y
    BY <1>3, ProductGrows
  <2>3. A * Y = Y * A /\ B * Y = Y * B
    BY <1>3
  <2> QED
    BY <2>1, <2>2, <2>3
<1>5. PICK p, q : p = X * A /\ q = Y * B /\ p \in Nat /\ q \in Nat /\ p <= q
  <2>1. X * A \in Nat /\ Y * A \in Nat /\ Y * B \in Nat
    BY <1>3, Product
  <2> QED
    BY <1>4, <2>1
<1>6. p * (1000 * F) <= q * (1000 * F)
  BY <1>5, ProductGrows
<1>7. (1000 * x * A) * (V * F) = p * (1000 * F)
  BY <1>1, <1>3, <1>5
<1>8. (1000 * y * B) * (W * F) = q * (1000 * F)
  BY <1>1, <1>3, <1>5
<1>9. /\ 1000 * x * A \in Nat /\ 1000 * y * B \in Nat
      /\ W * F \in Nat /\ W * F # 0 /\ V * F \in Nat /\ V * F # 0
  <2>1. 1000 * x \in Nat /\ 1000 * y \in Nat /\ W # 0 /\ V # 0
    BY <1>1
  <2> QED
    BY <2>1, Product
<1>10. round(1000 * x * A, W * F) <= round(1000 * y * B, V * F)
  <2>1. PICK M, d, N, e : M = 1000 * x * A /\ d = W * F /\ N = 1000 * y * B /\ e = V * F
    OBVIOUS
  <2>2. M \in Nat /\ d \in Nat /\ d # 0 /\ N \in Nat /\ e \in Nat /\ e # 0
    BY <1>9, <2>1
  <2>3. M * e <= N * d
    BY <1>6, <1>7, <1>8, <2>1
  <2>4. round(M, d) <= round(N, e)
    BY <2>2, <2>3, RoundOfLarger
  <2> QED
    BY <2>1, <2>4
<1> QED
  BY <1>1, <1>10 DEF Share

LEMMA DistanceTyped ==
    ASSUME NEW m \in Int, NEW n \in Int
    PROVE  Distance(m, n) \in Nat /\ (m = n => Distance(m, n) = 0)
BY DEF Distance

LEMMA ConfidenceGrows ==
    ASSUME NEW gs \in Seq(Int), Len(gs) # 0,
           NEW mu \in Int, NEW hs \in Seq(Int), Len(hs) = Len(gs) + 1,
           OneMore(hs, gs, Len(gs), mu)
    PROVE  confidence(hs, 2 * mu) >= confidence(gs, 2 * mu)
<1>0. PICK n : n = Len(gs)
  OBVIOUS
<1>1. /\ n = Len(gs) /\ n \in Nat /\ n # 0 /\ DOMAIN gs = 1..n /\ gs # << >>
      /\ DOMAIN hs = 1..(n + 1) /\ hs # << >> /\ Len(hs) = n + 1
  <2>1. n \in Nat /\ DOMAIN gs = 1..n /\ DOMAIN hs = 1..(n + 1) /\ n + 1 # 0
    BY <1>0
  <2>2. gs # << >>
    BY <1>0
  <2>3. hs # << >>
    <3>1. Len(hs) # 0
      BY <1>0, <2>1
    <3> QED
      BY <3>1
  <2> QED
    BY <1>0, <2>1, <2>2, <2>3
<1>2. \A i \in 1..n : hs[i] = gs[i]
  BY <1>0 DEF OneMore
<1>3. FullGaps \in Nat /\ FullGaps # 0
  BY ChargesAssumption
<1>4. PICK f, g : /\ f = [i \in DOMAIN gs |-> Distance(2 * gs[i], 2 * mu)]
                  /\ g = [i \in DOMAIN hs |-> Distance(2 * hs[i], 2 * mu)]
  OBVIOUS
<1>5. \A i \in 1..n : f[i] \in Nat /\ g[i] = f[i]
  <2> SUFFICES ASSUME NEW i \in 1..n PROVE f[i] \in Nat /\ g[i] = f[i]
    OBVIOUS
  <2>1. gs[i] \in Int /\ hs[i] = gs[i] /\ i \in DOMAIN gs /\ i \in DOMAIN hs
    BY <1>1, <1>2
  <2>2. PICK x, y : x = 2 * gs[i] /\ y = 2 * mu
    OBVIOUS
  <2>3. x \in Int /\ y \in Int
    BY <2>1, <2>2
  <2>4. f[i] = Distance(x, y) /\ g[i] = Distance(x, y)
    BY <1>4, <2>1, <2>2
  <2> QED
    BY <2>3, <2>4, DistanceTyped
<1>6. g[n + 1] = 0
  <2>1. hs[n + 1] = mu /\ n + 1 \in DOMAIN hs
    BY <1>0, <1>1 DEF OneMore
  <2>2. PICK x : x = 2 * mu /\ x \in Int
    OBVIOUS
  <2>3. g[n + 1] = Distance(x, x)
    BY <1>4, <2>1, <2>2
  <2> QED
    BY <2>2, <2>3, DistanceTyped
<1>7. PICK D : D = SumFunctionOnSet(f, 1..n) /\ D \in Nat
  BY <1>1, <1>5, CardinalityOfOneTo, SumOfNaturals
<1>8. SumFunction(f) = D
  <2>1. DOMAIN f = 1..n
    BY <1>1, <1>4
  <2> QED
    BY <1>7, <2>1, Zenon DEF SumFunction
<1>9. SumFunction(g) = D
  <2>1. PICK N : N = n + 1 /\ N \in Nat /\ N # 0 /\ N - 1 = n
    BY <1>1
  <2>2. DOMAIN g = 1..N /\ g[N] = 0
    BY <1>1, <1>4, <1>6, <2>1
  <2>3. \A i \in 1..N : i = N \/ i \in 1..n
    BY <2>1
  <2>4. IntegersOn(g, 1..N)
    BY <1>5, <2>2, <2>3 DEF IntegersOn
  <2>5. SumFunction(g) = SumFunctionOnSet(g, 1..(N - 1)) + g[N]
    BY <2>1, <2>2, <2>4, LastTerm
  <2>6. SumFunctionOnSet(g, 1..n) = SumFunctionOnSet(f, 1..n)
    <3>1. IsFiniteSet(1..n) /\ IntegersOn(f, 1..n)
      BY <1>1, <1>5, CardinalityOfOneTo DEF IntegersOn
    <3> QED
      BY <1>5, <3>1, SumAgrees
  <2> QED
    BY <1>7, <2>1, <2>2, <2>5, <2>6
<1>10. PICK W, V, A, B : /\ W = n * (2 * mu) /\ V = (n + 1) * (2 * mu)
                        /\ A = AtMost(FullGaps, n) /\ B = AtMost(FullGaps, n + 1)
  OBVIOUS
<1>11. A \in Nat /\ B \in Nat /\ A <= B
  BY <1>1, <1>3, <1>10 DEF AtMost
<1>12. confidence(gs, 2 * mu) = IF 2 * mu <= 0 \/ D >= W THEN 0
                                ELSE round(1000 * (W - D) * A, W * FullGaps)
  <2>1. W = Len(gs) * (2 * mu) /\ A = AtMost(FullGaps, Len(gs))
    BY <1>1, <1>10
  <2>2. confidence(gs, 2 * mu) =
           IF \/ gs = << >> \/ 2 * mu <= 0
              \/ SumFunction([i \in DOMAIN gs |-> Distance(2 * gs[i], 2 * mu)])
                    >= Len(gs) * (2 * mu)
           THEN 0
           ELSE round(1000 * (Len(gs) * (2 * mu) -
                                SumFunction([i \in DOMAIN gs |-> Distance(2 * gs[i], 2 * mu)]))
                        * AtMost(FullGaps, Len(gs)),
                      Len(gs) * (2 * mu) * FullGaps)
    BY Zenon DEF confidence
  <2> QED
    BY <1>1, <1>4, <1>8, <2>1, <2>2
<1>13. confidence(hs, 2 * mu) = IF 2 * mu <= 0 \/ D >= V THEN 0
                                ELSE round(1000 * (V - D) * B, V * FullGaps)
  <2>1. V = Len(hs) * (2 * mu) /\ B = AtMost(FullGaps, Len(hs))
    BY <1>1, <1>10
  <2>2. confidence(hs, 2 * mu) =
           IF \/ hs = << >> \/ 2 * mu <= 0
              \/ SumFunction([i \in DOMAIN hs |-> Distance(2 * hs[i], 2 * mu)])
                    >= Len(hs) * (2 * mu)
           THEN 0
           ELSE round(1000 * (Len(hs) * (2 * mu) -
                                SumFunction([i \in DOMAIN hs |-> Distance(2 * hs[i], 2 * mu)]))
                        * AtMost(FullGaps, Len(hs)),
                      Len(hs) * (2 * mu) * FullGaps)
    BY Zenon DEF confidence
  <2> QED
    BY <1>1, <1>4, <1>9, <2>1, <2>2
<1>14. CASE mu <= 0
  <2>1. 2 * mu <= 0
    BY <1>14
  <2> QED
    BY <1>12, <1>13, <2>1
<1>15. CASE mu > 0
  <2>1. 2 * mu \in Nat /\ 2 * mu # 0 /\ ~ (2 * mu <= 0)
    BY <1>15
  <2>2. W \in Nat /\ W # 0 /\ V \in Nat /\ V # 0 /\ W <= V
    <3>1. W \in Nat /\ W # 0 /\ V \in Nat /\ V # 0
      BY <1>1, <1>10, <2>1, Product
    <3>2. V = W + 2 * mu
      BY <1>1, <1>10
    <3> QED
      BY <1>15, <3>1, <3>2
  <2>3. CASE D >= V
    BY <1>7, <1>12, <1>13, <2>2, <2>3
  <2>4. CASE W <= D /\ D < V
    <3>1. round(1000 * (V - D) * B, V * FullGaps) \in Nat
      <4>1. V - D \in Nat /\ 1000 * (V - D) \in Nat
        BY <1>7, <2>2, <2>4
      <4>2. 1000 * (V - D) * B \in Nat /\ V * FullGaps \in Nat /\ V * FullGaps # 0
        BY <1>3, <1>11, <2>2, <4>1, Product
      <4>3. PICK M, d : M = 1000 * (V - D) * B /\ d = V * FullGaps
        OBVIOUS
      <4>4. M \in Nat /\ d \in Nat /\ d # 0
        BY <4>2, <4>3
      <4>5. round(M, d) \in Nat
        BY <4>4, RoundTyped
      <4> QED
        BY <4>3, <4>5
    <3> QED
      BY <1>7, <1>12, <1>13, <2>1, <2>2, <2>4, <3>1
  <2>5. CASE D < W
    <3>1. round(1000 * (W - D) * A, W * FullGaps) <= round(1000 * (V - D) * B, V * FullGaps)
      <4>1. PICK F : F = FullGaps
        OBVIOUS
      <4>2. F \in Nat /\ F # 0
        BY <1>3, <4>1
      <4>3. Share(W, D, A, F) <= Share(V, D, B, F)
        BY <1>7, <1>11, <2>2, <2>5, <4>2, ShareGrows
      <4> QED
        BY <4>1, <4>3 DEF Share
    <3>2. /\ confidence(gs, 2 * mu) = round(1000 * (W - D) * A, W * FullGaps)
          /\ confidence(hs, 2 * mu) = round(1000 * (V - D) * B, V * FullGaps)
      BY <1>7, <1>12, <1>13, <2>1, <2>2, <2>5
    <3> QED
      BY <3>1, <3>2
  <2> QED
    BY <1>7, <2>2, <2>3, <2>4, <2>5
<1> QED
  BY <1>14, <1>15

-----------------------------------------------------------------------------
(***************************************************************************)
(* PunctualChargeConfirms                                                  *)
(***************************************************************************)
LEMMA MedianOfNaturals ==
    ASSUME NEW s \in Seq(Int), Len(s) # 0, \A i \in DOMAIN s : s[i] \in Nat
    PROVE  twice_median(s) \in Nat
<1>1. PICK n, t : n = Len(s) /\ t = ascending(s)
  OBVIOUS
<1>2. n \in Nat /\ n # 0 /\ DOMAIN t = 1..n /\ DOMAIN s = 1..n
  BY <1>1, Ascending
<1>3. PICK p : Rearranges(p, t, s)
  BY <1>1, Ascending
<1>4. \A i \in 1..n : t[i] \in Nat
  BY <1>2, <1>3 DEF Rearranges
<1>5. (n + 1) \div 2 \in 1..n /\ n \div 2 + 1 \in 1..n
  BY <1>2
<1>6. twice_median(s) = t[(n + 1) \div 2] + t[n \div 2 + 1]
  BY <1>1, Zenon DEF twice_median
<1> QED
  BY <1>4, <1>5, <1>6

LEMMA GapsOfDates ==
    ASSUME NEW days \in Seq(Int), NEW n \in Nat, n # 0, Len(days) = n,
           \A i, j \in 1..n : i < j => days[i] <= days[j]
    PROVE  /\ gaps(days) \in Seq(Int) /\ Len(gaps(days)) = n - 1
           /\ \A i \in 1..(n - 1) : gaps(days)[i] = days[i + 1] - days[i] /\ gaps(days)[i] \in Nat
<1>1. PICK gs : gs = gaps(days)
  OBVIOUS
<1>2. gs = [i \in 1..(n - 1) |-> days[i + 1] - days[i]]
  BY <1>1 DEF gaps
<1>3. \A i \in 1..(n - 1) : gs[i] = days[i + 1] - days[i] /\ gs[i] \in Nat
  <2> SUFFICES ASSUME NEW i \in 1..(n - 1)
               PROVE  gs[i] = days[i + 1] - days[i] /\ gs[i] \in Nat
    OBVIOUS
  <2>1. i \in 1..n /\ i + 1 \in 1..n /\ i < i + 1
    OBVIOUS
  <2>2. days[i] <= days[i + 1] /\ days[i] \in Int /\ days[i + 1] \in Int
    BY <2>1
  <2> QED
    BY <1>2, <2>2
<1>4. gs \in [1..(n - 1) -> Int]
  BY <1>2, <1>3
<1>5. n - 1 \in Nat
  OBVIOUS
<1> QED
  BY <1>1, <1>3, <1>4, <1>5

LEMMA Confirmed ==
    ASSUME NEW P \in SUBSET Charge, IsFiniteSet(P), NEW c \in P, NEW Q, Q = P \ {c},
           NEW group \in Groups(Q), Len(group) >= min_occurrences,
           group[1].amount <= c.amount, joins(group, c),
           NEW grown \in Groups(P), c \in Range(grown)
    PROVE  Confirms(c, group, grown)
<1>1. IsFiniteSet(Q) /\ Q \in SUBSET Charge
  BY FS_Subset
<1>2. /\ group \in Seq(Q) /\ group[1] \in Q /\ c \notin Range(group)
      /\ IsFiniteSet(Range(group)) /\ Cardinality(Range(group)) = Len(group)
  <2>1. /\ group \in Seq(Q) /\ group[1] \in Q
        /\ IsFiniteSet(Range(group)) /\ Cardinality(Range(group)) = Len(group)
    BY <1>1, GroupIsWindow
  <2> QED
    BY <2>1 DEF Range
<1>3. /\ grown \in Seq(P)
      /\ IsFiniteSet(Range(grown)) /\ Cardinality(Range(grown)) = Len(grown)
  BY GroupIsWindow
<1>4. Range(grown) = Range(group) \cup {c}
  <2>1. group[1].amount \in Int /\ c.amount \in Int /\ amount_tolerance \in Nat
    BY <1>1, <1>2, ChargeTyped, ChargesAssumption
  <2>2. Distance(c.amount, group[1].amount) <= amount_tolerance
    BY DEF joins
  <2>3. c.amount <= group[1].amount + amount_tolerance
    BY <2>1, <2>2 DEF Distance
  <2> QED
    BY <2>3, GrownGroup
<1>5. PICK n, days, gs, median2 :
         n = Len(group) /\ days = dates(group) /\ gs = gaps(days) /\ median2 = twice_median(gs)
  OBVIOUS
<1>6. n \in Nat /\ n >= 2 /\ n # 0
  <2>1. n \in Nat /\ n >= min_occurrences
    BY <1>2, <1>5
  <2>2. min_occurrences \in Nat /\ min_occurrences # 0 /\ min_occurrences # 1
    BY ChargesAssumption
  <2> QED
    BY <2>1, <2>2
<1>7. /\ days \in Seq(Int) /\ Len(days) = n /\ DOMAIN days = 1..n
      /\ \A i, j \in 1..n : i < j => days[i] <= days[j]
      /\ \A i \in 1..n : days[i] \in Nat
  BY <1>1, <1>2, <1>5, DatesAscend
<1>8. PICK m : m = n - 1 /\ m \in Nat /\ m # 0 /\ m + 1 = n
  BY <1>6
<1>9. /\ gs \in Seq(Int) /\ Len(gs) = m /\ DOMAIN gs = 1..m
      /\ \A i \in 1..m : gs[i] = days[i + 1] - days[i] /\ gs[i] \in Nat
  <2>1. /\ gs \in Seq(Int) /\ Len(gs) = m
        /\ \A i \in 1..m : gs[i] = days[i + 1] - days[i] /\ gs[i] \in Nat
    BY <1>5, <1>6, <1>7, <1>8, GapsOfDates
  <2> QED
    BY <2>1
<1>10. median2 \in Nat
  BY <1>5, <1>8, <1>9, MedianOfNaturals
<1> SUFFICES ASSUME c.day = charge_series(group).next_expected, median2 % 2 = 0
             PROVE  /\ charge_series(grown).confidence >= charge_series(group).confidence
                    /\ charge_series(grown).cadence = charge_series(group).cadence
  BY <1>4, <1>5 DEF Confirms
<1>11. PICK mu : mu \in Nat /\ median2 = 2 * mu
  <2>1. median2 \div 2 \in Nat /\ median2 = 2 * (median2 \div 2) + (median2 % 2)
    BY <1>10
  <2> QED
    BY <2>1
<1>12. /\ charge_series(group).next_expected = days[n] + mu
       /\ charge_series(group).cadence = cadence_label(2 * mu)
       /\ charge_series(group).confidence = confidence(gs, 2 * mu)
  <2>1. /\ charge_series(group).next_expected = days[Len(days)] + round(median2, 2)
        /\ charge_series(group).cadence = cadence_label(median2)
        /\ charge_series(group).confidence = confidence(gs, median2)
    BY <1>5 DEF charge_series
  <2>2. round(2 * mu, 2) = mu
    BY <1>11, RoundOfWhole
  <2> QED
    BY <1>7, <1>11, <2>1, <2>2
<1>13. c.day = days[n] + mu /\ days[n] \in Nat /\ days[n] <= c.day
  BY <1>6, <1>7, <1>11, <1>12
<1>14. PICK new, hs : new = dates(grown) /\ hs = gaps(new)
  OBVIOUS
<1>15. /\ Len(grown) = n + 1 /\ \A i \in 1..n : new[i] = days[i]
       /\ new[n + 1] = c.day
  <2>1. group \in Seq(P)
    BY <1>2
  <2>2. dates(group)[Len(group)] <= c.day /\ Len(group) # 0
    BY <1>5, <1>6, <1>13
  <2>3. OneMore(dates(grown), dates(group), Len(group), c.day) /\ Len(grown) = Len(group) + 1
    BY <1>2, <1>3, <1>4, <2>1, <2>2, DatesOfGrown
  <2> QED
    BY <1>5, <1>14, <2>3 DEF OneMore
<1>16. /\ new \in Seq(Int) /\ Len(new) = n + 1
       /\ \A i, j \in 1..(n + 1) : i < j => new[i] <= new[j]
  <2>1. /\ new \in Seq(Int) /\ Len(new) = Len(grown) /\ DOMAIN new = 1..Len(new)
        /\ \A i, j \in DOMAIN new : i < j => new[i] <= new[j]
    BY <1>3, <1>14, DatesAscend
  <2> QED
    BY <1>15, <2>1
<1>17. /\ hs \in Seq(Int) /\ Len(hs) = n
       /\ \A i \in 1..n : hs[i] = new[i + 1] - new[i]
  <2>1. PICK N : N = n + 1 /\ N \in Nat /\ N # 0 /\ N - 1 = n
    BY <1>6
  <2>2. /\ hs \in Seq(Int) /\ Len(hs) = N - 1
        /\ \A i \in 1..(N - 1) : hs[i] = new[i + 1] - new[i]
    BY <1>14, <1>16, <2>1, GapsOfDates
  <2> QED
    BY <2>1, <2>2
<1>18. \A i \in 1..Len(gs) : hs[i] = gs[i]
  <2> SUFFICES ASSUME NEW i \in 1..m PROVE hs[i] = gs[i]
    BY <1>9
  <2>1. i \in 1..n /\ i + 1 \in 1..n
    BY <1>8
  <2>2. new[i] = days[i] /\ new[i + 1] = days[i + 1]
    BY <1>15, <2>1
  <2> QED
    BY <1>9, <1>17, <2>1, <2>2
<1>19. hs[Len(gs) + 1] = mu /\ Len(hs) = Len(gs) + 1
  <2>1. n \in 1..n
    BY <1>6
  <2>2. new[n] = days[n] /\ hs[n] = new[n + 1] - new[n]
    BY <1>15, <1>17, <2>1
  <2>3. hs[n] = mu
    BY <1>11, <1>13, <1>15, <2>2
  <2> QED
    BY <1>8, <1>9, <1>17, <2>3
<1>20. twice_median(hs) = 2 * mu
  <2>1. Len(gs) # 0 /\ OneMore(hs, gs, Len(gs), mu) /\ twice_median(gs) = 2 * mu
    BY <1>5, <1>8, <1>9, <1>11, <1>18, <1>19 DEF OneMore
  <2> QED
    BY <1>9, <1>17, <1>19, <2>1, MedianKept
<1>21. confidence(hs, 2 * mu) >= confidence(gs, 2 * mu)
  <2>1. Len(gs) # 0 /\ OneMore(hs, gs, Len(gs), mu)
    BY <1>8, <1>9, <1>18, <1>19 DEF OneMore
  <2> QED
    BY <1>9, <1>17, <1>19, <2>1, ConfidenceGrows
<1>22. /\ charge_series(grown).cadence = cadence_label(2 * mu)
       /\ charge_series(grown).confidence = confidence(hs, 2 * mu)
  <2>1. /\ charge_series(grown).cadence = cadence_label(twice_median(hs))
        /\ charge_series(grown).confidence = confidence(hs, twice_median(hs))
    BY <1>14 DEF charge_series
  <2> QED
    BY <1>20, <2>1
<1> QED
  BY <1>12, <1>21, <1>22

(***************************************************************************)
(* Whatever was charged before, a charge of a group's amount on the day it *)
(* was expected joins that group and neither lowers the confidence nor     *)
(* changes the cadence (recurring.py lines 60-98).                         *)
(***************************************************************************)
THEOREM PunctualChargeAlwaysConfirms == RecurringSpec => []PunctualChargeConfirms
<1>1. ChargesTyped => PunctualChargeConfirms
  <2> SUFFICES ASSUME ChargesTyped, NEW c \in charges, NEW group \in Groups(charges \ {c}),
                      Len(group) >= min_occurrences, group[1].amount <= c.amount, joins(group, c)
               PROVE  Confirms(c, group, CHOOSE g \in Groups(charges) : c \in Range(g))
    BY DEF PunctualChargeConfirms
  <2>1. charges \in SUBSET Charge /\ IsFiniteSet(charges)
    BY DEF ChargesTyped
  <2>2. \E g \in Groups(charges) : c \in Range(g)
    BY <2>1, InSomeGroup
  <2>3. PICK grown : grown = CHOOSE g \in Groups(charges) : c \in Range(g)
    OBVIOUS
  <2>4. grown \in Groups(charges) /\ c \in Range(grown)
    BY <2>2, <2>3
  <2>5. PICK Q : Q = charges \ {c}
    OBVIOUS
  <2>6. Confirms(c, group, grown)
    BY <2>1, <2>4, <2>5, Confirmed
  <2> QED
    BY <2>3, <2>6
<1> QED
  BY <1>1, ChargesAlwaysTyped, PTL
=============================================================================
