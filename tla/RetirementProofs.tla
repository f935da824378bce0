-------------------------- MODULE RetirementProofs --------------------------
(***************************************************************************)
(* Proofs about Retirement, for any limits, bands and rounding.            *)
(***************************************************************************)
EXTENDS Retirement, TLAPS

-----------------------------------------------------------------------------
(***************************************************************************)
(* Arithmetic.  Products are given to the prover one at a time.            *)
(***************************************************************************)

\* The quotient rounded up is the least that covers n.
LEMMA CeilDiv ==
    ASSUME NEW n \in Int, NEW d \in Nat \ {0}
    PROVE  /\ ceil_div(n, d) \in Int
           /\ n <= d * ceil_div(n, d)
           /\ d * (ceil_div(n, d) - 1) < n
<1> DEFINE q == (-n) \div d
<1>1. q \in Int /\ d * q <= -n /\ -n < d * (q + 1)
  OBVIOUS
<1>2. ceil_div(n, d) = -q
  BY DEF ceil_div
<1> HIDE DEF q
<1>3. d * (-q) = -(d * q) /\ d * (-q - 1) = -(d * (q + 1))
  BY <1>1
<1> QED
  BY <1>1, <1>2, <1>3

LEMMA TimesMonotone ==
    ASSUME NEW a \in Int, NEW b \in Int, a <= b, NEW c \in Nat
    PROVE  c * a <= c * b
<1>1. c * (b - a) >= 0
  OBVIOUS
<1>2. c * (b - a) = c * b - c * a
  OBVIOUS
<1> QED
  BY <1>1, <1>2

LEMMA TimesCancel ==
    ASSUME NEW a \in Int, NEW b \in Int, NEW c \in Nat, c * a < c * b
    PROVE  a < b
<1>1. CASE b <= a
  BY <1>1, TimesMonotone
<1> QED
  BY <1>1

\* Multiples of c that differ by less than c are in order.
LEMMA MultiplesInOrder ==
    ASSUME NEW u \in Int, NEW x \in Int, NEW c \in Nat \ {0},
           x % c = 0, c * (u - 1) < x
    PROVE  c * u <= x
<1> DEFINE k == x \div c
<1>1. k \in Int /\ x = c * k
  OBVIOUS
<1> HIDE DEF k
<1>2. u - 1 < k
  BY <1>1, TimesCancel
<1>3. u <= k
  BY <1>1, <1>2
<1> QED
  BY <1>1, <1>3, TimesMonotone

-----------------------------------------------------------------------------
(***************************************************************************)
(* The Roth limit.                                                         *)
(***************************************************************************)
BandType == [low : Nat, high : Nat]

\* The bucket of a year, with or without catch-up.
Bucket(full) ==
    /\ full \in Nat
    /\ full % ROTH_ROUND_MINOR = 0
    /\ ROTH_FLOOR_MINOR <= full

Within(magi, band) == magi \in Int /\ band.low <= magi /\ magi < band.high

LEMMA Reduced ==
    ASSUME NEW full, Bucket(full), NEW band \in BandType, NEW magi, Within(magi, band)
    PROVE  LET r == reduced(full, magi, band)
               width == band.high - band.low
               share == full * (band.high - magi)
           IN  /\ r \in Int /\ 0 < r /\ r <= full
               /\ r % ROTH_ROUND_MINOR = 0
               /\ share <= r * width
               /\ (r - ROTH_ROUND_MINOR) * width < share
<1> DEFINE R == ROTH_ROUND_MINOR
           width == band.high - band.low
           share == full * (band.high - magi)
           u == ceil_div(share, width * R)
           r == reduced(full, magi, band)
<1>1. /\ R \in Nat \ {0} /\ width \in Nat \ {0} /\ full \in Nat /\ full > 0
      /\ band.high - magi \in Nat \ {0} /\ band.high - magi <= width
  BY RothAssumption DEF BandType, Bucket, Within
<1>2. share \in Nat \ {0} /\ width * R \in Nat \ {0}
  <2> DEFINE h == band.high - magi
  <2>1. h \in Nat \ {0}
    BY <1>1
  <2> HIDE DEF h, width, R
  <2>2. full * h \in Nat \ {0} /\ width * R \in Nat \ {0}
    BY <1>1, <2>1
  <2> QED
    BY <2>2 DEF h
<1>3. r = u * R
  BY DEF reduced
<1>4. share <= full * width
  <2> DEFINE h == band.high - magi
  <2>1. h \in Int /\ h <= width
    BY <1>1
  <2> HIDE DEF h, width
  <2>2. full * h <= full * width
    BY <1>1, <2>1, TimesMonotone
  <2> QED
    BY <2>2 DEF h
<1> HIDE DEF R, width, share, r
<1>5. /\ u \in Int
      /\ share <= (width * R) * u
      /\ (width * R) * (u - 1) < share
  <2> DEFINE d == width * R
  <2>1. share \in Int /\ d \in Nat \ {0}
    BY <1>2
  <2> HIDE DEF d
  <2>2. /\ ceil_div(share, d) \in Int
        /\ share <= d * ceil_div(share, d)
        /\ d * (ceil_div(share, d) - 1) < share
    BY <2>1, CeilDiv
  <2> QED
    BY <2>2 DEF d
<1> HIDE DEF u
<1>6. /\ (width * R) * u = r * width
      /\ (width * R) * (u - 1) = (r - R) * width
  <2>1. width \in Int /\ R \in Int /\ u \in Int
    BY <1>1, <1>5
  <2>2. (width * R) * u = (u * R) * width
    BY <2>1
  <2>3. (width * R) * (u - 1) = (u * R - R) * width
    BY <2>1
  <2> QED
    BY <1>3, <2>2, <2>3
<1>7. r \in Int /\ r % R = 0
  BY <1>1, <1>3, <1>5
<1>8. 0 < r
  <2>1. width * 0 < width * r
    BY <1>1, <1>2, <1>5, <1>6, <1>7
  <2> QED
    BY <1>1, <1>7, <2>1, TimesCancel
<1>9. r <= full
  <2>1. width * (r - R) < width * full
    BY <1>1, <1>2, <1>4, <1>5, <1>6, <1>7
  <2>2. r - R < full
    BY <1>1, <1>7, <2>1, TimesCancel
  <2>3. R * (u - 1) < full
    <3>1. R * (u - 1) = r - R
      <4>1. R \in Int /\ u \in Int
        BY <1>1, <1>5
      <4>2. R * (u - 1) = u * R - R
        BY <4>1
      <4> QED
        BY <1>3, <4>2
    <3> QED
      BY <2>2, <3>1
  <2>4. R * u <= full
    <3>1. full \in Int /\ full % R = 0 /\ R \in Nat \ {0}
      BY <1>1 DEF Bucket, R
    <3> QED
      BY <1>5, <2>3, <3>1, MultiplesInOrder
  <2> QED
    BY <1>1, <1>3, <1>5, <2>4
<1> QED
  BY <1>5, <1>6, <1>7, <1>8, <1>9 DEF R, width, share, r

LEMMA RothInBand ==
    ASSUME NEW full, Bucket(full), NEW band \in BandType, NEW magi, Within(magi, band)
    PROVE  LET l == roth_limit(full, magi, band)
               r == reduced(full, magi, band)
           IN  /\ l = IF r < ROTH_FLOOR_MINOR THEN ROTH_FLOOR_MINOR ELSE r
               /\ l \in Nat /\ ROTH_FLOOR_MINOR <= l /\ l <= full
               /\ l % ROTH_ROUND_MINOR = 0
<1> DEFINE r == reduced(full, magi, band)
<1>1. r \in Int /\ 0 < r /\ r <= full /\ r % ROTH_ROUND_MINOR = 0
  BY Reduced
<1>2. roth_limit(full, magi, band) = IF r < ROTH_FLOOR_MINOR THEN ROTH_FLOOR_MINOR ELSE r
  BY <1>1 DEF roth_limit, Within, BandType
<1> HIDE DEF r
<1> QED
  BY <1>1, <1>2, RothAssumption DEF Bucket, r

\* Whatever the income, the limit is part of the bucket.
LEMMA RothInBucket ==
    ASSUME NEW full, Bucket(full), NEW band \in BandType, NEW magi \in Int
    PROVE  /\ roth_limit(full, magi, band) \in Nat
           /\ roth_limit(full, magi, band) <= full
           /\ roth_limit(full, magi, band) > 0 \/ magi >= band.high
<1>1. CASE magi < band.low
  BY <1>1, RothAssumption DEF roth_limit, Bucket
<1>2. CASE ~(magi < band.low) /\ magi >= band.high
  BY <1>2 DEF roth_limit, Bucket
<1>3. CASE ~(magi < band.low) /\ ~(magi >= band.high)
  <2>1. Within(magi, band)
    BY <1>3 DEF Within, BandType
  <2> QED
    BY <2>1, RothInBand, RothAssumption
<1> QED
  BY <1>1, <1>2, <1>3

LEMMA ReducedAntitone ==
    ASSUME NEW full, Bucket(full), NEW band \in BandType,
           NEW m1, Within(m1, band), NEW m2, Within(m2, band), m1 <= m2
    PROVE  reduced(full, m2, band) <= reduced(full, m1, band)
<1> DEFINE R == ROTH_ROUND_MINOR
           width == band.high - band.low
           share(m) == full * (band.high - m)
           u(m) == ceil_div(share(m), width * R)
<1>1. R \in Nat \ {0} /\ width \in Nat \ {0} /\ full \in Nat
  BY RothAssumption DEF BandType, Bucket, Within
<1>2. /\ share(m1) \in Int /\ share(m2) \in Int /\ share(m2) <= share(m1)
  <2> DEFINE h1 == band.high - m1
             h2 == band.high - m2
  <2>1. h1 \in Int /\ h2 \in Int /\ h2 <= h1
    BY DEF Within, BandType
  <2> HIDE DEF h1, h2
  <2>2. full * h1 \in Int /\ full * h2 \in Int /\ full * h2 <= full * h1
    BY <1>1, <2>1, TimesMonotone
  <2> QED
    BY <2>2 DEF h1, h2
<1>3. reduced(full, m1, band) = u(m1) * R /\ reduced(full, m2, band) = u(m2) * R
  BY DEF reduced
<1> HIDE DEF share, width, R
<1>4. width * R \in Nat \ {0}
  BY <1>1
<1>5. /\ u(m1) \in Int /\ u(m2) \in Int
      /\ share(m1) <= (width * R) * u(m1)
      /\ (width * R) * (u(m2) - 1) < share(m2)
  BY <1>2, <1>4, CeilDiv
<1> HIDE DEF u
<1>6. (width * R) * (u(m2) - 1) < (width * R) * u(m1)
  <2> DEFINE d == width * R
             x == d * (u(m2) - 1)
             y == d * u(m1)
  <2>1. d \in Nat /\ x \in Int /\ y \in Int
    BY <1>4, <1>5
  <2>2. share(m1) <= y /\ x < share(m2)
    BY <1>5
  <2> HIDE DEF x, y
  <2>3. x < y
    BY <1>2, <2>1, <2>2
  <2> QED
    BY <2>3 DEF x, y
<1>7. u(m2) - 1 < u(m1)
  BY <1>4, <1>5, <1>6, TimesCancel
<1>8. u(m2) <= u(m1)
  BY <1>5, <1>7
<1>9. R * u(m2) <= R * u(m1)
  BY <1>1, <1>5, <1>8, TimesMonotone
<1> QED
  BY <1>1, <1>3, <1>5, <1>9

\* A higher income, on whichever side of the ends of the band, gets no more.
LEMMA RothAntitone ==
    ASSUME NEW full, Bucket(full), NEW band \in BandType,
           NEW m1 \in Int, NEW m2 \in Int, m1 <= m2
    PROVE  roth_limit(full, m2, band) <= roth_limit(full, m1, band)
<1>0. /\ roth_limit(full, m1, band) \in Nat /\ roth_limit(full, m2, band) \in Nat
      /\ roth_limit(full, m2, band) <= full
  BY RothInBucket
<1>1. CASE m1 < band.low
  BY <1>0, <1>1 DEF roth_limit
<1>2. CASE m2 >= band.high /\ ~(m2 < band.low)
  BY <1>0, <1>2 DEF roth_limit
<1>3. CASE Within(m1, band) /\ Within(m2, band)
  <2>1. reduced(full, m2, band) <= reduced(full, m1, band)
    BY <1>3, ReducedAntitone
  <2>2. reduced(full, m1, band) \in Int /\ reduced(full, m2, band) \in Int
    BY <1>3, Reduced
  <2> QED
    BY <1>3, <2>1, <2>2, RothInBand, RothAssumption
<1> QED
  BY <1>1, <1>2, <1>3 DEF Within, BandType

-----------------------------------------------------------------------------
(***************************************************************************)
(* The state: what a user may declare.                                     *)
(***************************************************************************)
TypeInv == tax_year \in Int /\ profile \in Profile

LEMMA TypeInvariant == RetirementSpec => []TypeInv
<1>1. RetirementInit => TypeInv
  <2> SUFFICES ASSUME RetirementInit PROVE TypeInv
    OBVIOUS
  <2>1. NoContribution \in [Accounts -> 0..MaxContributed]
    BY ProfileAssumption DEF NoContribution
  <2> QED
    BY <2>1, ProfileAssumption DEF RetirementInit, TypeInv, Profile
<1>2. TypeInv /\ [RetirementNext]_retirementVars => TypeInv'
  <2> SUFFICES ASSUME TypeInv, [RetirementNext]_retirementVars PROVE TypeInv'
    OBVIOUS
  <2>1. CASE UNCHANGED retirementVars
    BY <2>1 DEF retirementVars, TypeInv
  <2>2. CASE EarnMore
    <3>1. CASE profile.magi = Unset
      <4>1. MinMagi \in MinMagi..MaxMagi
        BY ProfileAssumption
      <4>2. profile' = [profile EXCEPT !.magi = MinMagi] /\ tax_year' = tax_year
        BY <2>2, <3>1 DEF EarnMore
      <4> QED
        BY <4>1, <4>2 DEF TypeInv, Profile
    <3>2. CASE profile.magi # Unset
      <4>1. profile.magi \in MinMagi..MaxMagi /\ profile.magi < MaxMagi
        BY <2>2, <3>2 DEF EarnMore, TypeInv, Profile
      <4>2. profile.magi + 1 \in MinMagi..MaxMagi
        BY <4>1, ProfileAssumption
      <4>3. profile' = [profile EXCEPT !.magi = profile.magi + 1] /\ tax_year' = tax_year
        BY <2>2, <3>2 DEF EarnMore
      <4> QED
        BY <4>2, <4>3 DEF TypeInv, Profile
    <3> QED
      BY <3>1, <3>2
  <2>3. ASSUME NEW account \in Accounts, NEW amount \in Deposits,
               Contribute(account, amount)
        PROVE  TypeInv'
    <3>1. profile.contributed \in [Accounts -> 0..MaxContributed]
      BY DEF TypeInv, Profile
    <3> DEFINE new == [profile.contributed EXCEPT ![account] = @ + amount]
    <3>2. profile.contributed[account] + amount \in 0..MaxContributed
      BY <2>3, <3>1, ProfileAssumption DEF Contribute
    <3>3. new \in [Accounts -> 0..MaxContributed]
      BY <3>1, <3>2
    <3>4. profile' = [profile EXCEPT !.contributed = new] /\ tax_year' = tax_year
      BY <2>3 DEF Contribute
    <3> HIDE DEF new
    <3> QED
      BY <3>3, <3>4 DEF TypeInv, Profile
  <2>4. CASE NewYear
    <3>1. NoContribution \in [Accounts -> 0..MaxContributed]
      BY ProfileAssumption DEF NoContribution
    <3> QED
      BY <2>4, <3>1 DEF NewYear, TypeInv, Profile
  <2> QED
    BY <2>1, <2>2, <2>3, <2>4 DEF RetirementNext
<1> QED
  BY <1>1, <1>2, PTL DEF RetirementSpec

LEMMA SumOfMultiples ==
    ASSUME NEW a \in Int, NEW b \in Int, NEW c \in Nat \ {0}, a % c = 0, b % c = 0
    PROVE  (a + b) % c = 0
<1> DEFINE i == a \div c
           j == b \div c
<1>1. i \in Int /\ j \in Int /\ a = c * i /\ b = c * j
  OBVIOUS
<1> HIDE DEF i, j
<1>2. a + b = c * (i + j)
  BY <1>1
<1> QED
  BY <1>1, <1>2

\* What the data file has for a year is what the lemmas above ask for.
LEMMA LimitsOfYear ==
    ASSUME TypeInv, Answered
    PROVE  Bucket(FullLimit) /\ Band \in BandType
<1>1. /\ Lim \in YearLimits
      /\ Lim.ira_limit % ROTH_ROUND_MINOR = 0 /\ Lim.ira_catchup % ROTH_ROUND_MINOR = 0
      /\ ROTH_FLOOR_MINOR <= Lim.ira_limit
  BY LimitsAssumption DEF Answered, Lim
<1>2. Lim.ira_limit \in Nat /\ Lim.ira_catchup \in Nat
  BY <1>1 DEF YearLimits
<1>3. Bucket(Lim.ira_limit) /\ Bucket(Lim.ira_limit + Lim.ira_catchup)
  BY <1>1, <1>2, SumOfMultiples, RothAssumption DEF Bucket
<1>4. FullLimit \in {Lim.ira_limit, Lim.ira_limit + Lim.ira_catchup}
  BY <1>2 DEF FullLimit, ira_limit_with_catchup
<1>5. Bucket(FullLimit)
  BY <1>3, <1>4
<1>6. profile.filing_status \in FilingStatuses
  BY DEF TypeInv, Profile
<1>7. Band \in BandType
  BY <1>1, <1>6 DEF Band, phaseout_band, YearLimits, FilingStatuses, Bands, BandType
<1> QED
  BY <1>5, <1>7

LEMMA MagiIsInt == TypeInv /\ profile.magi # Unset => profile.magi \in Int
  BY ProfileAssumption DEF TypeInv, Profile

\* For any limits and incomes, the reduced limit is the one of the worksheet.
THEOREM WorksheetIsRight == RetirementSpec => []RothAsWorksheet
<1>1. TypeInv => RothAsWorksheet
  <2> SUFFICES ASSUME TypeInv, Answered, profile.magi # Unset,
                      profile.magi \in Band.low..(Band.high - 1)
               PROVE  LET width == Band.high - Band.low
                          share == FullLimit * (Band.high - profile.magi)
                      IN  /\ RothLimit % ROTH_ROUND_MINOR = 0
                          /\ RothLimit >= ROTH_FLOOR_MINOR
                          /\ RothLimit * width >= share
                          /\ \/ RothLimit = ROTH_FLOOR_MINOR
                             \/ (RothLimit - ROTH_ROUND_MINOR) * width < share
    BY DEF RothAsWorksheet
  <2> DEFINE width == Band.high - Band.low
             share == FullLimit * (Band.high - profile.magi)
             r == reduced(FullLimit, profile.magi, Band)
  <2>1. /\ Bucket(FullLimit) /\ Band \in BandType
        /\ Within(profile.magi, Band) /\ width \in Nat /\ share \in Int
    <3>1. Bucket(FullLimit) /\ Band \in BandType
      BY LimitsOfYear
    <3>2. Within(profile.magi, Band) /\ width \in Nat /\ Band.high - profile.magi \in Int
      BY <3>1 DEF Within, BandType
    <3>3. share \in Int
      BY <3>1, <3>2 DEF Bucket
    <3> QED
      BY <3>1, <3>2, <3>3
  <2>2. /\ r \in Int /\ share <= r * width /\ (r - ROTH_ROUND_MINOR) * width < share
    BY <2>1, Reduced
  <2>3. /\ RothLimit = IF r < ROTH_FLOOR_MINOR THEN ROTH_FLOOR_MINOR ELSE r
        /\ ROTH_FLOOR_MINOR <= RothLimit /\ RothLimit \in Nat
        /\ RothLimit % ROTH_ROUND_MINOR = 0
    BY <2>1, RothInBand DEF RothLimit
  <2> HIDE DEF width, share, r
  <2>4. r <= RothLimit
    BY <2>2, <2>3, RothAssumption
  <2>5. width * r <= width * RothLimit
    BY <2>1, <2>2, <2>3, <2>4, TimesMonotone
  <2>6. share <= RothLimit * width
    BY <2>1, <2>2, <2>3, <2>5
  <2> QED
    BY <2>2, <2>3, <2>6, RothAssumption DEF width, share
<1> QED
  BY <1>1, TypeInvariant, PTL

\* Rounding and floor never lift the Roth limit above the bucket, and only an
\* income past the band brings it to zero.
THEOREM RothIsWithinIra == RetirementSpec => []RothWithinIra
<1>1. TypeInv => RothWithinIra
  BY LimitsOfYear, MagiIsInt, RothInBucket DEF RothWithinIra, RothLimit
<1> QED
  BY <1>1, TypeInvariant, PTL

\* A higher income never gets a higher Roth limit.
THEOREM IncomeNeverRaises == RetirementSpec => MoreIncomeNeverRaisesRoth
<1> DEFINE Falls == EarnMore /\ Answered /\ profile.magi # Unset => RothLimit' <= RothLimit
<1>1. ASSUME TypeInv, EarnMore, Answered, profile.magi # Unset
      PROVE  RothLimit' <= RothLimit
  <2>1. profile' = [profile EXCEPT !.magi = profile.magi + 1] /\ tax_year' = tax_year
    BY <1>1 DEF EarnMore
  <2>2. /\ profile'.magi = profile.magi + 1
        /\ profile'.filing_status = profile.filing_status
        /\ profile'.birth_year = profile.birth_year
    BY <1>1, <2>1 DEF TypeInv, Profile
  <2>3. FullLimit' = FullLimit /\ Band' = Band
    BY <2>1, <2>2 DEF FullLimit, Band, Lim, Age
  <2>4. profile.magi \in Int /\ profile.magi <= profile.magi + 1
    BY <1>1, MagiIsInt
  <2>5. roth_limit(FullLimit, profile.magi + 1, Band) <= roth_limit(FullLimit, profile.magi, Band)
    BY <1>1, <2>4, LimitsOfYear, RothAntitone
  <2> QED
    BY <2>2, <2>3, <2>5 DEF RothLimit
<1>2. TypeInv => [Falls]_retirementVars
  BY <1>1
<1> QED
  BY <1>2, TypeInvariant, PTL DEF MoreIncomeNeverRaisesRoth

-----------------------------------------------------------------------------
LEMMA RemainingAfter ==
    ASSUME NEW limit \in Nat, NEW c \in Nat, NEW amount \in Nat
    PROVE  remaining(limit, c + amount) = remaining(remaining(limit, c), amount)
  BY DEF remaining

\* A dollar put into either IRA takes a dollar of their shared bucket and
\* none of the HSA's, and the other way round.
THEOREM MoneyIsCountedOnce == RetirementSpec => MoneyCountsOnce
<1> DEFINE Counted(account, amount) ==
      /\ IraRemaining' = IF account = "hsa" THEN IraRemaining
                         ELSE remaining(IraRemaining, amount)
      /\ profile.hsa_coverage # Unset =>
            HsaRemaining' = IF account = "hsa"
                            THEN remaining(HsaRemaining, amount) ELSE HsaRemaining
<1>1. ASSUME TypeInv, NEW account \in Accounts, NEW amount \in Deposits,
             Contribute(account, amount), Answered
      PROVE  Counted(account, amount)
  <2> DEFINE c == profile.contributed
             hsaLimit == Lim.hsa_cap[profile.hsa_coverage]
                           + (IF Age >= Lim.hsa_catchup_age THEN Lim.hsa_catchup ELSE 0)
  <2>1. c \in [Accounts -> Nat] /\ amount \in Nat
    BY <1>1, ProfileAssumption DEF TypeInv, Profile
  <2>2. /\ profile'.contributed = [c EXCEPT ![account] = c[account] + amount]
        /\ profile'.birth_year = profile.birth_year
        /\ profile'.hsa_coverage = profile.hsa_coverage
        /\ tax_year' = tax_year
    BY <1>1 DEF Contribute, TypeInv, Profile
  <2>3. FullLimit \in Nat
    BY <1>1, LimitsOfYear DEF Bucket
  <2>4. FullLimit' = FullLimit /\ Lim' = Lim /\ Age' = Age
    BY <2>2 DEF FullLimit, Lim, Age
  <2>5. c["traditional_ira"] \in Nat /\ c["roth_ira"] \in Nat /\ c["hsa"] \in Nat
    BY <2>1 DEF Accounts
  <2> DEFINE d == profile'.contributed
  <2>6. /\ d["hsa"] = IF account = "hsa" THEN c["hsa"] + amount ELSE c["hsa"]
        /\ d["traditional_ira"] + d["roth_ira"] =
             IF account = "hsa" THEN c["traditional_ira"] + c["roth_ira"]
             ELSE (c["traditional_ira"] + c["roth_ira"]) + amount
    BY <2>1, <2>2, <2>5 DEF Accounts
  <2>7. /\ IraRemaining = remaining(FullLimit, c["traditional_ira"] + c["roth_ira"])
        /\ IraRemaining' = remaining(FullLimit, d["traditional_ira"] + d["roth_ira"])
    <3>1. /\ IraRemaining = ira_headroom(Age, c, Lim)
          /\ IraRemaining' = ira_headroom(Age', d, Lim')
      BY DEF IraRemaining
    <3> QED
      BY <3>1, <2>4 DEF ira_headroom, FullLimit
  <2>8. /\ HsaRemaining = remaining(hsaLimit, c["hsa"])
        /\ HsaRemaining' = remaining(hsaLimit, d["hsa"])
    <3>1. /\ HsaRemaining = hsa_headroom(Age, profile.hsa_coverage, c, Lim)
          /\ HsaRemaining' = hsa_headroom(Age', profile'.hsa_coverage, d, Lim')
      BY DEF HsaRemaining
    <3> QED
      BY <3>1, <2>2, <2>4 DEF hsa_headroom
  <2>9. profile.hsa_coverage # Unset => hsaLimit \in Nat
    <3>1. Lim \in YearLimits /\ profile.hsa_coverage \in Coverages \cup {Unset}
      BY <1>1, LimitsAssumption DEF Answered, Lim, TypeInv, Profile
    <3> QED
      BY <3>1 DEF YearLimits
  <2> HIDE DEF hsaLimit, c, d
  <2>10. IraRemaining' = IF account = "hsa" THEN IraRemaining
                         ELSE remaining(IraRemaining, amount)
    <3>1. c["traditional_ira"] + c["roth_ira"] \in Nat
      BY <2>5
    <3>2. remaining(FullLimit, (c["traditional_ira"] + c["roth_ira"]) + amount)
            = remaining(remaining(FullLimit, c["traditional_ira"] + c["roth_ira"]), amount)
      BY <3>1, <2>1, <2>3, RemainingAfter
    <3>3. CASE account = "hsa"
      BY <3>3, <2>6, <2>7
    <3>4. CASE account # "hsa"
      BY <3>4, <3>2, <2>6, <2>7
    <3> QED
      BY <3>3, <3>4
  <2>11. ASSUME profile.hsa_coverage # Unset
         PROVE  HsaRemaining' = IF account = "hsa"
                                THEN remaining(HsaRemaining, amount) ELSE HsaRemaining
    <3>1. remaining(hsaLimit, c["hsa"] + amount)
            = remaining(remaining(hsaLimit, c["hsa"]), amount)
      BY <2>1, <2>5, <2>9, <2>11, RemainingAfter
    <3>2. CASE account = "hsa"
      BY <3>2, <3>1, <2>6, <2>8
    <3>3. CASE account # "hsa"
      BY <3>3, <2>6, <2>8
    <3> QED
      BY <3>2, <3>3
  <2> QED
    BY <2>10, <2>11
<1>2. TypeInv => [\A account \in Accounts, amount \in Deposits :
                    Contribute(account, amount) /\ Answered => Counted(account, amount)]_retirementVars
  BY <1>1
<1> QED
  BY <1>2, TypeInvariant, PTL DEF MoneyCountsOnce
=============================================================================
