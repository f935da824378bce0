----------------------------- MODULE Retirement -----------------------------
(***************************************************************************)
(* The retirement summary: ira_headroom, roth_eligibility and              *)
(* hsa_headroom of retirement/compute.py over the limits of limits.py and  *)
(* the profile of inputs.py, as retirement_summary of mcp_server/tools.py  *)
(* puts them together.                                                     *)
(*                                                                         *)
(* The functions are pure.  The state is what the user declares from one   *)
(* question to the next: income grows, contributions are made, a year      *)
(* begins.  Amounts are integers in some small unit, the cents of the code.*)
(*                                                                         *)
(* An operator whose name ends in _BUG_<what> is a plausible slip in the   *)
(* definition that follows it; the specification never uses it.            *)
(***************************************************************************)
EXTENDS Integers

CONSTANTS
    Limits,           \* tax year -> the limits of that year
    ROTH_ROUND_MINOR, \* a reduced Roth limit is rounded up to multiples of it
    ROTH_FLOOR_MINOR, \* and raised to this if it is less
    BirthYears,       \* years of birth a user may declare
    FirstYear,        \* the first tax year asked about
    LastYear,         \* bound on the tax years asked about
    MinMagi,          \* bounds on the income declared
    MaxMagi,
    Deposits,         \* sizes of a contribution
    MaxContributed,   \* bound on the contributions to one account
    Unset             \* not declared

FilingStatuses == {"single", "head_of_household", "married_jointly", "married_separately"}
Bands == {"single", "married_jointly", "married_separately"}
Coverages == {"self_only", "family"}
Accounts == {"traditional_ira", "roth_ira", "hsa"}

YearLimits ==
    [ira_limit : Nat, ira_catchup : Nat, ira_catchup_age : Nat,
     hsa_cap : [Coverages -> Nat], hsa_catchup : Nat, hsa_catchup_age : Nat,
     roth_phaseout : [Bands -> [low : Nat, high : Nat]]]

\* What the bundled data file guarantees: IRA limits are multiples of the
\* rounding step and not below the floor.
ASSUME LimitsAssumption ==
    \A y \in DOMAIN Limits :
        /\ y \in Int /\ Limits[y] \in YearLimits
        /\ Limits[y].ira_limit % ROTH_ROUND_MINOR = 0
        /\ Limits[y].ira_catchup % ROTH_ROUND_MINOR = 0
        /\ ROTH_FLOOR_MINOR <= Limits[y].ira_limit

ASSUME RothAssumption ==
    /\ ROTH_ROUND_MINOR \in Nat \ {0}
    /\ ROTH_FLOOR_MINOR \in Nat \ {0}
    /\ ROTH_FLOOR_MINOR % ROTH_ROUND_MINOR = 0

ASSUME ProfileAssumption ==
    /\ BirthYears \subseteq Int /\ FirstYear \in Int /\ LastYear \in Int
    /\ MinMagi \in Int /\ MaxMagi \in Int /\ MinMagi <= MaxMagi
    /\ Deposits \subseteq Nat \ {0} /\ MaxContributed \in Nat
    /\ Unset \notin Int \cup Coverages

VARIABLES
    tax_year,  \* the year asked about
    profile    \* the [retirement] section of config.toml

retirementVars == <<tax_year, profile>>

Profile ==
    [birth_year : BirthYears, filing_status : FilingStatuses,
     magi : (MinMagi..MaxMagi) \cup {Unset}, hsa_coverage : Coverages \cup {Unset},
     contributed : [Accounts -> 0..MaxContributed]]

-----------------------------------------------------------------------------
(***************************************************************************)
(* compute.py                                                              *)
(***************************************************************************)
remaining(limit, contributed) ==
    IF contributed < limit THEN limit - contributed ELSE 0

ira_limit_with_catchup(age, lim) ==
    lim.ira_limit + (IF age >= lim.ira_catchup_age THEN lim.ira_catchup ELSE 0)

\* Traditional and Roth IRA share one bucket.
ira_headroom_BUG_per_account(age, contributed, lim) ==
    remaining(ira_limit_with_catchup(age, lim), contributed["traditional_ira"])

ira_headroom(age, contributed, lim) ==
    remaining(ira_limit_with_catchup(age, lim),
              contributed["traditional_ira"] + contributed["roth_ira"])

phaseout_band(filing_status, lim) ==
    lim.roth_phaseout[IF filing_status = "head_of_household" THEN "single"
                      ELSE filing_status]

ceil_div_BUG_floor(n, d) == n \div d
ceil_div_BUG_plus_one(n, d) == n \div d + 1

ceil_div(n, d) == -((-n) \div d)

\* The part of the limit that is left within the band, before the floor.
reduced_BUG_share_used(full_limit, magi, band) ==
    ceil_div(full_limit * (magi - band.low),
             (band.high - band.low) * ROTH_ROUND_MINOR) * ROTH_ROUND_MINOR

reduced(full_limit, magi, band) ==
    ceil_div(full_limit * (band.high - magi),
             (band.high - band.low) * ROTH_ROUND_MINOR) * ROTH_ROUND_MINOR

roth_limit(full_limit, magi, band) ==
    IF magi < band.low THEN full_limit
    ELSE IF magi >= band.high THEN 0
    ELSE LET r == reduced(full_limit, magi, band)
         IN  IF 0 < r /\ r < ROTH_FLOOR_MINOR THEN ROTH_FLOOR_MINOR ELSE r

\* Only asked for if a coverage is declared.
hsa_headroom(age, coverage, contributed, lim) ==
    remaining(lim.hsa_cap[coverage]
                + (IF age >= lim.hsa_catchup_age THEN lim.hsa_catchup ELSE 0),
              contributed["hsa"])

-----------------------------------------------------------------------------
(***************************************************************************)
(* The summary of the present profile.  There is none for a year that the  *)
(* data file does not have (LimitsNotFound).                               *)
(***************************************************************************)
Answered == tax_year \in DOMAIN Limits
Lim == Limits[tax_year]
Age == tax_year - profile.birth_year
FullLimit == ira_limit_with_catchup(Age, Lim)
Band == phaseout_band(profile.filing_status, Lim)
IraRemaining == ira_headroom(Age, profile.contributed, Lim)
RothLimit == roth_limit(FullLimit, profile.magi, Band)
HsaRemaining == hsa_headroom(Age, profile.hsa_coverage, profile.contributed, Lim)

-----------------------------------------------------------------------------
NoContribution == [a \in Accounts |-> 0]

RetirementInit ==
    /\ tax_year = FirstYear
    /\ profile \in [birth_year : BirthYears, filing_status : FilingStatuses,
                    magi : {Unset}, hsa_coverage : Coverages \cup {Unset},
                    contributed : {NoContribution}]

\* The income is declared for the first time, or turns out to be higher.
EarnMore ==
    /\ \/ profile.magi = Unset
          /\ profile' = [profile EXCEPT !.magi = MinMagi]
       \/ profile.magi # Unset /\ profile.magi < MaxMagi
          /\ profile' = [profile EXCEPT !.magi = @ + 1]
    /\ UNCHANGED tax_year

Contribute(account, amount) ==
    /\ profile.contributed[account] + amount <= MaxContributed
    /\ profile' = [profile EXCEPT !.contributed[account] = @ + amount]
    /\ UNCHANGED tax_year

NewYear ==
    /\ tax_year < LastYear
    /\ tax_year' = tax_year + 1
    /\ profile' = [profile EXCEPT !.contributed = NoContribution]

RetirementNext ==
    \/ EarnMore
    \/ \E account \in Accounts, amount \in Deposits : Contribute(account, amount)
    \/ NewYear

RetirementSpec == RetirementInit /\ [][RetirementNext]_retirementVars

-----------------------------------------------------------------------------
(***************************************************************************)
(* Properties                                                              *)
(***************************************************************************)

(***************************************************************************)
(* Within the band the limit is what the worksheet of the docstring asks   *)
(* for: of the multiples of the step the least that is not below the exact *)
(* share, or the floor.  Integers must not add a step to an exact share    *)
(* (compute.py, lines 97-104).                                             *)
(***************************************************************************)
RothAsWorksheet ==
    Answered /\ profile.magi # Unset /\ profile.magi \in Band.low..(Band.high - 1) =>
        LET width == Band.high - Band.low
            share == FullLimit * (Band.high - profile.magi)
        IN  /\ RothLimit % ROTH_ROUND_MINOR = 0
            /\ RothLimit >= ROTH_FLOOR_MINOR
            /\ RothLimit * width >= share
            /\ \/ RothLimit = ROTH_FLOOR_MINOR
               \/ (RothLimit - ROTH_ROUND_MINOR) * width < share

\* Neither rounding nor the floor lifts the Roth limit above that of the
\* bucket it is part of, and only an income past the band brings it to zero.
RothWithinIra ==
    Answered /\ profile.magi # Unset =>
        /\ RothLimit <= FullLimit
        /\ RothLimit > 0 \/ profile.magi >= Band.high

\* To earn more never raises the Roth limit, across both ends of the band.
MoreIncomeNeverRaisesRoth ==
    [][EarnMore /\ Answered /\ profile.magi # Unset => RothLimit' <= RothLimit]_retirementVars

(***************************************************************************)
(* What is put into either IRA takes as much from their one bucket, until  *)
(* it is empty, and nothing from the HSA's; and the other way round.       *)
(***************************************************************************)
MoneyCountsOnce ==
    [][\A account \in Accounts, amount \in Deposits :
          Contribute(account, amount) /\ Answered =>
              /\ IraRemaining' = IF account = "hsa" THEN IraRemaining
                                 ELSE remaining(IraRemaining, amount)
              /\ profile.hsa_coverage # Unset =>
                    HsaRemaining' = IF account = "hsa"
                                    THEN remaining(HsaRemaining, amount)
                                    ELSE HsaRemaining]_retirementVars
=============================================================================
