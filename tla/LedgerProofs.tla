---------------------------- MODULE LedgerProofs ----------------------------
(***************************************************************************)
(* Proofs about Ledger, for any sources, transactions, categories, rules   *)
(* and processes: what a categorization pass does to each row (PassRow),   *)
(* and from it that it is right and idempotent and that manual choices     *)
(* last; that a split adds up; what a delivery leaves of a transaction     *)
(* (DeliveredInv), and from it what a drift is and what cash flow counts.  *)
(***************************************************************************)
EXTENDS Ledger, Sums, TLAPS

-----------------------------------------------------------------------------
(***************************************************************************)
(* The rule that a pass picks exists: priorities are bounded below.        *)
(***************************************************************************)
\* Of the rules that match a text, first_match is one that no other precedes.
LEMMA FirstMatch ==
    ASSUME NEW rs \in Seq(Rules), NEW text, Matching(rs, text) # {}
    PROVE  /\ first_match(rs, text) \in Matching(rs, text)
           /\ \A j \in Matching(rs, text) \ {first_match(rs, text)} :
                 Before(rs, first_match(rs, text), j)
<1> DEFINE M == Matching(rs, text)
           height(i) == rs[i].priority - MinPriority
           Heights == {height(i) : i \in M}
<1>1. M \subseteq Nat /\ \A i \in M : rs[i].priority \in Int
  BY RulesAssumption DEF Matching, Rule
<1>2. \A i \in M : height(i) \in Nat
  BY <1>1, PriorityAssumption DEF Matching
<1>3. PICK m \in Heights : \A n \in Heights : m <= n
  <2>1. Heights \in SUBSET Nat /\ Heights # {}
    BY <1>2
  <2> HIDE DEF Heights
  <2> QED
    BY <2>1, LeastNatural
<1> DEFINE Lowest == {i \in M : height(i) = m}
<1>4. PICK i \in Lowest : \A j \in Lowest : i <= j
  <2>1. Lowest \in SUBSET Nat /\ Lowest # {}
    BY <1>1
  <2> HIDE DEF Lowest
  <2> QED
    BY <2>1, LeastNatural
<1>5. i \in M /\ \A j \in M \ {i} : Before(rs, i, j)
  <2> SUFFICES ASSUME NEW j \in M \ {i} PROVE Before(rs, i, j)
    OBVIOUS
  <2>1. height(i) = m /\ m <= height(j)
    BY <1>3, <1>4
  <2>2. height(i) = height(j) => i <= j
    BY <1>4, <2>1
  <2> QED
    BY <1>1, <2>1, <2>2, PriorityAssumption DEF Before
<1> QED
  BY <1>5 DEF first_match

-----------------------------------------------------------------------------
(***************************************************************************)
(* Type correctness.                                                       *)
(***************************************************************************)
RowsTyped(table) ==
    \A id \in DOMAIN table :
        /\ id \in Txns \X Nat
        /\ table[id] \in Row
        /\ table[id].category_source = None <=> table[id].canonical_category = None

\* Categories and their sources as an UPDATE of the pass may set them.
Assignable(source, names) ==
    \/ source = None /\ \A id \in DOMAIN names : names[id] = None
    \/ source \in {"ynab", "rule", "manual"} /\ \A id \in DOMAIN names : names[id] \in Names

LEMMA AssignTyped ==
    ASSUME NEW table, RowsTyped(table), NEW source, NEW names, Assignable(source, names)
    PROVE  RowsTyped(assign(table, source, names))
<1> DEFINE new == assign(table, source, names)
<1> SUFFICES ASSUME NEW id \in DOMAIN table
             PROVE  /\ new[id] \in Row
                    /\ new[id].category_source = None <=> new[id].canonical_category = None
  BY DEF RowsTyped, assign
<1>1. CASE id \in DOMAIN names
  <2>1. new[id] = [table[id] EXCEPT !.category_source = source,
                                    !.canonical_category = names[id]]
    BY <1>1 DEF assign
  <2>2. table[id] \in Row
    BY DEF RowsTyped
  <2>3. \/ source = None /\ names[id] = None
        \/ source \in {"ynab", "rule", "manual"} /\ names[id] \in Names
    BY <1>1 DEF Assignable
  <2> HIDE DEF new
  <2>4. new[id] \in Row /\ new[id].category_source = source
          /\ new[id].canonical_category = names[id]
    BY <2>1, <2>2, <2>3 DEF Row
  <2> QED
    BY <2>3, <2>4, NoneAssumption
<1>2. CASE id \notin DOMAIN names
  BY <1>2 DEF assign, RowsTyped
<1> QED
  BY <1>1, <1>2

-----------------------------------------------------------------------------
(***************************************************************************)
(* What a pass does to each row.                                           *)
(***************************************************************************)
with_category(row, source, name) ==
    [row EXCEPT !.category_source = source, !.canonical_category = name]

passed(row, rs) ==
    IF row.category_source = "manual" THEN row
    ELSE IF row.category_id # None
    THEN with_category(row, "ynab", catName[row.category_id])
    ELSE IF Matching(rs, row.text) # {}
    THEN with_category(row, "rule", rs[first_match(rs, row.text)].name)
    ELSE with_category(row, None, None)

\* The three UPDATEs come to this for each row.
LEMMA PassRow ==
    ASSUME NEW table, RowsTyped(table), NEW scope, NEW rs \in Seq(Rules),
           NEW id \in DOMAIN table
    PROVE  categorized(table, scope, rs)[id] =
             IF id \in Live(table, scope) THEN passed(table[id], rs) ELSE table[id]
<1> DEFINE row == table[id]
           a == reset_rows(table, scope)
           b == derive_ynab(a, scope)
           c == fill_by_rules(b, scope, rs)
<1>0. row \in Row
  BY DEF RowsTyped
<1>1. /\ DOMAIN a = DOMAIN table
      /\ a[id] = IF id \in Live(table, scope) /\ row.category_source # "manual"
                 THEN with_category(row, None, None) ELSE row
  BY DEF reset_rows, assign, with_category
<1>2. /\ DOMAIN b = DOMAIN table
      /\ b[id] = IF id \in Live(a, scope) /\ a[id].category_source = None
                      /\ a[id].category_id # None
                 THEN with_category(a[id], "ynab", catName[a[id].category_id]) ELSE a[id]
  BY <1>1 DEF derive_ynab, assign, with_category
<1>3. c[id] = IF id \in Live(b, scope) /\ b[id].category_source = None
                   /\ Matching(rs, b[id].text) # {}
              THEN with_category(b[id], "rule", rs[first_match(rs, b[id].text)].name)
              ELSE b[id]
  BY <1>2 DEF fill_by_rules, assign, with_category
<1> HIDE DEF a, b, c
<1>4. /\ a[id].deleted = row.deleted /\ a[id].category_id = row.category_id
      /\ a[id].text = row.text
      /\ id \in Live(a, scope) <=> id \in Live(table, scope)
  BY <1>0, <1>1 DEF with_category, Row, Live
<1>5. /\ b[id].deleted = row.deleted /\ b[id].text = row.text
      /\ id \in Live(b, scope) <=> id \in Live(table, scope)
  BY <1>0, <1>1, <1>2, <1>4 DEF with_category, Row, Live
<1>6. categorized(table, scope, rs)[id] = c[id]
  BY DEF categorized, a, b, c
<1>7. CASE id \notin Live(table, scope)
  BY <1>1, <1>2, <1>3, <1>4, <1>5, <1>6, <1>7
<1>8. CASE id \in Live(table, scope) /\ row.category_source = "manual"
  BY <1>1, <1>2, <1>3, <1>4, <1>5, <1>6, <1>8, NoneAssumption DEF passed
<1>9. CASE id \in Live(table, scope) /\ row.category_source # "manual"
  <2>1. a[id] = with_category(row, None, None) /\ a[id].category_source = None
    BY <1>0, <1>1, <1>9 DEF with_category, Row
  <2>2. CASE row.category_id # None
    <3>1. b[id] = with_category(a[id], "ynab", catName[row.category_id])
      BY <1>2, <1>4, <1>9, <2>1, <2>2
    <3>2. b[id] = with_category(row, "ynab", catName[row.category_id])
      BY <1>0, <2>1, <3>1 DEF with_category, Row
    <3>3. b[id].category_source # None
      BY <1>0, <3>2, NoneAssumption DEF with_category, Row
    <3> QED
      BY <1>3, <1>6, <1>9, <2>2, <3>2, <3>3 DEF passed
  <2>3. CASE row.category_id = None
    <3>1. b[id] = with_category(row, None, None) /\ b[id].category_source = None
      BY <1>2, <1>4, <2>1, <2>3
    <3>2. with_category(b[id], "rule", rs[first_match(rs, row.text)].name)
            = with_category(row, "rule", rs[first_match(rs, row.text)].name)
      BY <1>0, <3>1 DEF with_category, Row
    <3> QED
      BY <1>3, <1>5, <1>6, <1>9, <2>3, <3>1, <3>2 DEF passed
  <2> QED
    BY <2>2, <2>3
<1> QED
  BY <1>7, <1>8, <1>9

\* A pass keeps the rows there are and their types.
LEMMA PassTyped ==
    ASSUME NEW table, RowsTyped(table), NEW scope, NEW rs \in Seq(Rules),
           catName \in [Cats -> Names]
    PROVE  /\ DOMAIN categorized(table, scope, rs) = DOMAIN table
           /\ RowsTyped(categorized(table, scope, rs))
<1> DEFINE a == reset_rows(table, scope)
           b == derive_ynab(a, scope)
           c == fill_by_rules(b, scope, rs)
<1>1. DOMAIN a = DOMAIN table /\ RowsTyped(a)
  <2> DEFINE derived == {id \in Live(table, scope) : table[id].category_source # "manual"}
             names == [id \in derived |-> None]
  <2>1. Assignable(None, names)
    BY DEF Assignable
  <2> HIDE DEF names
  <2>2. RowsTyped(assign(table, None, names))
    BY <2>1, AssignTyped
  <2> QED
    BY <2>2 DEF reset_rows, assign, names
<1>2. DOMAIN b = DOMAIN table /\ RowsTyped(b)
  <2> HIDE DEF a
  <2> DEFINE named == {id \in Live(a, scope) :
                          a[id].category_source = None /\ a[id].category_id # None}
             names == [id \in named |-> catName[a[id].category_id]]
  <2>1. Assignable("ynab", names)
    <3>1. \A id \in named : a[id].category_id \in Cats
      BY <1>1 DEF RowsTyped, Row, Live
    <3> QED
      BY <3>1 DEF Assignable
  <2> HIDE DEF names
  <2>2. RowsTyped(assign(a, "ynab", names))
    BY <1>1, <2>1, AssignTyped
  <2> QED
    BY <1>1, <2>2 DEF derive_ynab, assign, names
<1>3. DOMAIN c = DOMAIN table /\ RowsTyped(c)
  <2> HIDE DEF b
  <2> DEFINE matched == {id \in Live(b, scope) :
                            /\ b[id].category_source = None
                            /\ Matching(rs, b[id].text) # {}}
             names == [id \in matched |-> rs[first_match(rs, b[id].text)].name]
  <2>1. Assignable("rule", names)
    <3>1. \A id \in matched : first_match(rs, b[id].text) \in DOMAIN rs
      BY FirstMatch DEF Matching
    <3>2. \A i \in DOMAIN rs : rs[i].name \in Names
      BY RulesAssumption DEF Rule
    <3> QED
      BY <3>1, <3>2 DEF Assignable
  <2> HIDE DEF names
  <2>2. RowsTyped(assign(b, "rule", names))
    BY <1>2, <2>1, AssignTyped
  <2> QED
    BY <1>2, <2>2 DEF fill_by_rules, assign, names
<1> QED
  BY <1>3 DEF categorized

\* So does the upsert of a transaction, which adds rows.
LEMMA UpsertTyped ==
    ASSUME RowsTyped(rows), NEW t \in Txns, NEW v \in Versions[t]
    PROVE  RowsTyped(upsert_transaction(t, v))
<1> DEFINE new == upsert_transaction(t, v)
<1>1. v \in Version
  BY VersionsAssumption
<1>2. TopRow(v) \in Row /\ TopRow(v).category_source = None
        /\ TopRow(v).canonical_category = None
  BY <1>1 DEF TopRow, Row, Version
<1>3. ASSUME NEW n \in 1..Len(v.subs)
      PROVE  /\ insert_subtransaction(v, n) \in Row
             /\ insert_subtransaction(v, n).category_source = None
             /\ insert_subtransaction(v, n).canonical_category = None
  <2>1. v.subs \in Seq(Part) /\ v.text \in Texts /\ v.account \in Accounts
    BY <1>1 DEF Version
  <2>2. v.subs[n] \in Part
    BY <2>1
  <2> QED
    BY <2>1, <2>2 DEF insert_subtransaction, Part, Row
<1>4. ASSUME <<t, 0>> \in DOMAIN rows
      PROVE  LET row == refreshed(rows[<<t, 0>>], v)
             IN  /\ row \in Row
                 /\ row.category_source = None <=> row.canonical_category = None
  BY <1>2, <1>4 DEF refreshed, RowsTyped, Row
<1>5. Len(v.subs) \in Nat
  BY <1>1 DEF Version
<1> SUFFICES ASSUME NEW id \in DOMAIN new
             PROVE  /\ id \in Txns \X Nat
                    /\ new[id] \in Row
                    /\ new[id].category_source = None <=> new[id].canonical_category = None
  BY DEF RowsTyped
<1>6. CASE id = <<t, 0>>
  <2>1. new[id] = IF id \in DOMAIN rows THEN refreshed(rows[id], v) ELSE TopRow(v)
    BY <1>6 DEF upsert_transaction
  <2> HIDE DEF new
  <2> QED
    BY <1>2, <1>4, <1>6, <2>1
<1>7. CASE \E n \in 1..Len(v.subs) : id = <<t, n>>
  <2>1. PICK n \in 1..Len(v.subs) : id = <<t, n>>
    BY <1>7
  <2>2. n \in Nat /\ n # 0
    BY <1>5
  <2>3. new[id] = insert_subtransaction(v, n)
    BY <2>1, <2>2 DEF upsert_transaction
  <2> HIDE DEF new
  <2> QED
    BY <1>3, <2>1, <2>2, <2>3
<1>8. CASE id # <<t, 0>> /\ ~ \E n \in 1..Len(v.subs) : id = <<t, n>>
  <2>1. id \in DOMAIN rows /\ new[id] = rows[id]
    BY <1>8 DEF upsert_transaction
  <2> HIDE DEF new
  <2> QED
    BY <2>1 DEF RowsTyped
<1> QED
  BY <1>6, <1>7, <1>8

(***************************************************************************)
(* TypeOK says nothing of args, from which Pin takes the row and its name. *)
(***************************************************************************)
ArgsTyped ==
    /\ args \in [Procs -> Sources \cup {AnySource} \cup ((Txns \X Nat) \X Names)]
    /\ \A p \in Procs : pc[p] = "pin" => args[p] \in (Txns \X Nat) \X Names

TypeInv == TypeOK /\ ArgsTyped

LEMMA TypedRows == TypeOK => RowsTyped(rows)
  BY DEF TypeOK, RowsTyped

LEMMA TypeInit == Init => TypeInv
<1> SUFFICES ASSUME Init PROVE TypeInv
  OBVIOUS
<1>1. DOMAIN rows = {} /\ rules = << >>
  BY DEF Init
<1>2. rules \in Seq(Rules) /\ Len(rules) <= MaxRules
  BY <1>1, MaxRulesAssumption
<1>3. << >> \in Seq(Rules)
  OBVIOUS
<1>4. TypeOK
  BY <1>1, <1>2, <1>3 DEF Init, TypeOK
<1>5. ArgsTyped
  BY DEF Init, ArgsTyped, AnySource
<1> QED
  BY <1>4, <1>5 DEF TypeInv

\* The end of a command leaves its process idle, without arguments and rules.
LEMMA EndTyped ==
    ASSUME TypeInv, NEW p \in Procs, End(p)
    PROVE  /\ pc' \in [Procs -> {"idle", "apply", "pin"}]
           /\ snapshot' \in [Procs -> Seq(Rules)]
           /\ ArgsTyped'
<1>1. << >> \in Seq(Rules)
  OBVIOUS
<1> QED
  BY <1>1 DEF TypeInv, TypeOK, ArgsTyped, End, AnySource

LEMMA TypeStep == TypeInv /\ [Next]_vars => TypeInv'
<1> SUFFICES ASSUME TypeInv, [Next]_vars PROVE TypeInv'
  OBVIOUS
<1> USE DEF TypeInv
<1>0. RowsTyped(rows)
  BY TypedRows
<1>1. CASE UNCHANGED vars
  BY <1>1 DEF vars, TypeOK, Row, ArgsTyped
<1>2. ASSUME NEW t \in Txns, NEW v \in Versions[t], SyncTxn(t, v)
      PROVE  TypeInv'
  <2>1. RowsTyped(rows')
    BY <1>0, <1>2, UpsertTyped DEF SyncTxn
  <2>2. UNCHANGED <<catName, rules, pc, args, snapshot>>
    BY <1>2 DEF SyncTxn, commands
  <2> QED
    BY <2>1, <2>2 DEF TypeOK, ArgsTyped, RowsTyped
<1>3. ASSUME NEW c \in Cats, NEW name \in Names, SyncCategory(c, name)
      PROVE  TypeInv'
  BY <1>3 DEF SyncCategory, commands, TypeOK, ArgsTyped, Row
<1>4. ASSUME NEW r \in Rules, add_rule(r)
      PROVE  TypeInv'
  <2>1. rules' \in Seq(Rules) /\ Len(rules') = Len(rules) + 1
    BY <1>4 DEF add_rule, TypeOK
  <2>2. Len(rules') <= MaxRules
    BY <1>4, <2>1, MaxRulesAssumption DEF add_rule, TypeOK
  <2>3. UNCHANGED <<rows, catName, pc, args, snapshot>>
    BY <1>4 DEF add_rule, commands
  <2> QED
    BY <2>1, <2>2, <2>3 DEF TypeOK, ArgsTyped, Row
<1>5. ASSUME NEW p \in Procs, NEW scope \in Sources \cup {AnySource}, ReadRules(p, scope)
      PROVE  TypeInv'
  <2>1. TypeOK'
    BY <1>5 DEF ReadRules, TypeOK, Row
  <2>2. ArgsTyped'
    BY <1>5 DEF ReadRules, TypeOK, ArgsTyped
  <2> QED
    BY <2>1, <2>2
<1>6. ASSUME NEW p \in Procs, Apply(p)
      PROVE  TypeInv'
  <2>1. RowsTyped(rows')
    BY <1>0, <1>6, PassTyped DEF Apply, TypeOK
  <2>2. End(p) /\ UNCHANGED <<catName, rules>>
    BY <1>6 DEF Apply
  <2> QED
    BY <2>1, <2>2, EndTyped DEF TypeOK, RowsTyped
<1>7. ASSUME NEW p \in Procs, NEW id \in DOMAIN rows, NEW name \in Names,
             FindRow(p, id, name)
      PROVE  TypeInv'
  <2>1. <<id, name>> \in (Txns \X Nat) \X Names
    BY DEF TypeOK
  <2>2. TypeOK'
    BY <1>7 DEF FindRow, TypeOK, Row
  <2>3. ArgsTyped'
    BY <1>7, <2>1 DEF FindRow, TypeOK, ArgsTyped
  <2> QED
    BY <2>2, <2>3
<1>8. ASSUME NEW p \in Procs, Pin(p)
      PROVE  TypeInv'
  <2> DEFINE names == [id \in {args[p][1]} |-> args[p][2]]
  <2>1. Assignable("manual", names)
    BY <1>8 DEF Pin, ArgsTyped, Assignable
  <2>2. rows' = assign(rows, "manual", names) /\ End(p) /\ UNCHANGED <<catName, rules>>
    BY <1>8 DEF Pin
  <2> HIDE DEF names
  <2>3. RowsTyped(rows')
    BY <1>0, <2>1, <2>2, AssignTyped
  <2> QED
    BY <2>2, <2>3, EndTyped DEF TypeOK, RowsTyped
<1>9. ASSUME NEW p \in Procs, Crash(p)
      PROVE  TypeInv'
  <2>1. End(p) /\ UNCHANGED <<rows, catName, rules>>
    BY <1>9 DEF Crash
  <2> QED
    BY <2>1, EndTyped DEF TypeOK, Row
<1> QED
  BY <1>1, <1>2, <1>3, <1>4, <1>5, <1>6, <1>7, <1>8, <1>9 DEF Next, Command

\* Every row, rule and local has its type; a category always has a source.
THEOREM TypeCorrect == Spec => []TypeOK
<1>1. TypeInv => TypeOK
  BY DEF TypeInv
<1> QED
  BY <1>1, TypeInit, TypeStep, PTL DEF Spec

LEMMA TypeInvariant == Spec => []TypeInv
  BY TypeInit, TypeStep, PTL DEF Spec

-----------------------------------------------------------------------------
(***************************************************************************)
(* A pass is right and idempotent.                                         *)
(***************************************************************************)

LEMMA PassedFields ==
    ASSUME NEW row \in Row, NEW source, NEW name
    PROVE  LET r == with_category(row, source, name)
           IN  /\ r.canonical_category = name /\ r.category_source = source
               /\ r.deleted = row.deleted /\ r.text = row.text
               /\ r.category_id = row.category_id
               /\ \A s, n : with_category(r, s, n) = with_category(row, s, n)
  BY DEF with_category, Row

\* With FirstMatch, what a pass does to a row is what RightCategory asks for.
LEMMA PassedIsRight ==
    ASSUME NEW row \in Row, NEW rs \in Seq(Rules)
    PROVE  RightCategory(row, passed(row, rs).canonical_category, rs)
<1> DEFINE right == first_match(rs, row.text)
<1>1. CASE row.category_source = "manual"
  BY <1>1 DEF RightCategory, passed
<1>2. CASE row.category_source # "manual" /\ row.category_id # None
  BY <1>2, PassedFields DEF RightCategory, passed
<1>3. CASE /\ row.category_source # "manual" /\ row.category_id = None
           /\ Matching(rs, row.text) = {}
  BY <1>3, PassedFields DEF RightCategory, passed, Matching
<1>4. CASE /\ row.category_source # "manual" /\ row.category_id = None
           /\ Matching(rs, row.text) # {}
  <2>1. passed(row, rs).canonical_category = rs[right].name
    BY <1>4, PassedFields DEF passed
  <2>2. /\ right \in Matching(rs, row.text)
        /\ \A j \in Matching(rs, row.text) \ {right} : Before(rs, right, j)
    BY <1>4, FirstMatch
  <2>3. \A j \in Matching(rs, row.text) : j \in Nat /\ rs[j].priority \in Int
    BY RulesAssumption DEF Rule, Matching
  <2> HIDE DEF right
  <2>4. \A j \in Matching(rs, row.text) :
           /\ rs[right].priority <= rs[j].priority
           /\ rs[right].priority = rs[j].priority => right <= j
    BY <2>2, <2>3 DEF Before
  <2> QED
    BY <1>4, <2>1, <2>2, <2>4 DEF RightCategory, Matching
<1> QED
  BY <1>1, <1>2, <1>3, <1>4

\* Whatever was in the table, a pass leaves every row in its scope with the
\* right category for the rules it read, and every other row alone.
THEOREM PassesAreRight == Spec => PassIsRight
<1> DEFINE Right ==
      \A p \in Procs : Apply(p) =>
          \A id \in DOMAIN rows :
             IF id \in Live(rows, args[p])
             THEN RightCategory(rows[id], rows'[id].canonical_category, snapshot[p])
             ELSE rows'[id] = rows[id]
<1>1. ASSUME TypeInv PROVE Right
  <2> SUFFICES ASSUME NEW p \in Procs, Apply(p), NEW id \in DOMAIN rows
               PROVE  IF id \in Live(rows, args[p])
                      THEN RightCategory(rows[id], rows'[id].canonical_category, snapshot[p])
                      ELSE rows'[id] = rows[id]
    OBVIOUS
  <2>1. /\ RowsTyped(rows) /\ catName \in [Cats -> Names]
        /\ snapshot[p] \in Seq(Rules)
    BY <1>1, TypedRows DEF TypeInv, TypeOK
  <2>2. rows' = categorized(rows, args[p], snapshot[p])
    BY DEF Apply
  <2>3. CASE id \in Live(rows, args[p])
    <3>1. rows[id] \in Row
      BY <2>1 DEF RowsTyped
    <3>2. rows'[id] = passed(rows[id], snapshot[p])
      BY <2>1, <2>2, <2>3, PassRow
    <3> QED
      BY <2>1, <2>3, <3>1, <3>2, PassedIsRight
  <2>4. CASE id \notin Live(rows, args[p])
    BY <2>1, <2>2, <2>4, PassRow
  <2> QED
    BY <2>3, <2>4
<1>2. TypeInv => [Right]_vars
  BY <1>1
<1> QED
  BY <1>2, TypeInvariant, PTL DEF PassIsRight

\* A second pass finds nothing to do, row by row.
LEMMA PassedTwice ==
    ASSUME NEW row \in Row, NEW rs
    PROVE  /\ passed(row, rs).deleted = row.deleted
           /\ passed(passed(row, rs), rs) = passed(row, rs)
<1>1. CASE row.category_source = "manual"
  BY <1>1 DEF passed
<1>2. CASE row.category_source # "manual" /\ row.category_id # None
  <2>1. passed(row, rs) = with_category(row, "ynab", catName[row.category_id])
    BY <1>2 DEF passed
  <2> QED
    BY <1>2, <2>1, PassedFields DEF passed
<1>3. CASE /\ row.category_source # "manual" /\ row.category_id = None
           /\ Matching(rs, row.text) # {}
  <2>1. passed(row, rs) = with_category(row, "rule", rs[first_match(rs, row.text)].name)
    BY <1>3 DEF passed
  <2> QED
    BY <1>3, <2>1, PassedFields DEF passed
<1>4. CASE /\ row.category_source # "manual" /\ row.category_id = None
           /\ Matching(rs, row.text) = {}
  <2>1. passed(row, rs) = with_category(row, None, None)
    BY <1>4 DEF passed
  <2> QED
    BY <1>4, <2>1, PassedFields, NoneAssumption DEF passed
<1> QED
  BY <1>1, <1>2, <1>3, <1>4

LEMMA PassTwice ==
    ASSUME NEW table, RowsTyped(table), NEW scope, NEW rs \in Seq(Rules),
           catName \in [Cats -> Names]
    PROVE  LET once == categorized(table, scope, rs)
           IN  categorized(once, scope, rs) = once
<1> DEFINE once == categorized(table, scope, rs)
           twice == categorized(once, scope, rs)
<1>1. RowsTyped(once) /\ DOMAIN once = DOMAIN table
  BY PassTyped
<1>2. DOMAIN twice = DOMAIN table
  <2> HIDE DEF once
  <2> QED
    BY <1>1, PassTyped
<1>3. ASSUME NEW id \in DOMAIN table
      PROVE  twice[id] = once[id]
  <2>1. once[id] = IF id \in Live(table, scope) THEN passed(table[id], rs) ELSE table[id]
    BY PassRow
  <2> HIDE DEF once
  <2>2. twice[id] = IF id \in Live(once, scope) THEN passed(once[id], rs) ELSE once[id]
    BY <1>1, PassRow
  <2> HIDE DEF twice
  <2>3. /\ passed(table[id], rs).deleted = table[id].deleted
        /\ passed(passed(table[id], rs), rs) = passed(table[id], rs)
    BY PassedTwice DEF RowsTyped
  <2>4. id \in Live(once, scope) <=> id \in Live(table, scope)
    BY <1>1, <2>1, <2>3 DEF Live
  <2> QED
    BY <2>1, <2>2, <2>3, <2>4
<1>4. twice = [id \in DOMAIN twice |-> twice[id]] /\ once = [id \in DOMAIN once |-> once[id]]
  BY DEF categorized, fill_by_rules, assign
<1> HIDE DEF once, twice
<1>5. twice = once
  BY <1>1, <1>2, <1>3, <1>4
<1> QED
  BY <1>5 DEF once, twice

\* The promise of apply_categorization's docstring, in every reachable state.
THEOREM PassesAreIdempotent == Spec => []PassIsIdempotent
<1>1. TypeInv => PassIsIdempotent
  BY TypedRows, PassTwice DEF TypeInv, TypeOK, PassIsIdempotent
<1> QED
  BY <1>1, TypeInvariant, PTL

-----------------------------------------------------------------------------
(***************************************************************************)
(* Manual choices last.                                                    *)
(***************************************************************************)
Sticks ==
    \A id \in DOMAIN rows :
        ~IsChild(id) /\ rows[id].category_source = "manual" =>
            /\ id \in DOMAIN rows'
            /\ rows'[id].category_source = "manual"
            /\ \/ rows'[id].canonical_category = rows[id].canonical_category
               \/ \E p \in Procs : pc[p] = "pin" /\ args[p][1] = id /\ Pin(p)

LEMMA StickStep == TypeInv /\ [Next]_vars => Sticks
<1> SUFFICES ASSUME TypeInv, [Next]_vars,
                    NEW id \in DOMAIN rows,
                    ~IsChild(id), rows[id].category_source = "manual"
             PROVE  /\ id \in DOMAIN rows'
                    /\ rows'[id].category_source = "manual"
                    /\ \/ rows'[id].canonical_category = rows[id].canonical_category
                       \/ \E p \in Procs : pc[p] = "pin" /\ args[p][1] = id /\ Pin(p)
  BY DEF Sticks
<1>0. id \in Txns \X Nat /\ rows[id] \in Row /\ RowsTyped(rows)
  BY TypedRows DEF TypeInv, TypeOK
<1>1. CASE UNCHANGED rows
  BY <1>1
<1>2. ASSUME NEW t \in Txns, NEW v \in Versions[t], SyncTxn(t, v)
      PROVE  id \in DOMAIN rows' /\ rows'[id].category_source = "manual"
               /\ rows'[id].canonical_category = rows[id].canonical_category
  <2>1. rows' = upsert_transaction(t, v)
    BY <1>2 DEF SyncTxn
  <2>2. id[2] = 0 /\ id = <<id[1], 0>>
    BY <1>0 DEF IsChild
  <2>3. v \in Version /\ Len(v.subs) \in Nat
    <3>1. v \in Version
      BY VersionsAssumption
    <3> QED
      BY <3>1 DEF Version
  <2>4. \A n \in 1..Len(v.subs) : id # <<t, n>>
    BY <2>2, <2>3
  <2>5. CASE id = <<t, 0>>
    <3>1. id \in DOMAIN rows' /\ rows'[id] = refreshed(rows[id], v)
      BY <2>1, <2>5 DEF upsert_transaction
    <3> QED
      BY <2>3, <3>1 DEF refreshed, TopRow, Version
  <2>6. CASE id # <<t, 0>>
    <3>1. id \notin Children(rows, t)
      BY DEF Children
    <3>2. id \in DOMAIN rows' /\ rows'[id] = rows[id]
      BY <2>1, <2>4, <2>6, <3>1 DEF upsert_transaction
    <3> QED
      BY <3>2
  <2> QED
    BY <2>5, <2>6
<1>3. ASSUME NEW p \in Procs, Apply(p)
      PROVE  id \in DOMAIN rows' /\ rows'[id] = rows[id]
  <2>1. rows' = categorized(rows, args[p], snapshot[p])
    BY <1>3 DEF Apply
  <2>2. snapshot[p] \in Seq(Rules) /\ catName \in [Cats -> Names]
    BY DEF TypeInv, TypeOK
  <2>3. id \in DOMAIN rows'
    BY <1>0, <2>1, <2>2, PassTyped
  <2>4. rows'[id] \in {passed(rows[id], snapshot[p]), rows[id]}
    BY <1>0, <2>1, <2>2, PassRow
  <2> QED
    BY <2>3, <2>4 DEF passed
<1>4. ASSUME NEW p \in Procs, Pin(p)
      PROVE  /\ id \in DOMAIN rows'
             /\ rows'[id].category_source = "manual"
             /\ \/ rows'[id].canonical_category = rows[id].canonical_category
                \/ pc[p] = "pin" /\ args[p][1] = id
  <2>1. pc[p] = "pin" /\ rows' = assign(rows, "manual", [x \in {args[p][1]} |-> args[p][2]])
    BY <1>4 DEF Pin
  <2>2. CASE id = args[p][1]
    <3>1. id \in DOMAIN rows'
            /\ rows'[id] = with_category(rows[id], "manual", args[p][2])
      BY <2>1, <2>2 DEF assign, with_category
    <3> QED
      BY <1>0, <2>1, <2>2, <3>1, PassedFields
  <2>3. CASE id # args[p][1]
    BY <2>1, <2>3 DEF assign
  <2> QED
    BY <2>2, <2>3
<1>5. \/ UNCHANGED rows
      \/ \E t \in Txns : \E v \in Versions[t] : SyncTxn(t, v)
      \/ \E p \in Procs : Apply(p) \/ Pin(p)
  BY DEF Next, Command, vars, SyncCategory, add_rule, ReadRules, FindRow, Crash
<1> QED
  BY <1>1, <1>2, <1>3, <1>4, <1>5

\* Only another choice replaces the user's choice for a row that is no child:
\* no sync that changes, splits or deletes the transaction, pass or crash.
THEOREM ManualChoicesLast == Spec => ManualSticks
<1>1. TypeInv /\ [Next]_vars => [Sticks]_vars
  BY StickStep
<1> QED
  BY <1>1, TypeInvariant, PTL DEF Spec, ManualSticks, Sticks

-----------------------------------------------------------------------------
(***************************************************************************)
(* Splits add up.  What the children of a split sum to is what its content *)
(* did, part by part, when it was last delivered; a pass or a choice of    *)
(* the user changes neither amounts nor which rows there are.              *)
(***************************************************************************)
SameAmounts(table) ==
    /\ DOMAIN table = DOMAIN rows
    /\ \A id \in DOMAIN rows :
          /\ table[id].amount = rows[id].amount
          /\ table[id].is_split_parent = rows[id].is_split_parent
          /\ table[id].transfer = rows[id].transfer
          /\ table[id].deleted = rows[id].deleted

LEMMA CategoriesAside ==
    ASSUME NEW row \in Row, NEW source, NEW name
    PROVE  LET r == with_category(row, source, name)
           IN  /\ r.amount = row.amount /\ r.is_split_parent = row.is_split_parent
               /\ r.transfer = row.transfer /\ r.deleted = row.deleted
  BY DEF with_category, Row

LEMMA CommandsKeepAmounts ==
    ASSUME TypeInv, NEW p \in Procs, Apply(p) \/ Pin(p)
    PROVE  SameAmounts(rows')
<1>0. /\ RowsTyped(rows) /\ catName \in [Cats -> Names]
      /\ snapshot[p] \in Seq(Rules)
      /\ \A id \in DOMAIN rows : rows[id] \in Row
  BY TypedRows DEF TypeInv, TypeOK
<1>1. CASE Apply(p)
  <2>1. rows' = categorized(rows, args[p], snapshot[p])
    BY <1>1 DEF Apply
  <2>2. DOMAIN rows' = DOMAIN rows
    BY <1>0, <2>1, PassTyped
  <2>3. ASSUME NEW id \in DOMAIN rows
        PROVE  /\ rows'[id].amount = rows[id].amount
               /\ rows'[id].is_split_parent = rows[id].is_split_parent
               /\ rows'[id].transfer = rows[id].transfer
               /\ rows'[id].deleted = rows[id].deleted
    <3>1. rows'[id] \in {passed(rows[id], snapshot[p]), rows[id]}
      BY <1>0, <2>1, PassRow
    <3>2. passed(rows[id], snapshot[p]) = rows[id]
            \/ \E source, name : passed(rows[id], snapshot[p])
                                   = with_category(rows[id], source, name)
      BY DEF passed
    <3> QED
      BY <1>0, <3>1, <3>2, CategoriesAside
  <2> QED
    BY <2>2, <2>3 DEF SameAmounts
<1>2. CASE Pin(p)
  <2>1. rows' = assign(rows, "manual", [x \in {args[p][1]} |-> args[p][2]])
    BY <1>2 DEF Pin
  <2>2. ASSUME NEW id \in DOMAIN rows
        PROVE  rows'[id] = rows[id]
                 \/ rows'[id] = with_category(rows[id], "manual", args[p][2])
    BY <2>1 DEF assign, with_category
  <2>3. DOMAIN rows' = DOMAIN rows
    BY <2>1 DEF assign
  <2> QED
    BY <1>0, <2>2, <2>3, CategoriesAside DEF SameAmounts
<1> QED
  BY <1>1, <1>2

\* The parts of t after a delivery of v, if v is a split, are those of v.
LEMMA DeliveredParts ==
    ASSUME TypeInv, NEW t \in Txns, NEW v \in Versions[t], SyncTxn(t, v), v.subs # << >>
    PROVE  /\ PartAmounts(t)' = [n \in DOMAIN v.subs |-> v.subs[n].amount]
           /\ rows'[<<t, 0>>].amount = v.amount
<1> DEFINE new == {<<t, n>> : n \in 1..Len(v.subs)}
<1>0. /\ v \in Version /\ v.subs \in Seq(Part) /\ Len(v.subs) \in Nat
      /\ DOMAIN v.subs = 1..Len(v.subs)
  <2>1. v \in Version
    BY VersionsAssumption
  <2> QED
    BY <2>1 DEF Version
<1>1. rows' = upsert_transaction(t, v)
  BY DEF SyncTxn
<1>2. DOMAIN rows' = (DOMAIN rows \ Children(rows, t)) \cup new \cup {<<t, 0>>}
  BY <1>1 DEF upsert_transaction
<1>3. Children(rows', t) = new
  <2>1. \A n \in 1..Len(v.subs) : n > 0
    BY <1>0
  <2> QED
    BY <1>2, <2>1 DEF Children, IsChild
<1>4. {id[2] : id \in Children(rows', t)} = DOMAIN v.subs
  <2>1. \A id \in new : id[2] \in 1..Len(v.subs)
    OBVIOUS
  <2>2. \A n \in 1..Len(v.subs) : <<t, n>> \in new /\ <<t, n>>[2] = n
    OBVIOUS
  <2> HIDE DEF new
  <2> QED
    BY <1>0, <1>3, <2>1, <2>2
<1>5. ASSUME NEW n \in DOMAIN v.subs
      PROVE  rows'[<<t, n>>].amount = v.subs[n].amount
  <2>1. <<t, n>> \in new /\ <<t, n>> # <<t, 0>>
    BY <1>0
  <2>2. rows'[<<t, n>>] = insert_subtransaction(v, n)
    BY <1>1, <2>1 DEF upsert_transaction
  <2> QED
    BY <2>2 DEF insert_subtransaction
<1>6. rows'[<<t, 0>>].amount = v.amount
  <2>1. rows'[<<t, 0>>] = IF <<t, 0>> \in DOMAIN rows THEN refreshed(rows[<<t, 0>>], v)
                                                      ELSE TopRow(v)
    BY <1>1 DEF upsert_transaction
  <2> QED
    BY <2>1 DEF refreshed, TopRow
<1> QED
  BY <1>4, <1>5, <1>6 DEF PartAmounts

LEMMA SplitStep == TypeInv /\ SplitAddsUp /\ [Next]_vars => SplitAddsUp'
<1> SUFFICES ASSUME TypeInv, SplitAddsUp, [Next]_vars,
                    NEW u \in Txns, <<u, 0>> \in DOMAIN rows', rows'[<<u, 0>>].is_split_parent
             PROVE  SumFunction(PartAmounts(u)') = rows'[<<u, 0>>].amount
  BY DEF SplitAddsUp
<1>0. DOMAIN rows \subseteq Txns \X Nat
  BY DEF TypeInv, TypeOK
\* Nothing about u has changed.
<1>1. ASSUME Children(rows', u) = Children(rows, u), <<u, 0>> \in DOMAIN rows,
             \A id \in Children(rows, u) \cup {<<u, 0>>} :
                /\ rows'[id].amount = rows[id].amount
                /\ rows'[id].is_split_parent = rows[id].is_split_parent
      PROVE  SumFunction(PartAmounts(u)') = rows'[<<u, 0>>].amount
  <2>1. \A id \in Children(rows, u) : id = <<u, id[2]>>
    BY <1>0 DEF Children
  <2>2. PartAmounts(u)' = PartAmounts(u)
    BY <1>1, <2>1 DEF PartAmounts
  <2> QED
    BY <1>1, <2>2 DEF SplitAddsUp
<1>2. ASSUME SameAmounts(rows')
      PROVE  SumFunction(PartAmounts(u)') = rows'[<<u, 0>>].amount
  BY <1>1, <1>2 DEF SameAmounts, Children
<1>3. ASSUME NEW t \in Txns, NEW v \in Versions[t], SyncTxn(t, v)
      PROVE  SumFunction(PartAmounts(u)') = rows'[<<u, 0>>].amount
  <2>0. rows' = upsert_transaction(t, v)
    BY <1>3 DEF SyncTxn
  <2>1. CASE u = t /\ v.subs # << >>
    <3>1. v.amount = SumFunction([n \in DOMAIN v.subs |-> v.subs[n].amount])
      BY <2>1, VersionsAssumption
    <3> QED
      BY <1>3, <2>1, <3>1, DeliveredParts
  <2>2. CASE u = t /\ v.subs = << >>
    <3>1. rows'[<<u, 0>>] = IF <<u, 0>> \in DOMAIN rows THEN refreshed(rows[<<u, 0>>], v)
                                                        ELSE TopRow(v)
      BY <2>0, <2>2 DEF upsert_transaction
    <3>2. TopRow(v).is_split_parent = FALSE
      BY <2>2 DEF TopRow
    <3>3. \A old : refreshed(old, v).is_split_parent = TopRow(v).is_split_parent
      BY DEF refreshed, TopRow
    <3>4. rows'[<<u, 0>>].is_split_parent = FALSE
      BY <3>1, <3>2, <3>3
    <3> QED
      BY <3>4
  <2>3. CASE u # t
    <3>1. \A id : id[1] = u =>
             /\ id \in DOMAIN rows' <=> id \in DOMAIN rows
             /\ id \in DOMAIN rows => rows'[id] = rows[id]
      BY <2>0, <2>3 DEF upsert_transaction, Children
    <3>2. Children(rows', u) = Children(rows, u) /\ <<u, 0>> \in DOMAIN rows
      BY <3>1 DEF Children
    <3> QED
      BY <1>1, <3>1, <3>2 DEF Children
  <2> QED
    BY <2>1, <2>2, <2>3
<1>4. CASE UNCHANGED rows
  BY <1>2, <1>4 DEF SameAmounts
<1>5. \/ UNCHANGED rows
      \/ \E t \in Txns : \E v \in Versions[t] : SyncTxn(t, v)
      \/ \E p \in Procs : Apply(p) \/ Pin(p)
  BY DEF Next, Command, vars, SyncCategory, add_rule, ReadRules, FindRow, Crash
<1> QED
  BY <1>2, <1>3, <1>4, <1>5, CommandsKeepAmounts

\* However a split is reshaped, undone and done again, its children add up to
\* it, in any schedule of syncs, passes, choices and crashes.
THEOREM SplitsAddUp == Spec => []SplitAddsUp
<1>1. Init => SplitAddsUp
  BY DEF Init, SplitAddsUp
<1>2. TypeInv /\ SplitAddsUp /\ [Next]_vars => SplitAddsUp'
  BY SplitStep
<1> QED
  BY <1>1, <1>2, TypeInvariant, PTL DEF Spec

-----------------------------------------------------------------------------
(***************************************************************************)
(* What was delivered is in the table.  The row of a transaction, and of a *)
(* split its parts, are those of the content delivered last, but for       *)
(* account and categories.  Children of an earlier split may be left, and  *)
(* are never marked as deleted.                                            *)
(***************************************************************************)
AsDelivered(table, t, v) ==
    /\ <<t, 0>> \in DOMAIN table
    /\ table[<<t, 0>>].amount = v.amount
    /\ table[<<t, 0>>].transfer = v.transfer
    /\ table[<<t, 0>>].deleted = v.deleted
    /\ table[<<t, 0>>].is_split_parent = (v.subs # << >>)
    /\ v.subs # << >> =>
          /\ Children(table, t) = {<<t, n>> : n \in DOMAIN v.subs}
          /\ \A n \in DOMAIN v.subs :
                /\ table[<<t, n>>].amount = v.subs[n].amount
                /\ table[<<t, n>>].transfer = v.subs[n].transfer

PlainChildren(table) ==
    \A id \in DOMAIN table :
        IsChild(id) => ~table[id].is_split_parent /\ ~table[id].deleted

DeliveredInv ==
    /\ IsFiniteSet(DOMAIN rows)
    /\ PlainChildren(rows)
    /\ synced \in [Txns -> Version \cup {None}]
    /\ \A t \in Txns : synced[t] = None => \A id \in DOMAIN rows : id[1] # t
    /\ \A t \in Txns : synced[t] # None =>
          synced[t] \in Versions[t] /\ AsDelivered(rows, t, synced[t])

LEMMA DeliveredInit == Init => DeliveredInv
<1> SUFFICES ASSUME Init PROVE DeliveredInv
  OBVIOUS
<1>1. DOMAIN rows = {} /\ synced = [t \in Txns |-> None]
  BY DEF Init
<1> QED
  BY <1>1, FS_EmptySet DEF DeliveredInv, PlainChildren

\* The table after the upsert of v.
LEMMA UpsertDelivers ==
    ASSUME TypeInv, NEW t \in Txns, NEW v \in Versions[t]
    PROVE  AsDelivered(upsert_transaction(t, v), t, v)
<1> DEFINE new == upsert_transaction(t, v)
           parts == {<<t, n>> : n \in 1..Len(v.subs)}
<1>0. /\ v \in Version /\ v.subs \in Seq(Part) /\ Len(v.subs) \in Nat
      /\ DOMAIN v.subs = 1..Len(v.subs)
  <2>1. v \in Version
    BY VersionsAssumption
  <2> QED
    BY <2>1 DEF Version
<1>1. DOMAIN new = (DOMAIN rows \ (IF v.subs # << >> THEN Children(rows, t) ELSE {}))
                      \cup parts \cup {<<t, 0>>}
  BY DEF upsert_transaction
<1>2. new[<<t, 0>>] = IF <<t, 0>> \in DOMAIN rows THEN refreshed(rows[<<t, 0>>], v)
                                                  ELSE TopRow(v)
  BY DEF upsert_transaction
<1>3. /\ new[<<t, 0>>].amount = v.amount
      /\ new[<<t, 0>>].transfer = v.transfer
      /\ new[<<t, 0>>].deleted = v.deleted
      /\ new[<<t, 0>>].is_split_parent = (v.subs # << >>)
  <2> HIDE DEF new
  <2> QED
    BY <1>2 DEF refreshed, TopRow
<1>4. ASSUME v.subs # << >>, NEW n \in DOMAIN v.subs
      PROVE  new[<<t, n>>].amount = v.subs[n].amount
               /\ new[<<t, n>>].transfer = v.subs[n].transfer
  <2>1. <<t, n>> \in parts /\ <<t, n>> # <<t, 0>>
    BY <1>0
  <2>2. new[<<t, n>>] = insert_subtransaction(v, n)
    BY <1>1, <2>1 DEF upsert_transaction
  <2> HIDE DEF new
  <2> QED
    BY <2>2 DEF insert_subtransaction
<1>5. ASSUME v.subs # << >> PROVE Children(new, t) = parts
  <2>1. \A n \in 1..Len(v.subs) : n > 0
    BY <1>0
  <2> HIDE DEF new
  <2> QED
    BY <1>1, <1>5, <2>1 DEF Children, IsChild
<1> HIDE DEF new
<1> QED
  BY <1>0, <1>1, <1>3, <1>4, <1>5 DEF AsDelivered, new

LEMMA UpsertStep ==
    ASSUME TypeInv, DeliveredInv, NEW t \in Txns, NEW v \in Versions[t], SyncTxn(t, v)
    PROVE  DeliveredInv'
<1>0. v \in Version /\ v.subs \in Seq(Part) /\ Len(v.subs) \in Nat
  <2>1. v \in Version
    BY VersionsAssumption
  <2> QED
    BY <2>1 DEF Version
<1>1. rows' = upsert_transaction(t, v) /\ synced' = [synced EXCEPT ![t] = v]
  BY DEF SyncTxn
<1>2. PICK parts : parts = {<<t, n>> : n \in 1..Len(v.subs)}
  OBVIOUS
<1>3. PICK old : old = IF v.subs # << >> THEN Children(rows, t) ELSE {}
  OBVIOUS
<1>4. DOMAIN rows' = (DOMAIN rows \ old) \cup parts \cup {<<t, 0>>}
  BY <1>1, <1>2, <1>3 DEF upsert_transaction
<1>5. IsFiniteSet(DOMAIN rows')
  <2> DEFINE part == [n \in 1..Len(v.subs) |-> <<t, n>>]
  <2>1. part \in Surjection(1..Len(v.subs), parts)
    BY <1>2 DEF Surjection
  <2>2. IsFiniteSet(1..Len(v.subs))
    BY <1>0, FS_Interval
  <2>3. IsFiniteSet(parts)
    BY <2>1, <2>2, FS_Surjection
  <2>4. IsFiniteSet(DOMAIN rows \ old)
    BY FS_Difference DEF DeliveredInv
  <2>5. IsFiniteSet((DOMAIN rows \ old) \cup parts)
    BY <2>3, <2>4, FS_Union
  <2> QED
    BY <1>4, <2>5, FS_AddElement
<1>6. ASSUME NEW id \in DOMAIN rows', IsChild(id)
      PROVE  ~rows'[id].is_split_parent /\ ~rows'[id].deleted
  <2>1. id # <<t, 0>>
    BY <1>6 DEF IsChild
  <2>2. CASE id \in parts
    <3>1. rows'[id] = insert_subtransaction(v, id[2])
      BY <1>1, <1>2, <1>4, <2>1, <2>2 DEF upsert_transaction
    <3> QED
      BY <3>1 DEF insert_subtransaction
  <2>3. CASE id \notin parts
    <3>1. id \in DOMAIN rows /\ rows'[id] = rows[id]
      BY <1>1, <1>2, <1>4, <2>1, <2>3 DEF upsert_transaction
    <3> QED
      BY <1>6, <3>1 DEF DeliveredInv, PlainChildren
  <2> QED
    BY <2>2, <2>3
<1>7. synced' \in [Txns -> Version \cup {None}] /\ synced'[t] = v /\ v # None
  BY <1>0, <1>1, NoneAssumption DEF DeliveredInv
<1>8. ASSUME NEW u \in Txns, u # t
      PROVE  /\ synced'[u] = None => \A id \in DOMAIN rows' : id[1] # u
             /\ synced'[u] # None =>
                   synced'[u] \in Versions[u] /\ AsDelivered(rows', u, synced'[u])
  <2>1. synced'[u] = synced[u]
    BY <1>1, <1>8 DEF DeliveredInv
  <2>2. \A id : id[1] = u =>
           /\ id \in DOMAIN rows' <=> id \in DOMAIN rows
           /\ id \in DOMAIN rows => rows'[id] = rows[id]
    BY <1>1, <1>8 DEF upsert_transaction, Children
  <2>3. Children(rows', u) = Children(rows, u)
    BY <2>2 DEF Children
  <2>4. CASE synced[u] = None
    BY <2>1, <2>2, <2>4 DEF DeliveredInv
  <2>5. CASE synced[u] # None
    <3>1. synced[u] \in Versions[u] /\ AsDelivered(rows, u, synced[u])
      BY <2>5 DEF DeliveredInv
    <3>2. \A n \in DOMAIN synced[u].subs : synced[u].subs # << >> => <<u, n>> \in DOMAIN rows
      BY <3>1 DEF AsDelivered, Children
    <3>3. AsDelivered(rows', u, synced[u])
      BY <2>2, <2>3, <3>1, <3>2 DEF AsDelivered
    <3> QED
      BY <2>1, <2>5, <3>1, <3>3
  <2> QED
    BY <2>4, <2>5
<1>9. AsDelivered(rows', t, v)
  BY <1>1, UpsertDelivers
<1> QED
  BY <1>5, <1>6, <1>7, <1>8, <1>9 DEF DeliveredInv, PlainChildren

LEMMA DeliveredStep == TypeInv /\ DeliveredInv /\ [Next]_vars => DeliveredInv'
<1> SUFFICES ASSUME TypeInv, DeliveredInv, [Next]_vars PROVE DeliveredInv'
  OBVIOUS
<1>1. CASE UNCHANGED <<rows, synced>>
  BY <1>1 DEF DeliveredInv, PlainChildren, AsDelivered, Children
<1>2. ASSUME NEW p \in Procs, Apply(p) \/ Pin(p) PROVE DeliveredInv'
  <2>1. SameAmounts(rows')
    BY <1>2, CommandsKeepAmounts
  <2>2. UNCHANGED synced
    BY <1>2 DEF Apply, Pin
  <2>3. \A t : Children(rows', t) = Children(rows, t)
    BY <2>1 DEF SameAmounts, Children
  <2>4. ASSUME NEW t \in Txns, synced[t] # None PROVE AsDelivered(rows', t, synced[t])
    <3>1. AsDelivered(rows, t, synced[t])
      BY <2>4 DEF DeliveredInv
    <3>2. \A n \in DOMAIN synced[t].subs : synced[t].subs # << >> => <<t, n>> \in DOMAIN rows
      BY <3>1 DEF AsDelivered, Children
    <3> QED
      BY <2>1, <2>3, <3>1, <3>2 DEF AsDelivered, SameAmounts
  <2>5. PlainChildren(rows')
    BY <2>1 DEF DeliveredInv, PlainChildren, SameAmounts
  <2>6. DOMAIN rows' = DOMAIN rows
    BY <2>1 DEF SameAmounts
  <2> QED
    BY <2>2, <2>4, <2>5, <2>6 DEF DeliveredInv
<1>3. \/ UNCHANGED <<rows, synced>>
      \/ \E t \in Txns : \E v \in Versions[t] : SyncTxn(t, v)
      \/ \E p \in Procs : Apply(p) \/ Pin(p)
  BY DEF Next, Command, vars, SyncCategory, add_rule, ReadRules, FindRow, Crash
<1> QED
  BY <1>1, <1>2, <1>3, UpsertStep

LEMMA DeliveredInvariant == Spec => [](TypeInv /\ DeliveredInv)
<1>1. TypeInv /\ DeliveredInv /\ [Next]_vars => (TypeInv /\ DeliveredInv)'
  BY TypeStep, DeliveredStep
<1> QED
  BY <1>1, TypeInit, DeliveredInit, PTL DEF Spec

-----------------------------------------------------------------------------
(***************************************************************************)
(* Drift.  Both balances are sums over transactions kept: the one of the   *)
(* rows of an account, because the tops are the rows of those, one each,   *)
(* and the cleared one, which YNAB reports.  Their difference is that of   *)
(* the transactions that only one of them counts.                          *)
(***************************************************************************)
RowAmount == [id \in DOMAIN rows |-> rows[id].amount]
KeptAmount == [t \in Kept |-> synced[t].amount]

LEMMA RowSums ==
    ASSUME TypeInv, DeliveredInv, NEW S \in SUBSET DOMAIN rows
    PROVE  /\ IsFiniteSet(S) /\ IntegersOn(RowAmount, S)
           /\ SumAmounts(rows, S) = SumFunctionOnSet(RowAmount, S)
<1>1. IsFiniteSet(S)
  BY FS_Subset DEF DeliveredInv
<1>2. IntegersOn(RowAmount, S)
  BY DEF IntegersOn, RowAmount, TypeInv, TypeOK, Row
<1>3. PICK g : g = [id \in S |-> rows[id].amount]
  OBVIOUS
<1>4. DOMAIN g = S /\ \A id \in S : g[id] = RowAmount[id]
  BY <1>3 DEF RowAmount
<1>5. SumFunction(g) = SumFunctionOnSet(RowAmount, S)
  BY <1>1, <1>2, <1>4, SumOfFunction
<1> QED
  BY <1>1, <1>2, <1>3, <1>5 DEF SumAmounts

\* The top rows are those of the transactions kept, one each.
LEMMA TopsAreKept ==
    ASSUME TypeInv, DeliveredInv
    PROVE  /\ \A t \in Kept : /\ <<t, 0>> \in Tops
                              /\ rows[<<t, 0>>].amount = synced[t].amount
                              /\ synced[t].amount \in Int
           /\ \A id \in Tops : id[1] \in Kept /\ id = <<id[1], 0>>
           /\ IsFiniteSet(Kept)
<1>1. ASSUME NEW t \in Kept
      PROVE  /\ <<t, 0>> \in Tops
             /\ rows[<<t, 0>>].amount = synced[t].amount
             /\ synced[t].amount \in Int
  <2>1. t \in Txns /\ AsDelivered(rows, t, synced[t]) /\ ~synced[t].deleted
          /\ synced[t] \in Version
    BY <1>1 DEF Kept, DeliveredInv
  <2> QED
    BY <2>1 DEF AsDelivered, Tops, IsChild, Version
<1>2. ASSUME NEW id \in Tops
      PROVE  id[1] \in Kept /\ id = <<id[1], 0>>
  <2>1. id \in Txns \X Nat /\ ~(id[2] > 0) /\ id \in DOMAIN rows /\ ~rows[id].deleted
    BY <1>2 DEF Tops, IsChild, TypeInv, TypeOK
  <2>2. id = <<id[1], 0>> /\ id[1] \in Txns
    BY <2>1
  <2>3. synced[id[1]] # None
    BY <2>1, <2>2 DEF DeliveredInv
  <2>4. AsDelivered(rows, id[1], synced[id[1]])
    BY <2>2, <2>3 DEF DeliveredInv
  <2> QED
    BY <2>1, <2>2, <2>3, <2>4 DEF AsDelivered, Kept
<1>3. IsFiniteSet(Kept)
  <2>1. IsFiniteSet(Tops)
    BY RowSums DEF Tops
  <2> DEFINE h == [id \in Tops |-> id[1]]
  <2>2. h \in Surjection(Tops, Kept)
    BY <1>1, <1>2 DEF Surjection
  <2> QED
    BY <2>1, <2>2, FS_Surjection
<1> QED
  BY <1>1, <1>2, <1>3

LEMMA KeptSums ==
    ASSUME TypeInv, DeliveredInv, NEW S \in SUBSET Kept
    PROVE  /\ IsFiniteSet(S) /\ IntegersOn(KeptAmount, S)
           /\ SumSynced(S) = SumFunctionOnSet(KeptAmount, S)
<1>1. IsFiniteSet(S)
  BY TopsAreKept, FS_Subset
<1>2. IntegersOn(KeptAmount, S)
  BY TopsAreKept DEF IntegersOn, KeptAmount
<1>3. PICK g : g = [t \in S |-> synced[t].amount]
  OBVIOUS
<1>4. DOMAIN g = S /\ \A t \in S : g[t] = KeptAmount[t]
  BY <1>3 DEF KeptAmount
<1>5. SumFunction(g) = SumFunctionOnSet(KeptAmount, S)
  BY <1>1, <1>2, <1>4, SumOfFunction
<1> QED
  BY <1>1, <1>2, <1>3, <1>5 DEF SumSynced

\* The balance of an account is the sum of what was delivered for the
\* transactions kept whose rows stand in it.
LEMMA BalanceDelivered ==
    ASSUME TypeInv, DeliveredInv, NEW a,
           NEW here, here = {t \in Kept : rows[<<t, 0>>].account = a}
    PROVE  balance(a) = SumSynced(here)
<1>1. PICK S : S = {id \in Tops : rows[id].account = a}
  OBVIOUS
<1>2. /\ IsFiniteSet(S) /\ IntegersOn(RowAmount, S)
      /\ SumAmounts(rows, S) = SumFunctionOnSet(RowAmount, S)
      /\ S \subseteq DOMAIN rows
  BY <1>1, RowSums DEF Tops
<1>3. PICK h : h = [id \in S |-> id[1]]
  OBVIOUS
<1>4. \A id \in S : h[id] \in here /\ KeptAmount[h[id]] = RowAmount[id]
  <2> SUFFICES ASSUME NEW id \in S
               PROVE  h[id] \in here /\ KeptAmount[h[id]] = RowAmount[id]
    OBVIOUS
  <2>1. h[id] \in Kept /\ id = <<h[id], 0>>
    BY <1>1, <1>3, TopsAreKept
  <2>2. rows[id].amount = synced[h[id]].amount
    BY <2>1, TopsAreKept
  <2> QED
    BY <1>1, <1>2, <2>1, <2>2 DEF KeptAmount, RowAmount
<1>5. \A id, jd \in S : h[id] = h[jd] => id = jd
  BY <1>1, <1>3, TopsAreKept
<1>6. \A t \in here : \E id \in S : h[id] = t
  <2> SUFFICES ASSUME NEW t \in here PROVE <<t, 0>> \in S /\ h[<<t, 0>>] = t
    OBVIOUS
  <2> QED
    BY <1>1, <1>3, TopsAreKept
<1>7. SumFunctionOnSet(KeptAmount, here) = SumFunctionOnSet(RowAmount, S)
  <2>1. Renames(h, RowAmount, S, KeptAmount, here)
    BY <1>4, <1>5, <1>6 DEF Renames
  <2> QED
    BY <1>2, <2>1, SumReindexed
<1>8. SumSynced(here) = SumFunctionOnSet(KeptAmount, here)
  BY KeptSums
<1> QED
  BY <1>1, <1>2, <1>7, <1>8 DEF balance

\* What only one of two sums counts is their difference.
LEMMA DifferenceOfSums ==
    ASSUME NEW f, NEW A, IsFiniteSet(A), NEW C, IsFiniteSet(C), IntegersOn(f, A \cup C)
    PROVE  SumFunctionOnSet(f, A) - SumFunctionOnSet(f, C) =
             SumFunctionOnSet(f, A \ C) - SumFunctionOnSet(f, C \ A)
<1>1. PICK B : B = A \cap C
  OBVIOUS
<1>2. IsFiniteSet(B) /\ IsFiniteSet(A \ C) /\ IsFiniteSet(C \ A)
  BY <1>1, FS_Difference, FS_Intersection
<1>3. /\ A = (A \ C) \cup B /\ (A \ C) \cap B = {}
      /\ C = (C \ A) \cup B /\ (C \ A) \cap B = {}
  BY <1>1
<1>4. IntegersOn(f, A) /\ IntegersOn(f, C) /\ IntegersOn(f, B)
        /\ IntegersOn(f, A \ C) /\ IntegersOn(f, C \ A)
  BY <1>1 DEF IntegersOn
<1>5. SumFunctionOnSet(f, A) = SumFunctionOnSet(f, A \ C) + SumFunctionOnSet(f, B)
  BY <1>2, <1>3, <1>4, SumOfUnion
<1>6. SumFunctionOnSet(f, C) = SumFunctionOnSet(f, C \ A) + SumFunctionOnSet(f, B)
  BY <1>2, <1>3, <1>4, SumOfUnion
<1>7. /\ SumFunctionOnSet(f, B) \in Int /\ SumFunctionOnSet(f, A \ C) \in Int
      /\ SumFunctionOnSet(f, C \ A) \in Int
  BY <1>2, <1>4, SumType
<1> QED
  BY <1>5, <1>6, <1>7

LEMMA DriftFollows == TypeInv /\ DeliveredInv => DriftExplained
<1> SUFFICES ASSUME TypeInv, DeliveredInv, NEW a \in Reported,
                    NEW extra,
                    extra = {t \in Kept : rows[<<t, 0>>].account = a
                                /\ (synced[t].account # a \/ ~synced[t].cleared)},
                    NEW missing,
                    missing = {t \in Kept : rows[<<t, 0>>].account # a
                                /\ synced[t].account = a /\ synced[t].cleared}
             PROVE  /\ delta(a) = SumSynced(extra) - SumSynced(missing)
                    /\ extra \cup missing = {} => reconcile({a}) = "ok"
  BY DEF DriftExplained
<1>1. PICK here : here = {t \in Kept : rows[<<t, 0>>].account = a}
  OBVIOUS
<1>2. PICK cleared : cleared = {t \in Kept : synced[t].account = a /\ synced[t].cleared}
  OBVIOUS
<1>3. extra = here \ cleared /\ missing = cleared \ here
  BY <1>1, <1>2
<1>4. delta(a) = SumSynced(here) - SumSynced(cleared)
  BY <1>1, <1>2, BalanceDelivered DEF delta, cleared_balance
<1>5. here \in SUBSET Kept /\ cleared \in SUBSET Kept
        /\ extra \in SUBSET Kept /\ missing \in SUBSET Kept
        /\ here \cup cleared \in SUBSET Kept
  BY <1>1, <1>2, <1>3
<1>6. delta(a) = SumSynced(extra) - SumSynced(missing)
  <2>1. /\ IsFiniteSet(here) /\ IsFiniteSet(cleared)
        /\ IntegersOn(KeptAmount, here \cup cleared)
    BY <1>5, KeptSums
  <2>2. SumFunctionOnSet(KeptAmount, here) - SumFunctionOnSet(KeptAmount, cleared) =
          SumFunctionOnSet(KeptAmount, here \ cleared)
             - SumFunctionOnSet(KeptAmount, cleared \ here)
    BY <2>1, DifferenceOfSums
  <2>3. /\ SumSynced(here) = SumFunctionOnSet(KeptAmount, here)
        /\ SumSynced(cleared) = SumFunctionOnSet(KeptAmount, cleared)
        /\ SumSynced(extra) = SumFunctionOnSet(KeptAmount, extra)
        /\ SumSynced(missing) = SumFunctionOnSet(KeptAmount, missing)
    BY <1>5, KeptSums
  <2> QED
    BY <1>3, <1>4, <2>2, <2>3
<1>7. ASSUME extra \cup missing = {} PROVE reconcile({a}) = "ok"
  <2>1. SumSynced(extra) = 0 /\ SumSynced(missing) = 0
    BY <1>5, <1>7, KeptSums, SumOfNothing
  <2>2. delta(a) = 0
    BY <1>6, <2>1
  <2> QED
    BY <2>2 DEF reconcile
<1> QED
  BY <1>6, <1>7

\* A drift is explained by the transactions that have not cleared or moved,
\* whatever was split, deleted, categorized or delivered again before.
THEOREM DriftsAreExplained == Spec => []DriftExplained
  BY DeliveredInvariant, DriftFollows, PTL

-----------------------------------------------------------------------------
(***************************************************************************)
(* Cash flow.  Of the rows that flow, some are outdated parts; the others  *)
(* are, one for one, the entries that were delivered: the row of a         *)
(* transaction that is no split stands for its only entry, a child for the *)
(* part that it was made from.                                             *)
(***************************************************************************)
EntryAmount == [id \in EntryIds |-> Entry(id).amount]

Own(scope) == Flowing(scope) \ OutdatedParts

entry_of(scope) ==
    [id \in Own(scope) |-> IF id[2] = 0 THEN <<id[1], 1>> ELSE id]

\* What the entries of a transaction are, whether it was delivered or not.
LEMMA EntriesOf ==
    ASSUME TypeInv, DeliveredInv, NEW t \in Txns
    PROVE  /\ synced[t] = None => Entries(t) = << >>
           /\ synced[t] # None =>
                /\ synced[t] \in Version /\ synced[t].subs \in Seq(Part)
                /\ AsDelivered(rows, t, synced[t])
                /\ synced[t].subs # << >> => Entries(t) = synced[t].subs
                /\ synced[t].subs = << >> =>
                      Entries(t) = IF synced[t].deleted THEN << >> ELSE <<synced[t]>>
  BY DEF Entries, DeliveredInv, Version

\* The amount of an entry is a number.
LEMMA EntryTyped ==
    ASSUME TypeInv, DeliveredInv
    PROVE  IntegersOn(EntryAmount, EntryIds)
<1> SUFFICES ASSUME NEW t \in Txns, NEW n \in DOMAIN Entries(t)
             PROVE  Entries(t)[n].amount \in Int
  <2>1. \A id \in EntryIds : id[1] \in Txns /\ id[2] \in DOMAIN Entries(id[1])
    BY DEF EntryIds
  <2> QED
    BY <2>1 DEF IntegersOn, EntryAmount, Entry
<1>1. CASE synced[t] = None
  BY <1>1, EntriesOf
<1>2. CASE synced[t] # None /\ synced[t].subs # << >>
  <2>1. Entries(t) \in Seq(Part)
    BY <1>2, EntriesOf
  <2>2. Entries(t)[n] \in Part
    BY <2>1
  <2> QED
    BY <2>2 DEF Part
<1>3. CASE synced[t] # None /\ synced[t].subs = << >>
  <2>1. Entries(t) \in {<< >>, <<synced[t]>>} /\ synced[t].amount \in Int
    BY <1>3, EntriesOf DEF Version
  <2>2. Entries(t)[n] = synced[t]
    BY <2>1
  <2> QED
    BY <2>1, <2>2
<1> QED
  BY <1>1, <1>2, <1>3

\* A row that is no outdated part stands for an entry of its transaction.
LEMMA OwnRows ==
    ASSUME TypeInv, DeliveredInv, NEW scope, NEW id \in Own(scope)
    PROVE  /\ id[1] \in Txns /\ synced[id[1]] # None /\ id = <<id[1], id[2]>>
           /\ id[2] = 0 <=> synced[id[1]].subs = << >>
           /\ entry_of(scope)[id] \in Due(scope)
           /\ EntryAmount[entry_of(scope)[id]] = RowAmount[id]
<1>1. PICK t, n : id = <<t, n>> /\ t \in Txns /\ n \in Nat
  BY DEF Own, Flowing, Leaves, TypeInv, TypeOK
<1>2. /\ id \in DOMAIN rows /\ ~rows[id].is_split_parent /\ ~rows[id].deleted
      /\ ~rows[id].transfer /\ InScope(id, scope) /\ id \notin OutdatedParts
  BY DEF Own, Flowing, Leaves
<1>3. synced[t] # None
  BY <1>1, <1>2 DEF DeliveredInv
<1>4. AsDelivered(rows, t, synced[t])
  BY <1>1, <1>3, EntriesOf
<1>5. CASE n = 0
  <2>1. synced[t].subs = << >> /\ ~synced[t].deleted
          /\ ~synced[t].transfer /\ synced[t].amount = rows[id].amount
    BY <1>1, <1>2, <1>4, <1>5 DEF AsDelivered
  <2>2. Entries(t) = <<synced[t]>>
    BY <1>1, <1>3, <2>1, EntriesOf
  <2>3. <<t, 1>> \in EntryIds /\ Entry(<<t, 1>>) = synced[t]
    BY <1>1, <2>2 DEF EntryIds, Entry
  <2>4. entry_of(scope)[id] = <<t, 1>>
    BY <1>1, <1>5 DEF entry_of
  <2>5. InScope(<<t, 1>>, scope)
    BY <1>1, <1>2 DEF InScope
  <2>6. <<t, 1>> \in Due(scope) /\ EntryAmount[<<t, 1>>] = RowAmount[id]
    BY <1>2, <2>1, <2>3, <2>5 DEF Due, EntryAmount, RowAmount
  <2> QED
    BY <1>1, <1>3, <1>5, <2>1, <2>4, <2>6
<1>6. CASE n > 0
  <2>1. synced[t].subs # << >> /\ id \in Children(rows, t)
    BY <1>1, <1>2, <1>6 DEF OutdatedParts, IsChild, Children
  <2>2. /\ n \in DOMAIN synced[t].subs
        /\ synced[t].subs[n].amount = rows[id].amount
        /\ synced[t].subs[n].transfer = rows[id].transfer
    BY <1>1, <1>4, <2>1 DEF AsDelivered
  <2>3. Entries(t) = synced[t].subs
    BY <1>1, <1>3, <2>1, EntriesOf
  <2>4. id \in EntryIds /\ Entry(id) = synced[t].subs[n]
    BY <1>1, <2>2, <2>3 DEF EntryIds, Entry
  <2>5. entry_of(scope)[id] = id
    BY <1>1, <1>6 DEF entry_of
  <2>6. id \in Due(scope) /\ EntryAmount[id] = RowAmount[id]
    BY <1>2, <2>2, <2>4 DEF Due, EntryAmount, RowAmount
  <2> QED
    BY <1>1, <1>3, <1>6, <2>1, <2>5, <2>6
<1> QED
  BY <1>1, <1>5, <1>6

\* And every entry that is due has its row.
LEMMA DueRows ==
    ASSUME TypeInv, DeliveredInv, NEW scope, NEW z \in Due(scope)
    PROVE  \E id \in Own(scope) : entry_of(scope)[id] = z
<1>1. PICK t, n : t \in Txns /\ n \in DOMAIN Entries(t) /\ z = <<t, n>>
  BY DEF Due, EntryIds
<1>2. ~Entries(t)[n].transfer /\ InScope(z, scope)
  BY <1>1 DEF Due, Entry
<1>3. synced[t] # None
  BY <1>1, EntriesOf
<1>4. AsDelivered(rows, t, synced[t]) /\ synced[t].subs \in Seq(Part)
  BY <1>1, <1>3, EntriesOf
<1>5. CASE synced[t].subs = << >>
  <2>1. ~synced[t].deleted /\ Entries(t) = <<synced[t]>>
    BY <1>1, <1>3, <1>5, EntriesOf
  <2>2. n = 1 /\ ~synced[t].transfer
    BY <1>1, <1>2, <2>1
  <2>3. /\ <<t, 0>> \in DOMAIN rows /\ ~rows[<<t, 0>>].is_split_parent
        /\ ~rows[<<t, 0>>].deleted /\ ~rows[<<t, 0>>].transfer
    BY <1>4, <1>5, <2>1, <2>2 DEF AsDelivered
  <2>4. InScope(<<t, 0>>, scope) /\ <<t, 0>> \notin OutdatedParts
    BY <1>1, <1>2 DEF InScope, OutdatedParts, IsChild
  <2>5. <<t, 0>> \in Own(scope)
    BY <2>3, <2>4 DEF Own, Flowing, Leaves
  <2>6. entry_of(scope)[<<t, 0>>] = z
    BY <1>1, <2>2, <2>5 DEF entry_of
  <2> QED
    BY <2>5, <2>6
<1>6. CASE synced[t].subs # << >>
  <2>1. Entries(t) = synced[t].subs
    BY <1>1, <1>3, <1>6, EntriesOf
  <2>2. n \in DOMAIN synced[t].subs /\ n > 0 /\ n \in Nat
    BY <1>1, <1>4, <2>1
  <2>3. z \in Children(rows, t) /\ rows[z].transfer = synced[t].subs[n].transfer
    BY <1>1, <1>4, <1>6, <2>2 DEF AsDelivered
  <2>4. /\ z \in DOMAIN rows /\ ~rows[z].transfer
        /\ ~rows[z].is_split_parent /\ ~rows[z].deleted
    BY <1>2, <2>1, <2>3 DEF Children, DeliveredInv, PlainChildren
  <2>5. z \notin OutdatedParts
    BY <1>1, <1>6 DEF OutdatedParts
  <2>6. z \in Own(scope)
    BY <1>2, <2>4, <2>5 DEF Own, Flowing, Leaves
  <2>7. entry_of(scope)[z] = z
    BY <1>1, <2>2, <2>6 DEF entry_of
  <2> QED
    BY <2>6, <2>7
<1> QED
  BY <1>5, <1>6

LEMMA OwnIsDue ==
    ASSUME TypeInv, DeliveredInv, NEW scope
    PROVE  Renames(entry_of(scope), RowAmount, Own(scope), EntryAmount, Due(scope))
<1>1. ASSUME NEW x \in Own(scope), NEW y \in Own(scope),
             entry_of(scope)[x] = entry_of(scope)[y]
      PROVE  x = y
  <2>1. PICK t, n : x = <<t, n>> /\ (n = 0 <=> synced[t].subs = << >>)
    BY OwnRows
  <2>2. PICK u, m : y = <<u, m>> /\ (m = 0 <=> synced[u].subs = << >>)
    BY OwnRows
  <2>3. /\ entry_of(scope)[x] = IF n = 0 THEN <<t, 1>> ELSE <<t, n>>
        /\ entry_of(scope)[y] = IF m = 0 THEN <<u, 1>> ELSE <<u, m>>
    BY <2>1, <2>2 DEF entry_of
  <2>4. ASSUME NEW a, NEW b, NEW c, NEW d, <<a, b>> = <<c, d>> PROVE a = c /\ b = d
    BY <2>4
  <2>5. t = u
    BY <1>1, <2>3, <2>4
  <2> QED
    BY <1>1, <2>1, <2>2, <2>3, <2>4, <2>5
<1> QED
  BY <1>1, OwnRows, DueRows DEF Renames

\* One to one, what is above zero maps to what is above zero.
Above(f, S) == {x \in S : f[x] > 0}
Below(f, S) == {x \in S : f[x] < 0}

LEMMA RenamesSides ==
    ASSUME NEW f, NEW S, NEW g, NEW T, NEW h, Renames(h, f, S, g, T)
    PROVE  /\ Renames(h, f, Above(f, S), g, Above(g, T))
           /\ Renames(h, f, S \ Above(f, S), g, T \ Above(g, T))
  BY DEF Renames, Above

\* A sum is that of its positive and that of its negative terms.
LEMMA SumOfSides ==
    ASSUME NEW f, NEW S, IsFiniteSet(S), IntegersOn(f, S)
    PROVE  /\ SumFunctionOnSet(f, S) =
                 SumFunctionOnSet(f, Above(f, S)) + SumFunctionOnSet(f, Below(f, S))
           /\ SumFunctionOnSet(f, S \ Above(f, S)) = SumFunctionOnSet(f, Below(f, S))
<1>1. PICK P, N, Z : /\ P = Above(f, S) /\ N = Below(f, S)
                     /\ Z = {x \in S : f[x] = 0}
  OBVIOUS
<1>2. IsFiniteSet(P) /\ IsFiniteSet(N) /\ IsFiniteSet(Z) /\ IsFiniteSet(N \cup Z)
  <2>1. P \subseteq S /\ N \subseteq S /\ Z \subseteq S /\ N \cup Z \subseteq S
    BY <1>1 DEF Above, Below
  <2> QED
    BY <2>1, FS_Subset
<1>3. /\ N \cup Z = S \ P /\ P \cup (N \cup Z) = S
      /\ N \cap Z = {} /\ P \cap (N \cup Z) = {}
  BY <1>1 DEF Above, Below, IntegersOn
<1>4. IntegersOn(f, P) /\ IntegersOn(f, N) /\ IntegersOn(f, N \cup Z)
        /\ IntegersOn(f, P \cup (N \cup Z))
  BY <1>3 DEF IntegersOn
<1>5. SumFunctionOnSet(f, Z) = 0
  BY <1>1, <1>2, SumOfZeros
<1>6. SumFunctionOnSet(f, N \cup Z) = SumFunctionOnSet(f, N) + SumFunctionOnSet(f, Z)
  BY <1>2, <1>3, <1>4, SumOfUnion
<1>7. SumFunctionOnSet(f, N) \in Int /\ SumFunctionOnSet(f, P) \in Int
  BY <1>2, <1>4, SumType
<1>8. SumFunctionOnSet(f, P \cup (N \cup Z)) =
        SumFunctionOnSet(f, P) + SumFunctionOnSet(f, N \cup Z)
  BY <1>2, <1>3, <1>4, SumOfUnion
<1>9. SumFunctionOnSet(f, N \cup Z) = SumFunctionOnSet(f, N)
  BY <1>5, <1>6, <1>7
<1> QED
  BY <1>1, <1>3, <1>7, <1>8, <1>9

LEMMA DueSums ==
    ASSUME TypeInv, DeliveredInv, NEW scope, NEW T \in SUBSET Due(scope), IsFiniteSet(T)
    PROVE  SumEntries(T) = SumFunctionOnSet(EntryAmount, T)
<1>1. T \subseteq EntryIds
  BY DEF Due
<1>2. IntegersOn(EntryAmount, T)
  BY <1>1, EntryTyped DEF IntegersOn
<1>3. PICK g : g = [id \in T |-> Entry(id).amount]
  OBVIOUS
<1>4. DOMAIN g = T /\ \A id \in T : g[id] = EntryAmount[id]
  BY <1>1, <1>3 DEF EntryAmount
<1> QED
  BY <1>2, <1>3, <1>4, SumOfFunction DEF SumEntries

\* Cash flow, side by side and in number.
LEMMA FlowSides ==
    ASSUME TypeInv, DeliveredInv, NEW scope,
           NEW own, own = Own(scope), NEW left, left = Left(scope),
           NEW due, due = Due(scope)
    PROVE  /\ IsFiniteSet(due)
           /\ cash_flow(scope).count = Cardinality(due) + Cardinality(left)
           /\ cash_flow(scope).inflow = SumFunctionOnSet(EntryAmount, Above(EntryAmount, due))
                                      + SumFunctionOnSet(RowAmount, Above(RowAmount, left))
           /\ cash_flow(scope).outflow =
                   SumFunctionOnSet(EntryAmount, due \ Above(EntryAmount, due))
                 + SumFunctionOnSet(RowAmount, left \ Above(RowAmount, left))
           /\ cash_flow(scope).net = cash_flow(scope).inflow + cash_flow(scope).outflow
<1>1. PICK flowing : flowing = Flowing(scope)
  OBVIOUS
<1>2. flowing \in SUBSET DOMAIN rows
  BY <1>1 DEF Flowing, Leaves
<1>3. flowing = own \cup left /\ own \cap left = {}
  BY <1>1 DEF Own, Left
<1>4. /\ IsFiniteSet(flowing) /\ IntegersOn(RowAmount, flowing)
      /\ IsFiniteSet(own) /\ IntegersOn(RowAmount, own)
      /\ IsFiniteSet(left) /\ IntegersOn(RowAmount, left)
  BY <1>2, <1>3, RowSums
<1>5. PICK h : /\ Renames(h, RowAmount, own, EntryAmount, due)
               /\ Renames(h, RowAmount, Above(RowAmount, own),
                          EntryAmount, Above(EntryAmount, due))
               /\ Renames(h, RowAmount, own \ Above(RowAmount, own),
                          EntryAmount, due \ Above(EntryAmount, due))
  <2>1. Renames(entry_of(scope), RowAmount, own, EntryAmount, due)
    BY OwnIsDue
  <2> QED
    BY <2>1, RenamesSides
<1>6. IsFiniteSet(due) /\ Cardinality(due) = Cardinality(own)
  BY <1>4, <1>5, SumReindexed
<1>7. /\ Above(RowAmount, flowing) = Above(RowAmount, own) \cup Above(RowAmount, left)
      /\ Above(RowAmount, own) \cap Above(RowAmount, left) = {}
      /\ Above(RowAmount, own) \subseteq own /\ Above(RowAmount, left) \subseteq left
      /\ Above(RowAmount, flowing) \subseteq flowing
      /\ Below(RowAmount, flowing) \subseteq flowing
  BY <1>3 DEF Above, Below
<1>8. PICK ownAbove, leftAbove, ownRest, leftRest :
        /\ ownAbove = Above(RowAmount, own) /\ leftAbove = Above(RowAmount, left)
        /\ ownRest = own \ Above(RowAmount, own) /\ leftRest = left \ Above(RowAmount, left)
  OBVIOUS
<1>9. /\ IsFiniteSet(ownAbove) /\ IsFiniteSet(leftAbove)
      /\ IsFiniteSet(ownRest) /\ IsFiniteSet(leftRest)
  BY <1>4, <1>7, <1>8, FS_Subset, FS_Difference
<1>10. /\ IntegersOn(RowAmount, ownAbove) /\ IntegersOn(RowAmount, ownRest)
       /\ IntegersOn(RowAmount, ownAbove \cup leftAbove)
       /\ IntegersOn(RowAmount, ownRest \cup leftRest)
  BY <1>4, <1>7, <1>8 DEF IntegersOn
<1>11. /\ SumFunctionOnSet(EntryAmount, Above(EntryAmount, due))
            = SumFunctionOnSet(RowAmount, ownAbove)
       /\ SumFunctionOnSet(EntryAmount, due \ Above(EntryAmount, due))
            = SumFunctionOnSet(RowAmount, ownRest)
  BY <1>5, <1>8, <1>9, <1>10, SumReindexed
<1>12. SumFunctionOnSet(RowAmount, ownAbove \cup leftAbove) =
         SumFunctionOnSet(RowAmount, ownAbove) + SumFunctionOnSet(RowAmount, leftAbove)
  <2>1. ownAbove \cap leftAbove = {}
    BY <1>7, <1>8
  <2> QED
    BY <1>9, <1>10, <2>1, SumOfUnion
<1>13. SumFunctionOnSet(RowAmount, ownRest \cup leftRest) =
         SumFunctionOnSet(RowAmount, ownRest) + SumFunctionOnSet(RowAmount, leftRest)
  <2>1. ownRest \cap leftRest = {}
    BY <1>3, <1>8
  <2> QED
    BY <1>9, <1>10, <2>1, SumOfUnion
<1>14. /\ Above(RowAmount, flowing) = ownAbove \cup leftAbove
       /\ flowing \ Above(RowAmount, flowing) = ownRest \cup leftRest
  BY <1>3, <1>7, <1>8 DEF Above
<1>15. /\ Above(RowAmount, flowing) = {id \in flowing : rows[id].amount > 0}
       /\ Below(RowAmount, flowing) = {id \in flowing : rows[id].amount < 0}
  BY <1>2 DEF Above, Below, RowAmount
<1>16. /\ cash_flow(scope).inflow = SumFunctionOnSet(RowAmount, Above(RowAmount, flowing))
       /\ cash_flow(scope).outflow = SumFunctionOnSet(RowAmount, Below(RowAmount, flowing))
       /\ cash_flow(scope).net = SumFunctionOnSet(RowAmount, flowing)
       /\ cash_flow(scope).count = Cardinality(flowing)
  <2>1. /\ SumAmounts(rows, Above(RowAmount, flowing))
             = SumFunctionOnSet(RowAmount, Above(RowAmount, flowing))
        /\ SumAmounts(rows, Below(RowAmount, flowing))
             = SumFunctionOnSet(RowAmount, Below(RowAmount, flowing))
        /\ SumAmounts(rows, flowing) = SumFunctionOnSet(RowAmount, flowing)
    BY <1>2, <1>7, RowSums
  <2> QED
    BY <1>1, <1>15, <2>1 DEF cash_flow
<1>17. /\ SumFunctionOnSet(RowAmount, flowing) =
             SumFunctionOnSet(RowAmount, Above(RowAmount, flowing))
               + SumFunctionOnSet(RowAmount, Below(RowAmount, flowing))
       /\ SumFunctionOnSet(RowAmount, flowing \ Above(RowAmount, flowing))
             = SumFunctionOnSet(RowAmount, Below(RowAmount, flowing))
  BY <1>4, SumOfSides
<1>18. Cardinality(flowing) = Cardinality(own) + Cardinality(left)
  <2>1. Cardinality(own \cap left) = 0
    BY <1>3, FS_EmptySet
  <2>2. Cardinality(own) \in Nat /\ Cardinality(left) \in Nat
    BY <1>4, FS_CardinalityType
  <2>3. Cardinality(own \cup left) =
          Cardinality(own) + Cardinality(left) - Cardinality(own \cap left)
    BY <1>4, FS_Union
  <2> QED
    BY <1>3, <2>1, <2>2, <2>3
<1>19. cash_flow(scope).inflow = SumFunctionOnSet(EntryAmount, Above(EntryAmount, due))
                               + SumFunctionOnSet(RowAmount, Above(RowAmount, left))
  BY <1>8, <1>11, <1>12, <1>14, <1>16
<1>20. cash_flow(scope).outflow = SumFunctionOnSet(EntryAmount, due \ Above(EntryAmount, due))
                                + SumFunctionOnSet(RowAmount, left \ Above(RowAmount, left))
  BY <1>8, <1>11, <1>13, <1>14, <1>16, <1>17
<1> QED
  BY <1>6, <1>16, <1>17, <1>18, <1>19, <1>20

LEMMA CashFlowFollows == TypeInv /\ DeliveredInv => CashFlowAsDelivered
<1> SUFFICES ASSUME TypeInv, DeliveredInv, NEW scope \in Sources \cup {AnySource}
             PROVE  LET Sum(in) ==
                            SumEntries({id \in Due(scope) : (Entry(id).amount > 0) = in})
                              + SumAmounts(rows, {id \in Left(scope) : (rows[id].amount > 0) = in})
                        flow == cash_flow(scope)
                    IN  /\ flow.inflow = Sum(TRUE)
                        /\ flow.outflow = Sum(FALSE)
                        /\ flow.net = flow.inflow + flow.outflow
                        /\ flow.count = Cardinality(Due(scope)) + Cardinality(Left(scope))
  BY Zenon DEF CashFlowAsDelivered
<1>0. PICK due, left, flow : due = Due(scope) /\ left = Left(scope) /\ flow = cash_flow(scope)
  OBVIOUS
<1>1. IsFiniteSet(due) /\ due \subseteq EntryIds /\ left \subseteq DOMAIN rows
  BY <1>0, FlowSides DEF Due, Left, Flowing, Leaves
<1>2. /\ {id \in due : (Entry(id).amount > 0) = TRUE} = Above(EntryAmount, due)
      /\ {id \in due : (Entry(id).amount > 0) = FALSE} = due \ Above(EntryAmount, due)
      /\ {id \in left : (rows[id].amount > 0) = TRUE} = Above(RowAmount, left)
      /\ {id \in left : (rows[id].amount > 0) = FALSE} = left \ Above(RowAmount, left)
  BY <1>1 DEF Above, EntryAmount, RowAmount
<1>3. PICK S, T, U, V : /\ S = Above(EntryAmount, due) /\ T = due \ Above(EntryAmount, due)
                        /\ U = Above(RowAmount, left) /\ V = left \ Above(RowAmount, left)
  OBVIOUS
<1>4. /\ S \in SUBSET due /\ T \in SUBSET due
      /\ U \in SUBSET DOMAIN rows /\ V \in SUBSET DOMAIN rows
  BY <1>1, <1>3 DEF Above
<1>5. /\ SumEntries(S) = SumFunctionOnSet(EntryAmount, S)
      /\ SumEntries(T) = SumFunctionOnSet(EntryAmount, T)
  BY <1>0, <1>1, <1>4, FS_Subset, DueSums
<1>6. /\ SumAmounts(rows, U) = SumFunctionOnSet(RowAmount, U)
      /\ SumAmounts(rows, V) = SumFunctionOnSet(RowAmount, V)
  BY <1>4, RowSums
<1>7. /\ flow.inflow = SumFunctionOnSet(EntryAmount, S) + SumFunctionOnSet(RowAmount, U)
      /\ flow.outflow = SumFunctionOnSet(EntryAmount, T) + SumFunctionOnSet(RowAmount, V)
      /\ flow.net = flow.inflow + flow.outflow
      /\ flow.count = Cardinality(due) + Cardinality(left)
  BY <1>0, <1>3, FlowSides
<1> QED
  BY <1>0, <1>2, <1>3, <1>5, <1>6, <1>7

\* Cash flow is that of what was delivered, and of outdated parts, however
\* often transactions were split, reshaped, deleted and categorized.
THEOREM CashFlowIsDelivered == Spec => []CashFlowAsDelivered
  BY DeliveredInvariant, CashFlowFollows, PTL
=============================================================================
