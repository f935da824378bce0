------------------------------- MODULE Ledger -------------------------------
(***************************************************************************)
(* The transactions table as syncs and the categorization pass leave it,   *)
(* and the two views that reports read: upsert_transaction and             *)
(* insert_subtransaction of db/_upsert.py, analysis/categorize.py, and     *)
(* query_transactions of mcp_server/tools.py.  On top of the two views:    *)
(* the balances of _reconcile (sources/ynab/sync.py) and the sums of       *)
(* analysis/cashflow.py.                                                   *)
(*                                                                         *)
(* A YNAB transaction may be split: a parent row and one child row for     *)
(* each part.  Every row carries a canonical category and where it is      *)
(* from: its YNAB category, a rule of the user, or the user's own choice.  *)
(*                                                                         *)
(* A sync, an ingest and the pass write in one database transaction each,  *)
(* a single step here.  What a command reads before its transaction (the   *)
(* rules, the existence of a row) may be stale when it writes.             *)
(*                                                                         *)
(* An operator whose name ends in _BUG_<what> is a plausible slip in the   *)
(* definition that follows it; the specification never uses it.            *)
(***************************************************************************)
EXTENDS Integers, FiniteSets, Sequences, Functions

CONSTANTS
    Procs,     \* processes that may run a categorization command
    Txns,      \* external ids of transactions, of whatever source
    SourceOf,  \* transaction -> source id
    Versions,  \* transaction -> the contents its source may report
    Accounts,  \* external ids of accounts
    Reported,  \* the accounts whose balance YNAB reports
    Texts,     \* payee and memo of a row: what rules match
    Cats,      \* ids of YNAB categories
    Names,     \* category names: the canonical vocabulary
    Rules,     \* rules the user may add: priority, matched texts, name
    MaxRules,  \* bound on the rules ever added
    MinPriority, \* no priority is less: integers of SQLite have 64 bits
    None       \* SQL NULL

Sources == {SourceOf[t] : t \in Txns}
AnySource == None

Rule == [priority : Int, matches : SUBSET Texts, name : Names]

\* transfer: it names the account that the money goes to or comes from.  The
\* text of a part is its own memo with the payee of its transaction.
Part == [amount : Int, category_id : Cats \cup {None}, text : Texts, transfer : BOOLEAN]
Version == [amount : Int, category_id : Cats \cup {None}, text : Texts,
            account : Accounts, transfer : BOOLEAN, cleared : BOOLEAN,
            deleted : BOOLEAN, subs : Seq(Part)]

\* The parts of a split that are not deleted add up to its amount.
ASSUME VersionsAssumption ==
    \A t \in Txns : \A v \in Versions[t] :
        /\ v \in Version
        /\ v.subs # << >> =>
              v.amount = SumFunction([n \in DOMAIN v.subs |-> v.subs[n].amount])

ASSUME ReportedAssumption == Reported \subseteq Accounts
ASSUME RulesAssumption == Rules \subseteq Rule
ASSUME PriorityAssumption ==
    MinPriority \in Int /\ \A r \in Rules : MinPriority <= r.priority
ASSUME SourceOfAssumption == SourceOf \in [Txns -> Sources] /\ None \notin Sources
ASSUME NoneAssumption ==
    /\ None \notin Names \cup Cats \cup {"ynab", "rule", "manual"}
    /\ \A t \in Txns : None \notin Versions[t]
ASSUME MaxRulesAssumption == MaxRules \in Nat

VARIABLES
    rows,      \* table transactions: <<external id, n>> -> row (n > 0: child)
    catName,   \* table categories: id -> name
    rules,     \* table category_rules, in the order of their ids
    pc,        \* what each process does next
    args,      \* the arguments of its command
    snapshot,  \* the rules its pass has read
    synced     \* history: the content last upserted (None: never)

vars == <<rows, catName, rules, pc, args, snapshot, synced>>
commands == <<pc, args, snapshot>>

-----------------------------------------------------------------------------
(***************************************************************************)
(* Table transactions.  text stands for payee and memo, which rules match. *)
(* canonical_category and category_source are the columns of migration     *)
(* 0003, both NULL in a new row.                                           *)
(***************************************************************************)
IsChild(id) == id[2] > 0
Children(table, t) == {id \in DOMAIN table : id[1] = t /\ IsChild(id)}

SumAmounts(table, S) == SumFunction([id \in S |-> table[id].amount])

TopRow(v) ==
    [amount |-> v.amount, category_id |-> v.category_id, text |-> v.text,
     account |-> v.account, transfer |-> v.transfer,
     is_split_parent |-> v.subs # << >>, deleted |-> v.deleted,
     canonical_category |-> None, category_source |-> None]

\* A child takes payee, dates and account from its parent, has its own memo
\* and transfer, and is never deleted.
insert_subtransaction_BUG_transfer_of_parent(v, n) ==
    [amount |-> v.subs[n].amount, category_id |-> v.subs[n].category_id,
     text |-> v.subs[n].text, account |-> v.account, transfer |-> v.transfer,
     is_split_parent |-> FALSE, deleted |-> FALSE,
     canonical_category |-> None, category_source |-> None]

insert_subtransaction(v, n) ==
    [amount |-> v.subs[n].amount, category_id |-> v.subs[n].category_id,
     text |-> v.subs[n].text, account |-> v.account, transfer |-> v.subs[n].transfer,
     is_split_parent |-> FALSE, deleted |-> FALSE,
     canonical_category |-> None, category_source |-> None]

\* ON CONFLICT DO UPDATE leaves the two columns of migration 0003 alone, and
\* the account: a transaction that moved to another one stays where it was.
refreshed_BUG_whole_row(old, v) == TopRow(v)

refreshed(old, v) ==
    [TopRow(v) EXCEPT !.canonical_category = old.canonical_category,
                      !.category_source = old.category_source,
                      !.account = old.account]

(***************************************************************************)
(* Children are deleted and inserted again only if the content has parts.  *)
(***************************************************************************)
upsert_transaction_BUG_keeps_children(t, v) ==
    LET new == {<<t, n>> : n \in 1..Len(v.subs)}
    IN  [id \in DOMAIN rows \cup new \cup {<<t, 0>>} |->
            IF id = <<t, 0>>
            THEN IF id \in DOMAIN rows THEN refreshed(rows[id], v) ELSE TopRow(v)
            ELSE IF id \in new THEN insert_subtransaction(v, id[2])
            ELSE rows[id]]

upsert_transaction(t, v) ==
    LET old == IF v.subs # << >> THEN Children(rows, t) ELSE {}
        new == {<<t, n>> : n \in 1..Len(v.subs)}
    IN  [id \in (DOMAIN rows \ old) \cup new \cup {<<t, 0>>} |->
            IF id = <<t, 0>>
            THEN IF id \in DOMAIN rows THEN refreshed(rows[id], v) ELSE TopRow(v)
            ELSE IF id \in new THEN insert_subtransaction(v, id[2])
            ELSE rows[id]]

-----------------------------------------------------------------------------
Init ==
    /\ rows = << >>
    /\ catName \in [Cats -> Names]
    /\ rules = << >>
    /\ pc = [p \in Procs |-> "idle"]
    /\ args = [p \in Procs |-> None]
    /\ snapshot = [p \in Procs |-> << >>]
    /\ synced = [t \in Txns |-> None]

\* A sync (or an ingest) delivers content v of transaction t.
SyncTxn(t, v) ==
    /\ rows' = upsert_transaction(t, v)
    /\ synced' = [synced EXCEPT ![t] = v]
    /\ UNCHANGED <<catName, rules, commands>>

\* A sync delivers a renamed category.
SyncCategory(c, name) ==
    /\ catName' = [catName EXCEPT ![c] = name]
    /\ UNCHANGED <<rows, rules, commands, synced>>

\* One INSERT.
add_rule(r) ==
    /\ Len(rules) < MaxRules
    /\ rules' = Append(rules, r)
    /\ UNCHANGED <<rows, catName, commands, synced>>

End(p) ==
    /\ pc' = [pc EXCEPT ![p] = "idle"]
    /\ args' = [args EXCEPT ![p] = None]
    /\ snapshot' = [snapshot EXCEPT ![p] = << >>]

-----------------------------------------------------------------------------
(***************************************************************************)
(* apply_categorization: read the rules, then one transaction of three     *)
(* UPDATEs over the rows that are not deleted and in scope.                *)
(***************************************************************************)
InScope(id, scope) == scope = AnySource \/ SourceOf[id[1]] = scope
Live(table, scope) == {id \in DOMAIN table : ~table[id].deleted /\ InScope(id, scope)}

\* UPDATE the rows in the domain of names.
assign(table, source, names) ==
    [id \in DOMAIN table |->
        IF id \in DOMAIN names
        THEN [table[id] EXCEPT !.category_source = source,
                               !.canonical_category = names[id]]
        ELSE table[id]]

\* 1. Reset all but the manual ones.
reset_rows_BUG_category_only(table, scope) ==
    [id \in DOMAIN table |->
        IF id \in Live(table, scope) /\ table[id].category_source # "manual"
        THEN [table[id] EXCEPT !.canonical_category = None]
        ELSE table[id]]

reset_rows(table, scope) ==
    LET derived == {id \in Live(table, scope) : table[id].category_source # "manual"}
    IN  assign(table, None, [id \in derived |-> None])

\* 2. Derive the name of the YNAB category.
derive_ynab(table, scope) ==
    LET named == {id \in Live(table, scope) :
                     table[id].category_source = None /\ table[id].category_id # None}
    IN  assign(table, "ynab", [id \in named |-> catName[table[id].category_id]])

\* 3. Fill the rest from the rules: list_rules orders them by priority, then
\* id, and the loop breaks at the first that matches.
Before_BUG_by_id(rs, i, j) == i < j

Before(rs, i, j) ==
    \/ rs[i].priority < rs[j].priority
    \/ rs[i].priority = rs[j].priority /\ i < j

Matching(rs, text) == {i \in DOMAIN rs : text \in rs[i].matches}

first_match(rs, text) ==
    CHOOSE i \in Matching(rs, text) :
        \A j \in Matching(rs, text) \ {i} : Before(rs, i, j)

fill_by_rules(table, scope, rs) ==
    LET matched == {id \in Live(table, scope) :
                       /\ table[id].category_source = None
                       /\ Matching(rs, table[id].text) # {}}
    IN  assign(table, "rule",
               [id \in matched |-> rs[first_match(rs, table[id].text)].name])

categorized(table, scope, rs) ==
    fill_by_rules(derive_ynab(reset_rows(table, scope), scope), scope, rs)

ReadRules(p, scope) ==
    /\ pc[p] = "idle"
    /\ pc' = [pc EXCEPT ![p] = "apply"]
    /\ args' = [args EXCEPT ![p] = scope]
    /\ snapshot' = [snapshot EXCEPT ![p] = rules]
    /\ UNCHANGED <<rows, catName, rules, synced>>

Apply(p) ==
    /\ pc[p] = "apply"
    /\ rows' = categorized(rows, args[p], snapshot[p])
    /\ End(p)
    /\ UNCHANGED <<catName, rules, synced>>

-----------------------------------------------------------------------------
(***************************************************************************)
(* set_manual_category: look the row up, then update it in a transaction.  *)
(* A row that is gone by then is not updated, and nobody notices.          *)
(***************************************************************************)
FindRow(p, id, name) ==
    /\ pc[p] = "idle"
    /\ id \in DOMAIN rows
    /\ pc' = [pc EXCEPT ![p] = "pin"]
    /\ args' = [args EXCEPT ![p] = <<id, name>>]
    /\ UNCHANGED <<rows, catName, rules, snapshot, synced>>

Pin(p) ==
    /\ pc[p] = "pin"
    /\ rows' = assign(rows, "manual", [id \in {args[p][1]} |-> args[p][2]])
    /\ End(p)
    /\ UNCHANGED <<catName, rules, synced>>

\* The process is killed, or the database stays locked.
Crash(p) ==
    /\ pc[p] # "idle"
    /\ End(p)
    /\ UNCHANGED <<rows, catName, rules, synced>>

Command(p) ==
    \/ \E scope \in Sources \cup {AnySource} : ReadRules(p, scope)
    \/ Apply(p)
    \/ \E id \in DOMAIN rows, name \in Names : FindRow(p, id, name)
    \/ Pin(p)
    \/ Crash(p)

Next ==
    \/ \E t \in Txns : \E v \in Versions[t] : SyncTxn(t, v)
    \/ \E c \in Cats, name \in Names : SyncCategory(c, name)
    \/ \E r \in Rules : add_rule(r)
    \/ \E p \in Procs : Command(p)

Spec == Init /\ [][Next]_vars

-----------------------------------------------------------------------------
(***************************************************************************)
(* The two views of query_transactions (deleted rows hidden).              *)
(***************************************************************************)
Tops == {id \in DOMAIN rows : ~IsChild(id) /\ ~rows[id].deleted}
Leaves == {id \in DOMAIN rows : ~rows[id].is_split_parent /\ ~rows[id].deleted}

-----------------------------------------------------------------------------
(***************************************************************************)
(* _reconcile compares the balance of each account of a delta, summed over *)
(* tops, with the cleared balance that YNAB reports: of the contents last  *)
(* delivered, those that are cleared and not deleted.                      *)
(***************************************************************************)
balance_BUG_over_all_rows(account) ==
    SumAmounts(rows, {id \in DOMAIN rows : ~rows[id].deleted /\ rows[id].account = account})

balance(account) == SumAmounts(rows, {id \in Tops : rows[id].account = account})

SumSynced(S) == SumFunction([t \in S |-> synced[t].amount])
Kept == {t \in Txns : synced[t] # None /\ ~synced[t].deleted}

cleared_balance(account) ==
    SumSynced({t \in Kept : synced[t].account = account /\ synced[t].cleared})

delta(account) == balance(account) - cleared_balance(account)

reconcile(accounts) ==
    IF accounts = {} THEN "n/a"
    ELSE IF \A a \in accounts : delta(a) = 0 THEN "ok" ELSE "drift"

(***************************************************************************)
(* cash_flow over one period: leaves that are no transfers, of one source  *)
(* or of all.                                                              *)
(***************************************************************************)
Flowing(scope) == {id \in Leaves : ~rows[id].transfer /\ InScope(id, scope)}

cash_flow(scope) ==
    [inflow |-> SumAmounts(rows, {id \in Flowing(scope) : rows[id].amount > 0}),
     outflow |-> SumAmounts(rows, {id \in Flowing(scope) : rows[id].amount < 0}),
     net |-> SumAmounts(rows, Flowing(scope)),
     count |-> Cardinality(Flowing(scope))]

-----------------------------------------------------------------------------
(***************************************************************************)
(* Properties                                                              *)
(***************************************************************************)

\* Rows have their columns' types, and a category has a source and vice versa.
Row == [amount : Int, category_id : Cats \cup {None}, text : Texts,
        account : Accounts, transfer : BOOLEAN,
        is_split_parent : BOOLEAN, deleted : BOOLEAN,
        canonical_category : Names \cup {None},
        category_source : {"ynab", "rule", "manual", None}]

TypeOK ==
    /\ \A id \in DOMAIN rows :
          /\ id \in Txns \X Nat
          /\ rows[id] \in Row
          /\ rows[id].category_source = None <=> rows[id].canonical_category = None
    /\ catName \in [Cats -> Names]
    /\ rules \in Seq(Rules)
    /\ Len(rules) <= MaxRules
    /\ pc \in [Procs -> {"idle", "apply", "pin"}]
    /\ snapshot \in [Procs -> Seq(Rules)]

(***************************************************************************)
(* The children of a split parent add up to its amount, however often the  *)
(* split was reshaped: children are rewritten as a whole (_upsert.py lines *)
(* 182-197), none of an earlier shape is left.                             *)
(***************************************************************************)
PartAmounts(t) ==
    [n \in {id[2] : id \in Children(rows, t)} |-> rows[<<t, n>>].amount]

SplitAddsUp ==
    \A t \in Txns :
        <<t, 0>> \in DOMAIN rows /\ rows[<<t, 0>>].is_split_parent =>
            SumFunction(PartAmounts(t)) = rows[<<t, 0>>].amount

(***************************************************************************)
(* A pass run a second time changes nothing (the docstring of              *)
(* apply_categorization), from whatever mix of manual, derived, stale and  *)
(* deleted rows, and in any scope.                                         *)
(***************************************************************************)
PassIsIdempotent ==
    \A scope \in Sources \cup {AnySource} :
        LET once == categorized(rows, scope, rules)
        IN  categorized(once, scope, rules) = once

(***************************************************************************)
(* What a row's category should be, row by row: the user's choice, else    *)
(* the name of its YNAB category, else the name of a matching rule that no *)
(* matching rule precedes, else none.                                      *)
(***************************************************************************)
RightCategory(row, canonical, rs) ==
    LET matching == {i \in DOMAIN rs : row.text \in rs[i].matches}
    IN  /\ row.category_source = "manual" => canonical = row.canonical_category
        /\ row.category_source # "manual" /\ row.category_id # None =>
              canonical = catName[row.category_id]
        /\ row.category_source # "manual" /\ row.category_id = None =>
              \/ matching = {} /\ canonical = None
              \/ \E i \in matching :
                    /\ canonical = rs[i].name
                    /\ \A j \in matching :
                          /\ rs[i].priority <= rs[j].priority
                          /\ rs[i].priority = rs[j].priority => i <= j

(***************************************************************************)
(* The three UPDATEs of a pass leave every row in scope with the right     *)
(* category for the rules it read, whatever was there before (categories   *)
(* of renamed or replaced YNAB categories, of rules outranked since), and  *)
(* every other row alone.                                                  *)
(***************************************************************************)
PassIsRight ==
    [][\A p \in Procs : Apply(p) =>
          \A id \in DOMAIN rows :
             IF id \in Live(rows, args[p])
             THEN RightCategory(rows[id], rows'[id].canonical_category, snapshot[p])
             ELSE rows'[id] = rows[id]]_vars

(***************************************************************************)
(* The user's own choice for a row that is no child survives syncs that    *)
(* change, split or delete the transaction, passes and crashes; only       *)
(* another choice replaces it.                                             *)
(***************************************************************************)
ManualSticks ==
    [][\A id \in DOMAIN rows :
          ~IsChild(id) /\ rows[id].category_source = "manual" =>
              /\ id \in DOMAIN rows'
              /\ rows'[id].category_source = "manual"
              /\ \/ rows'[id].canonical_category = rows[id].canonical_category
                 \/ \E p \in Procs : pc[p] = "pin" /\ args[p][1] = id /\ Pin(p)]_vars

(***************************************************************************)
(* Reconciliation disagrees with the repository in two ways, which         *)
(* ReconcilesCleared and EveryColumnUpdated below show: it sums rows that  *)
(* have not cleared, and a transaction that moved stays in its old         *)
(* account.  This is all that is wrong with it: however often transactions *)
(* were split, deleted and moved, a drift is the sum of the transactions   *)
(* of an account that have not cleared or were moved out of it, less those *)
(* that were moved into it.  Parts, deleted rows and categorization never  *)
(* show in it (sync.py lines 121-149).                                     *)
(***************************************************************************)
DriftExplained ==
    \A a \in Reported :
        LET At(t) == rows[<<t, 0>>].account
            extra == {t \in Kept : At(t) = a /\ (synced[t].account # a \/ ~synced[t].cleared)}
            missing == {t \in Kept : At(t) # a /\ synced[t].account = a /\ synced[t].cleared}
        IN  /\ delta(a) = SumSynced(extra) - SumSynced(missing)
            /\ extra \cup missing = {} => reconcile({a}) = "ok"

(***************************************************************************)
(* Cash flow counts what was delivered, part by part and without           *)
(* transfers: each amount once, on its side, under its source.  The only   *)
(* thing it counts besides are the parts of a split that is no split any   *)
(* more (_upsert.py lines 182-197).                                        *)
(***************************************************************************)
Entries(t) ==
    IF synced[t] = None THEN << >>
    ELSE IF synced[t].subs # << >> THEN synced[t].subs
    ELSE IF synced[t].deleted THEN << >> ELSE <<synced[t]>>

EntryIds == UNION {{t} \X DOMAIN Entries(t) : t \in Txns}
Entry(id) == Entries(id[1])[id[2]]
SumEntries(S) == SumFunction([id \in S |-> Entry(id).amount])

Due(scope) == {id \in EntryIds : ~Entry(id).transfer /\ InScope(id, scope)}

OutdatedParts == {id \in DOMAIN rows : IsChild(id) /\ synced[id[1]].subs = << >>}
Left(scope) == OutdatedParts \cap Flowing(scope)

CashFlowAsDelivered ==
    \A scope \in Sources \cup {AnySource} :
        LET Sum(in) ==
                SumEntries({id \in Due(scope) : (Entry(id).amount > 0) = in})
                  + SumAmounts(rows, {id \in Left(scope) : (rows[id].amount > 0) = in})
            flow == cash_flow(scope)
        IN  /\ flow.inflow = Sum(TRUE)
            /\ flow.outflow = Sum(FALSE)
            /\ flow.net = flow.inflow + flow.outflow
            /\ flow.count = Cardinality(Due(scope)) + Cardinality(Left(scope))

(***************************************************************************)
(* The design's promise for reports: both views have the same total.       *)
(***************************************************************************)
ViewsAgree == SumAmounts(rows, Tops) = SumAmounts(rows, Leaves)

(***************************************************************************)
(* The design's promise for syncs: to sync the same content again leaves   *)
(* the store as it was.                                                    *)
(***************************************************************************)
ResyncChangesNothing ==
    [][\A t \in Txns :
          synced[t] # None /\ SyncTxn(t, synced[t]) => UNCHANGED rows]_vars

(***************************************************************************)
(* What sync.py line 116 says of _reconcile: it compares the cleared       *)
(* balance.  So it finds no drift in an account when the transactions are  *)
(* stored in the accounts they were delivered for.                         *)
(***************************************************************************)
ReconcilesCleared ==
    (\A t \in Kept : rows[<<t, 0>>].account = synced[t].account) =>
        reconcile(Reported) = "ok"

(***************************************************************************)
(* The design's rule for upserts (section 7.4): ON CONFLICT DO UPDATE      *)
(* covers every mutable column.  So a row that a sync refreshed has every  *)
(* column as it was delivered last; the two of migration 0003 are not      *)
(* delivered.                                                              *)
(***************************************************************************)
EveryColumnUpdated ==
    \A t \in Txns :
        synced[t] # None =>
            LET row == rows[<<t, 0>>]
            IN  row = [TopRow(synced[t]) EXCEPT
                          !.canonical_category = row.canonical_category,
                          !.category_source = row.category_source]
=============================================================================
