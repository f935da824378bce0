--------------------------- MODULE StatementFiles ---------------------------
(***************************************************************************)
(* What is in a statement file and what becomes of it: the parsers of      *)
(* sources/statement/parsers, the templates, and the ids that ingest_file  *)
(* gives to rows, by which it tells a row that another file already had.   *)
(*                                                                         *)
(* A bank is external.  It books entries and lets its customer download    *)
(* those of some days in one of several formats.  A format may have texts  *)
(* of its own for an entry, and a PDF may break into several tables, an    *)
(* OFX file into several statements, of which only the first is read.      *)
(*                                                                         *)
(* StatementIngest has the steps, failures and reviews of an ingest; here  *)
(* one that succeeds is a step, and one that raises leaves the rows alone. *)
(*                                                                         *)
(* An operator whose name ends in _BUG_<what> is a plausible slip in the   *)
(* definition that follows it; the specification never uses it.            *)
(***************************************************************************)
EXTENDS Integers, FiniteSets

CONSTANTS
    Entries,    \* what the bank may book: date, amount, payee, memo
    Shown,      \* Shown[format][e]: e with the texts that a format has for it
    MaxAlike,   \* bound on how often it books the same
    Periods,    \* sets of dates that may be downloaded together
    Inverted,   \* the formats in which this bank prints amounts inverted
    Templates,  \* the templates that the user writes for this account
    NoText,     \* no payee or memo, None in the code
    Missing,    \* a cell that a row is too short for
    Garbled     \* a cell that is neither a date nor an amount

Extensions == {"csv", "ofx", "qfx", "pdf", "xls"}
Registry == {"csv", "ofx", "qfx", "pdf"}

\* layout: whether columns are names, as csv has them, or numbers, as pdf.
Template == [layout : {"names", "numbers"}, payee : BOOLEAN, memo : BOOLEAN, invert : BOOLEAN]

Contents == {Shown[format][e] : format \in Registry, e \in Entries}

ASSUME EntriesAssumption ==
    /\ IsFiniteSet(Entries) /\ MaxAlike \in Nat
    /\ \A c \in Contents :
          /\ c = [date |-> c.date, amount |-> c.amount, payee |-> c.payee, memo |-> c.memo]
          /\ c.amount \in Int
          /\ {Missing, Garbled} \cap {c.date, c.amount, c.payee, c.memo} = {}
    /\ Inverted \subseteq Registry

\* What the user has to get right: a template has a column for both texts,
\* and the sign that its format is printed with.
Layout(format) == IF format = "csv" THEN "names" ELSE "numbers"
ASSUME TemplatesAssumption ==
    /\ Templates \subseteq Template
    /\ \A t \in Templates : \A format \in {"csv", "pdf"} :
          t.payee /\ t.memo /\ (t.layout = Layout(format) => t.invert = (format \in Inverted))
\* OFX says itself what is what: its amounts are signed as booked.
ASSUME OfxAssumption == Inverted \cap {"ofx", "qfx"} = {}

VARIABLES
    booked,    \* entry -> how often the bank has booked it
    template,  \* <config_dir>/templates/<source_id>.toml, {} or {template}
    fetched,   \* history: content -> how often it was in a part that was read
    stored     \* the rows of the account: <<content, n>>, n its collision suffix

fileVars == <<booked, template, fetched, stored>>

-----------------------------------------------------------------------------
(***************************************************************************)
(* How the bank prints an entry: a text there is none of is an empty cell, *)
(* and in a table of a PDF the row just ends.                              *)
(***************************************************************************)
cells(e, format) ==
    LET c == Shown[format][e]
    IN  [date |-> c.date,
         amount |-> IF format \in Inverted THEN -c.amount ELSE c.amount,
         payee |-> c.payee,
         memo |-> IF c.memo = NoText /\ format = "pdf" THEN Missing ELSE c.memo]

\* How often each entry is in the first table or statement of a file.  A csv
\* file has one part, with all that was booked in its period.
FirstParts(period, format) ==
    LET all == [e \in Entries |-> IF e.date \in period THEN booked[e] ELSE 0]
    IN  IF format = "csv" THEN {all}
        ELSE {first \in [Entries -> 0..MaxAlike] : \A e \in Entries : first[e] <= all[e]}

(***************************************************************************)
(* The parsers, line by line.  A line that cannot be read raises, and with *)
(* it the whole file is refused.                                           *)
(***************************************************************************)
readable(line, format) ==
    /\ line.date \notin {Missing, Garbled}
    /\ line.amount \notin {Missing, Garbled}
    /\ format = "csv" => Missing \notin {line.payee, line.memo}

text(cell) == IF cell = Missing THEN NoText ELSE cell

\* _map_cells_to_transactions of pdf, and parse of csv.
mapped(line, t) ==
    [date |-> line.date,
     amount |-> IF t.invert THEN -line.amount ELSE line.amount,
     payee |-> IF t.payee THEN text(line.payee) ELSE NoText,
     memo |-> IF t.memo THEN text(line.memo) ELSE NoText]

\* No template, or columns that the file does not have, raise.
accepted(format) ==
    /\ format \in Registry
    /\ format \in {"csv", "pdf"} => \E t \in template : t.layout = Layout(format)

parsed(line, format) ==
    IF format \in {"csv", "pdf"} THEN mapped(line, CHOOSE t \in template : TRUE) ELSE line

\* row_external_id and the suffix that ingest_file counts within the file.
row_ids_BUG_no_suffix(count) == {<<content, 0>> : content \in DOMAIN count}

row_ids(count) ==
    UNION {{<<content, n>> : n \in 0..(count[content] - 1)} : content \in DOMAIN count}

-----------------------------------------------------------------------------
FilesInit ==
    /\ booked = [e \in Entries |-> 0]
    /\ template = {}
    /\ fetched = [c \in Contents |-> 0]
    /\ stored = {}

Book(e) ==
    /\ booked[e] < MaxAlike
    /\ booked' = [booked EXCEPT ![e] = @ + 1]
    /\ UNCHANGED <<template, fetched, stored>>

WriteTemplate(t) ==
    /\ template' = {t}
    /\ UNCHANGED <<booked, fetched, stored>>

(***************************************************************************)
(* The user ingests a file of which the parser reads the lines of `first', *)
(* the first table of a PDF or the first statement of an OFX file; there   *)
(* is no error if it has more.  The lines of some entries were spoilt on   *)
(* the way: the amount is unreadable, or its cell is missing.              *)
(***************************************************************************)
Lines(first) == {l \in Entries \X (1..MaxAlike) : l[2] <= first[l[1]]}

IngestFile(first, format, spoilt, harm) ==
    LET line(e) == IF e \in spoilt THEN [cells(e, format) EXCEPT !.amount = harm]
                   ELSE cells(e, format)
        row(e) == parsed(line(e), format)
        lines == Lines(first)
        count == [r \in {row(l[1]) : l \in lines} |->
                     Cardinality({l \in lines : row(l[1]) = r})]
        worded(c) == Cardinality({l \in lines : Shown[format][l[1]] = c})
    IN  /\ accepted(format)
        /\ \A l \in lines : readable(line(l[1]), format)
        /\ stored' = stored \cup row_ids(count)
        /\ fetched' = [c \in Contents |-> IF worded(c) > fetched[c] THEN worded(c)
                                          ELSE fetched[c]]
        /\ UNCHANGED <<booked, template>>

FilesNext ==
    \/ \E e \in Entries : Book(e)
    \/ \E t \in Templates : WriteTemplate(t)
    \/ \E format \in Extensions :
          /\ accepted(format)
          /\ \E period \in Periods : \E first \in FirstParts(period, format) :
                \E spoilt \in SUBSET {e \in Entries : first[e] > 0} :
                   \E harm \in {Missing, Garbled} :
                      IngestFile(first, format, spoilt, harm)

FilesSpec == FilesInit /\ [][FilesNext]_fileVars

-----------------------------------------------------------------------------
(***************************************************************************)
(* The promise for overlapping statements (SP2 design, section 8.2), as    *)
(* far as the code keeps it.  Each content is stored as often as the file  *)
(* that had it most often, in the part that is read, and never more often  *)
(* than the bank booked entries with that wording: equal entries are not   *)
(* merged, and what several files had in the same words is not stored      *)
(* again, whatever their formats, signs and columns (ingest.py lines       *)
(* 234-244, csv.py, docling_pdf.py and ofx.py).  Not promised: an entry    *)
(* that was only in a later table or statement is not stored, and one that *)
(* two formats word differently is stored in each of its wordings.         *)
(***************************************************************************)
BookedAs(c) ==
    {l \in Lines(booked) : \E format \in Registry : Shown[format][l[1]] = c}

EachEntryOnce ==
    /\ stored = UNION {{<<c, n>> : n \in 0..(fetched[c] - 1)} : c \in Contents}
    /\ \A c \in Contents : fetched[c] <= Cardinality(BookedAs(c))
=============================================================================
