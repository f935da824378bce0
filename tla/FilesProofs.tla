---------------------------- MODULE FilesProofs ----------------------------
(***************************************************************************)
(* Proofs about StatementFiles, for any entries, wordings, parts, formats  *)
(* and templates that satisfy its assumptions: what a parser makes of a    *)
(* line that it accepts is the content that the bank printed               *)
(* (ParsedAsShown), so that a file adds as many ids of a content as the    *)
(* part that is read has lines of it (RowsOfFile), whatever its format.    *)
(***************************************************************************)
EXTENDS StatementFiles, FiniteSetTheorems, TLAPS

-----------------------------------------------------------------------------
(***************************************************************************)
(* The types, and that a file has no more than was booked.                 *)
(***************************************************************************)
FilesTyped ==
    /\ booked \in [Entries -> 0..MaxAlike]
    /\ template = {} \/ \E t \in Templates : template = {t}
    /\ fetched \in [Contents -> Nat]

FilesInv == FilesTyped /\ EachEntryOnce

-----------------------------------------------------------------------------
(***************************************************************************)
(* Printing and parsing.                                                   *)
(***************************************************************************)

\* The template that is there is one of the user's, and fits the format.
LEMMA TemplateFits ==
    ASSUME FilesTyped, NEW format \in {"csv", "pdf"}, accepted(format)
    PROVE  LET t == CHOOSE x \in template : TRUE
           IN  t.payee /\ t.memo /\ t.invert = (format \in Inverted)
<1> DEFINE t == CHOOSE x \in template : TRUE
<1>1. PICK u \in template : u.layout = Layout(format)
  BY DEF accepted
<1>2. template = {u} /\ u \in Templates
  BY <1>1 DEF FilesTyped
<1>3. t = u
  BY <1>2
<1>4. u.payee /\ u.memo /\ u.invert = (format \in Inverted)
  BY <1>1, <1>2, TemplatesAssumption
<1> HIDE DEF t
<1>5. t.payee /\ t.memo /\ t.invert = (format \in Inverted)
  BY <1>3, <1>4
<1> QED
  BY <1>5 DEF t

\* Whatever the format, a line that is not spoilt is read back as it is shown.
LEMMA ParsedAsShown ==
    ASSUME FilesTyped, NEW e \in Entries, NEW format \in Extensions, accepted(format)
    PROVE  parsed(cells(e, format), format) = Shown[format][e]
<1> DEFINE line == cells(e, format)
<1>0. PICK c \in Contents : c = Shown[format][e]
  BY DEF accepted, Contents
<1>1. /\ c = [date |-> c.date, amount |-> c.amount, payee |-> c.payee, memo |-> c.memo]
      /\ c.amount \in Int
      /\ c.payee # Missing /\ c.memo # Missing
  BY EntriesAssumption
<1>2. /\ line = [date |-> line.date, amount |-> line.amount,
                 payee |-> line.payee, memo |-> line.memo]
      /\ line.date = c.date /\ line.payee = c.payee
      /\ line.amount = IF format \in Inverted THEN -c.amount ELSE c.amount
      /\ line.memo = IF c.memo = NoText /\ format = "pdf" THEN Missing ELSE c.memo
  BY <1>0 DEF cells
<1> HIDE DEF line
<1>3. CASE format \in {"csv", "pdf"}
  <2> DEFINE t == CHOOSE x \in template : TRUE
  <2>1. t.payee /\ t.memo /\ t.invert = (format \in Inverted)
    BY <1>3, TemplateFits
  <2>2. parsed(line, format) = mapped(line, t)
    BY <1>3 DEF parsed
  <2> HIDE DEF t
  <2>3. mapped(line, t) =
          [date |-> line.date,
           amount |-> IF format \in Inverted THEN -line.amount ELSE line.amount,
           payee |-> text(line.payee), memo |-> text(line.memo)]
    BY <2>1 DEF mapped
  <2>4. (IF format \in Inverted THEN -line.amount ELSE line.amount) = c.amount
    BY <1>1, <1>2
  <2>5. line.date = c.date /\ text(line.payee) = c.payee /\ text(line.memo) = c.memo
    BY <1>1, <1>2 DEF text
  <2> QED
    BY <1>0, <1>1, <2>2, <2>3, <2>4, <2>5 DEF line
<1>4. CASE format \notin {"csv", "pdf"}
  <2>1. format \in {"ofx", "qfx"}
    BY <1>4 DEF accepted, Registry
  <2>2. format \notin Inverted /\ format # "pdf"
    BY <2>1, OfxAssumption
  <2>3. line = c
    BY <1>1, <1>2, <2>2
  <2> QED
    BY <1>0, <1>4, <2>3 DEF parsed, line
<1> QED
  BY <1>3, <1>4

-----------------------------------------------------------------------------
(***************************************************************************)
(* The lines of a file.                                                    *)
(***************************************************************************)
LEMMA LinesFinite ==
    ASSUME NEW times PROVE Lines(times) \subseteq Entries \X (1..MaxAlike) /\ IsFiniteSet(Lines(times))
<1>1. IsFiniteSet(1..MaxAlike)
  BY EntriesAssumption, FS_Interval
<1>2. IsFiniteSet(Entries \X (1..MaxAlike))
  BY <1>1, EntriesAssumption, FS_Product
<1>3. Lines(times) \subseteq Entries \X (1..MaxAlike)
  BY DEF Lines
<1> QED
  BY <1>2, <1>3, FS_Subset

Count(first, format, c) == Cardinality({l \in Lines(first) : Shown[format][l[1]] = c})

\* There are finitely many, and none that the bank did not book.
LEMMA LinesAreBooked ==
    ASSUME FilesTyped, NEW first, \A e \in Entries : first[e] <= booked[e],
           first \in [Entries -> 0..MaxAlike],
           NEW format \in Registry, NEW c
    PROVE  /\ Count(first, format, c) \in Nat
           /\ Count(first, format, c) <= Cardinality(BookedAs(c))
<1> DEFINE shown == {l \in Lines(first) : Shown[format][l[1]] = c}
<1>1. IsFiniteSet(Lines(booked))
  BY LinesFinite
<1>2. BookedAs(c) \subseteq Lines(booked)
  BY DEF BookedAs
<1>3. shown \subseteq BookedAs(c)
  <2> SUFFICES ASSUME NEW l \in shown PROVE l \in BookedAs(c)
    OBVIOUS
  <2>1. l \in Entries \X (1..MaxAlike) /\ l[2] <= first[l[1]] /\ Shown[format][l[1]] = c
    BY DEF Lines
  <2>2. l[1] \in Entries /\ l[2] \in Nat
    BY <2>1
  <2>3. first[l[1]] \in Int /\ booked[l[1]] \in Int /\ first[l[1]] <= booked[l[1]]
    BY <2>2 DEF FilesTyped
  <2>4. l[2] <= booked[l[1]]
    BY <2>1, <2>2, <2>3
  <2> QED
    BY <2>1, <2>4 DEF BookedAs, Lines
<1> HIDE DEF shown
<1>4. IsFiniteSet(BookedAs(c))
  BY <1>1, <1>2, FS_Subset
<1>5. IsFiniteSet(shown) /\ Cardinality(shown) <= Cardinality(BookedAs(c))
  BY <1>3, <1>4, FS_Subset
<1>6. Cardinality(shown) \in Nat
  BY <1>5, FS_CardinalityType
<1> QED
  BY <1>5, <1>6 DEF Count, shown

-----------------------------------------------------------------------------
(***************************************************************************)
(* An ingest.                                                              *)
(***************************************************************************)
Ids(times) == UNION {{<<c, n>> : n \in 0..(times[c] - 1)} : c \in DOMAIN times}

\* A file adds an id for each line of a content that is read.
LEMMA RowsOfFile ==
    ASSUME FilesTyped, NEW first, NEW format \in Extensions, NEW spoilt \in SUBSET Entries,
           NEW harm \in {Missing, Garbled},
           IngestFile(first, format, spoilt, harm)
    PROVE  \E shown \in SUBSET Contents :
              /\ stored' = stored \cup Ids([c \in shown |-> Count(first, format, c)])
              /\ \A c \in Contents \ shown : {l \in Lines(first) : Shown[format][l[1]] = c} = {}
<1> DEFINE line(e) == IF e \in spoilt THEN [cells(e, format) EXCEPT !.amount = harm]
                      ELSE cells(e, format)
           row(e) == parsed(line(e), format)
           lines == Lines(first)
           count == [r \in {row(l[1]) : l \in lines} |->
                        Cardinality({l \in lines : row(l[1]) = r})]
           shown == {Shown[format][l[1]] : l \in lines}
<1>1. /\ accepted(format)
      /\ \A l \in lines : readable(line(l[1]), format)
      /\ stored' = stored \cup row_ids(count)
  BY DEF IngestFile
<1>2. \A l \in lines : l[1] \in Entries
  BY DEF Lines
\* No line was spoilt, or the file would have been refused.
<1>3. \A l \in lines : row(l[1]) = Shown[format][l[1]]
  <2> SUFFICES ASSUME NEW l \in lines PROVE row(l[1]) = Shown[format][l[1]]
    OBVIOUS
  <2>1. PICK e \in Entries : e = l[1]
    BY <1>2
  <2>2. e \notin spoilt
    <3>1. [cells(e, format) EXCEPT !.amount = harm].amount = harm
      BY DEF cells
    <3>2. e \in spoilt => line(e).amount = harm
      BY <3>1
    <3>3. line(e).amount \notin {Missing, Garbled}
      BY <1>1, <2>1 DEF readable
    <3> QED
      BY <3>2, <3>3
  <2>3. row(e) = parsed(cells(e, format), format)
    BY <2>2
  <2> HIDE DEF row
  <2> QED
    BY <1>1, <2>1, <2>3, ParsedAsShown
<1> HIDE DEF lines, row
<1>4. {row(l[1]) : l \in lines} = shown
  BY <1>3
<1>5. \A r : {l \in lines : row(l[1]) = r} = {l \in lines : Shown[format][l[1]] = r}
  BY <1>3
<1>6. count = [r \in shown |-> Count(first, format, r)]
  <2> DEFINE size(r) == Cardinality({l \in lines : row(l[1]) = r})
  <2>1. \A r : size(r) = Count(first, format, r)
    BY <1>5 DEF Count, lines
  <2>2. count = [r \in {row(l[1]) : l \in lines} |-> size(r)]
    OBVIOUS
  <2> HIDE DEF size, count, shown
  <2>3. count = [r \in shown |-> size(r)]
    BY <1>4, <2>2
  <2> QED
    BY <2>1, <2>3
<1> HIDE DEF count
<1>7. row_ids(count) = Ids(count)
  BY DEF row_ids, Ids
<1>8. shown \in SUBSET Contents
  BY <1>1, <1>2 DEF accepted, Contents
<1>9. \A c \in Contents \ shown : {l \in lines : Shown[format][l[1]] = c} = {}
  OBVIOUS
<1> HIDE DEF shown
<1> QED
  BY <1>1, <1>6, <1>7, <1>8, <1>9 DEF lines

\* What is read of a file was booked.
LEMMA PartOfBooked ==
    ASSUME FilesTyped, NEW period, NEW format, NEW first \in FirstParts(period, format)
    PROVE  first \in [Entries -> 0..MaxAlike] /\ \A e \in Entries : first[e] <= booked[e]
<1> DEFINE all == [e \in Entries |-> IF e.date \in period THEN booked[e] ELSE 0]
<1>1. all \in [Entries -> 0..MaxAlike] /\ \A e \in Entries : all[e] <= booked[e]
  BY EntriesAssumption DEF FilesTyped
<1>2. CASE first = all
  BY <1>1, <1>2
<1>3. CASE first \in [Entries -> 0..MaxAlike] /\ \A e \in Entries : first[e] <= all[e]
  <2> HIDE DEF all
  <2> SUFFICES ASSUME NEW e \in Entries PROVE first[e] <= booked[e]
    BY <1>3
  <2> QED
    BY <1>1, <1>3 DEF FilesTyped
<1> QED
  BY <1>2, <1>3 DEF FirstParts

\* Entries that are booked later do not take a line away.
LEMMA BookKeeps ==
    ASSUME FilesTyped, NEW e \in Entries, Book(e), NEW c
    PROVE  Cardinality(BookedAs(c)) <= Cardinality(BookedAs(c)')
           /\ Cardinality(BookedAs(c)) \in Nat /\ Cardinality(BookedAs(c)') \in Nat
<1>1. BookedAs(c) \subseteq BookedAs(c)'
  <2> SUFFICES ASSUME NEW l \in BookedAs(c) PROVE l \in BookedAs(c)'
    OBVIOUS
  <2>1. /\ l \in Entries \X (1..MaxAlike) /\ l[2] <= booked[l[1]]
        /\ \E format \in Registry : Shown[format][l[1]] = c
    BY DEF BookedAs, Lines
  <2>2. booked'[l[1]] = booked[l[1]] \/ booked'[l[1]] = booked[l[1]] + 1
    BY <2>1 DEF Book, FilesTyped
  <2>3. booked[l[1]] \in Int /\ l[2] \in Int
    BY <2>1 DEF FilesTyped
  <2>4. l[2] <= booked'[l[1]]
    BY <2>1, <2>2, <2>3
  <2> QED
    BY <2>1, <2>4 DEF BookedAs, Lines
<1>2. IsFiniteSet(BookedAs(c)')
  <2>1. BookedAs(c)' \subseteq Lines(booked')
    BY DEF BookedAs, Lines
  <2>2. IsFiniteSet(Lines(booked'))
    BY LinesFinite
  <2> QED
    BY <2>1, <2>2, FS_Subset
<1>3. IsFiniteSet(BookedAs(c)) /\ Cardinality(BookedAs(c)) <= Cardinality(BookedAs(c)')
  BY <1>1, <1>2, FS_Subset
<1> QED
  BY <1>2, <1>3, FS_CardinalityType

LEMMA FilesStep == FilesInv /\ [FilesNext]_fileVars => FilesInv'
<1> SUFFICES ASSUME FilesInv, [FilesNext]_fileVars PROVE FilesInv'
  OBVIOUS
<1> USE DEF FilesInv
<1>1. CASE UNCHANGED fileVars
  BY <1>1 DEF fileVars, FilesTyped, EachEntryOnce, BookedAs, Lines
<1>2. ASSUME NEW e \in Entries, Book(e)
      PROVE  FilesInv'
  <2>1. FilesTyped'
    BY <1>2, EntriesAssumption DEF Book, FilesTyped
  <2>2. ASSUME NEW c \in Contents PROVE fetched'[c] <= Cardinality(BookedAs(c)')
    <3>1. fetched'[c] = fetched[c] /\ fetched[c] \in Nat /\ fetched[c] <= Cardinality(BookedAs(c))
      BY <1>2, <2>2 DEF Book, FilesTyped, EachEntryOnce
    <3>2. /\ Cardinality(BookedAs(c)) <= Cardinality(BookedAs(c)')
          /\ Cardinality(BookedAs(c)) \in Nat /\ Cardinality(BookedAs(c)') \in Nat
      BY <1>2, BookKeeps
    <3> QED
      BY <3>1, <3>2
  <2>3. stored' = UNION {{<<c, n>> : n \in 0..(fetched'[c] - 1)} : c \in Contents}
    BY <1>2 DEF Book, EachEntryOnce
  <2> QED
    BY <2>1, <2>2, <2>3 DEF EachEntryOnce
<1>3. ASSUME NEW t \in Templates, WriteTemplate(t)
      PROVE  FilesInv'
  BY <1>3 DEF WriteTemplate, FilesTyped, EachEntryOnce, BookedAs, Lines
<1>4. ASSUME NEW format \in Extensions, NEW period \in Periods,
             NEW first \in FirstParts(period, format),
             NEW spoilt \in SUBSET Entries, NEW harm \in {Missing, Garbled},
             IngestFile(first, format, spoilt, harm)
      PROVE  FilesInv'
  <2> DEFINE count(c) == Count(first, format, c)
  <2>1. first \in [Entries -> 0..MaxAlike] /\ \A e \in Entries : first[e] <= booked[e]
    BY PartOfBooked
  <2>2. format \in Registry
    BY <1>4 DEF IngestFile, accepted
  <2>3. ASSUME NEW c PROVE count(c) \in Nat /\ count(c) <= Cardinality(BookedAs(c))
    BY <2>1, <2>2, LinesAreBooked
  <2>4. fetched' = [c \in Contents |-> IF count(c) > fetched[c] THEN count(c) ELSE fetched[c]]
    BY <1>4 DEF IngestFile, Count
  <2>5. UNCHANGED <<booked, template>>
    BY <1>4 DEF IngestFile
  <2>6. PICK shown \in SUBSET Contents :
           /\ stored' = stored \cup Ids([c \in shown |-> count(c)])
           /\ \A c \in Contents \ shown : {l \in Lines(first) : Shown[format][l[1]] = c} = {}
    BY <1>4, RowsOfFile
  <2>7. ASSUME NEW c \in Contents \ shown PROVE count(c) = 0
    BY <2>6, <2>7, FS_EmptySet DEF Count
  <2> HIDE DEF count
  <2>8. FilesTyped'
    <3>1. fetched' \in [Contents -> Nat]
      BY <2>3, <2>4 DEF FilesTyped
    <3> QED
      BY <2>5, <3>1 DEF FilesTyped
  <2>9. ASSUME NEW c \in Contents PROVE fetched'[c] <= Cardinality(BookedAs(c)')
    <3>1. BookedAs(c)' = BookedAs(c)
      BY <2>5 DEF BookedAs, Lines
    <3>2. fetched[c] <= Cardinality(BookedAs(c))
      BY DEF EachEntryOnce
    <3> QED
      BY <2>3, <2>4, <3>1, <3>2
  <2>10. stored' = UNION {{<<c, n>> : n \in 0..(fetched'[c] - 1)} : c \in Contents}
    <3>1. ASSUME NEW c \in Contents
          PROVE  fetched[c] \in Nat /\ count(c) \in Nat /\ fetched'[c] \in Nat
                 /\ fetched'[c] = (IF count(c) > fetched[c] THEN count(c) ELSE fetched[c])
      BY <2>3, <2>4 DEF FilesTyped
    <3>2. ASSUME NEW c \in Contents, NEW n \in Nat
          PROVE  (n \in 0..(fetched'[c] - 1))
                 <=> (n \in 0..(fetched[c] - 1) \/ (c \in shown /\ n \in 0..(count(c) - 1)))
      BY <3>1, <2>7
    <3>3. Ids([c \in shown |-> count(c)]) = UNION {{<<c, n>> : n \in 0..(count(c) - 1)} : c \in shown}
      BY DEF Ids
    <3>4. stored = UNION {{<<c, n>> : n \in 0..(fetched[c] - 1)} : c \in Contents}
      BY DEF EachEntryOnce
    <3>5. ASSUME NEW x PROVE x \in stored' <=>
                x \in UNION {{<<c, n>> : n \in 0..(fetched'[c] - 1)} : c \in Contents}
      <4>1. x \in stored <=> \E c \in Contents : \E n \in Nat : x = <<c, n>> /\ n \in 0..(fetched[c] - 1)
        BY <3>1, <3>4
      <4>2. x \in UNION {{<<c, n>> : n \in 0..(count(c) - 1)} : c \in shown}
            <=> \E c \in Contents : \E n \in Nat : x = <<c, n>> /\ c \in shown /\ n \in 0..(count(c) - 1)
        BY <3>1
      <4>3. x \in UNION {{<<c, n>> : n \in 0..(fetched'[c] - 1)} : c \in Contents}
            <=> \E c \in Contents : \E n \in Nat : x = <<c, n>> /\ n \in 0..(fetched'[c] - 1)
        BY <3>1
      <4> QED
        BY <2>6, <3>2, <3>3, <4>1, <4>2, <4>3
    <3> QED
      BY <3>5
  <2> QED
    BY <2>8, <2>9, <2>10 DEF EachEntryOnce
<1> QED
  BY <1>1, <1>2, <1>3, <1>4 DEF FilesNext

(***************************************************************************)
(* In every state each content is stored as often as the file that had it  *)
(* most often in the part that its parser reads, and not more often than   *)
(* the bank booked it in those words: the ids of ingest.py lines 234-244   *)
(* neither merge equal entries nor count one twice, in whatever order      *)
(* overlapping files come, with any format, sign and template that the     *)
(* assumptions allow.  Entries that no parser reads, and one entry worded  *)
(* in two ways, are outside of it, as they are outside of the property.    *)
(***************************************************************************)
THEOREM EntriesOnce == FilesSpec => []EachEntryOnce
<1>1. FilesInit => FilesInv
  <2> SUFFICES ASSUME FilesInit PROVE FilesInv
    OBVIOUS
  <2>1. FilesTyped
    BY EntriesAssumption DEF FilesInit, FilesTyped
  <2>2. ASSUME NEW c \in Contents PROVE fetched[c] = 0 /\ Cardinality(BookedAs(c)) \in Nat
    <3>1. BookedAs(c) \subseteq Lines(booked)
      BY DEF BookedAs
    <3>2. IsFiniteSet(BookedAs(c))
      BY <3>1, LinesFinite, FS_Subset
    <3> QED
      BY <3>2, FS_CardinalityType DEF FilesInit
  <2>3. stored = UNION {{<<c, n>> : n \in 0..(fetched[c] - 1)} : c \in Contents}
    BY <2>2 DEF FilesInit
  <2> QED
    BY <2>1, <2>2, <2>3 DEF FilesInv, EachEntryOnce
<1>2. FilesInv /\ [FilesNext]_fileVars => FilesInv'
  BY FilesStep
<1>3. FilesInv => EachEntryOnce
  BY DEF FilesInv
<1> QED
  BY <1>1, <1>2, <1>3, PTL DEF FilesSpec
=============================================================================
