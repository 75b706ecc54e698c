------------------------------ MODULE FleetFile ------------------------------
(***************************************************************************)
(* Reading the list of the phones of a campaign: a file that comes from a  *)
(* spreadsheet (lib/csv.ts).  A text is a sequence of characters; those    *)
(* that mean something are the separators, the quote and the end of line,  *)
(* "t" and "u" are letters.  The header of the column of tags is "t".      *)
(***************************************************************************)
EXTENDS Integers, SequencesExt

CONSTANTS
    Headers,        \* cells of the first line of the spreadsheet
    Cells,          \* cells of the others
    Columns,        \* of the spreadsheet
    Lines           \* of the spreadsheet, without the first

VARIABLES
    table,      \* the cells of the spreadsheet, line by line
    separator,  \* the one it writes
    read        \* what the tool makes of its file

fileVars == <<table, separator, read>>

\* DELIMITERS, in the order of the code
DELIMITERS == <<";", ",", "tab">>
Letters == {"t", "u"}
Marks == {"quote", "line", "blank"} \cup ToSet(DELIMITERS)

ASSUME FileAssumption ==
    /\ Headers \subseteq Seq(Letters) /\ Cells \subseteq Seq(Letters \cup Marks)
    /\ Columns \in Nat \ {0} /\ Lines \in Nat \ {0}

-----------------------------------------------------------------------------
(* The code: detectDelimiter, parseDelimited, parseFleetCsv *)

Quotes(text, i) == Cardinality({k \in 1 .. i - 1 : text[k] = "quote"})

\* The occurrences of a separator out of the quotes of the first line.
Count(text, d) ==
    LET end == SelectInSeq(text, LAMBDA c : c = "line")
        first == IF end = 0 THEN Len(text) ELSE end - 1
    IN  Cardinality({i \in 1..first : text[i] = d /\ Quotes(text, i) % 2 = 0})

\* The first of the list that has the most.
detectDelimiter(text) ==
    CHOOSE d \in ToSet(DELIMITERS) :
        \A e \in ToSet(DELIMITERS) :
            \/ Count(text, e) < Count(text, d)
            \/ Count(text, e) = Count(text, d)
               /\ SelectInSeq(DELIMITERS, LAMBDA x : x = d) <= SelectInSeq(DELIMITERS, LAMBDA x : x = e)

Start == [rows |-> <<>>, row |-> <<>>, field |-> <<>>, quoted |-> FALSE, skip |-> FALSE]
Put(st, c) == [st EXCEPT !.field = Append(@, c)]
EndField(st) == [st EXCEPT !.row = Append(@, st.field), !.field = <<>>]
EndRow(st) == [EndField(st) EXCEPT !.rows = Append(@, Append(st.row, st.field)), !.row = <<>>]

\* Mutant: a quote always closes them.
InQuotesOnce(st, c, next) == IF c # "quote" THEN Put(st, c) ELSE [st EXCEPT !.quoted = FALSE]

\* One character in quotes: a doubled quote is one, a single one closes them.
InQuotes(st, c, next) ==
    IF c # "quote" THEN Put(st, c)
    ELSE IF next = "quote" THEN [Put(st, c) EXCEPT !.skip = TRUE]
    ELSE [st EXCEPT !.quoted = FALSE]

OutOfQuotes(st, c, d) ==
    IF c = "quote" THEN [st EXCEPT !.quoted = TRUE]
    ELSE IF c = d THEN EndField(st)
    ELSE IF c = "line" THEN EndRow(st)
    ELSE Put(st, c)

parseDelimited(text, d) ==
    LET after[i \in 0..Len(text)] ==
            IF i = 0 THEN Start
            ELSE LET st == after[i - 1] IN
                 IF st.skip THEN [st EXCEPT !.skip = FALSE]
                 ELSE IF st.quoted
                      THEN InQuotes(st, text[i], IF i < Len(text) THEN text[i + 1] ELSE "end")
                      ELSE OutOfQuotes(st, text[i], d)
        end == after[Len(text)]
    IN  IF end.field # <<>> \/ end.row # <<>> THEN EndRow(end).rows ELSE end.rows

\* String.trim, of the text and of a cell: a tab is a blank.
Blank(c) == c \in {"blank", "tab", "line"}
Trim(s) ==
    LET solid == {i \in DOMAIN s : ~Blank(s[i])} IN
    IF solid = {} THEN <<>>
    ELSE SubSeq(s, CHOOSE i \in solid : \A k \in solid : i <= k,
                   CHOOSE i \in solid : \A k \in solid : k <= i)

\* The lines that hold something, cut by the separator that was guessed.
Filled(row) == \E i \in DOMAIN row : Trim(row[i]) # <<>>
CutFile(text) == SelectSeq(parseDelimited(Trim(text), detectDelimiter(Trim(text))), Filled)

\* A header that names the column of tags, a tag of letters; two lines with one tag,
\* or a line without, are refused.
TagColumn(rows) == {i \in DOMAIN rows[1] : Trim(rows[1][i]) = <<"t">>}
TagOf(rows, n) ==
    LET found == {i \in TagColumn(rows) : i <= Len(rows[n]) /\ Trim(rows[n][i]) # <<>>} IN
    IF found = {} THEN <<>> ELSE Trim(rows[n][CHOOSE i \in found : \A k \in found : k <= i])
Valid(rows) ==
    /\ rows # <<>> /\ TagColumn(rows) # {} /\ Len(rows) > 1
    /\ \A n \in 2..Len(rows) :
        /\ TagOf(rows, n) # <<>> /\ ToSet(TagOf(rows, n)) \subseteq Letters
        /\ \A m \in 2 .. n - 1 : TagOf(rows, m) # TagOf(rows, n)

\* The tags, each with the number the messages give to its line.
TagsOf(rows) ==
    IF Valid(rows) THEN [n \in 1 .. Len(rows) - 1 |-> TagOf(rows, n + 1)] ELSE <<>>
parseFleetCsv(text) == TagsOf(CutFile(text))

-----------------------------------------------------------------------------
(* The spreadsheet, and the reading of its file *)

\* A cell with a mark of the format is written in quotes, its quotes doubled.
Written(cell, d) ==
    IF ToSet(cell) \cap {"quote", "line", d} = {} THEN cell
    ELSE <<"quote">> \o FlattenSeq([i \in DOMAIN cell |->
             IF cell[i] = "quote" THEN <<"quote", "quote">> ELSE <<cell[i]>>]) \o <<"quote">>

Joined(parts, mark) == Tail(FlattenSeq([i \in DOMAIN parts |-> <<mark>> \o parts[i]]))

Export(t, d) ==
    Joined([n \in DOMAIN t |-> Joined([i \in DOMAIN t[n] |-> Written(t[n][i], d)], d)], "line")

FileInit ==
    /\ \E header \in [1..Columns -> Headers], rows \in [1..Lines -> [1..Columns -> Cells]] :
           table = <<header>> \o rows
    /\ separator \in ToSet(DELIMITERS)
    /\ read = [done |-> FALSE, tags |-> <<>>]

ReadFleet ==
    /\ ~read.done
    /\ read' = [done |-> TRUE, tags |-> parseFleetCsv(Export(table, separator))]
    /\ UNCHANGED <<table, separator>>

FileSpec == FileInit /\ [][ReadFleet]_fileVars

FileTypeOK ==
    /\ Len(table) = Lines + 1 /\ \A n \in DOMAIN table : table[n] \in Seq(Seq(Letters \cup Marks))
    /\ separator \in ToSet(DELIMITERS)
    /\ read.done \in BOOLEAN /\ \A n \in DOMAIN read.tags : read.tags[n] \in Seq(Letters)

-----------------------------------------------------------------------------
(* Properties *)

\* A tab at the start of the text is a blank the reader drops with the cell before it.
KeepsColumns == separator = "tab" => table[1][1] # <<>>

\* Whatever the cells hold (separators, quotes, ends of line), the tool finds in the
\* file the tags of the spreadsheet, or refuses what the spreadsheet itself does not
\* allow.
TagsAsWritten == read.done /\ KeepsColumns => read.tags = TagsOf(SelectSeq(table, Filled))

FileInv == FileTypeOK /\ TagsAsWritten

-----------------------------------------------------------------------------
(* Expected of the code, and not held by it *)

\* So it is whatever the separator.
TagsAlwaysAsWritten == read.done => read.tags = TagsOf(SelectSeq(table, Filled))

\* The line given with a tag is the one of the file, its header included.
LineOfTheFile == \A n \in DOMAIN read.tags : TagOf(table, n + 1) = read.tags[n]
=============================================================================
