----------------------------- MODULE Containers -----------------------------
(***************************************************************************)
(* The containers a report arrives in (fe/src/spreadsheet-reader.ts): text *)
(* of separated cells, a table of an HTML page, and the shared strings of  *)
(* a .xls workbook. For each a writer puts down one thing after another    *)
(* the way the format allows, and remembers what it meant; the reader is   *)
(* the code's. A file may end after any step.                              *)
(***************************************************************************)
EXTENDS Integers, SequencesExt

CONSTANTS
  Cells,     \* what a cell of separated text may hold: sequences of characters
  MaxCells,  \* bound on the cells of such a text
  Width,     \* columns of an HTML table
  Spans,     \* what colspan and rowspan may be
  MaxRows,   \* bound on the rows of an HTML table
  Strings,   \* shared strings: sequences of characters
  MaxTokens  \* bound on the tokens of a string table

VARIABLES
  text, grid, line, sep, newline,  \* separated cells: the text; what it means
  read, carried, placed, ragged,   \* a table: what is read; where cells stand
  size, strings, written, rest     \* shared strings: what is read; what was meant

csvVars    == <<text, grid, line, sep, newline>>
tableVars  == <<read, carried, placed, ragged>>
stringVars == <<size, strings, written, rest>>

ASSUME ContainersAssumption ==
  /\ {MaxCells, Width, MaxRows, MaxTokens} \subseteq Nat /\ Spans \subseteq Nat \ {0}
  /\ \A c \in Cells \cup Strings : c \in Seq(ToSet(c))

----------------------------------------------------------------------------
(* Separated cells.                                                        *)
Separators == {",", ";", "tab"}
Special    == Separators \cup {"quote", "LF", "CR"}

CsvInit ==
  /\ text = <<>> /\ grid = <<>> /\ line = <<>>
  /\ sep \in Separators /\ newline \in {<<"LF">>, <<"CR", "LF">>}

Escaped(cell) == FlattenSeq([i \in DOMAIN cell |->
                   IF cell[i] = "quote" THEN <<"quote", "quote">> ELSE <<cell[i]>>])

(* A cell is put in quotes when it must be, and may be at any time.        *)
WriteCell(cell, quoted) ==
  /\ Len(FlattenSeq(grid)) + Len(line) < MaxCells
  /\ quoted \/ ToSet(cell) \cap Special = {}
  /\ text' = text \o (IF line = <<>> THEN <<>> ELSE <<sep>>)
                  \o (IF quoted THEN <<"quote">> \o Escaped(cell) \o <<"quote">> ELSE cell)
  /\ line' = Append(line, cell)
  /\ UNCHANGED <<grid, sep, newline>>
EndLine ==
  /\ line # <<>> /\ grid' = Append(grid, line) /\ line' = <<>>
  /\ text' = text \o newline /\ UNCHANGED <<sep, newline>>

(* parseCSV. An empty cell is a hole, which <<>> stands for.               *)
PushField(a) == [a EXCEPT !.row = Append(@, a.field), !.field = <<>>]
PushRow(a) ==
  LET b == PushField(a) IN [b EXCEPT !.rows = Append(@, b.row), !.row = <<>>]

(* Bug: a quote ends the cell also when another follows it.                *)
BugChar(s, a, i) ==
  LET ch == s[i] IN
  CASE a.skip                           -> [a EXCEPT !.skip = FALSE]
    [] ~a.skip /\ a.quoted /\ ch = "quote" -> [a EXCEPT !.quoted = FALSE]
    [] ~a.skip /\ a.quoted /\ ch # "quote" -> [a EXCEPT !.field = Append(@, ch)]
    [] ~a.skip /\ ~a.quoted ->
         CASE ch = "quote"       -> [a EXCEPT !.quoted = TRUE]
           [] ch \in Separators  -> PushField(a)
           [] ch = "LF"          -> PushRow(a)
           [] ch = "CR"          -> a
           [] ch \notin Special  -> [a EXCEPT !.field = Append(@, ch)]

(* One turn of the loop, at character i of s.                              *)
Char(s, a, i) ==
  LET ch   == s[i]
      twice == i < Len(s) /\ s[i + 1] = "quote"
  IN CASE a.skip -> [a EXCEPT !.skip = FALSE]
       [] ~a.skip /\ a.quoted /\ ch = "quote" /\ twice ->
            [a EXCEPT !.field = Append(@, ch), !.skip = TRUE]
       [] ~a.skip /\ a.quoted /\ ch = "quote" /\ ~twice -> [a EXCEPT !.quoted = FALSE]
       [] ~a.skip /\ a.quoted /\ ch # "quote" -> [a EXCEPT !.field = Append(@, ch)]
       [] ~a.skip /\ ~a.quoted ->
            CASE ch = "quote"       -> [a EXCEPT !.quoted = TRUE]
              [] ch \in Separators  -> PushField(a)
              [] ch = "LF"          -> PushRow(a)
              [] ch = "CR"          -> a
              [] ch \notin Special  -> [a EXCEPT !.field = Append(@, ch)]

parseCSV(s) ==
  LET loop[i \in 0..Len(s)] ==
        IF i = 0 THEN [rows |-> <<>>, row |-> <<>>, field |-> <<>>, quoted |-> FALSE,
                       skip |-> FALSE]
        ELSE Char(s, loop[i - 1], i)
      end == loop[Len(s)]
  IN IF end.field # <<>> \/ end.row # <<>> THEN PushRow(end).rows ELSE end.rows

----------------------------------------------------------------------------
(* A table of an HTML page.                                                *)
Hole    == <<>>
NoCarry == [v |-> Hole, left |-> 0]

TableInit ==
  /\ read = <<>> /\ carried = [c \in 1..Width |-> NoCarry] /\ placed = {} /\ ragged = FALSE

(* The reader: what is carried from above comes before the next cell.      *)
fillCarried(a) ==
  LET stop == Min({c \in a.column..(Width + 1) : c = Width + 1 \/ a.carried[c].left = 0})
      down == a.column..(stop - 1)
  IN [row     |-> [c \in 1..Width |-> IF c \in down THEN a.carried[c].v ELSE a.row[c]],
      carried |-> [c \in 1..Width |-> IF c \in down THEN [a.carried[c] EXCEPT !.left = @ - 1]
                                      ELSE a.carried[c]],
      column  |-> stop]

(* Bug: what a cell carries down is forgotten under its first column.      *)
BugTakeCell(a, cell) ==
  LET b     == fillCarried(a)
      over  == b.column..(b.column + cell.across - 1)
      v(c)  == IF c = b.column THEN cell.v ELSE Hole
  IN [row     |-> [c \in 1..Width |-> IF c \in over THEN v(c) ELSE b.row[c]],
      carried |-> [c \in 1..Width |-> IF c = b.column /\ cell.down > 1
                                      THEN [v |-> v(c), left |-> cell.down - 1]
                                      ELSE b.carried[c]],
      column  |-> b.column + cell.across]
TakeCell(a, cell) ==
  LET b     == fillCarried(a)
      over  == b.column..(b.column + cell.across - 1)
      v(c)  == IF c = b.column THEN cell.v ELSE Hole  \* an amount is read once
  IN [row     |-> [c \in 1..Width |-> IF c \in over THEN v(c) ELSE b.row[c]],
      carried |-> [c \in 1..Width |-> IF c \in over /\ cell.down > 1
                                      THEN [v |-> v(c), left |-> cell.down - 1]
                                      ELSE b.carried[c]],
      column  |-> b.column + cell.across]

(* Where a browser puts the cells of the next row: each in the first       *)
(* column that no cell from above covers.                                  *)
Covers(p, r, c) == r \in p.row..(p.row + p.down - 1) /\ c \in p.col..(p.col + p.across - 1)
Free(r) == {c \in 1..Width : \A p \in placed : ~Covers(p, r, c)}
Place(a, cell) ==
  LET r  == Len(read) + 1
      at == Min((Free(r) \cap a.column..Width) \cup {Max({a.column, Width + 1})})
  IN [column |-> at + cell.across,
      fits   |-> a.fits /\ at..(at + cell.across - 1) \subseteq Free(r),
      cells  |-> a.cells \cup {[row |-> r, col |-> at, across |-> cell.across,
                                down |-> cell.down, v |-> cell.v]}]

(* One turn of htmlRows. A row may stop early. It is `ragged` when it      *)
(* stops before a column something is carried into, and the table ends.    *)
TableRow(cells) ==
  LET stands == FoldLeft(Place, [column |-> 1, fits |-> TRUE, cells |-> placed], cells)
      end    == fillCarried(FoldLeft(TakeCell,
                  [row |-> [c \in 1..Width |-> Hole], carried |-> carried, column |-> 1], cells))
  IN /\ Len(read) < MaxRows /\ ~ragged /\ stands.fits
     /\ placed' = stands.cells
     /\ read' = Append(read, end.row) /\ carried' = end.carried
     /\ ragged' = (ragged \/ \E c \in end.column..Width : end.carried[c].left > 0)

----------------------------------------------------------------------------
(* The shared strings: a record cut into blocks. A string has a header,    *)
(* its characters in one byte or in two, and formatting after them; a cut  *)
(* among the characters is followed by their width, any other cut is not.  *)
(* `cuts` are the cuts since the last string ended, and `hollow` says that *)
(* two of them came in a row, with an empty block between them.            *)
NoString == [chars |-> <<>>, runs |-> 0, wide |-> FALSE, cuts |-> 0, hollow |-> FALSE]

Token(k, wide, v) == [k |-> k, wide |-> wide, v |-> v]

(* biffString over readerOver, one token at a time: `left` characters and  *)
(* `skip` bytes are to come. A character of another width than the reader  *)
(* takes it for is read as something else. Among characters and formatting *)
(* the reader goes on to the next block as often as it takes, but before a *)
(* header only once: `behind` are the cuts met there, and of more than one *)
(* it reads past the end of an empty block and is `lost`.                  *)
Done(a) == IF a.left = 0 /\ a.skip = 0 /\ a.open
           THEN [a EXCEPT !.sst = Append(@, a.out), !.open = FALSE] ELSE a
Between(a) == a.left = 0 /\ a.skip = 0
Opened(a, t) ==
  IF a.behind > 1 THEN [a EXCEPT !.lost = TRUE]
  ELSE Done([a EXCEPT !.open = TRUE, !.left = t.v, !.skip = t.runs, !.high = t.wide,
                      !.out = <<>>, !.behind = 0])
PastCut(a) ==
  [a EXCEPT !.flag = a.left > 0, !.behind = IF Between(a) THEN @ + 1 ELSE @]

(* Bug: the width of a string is read once.                                *)
BugTakeToken(a, t) ==
  CASE a.lost -> a
    [] ~a.lost /\ t.k = "cut" -> [PastCut(a) EXCEPT !.flag = FALSE]
    [] ~a.lost /\ t.k # "cut" /\ a.left > 0 -> Done([a EXCEPT !.left = @ - 1,
         !.out = Append(@, IF t.k = "char" /\ t.wide = a.high THEN t.v ELSE "?")])
    [] ~a.lost /\ t.k # "cut" /\ a.left = 0 /\ a.skip > 0 -> Done([a EXCEPT !.skip = @ - 1])
    [] ~a.lost /\ t.k = "head" /\ Between(a) -> Opened(a, t)
    [] ~a.lost /\ t.k \in {"char", "run", "flag"} /\ Between(a) -> a

TakeToken(a, t) ==
  CASE a.lost -> a
    [] ~a.lost /\ t.k = "cut" -> PastCut(a)
    [] ~a.lost /\ t.k # "cut" /\ a.flag -> [a EXCEPT !.flag = FALSE, !.high = t.wide]
    [] ~a.lost /\ t.k # "cut" /\ ~a.flag /\ a.left > 0 -> Done([a EXCEPT !.left = @ - 1,
         !.out = Append(@, IF t.k = "char" /\ t.wide = a.high THEN t.v ELSE "?")])
    [] ~a.lost /\ t.k # "cut" /\ ~a.flag /\ a.left = 0 /\ a.skip > 0 ->
         Done([a EXCEPT !.skip = @ - 1])
    [] ~a.lost /\ t.k = "head" /\ ~a.flag /\ Between(a) -> Opened(a, t)
    [] ~a.lost /\ t.k \in {"char", "run", "flag"} /\ ~a.flag /\ Between(a) -> a

StringsInit ==
  /\ size = 0 /\ written = <<>> /\ rest = NoString
  /\ strings = [sst |-> <<>>, out |-> <<>>, open |-> FALSE, left |-> 0, skip |-> 0,
                high |-> FALSE, flag |-> FALSE, behind |-> 0, lost |-> FALSE]

Put(list) ==
  /\ size < MaxTokens /\ size' = size + Len(list)
  /\ strings' = FoldLeft(TakeToken, strings, list)

WriteHead(s, wide, runs) ==
  /\ rest.chars = <<>> /\ rest.runs = 0
  /\ Put(<<[k |-> "head", wide |-> wide, v |-> Len(s), runs |-> runs]>>)
  /\ written' = Append(written, s)
  /\ rest' = [chars |-> s, runs |-> runs, wide |-> wide, cuts |-> 0,
              hollow |-> rest.hollow \/ rest.cuts > 1]
WriteChar ==
  /\ rest.chars # <<>> /\ Put(<<Token("char", rest.wide, Head(rest.chars))>>)
  /\ rest' = [rest EXCEPT !.chars = Tail(@)] /\ UNCHANGED written
WriteRun ==
  /\ rest.chars = <<>> /\ rest.runs > 0 /\ Put(<<Token("run", FALSE, "")>>)
  /\ rest' = [rest EXCEPT !.runs = @ - 1] /\ UNCHANGED written
CutBlock(wide) ==
  /\ UNCHANGED written
  /\ IF rest.chars # <<>>
     THEN /\ Put(<<Token("cut", FALSE, ""), Token("flag", wide, "")>>)
          /\ rest' = [rest EXCEPT !.wide = wide]
     ELSE /\ Put(<<Token("cut", FALSE, "")>>)
          /\ rest' = [rest EXCEPT !.cuts = IF rest.runs = 0 THEN @ + 1 ELSE @]

----------------------------------------------------------------------------
CsvNext ==
  \/ \E cell \in Cells, quoted \in BOOLEAN : WriteCell(cell, quoted)
  \/ EndLine
TableNext ==
  \E n \in 0..Width : \E across, down \in [1..n -> Spans] :
    TableRow([i \in 1..n |-> [v |-> <<Len(read) + 1, i>>, across |-> across[i],
                              down |-> down[i]]])
StringsNext ==
  \/ \E s \in Strings, wide \in BOOLEAN, runs \in 0..2 : WriteHead(s, wide, runs)
  \/ WriteChar \/ WriteRun \/ \E wide \in BOOLEAN : CutBlock(wide)

CsvSpec     == CsvInit /\ [][CsvNext]_csvVars
TableSpec   == TableInit /\ [][TableNext]_tableVars
StringsSpec == StringsInit /\ [][StringsNext]_stringVars

(* Properties.                                                             *)

(* Every cell is read in its row and column, with every character it was   *)
(* written with: separators, quotes and line ends in a cell do not end it  *)
(* (parseCSV). A last line that is one empty cell cannot be told from the  *)
(* end of the file.                                                        *)
CsvKeepsCells ==
  parseCSV(text) = IF line \in {<<>>, <<Hole>>} THEN grid ELSE Append(grid, line)

(* "Without that, every column to its right slides one place left"         *)
(* (htmlRows): every cell is read in the columns and rows it stands in,    *)
(* its value in the first column of each row, whatever spans from above    *)
(* pass by it. Of a table with a row that stops before a span from above   *)
(* this does not hold.                                                     *)
TableKeepsColumns ==
  ~ragged => \A r \in DOMAIN read, c \in 1..Width :
    LET over == {p \in placed : Covers(p, r, c) /\ p.col = c}
    IN read[r][c] = IF over = {} THEN Hole ELSE (CHOOSE p \in over : TRUE).v

(* A string is read as it was written wherever the record is cut, also     *)
(* where its characters go on in another width or its formatting is cut    *)
(* (readerOver, biffString), and whether or not a block ends between two   *)
(* strings. With an empty block there it does not hold.                    *)
StringsSurvive ==
  ~rest.hollow /\ rest.chars = <<>> /\ rest.runs = 0 => strings.sst = written

=============================================================================
