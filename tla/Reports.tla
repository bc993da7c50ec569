------------------------------ MODULE Reports -------------------------------
(***************************************************************************)
(* From the rows of a file to transactions: the reader of statements       *)
(* (bank-importer.ts), the reader of card reports                          *)
(* (credit-card-importer.ts), which of them a file is given to, and the    *)
(* replay of a card report once read as a statement                        *)
(* (import-corrections.ts). A cell is a pair: a text ("s"), a number ("n"),*)
(* a number in brackets ("()"), a day ("d"), or nothing. Which heading a   *)
(* text is, is given: it is what the patterns of the two readers say.      *)
(***************************************************************************)
EXTENDS Integers, SequencesExt

CONSTANTS
  BankKey,    \* the column a text names for the reader of statements, or ""
  CardKeys,   \* the columns it names for the reader of card reports
  Merchant,   \* the texts MERCHANT_DESC matches
  Headings,   \* headings of card reports: sequences of texts
  Charges,    \* rows of card reports: sequences of cells
  Layouts,    \* headings of statements, with a balance
  Days,       \* days an account moves on
  Amounts,    \* what it may move by; below 0 it is spent
  HeadRows,   \* rows a heading is looked for in: 30
  None,       \* no transaction, no day, no balance
  MaxSheets, MaxBook, MaxLedger  \* bounds on a report and on an account

BankKeys == {"date", "vdate", "ref", "desc", "out", "in", "amt", "bal"}
AllCardKeys == {"date", "ref", "desc", "amount", "out", "in"}
Words == DOMAIN BankKey

ASSUME ReportsAssumption ==
  /\ BankKey \in [Words -> BankKeys \cup {""}]
  /\ CardKeys \in [Words -> SUBSET AllCardKeys]
  /\ Merchant \subseteq Words /\ "words" \in Words
  /\ Headings \cup Layouts \subseteq Seq(Words)
  /\ Days \subseteq Int /\ Amounts \subseteq Int \ {0}
  /\ HeadRows \in Nat \ {0} /\ {MaxSheets, MaxBook, MaxLedger} \subseteq Nat

VARIABLES
  book,   \* a card report: its sheets, each a sequence of rows
  ledger  \* an account: the day and the amount of each movement, in order

----------------------------------------------------------------------------
(* Cells.                                                                  *)
Blank     == <<"none", 0>>
Cell      == ({"s"} \X Words) \cup ({"n", "()", "d"} \X Int) \cup {Blank}
At(row, c) == IF c \in DOMAIN row THEN row[c] ELSE Blank
FirstOf(cols) == IF cols = {} THEN 0 ELSE Min(cols)
Kept(list) == FlattenSeq([i \in DOMAIN list |-> IF list[i] = None THEN <<>> ELSE <<list[i]>>])

(* Brackets are stripped from an amount of a statement, and mean less than *)
(* nothing in one of a card report.                                        *)
BankNumber(cell) == IF cell[1] \in {"n", "()"} THEN cell[2] ELSE 0
CardNumber(cell) == CASE cell[1] = "n"  -> cell[2]
                      [] cell[1] = "()" -> -cell[2]
                      [] cell[1] \in {"s", "d", "none"} -> 0
DateOf(cell) == IF cell[1] = "d" THEN cell[2] ELSE None
Least(n) == Max({0, n})

(* transactionId, hashId: what an id is made of. Hashes do not collide.    *)
Id(t) == <<t.date, t.ref, t.out, t.in, t.desc>>
Transactions ==
  [date : Int, ref : Cell, desc : Cell, out : Nat, in : Nat, bal : Int \cup {None}]
Ids == Int \X Cell \X Nat \X Nat \X Cell
Corrections == [old : Ids, new : Ids \cup {None}]

----------------------------------------------------------------------------
(* bank-importer.ts. Each key is the first column that names it; 0 is none.*)
BankMap(row) ==
  [k \in BankKeys |-> FirstOf({c \in DOMAIN row : row[c][1] = "s" /\ BankKey[row[c][2]] = k})]
IsBankHeader(m) == m.date # 0 /\ m.desc # 0 /\ (m.out # 0 \/ m.in # 0 \/ m.amt # 0)
findHeader(rows) ==
  FirstOf({i \in DOMAIN rows : i <= HeadRows /\ IsBankHeader(BankMap(rows[i]))})

BankRow(m, row, source) ==
  LET number(k) == BankNumber(At(row, m[k]))
      apart(k)  == IF m[k] = 0 THEN 0 ELSE Max({number(k), -number(k)})
      signed    == source = "card" /\ m.out # 0 /\ m.in = 0
      out       == IF signed THEN Least(number("out")) ELSE apart("out")
      in        == IF signed THEN Least(-number("out")) ELSE apart("in")
      lone      == m.amt # 0 /\ out = 0 /\ in = 0
      spent     == IF source = "card" THEN number("amt") ELSE -number("amt")
      t == [date |-> DateOf(At(row, m.date)), ref |-> At(row, m.ref), desc |-> At(row, m.desc),
            out  |-> IF lone THEN Least(spent) ELSE out,
            in   |-> IF lone THEN Least(-spent) ELSE in,
            bal  |-> IF m.bal = 0 \/ number("bal") = 0 THEN None ELSE number("bal")]
  IN IF t.date = None \/ (t.out = 0 /\ t.in = 0) THEN None ELSE t

(* Bug: the first row is compared with the one after it.                   *)
BugOrientNewestFirst(list) ==
  IF Len(list) > 1 /\ list[1].date < list[2].date THEN Reverse(list) ELSE list
orientNewestFirst(list) ==
  IF list # <<>> /\ list[1].date < Last(list).date THEN Reverse(list) ELSE list

BankSheet(rows, source) ==
  LET h == findHeader(rows)
      m == BankMap(rows[h])
      found == Kept([i \in 1..(Len(rows) - h) |-> BankRow(m, rows[h + i], source)])
  IN IF h = 0 THEN <<>> ELSE IF m.bal = 0 THEN found ELSE orientNewestFirst(found)
BankImport(sheets, source) == FlattenSeq([s \in DOMAIN sheets |-> BankSheet(sheets[s], source)])

(* A list of charges at businesses, with no balance and no credit column.  *)
readsAsCardReport(sheets) ==
  LET headed == {s \in DOMAIN sheets : findHeader(sheets[s]) # 0}
      row(s) == sheets[s][findHeader(sheets[s])]
      m(s)   == BankMap(row(s))
  IN /\ \A s \in headed : m(s).bal = 0 /\ m(s).in = 0
     /\ \E s \in headed : row(s)[m(s).desc][2] \in Merchant

----------------------------------------------------------------------------
(* credit-card-importer.ts. Each heading replaces the one before it.       *)
CardMap(row) ==
  [k \in AllCardKeys |->
     FirstOf({c \in DOMAIN row : row[c][1] = "s" /\ k \in CardKeys[row[c][2]]})]
IsCardHeader(m) == m.date # 0 /\ m.desc # 0 /\ (m.amount # 0 \/ m.out # 0 \/ m.in # 0)
canHandle(row) == IsCardHeader(CardMap(row))

(* A charge is no heading. A statement shows each movement in one column,  *)
(* or what is spent and what comes in each in its own.                     *)
ASSUME RowsAssumption ==
  /\ Charges \subseteq Seq(Cell) /\ \A row \in Charges : ~canHandle(row)
  /\ \A layout \in Layouts : LET keys == {BankKey[layout[c]] : c \in DOMAIN layout} IN
       /\ {"date", "desc", "bal"} \subseteq keys
       /\ keys \subseteq {"date", "desc", "out", "in", "amt", "bal"}
       /\ "amt" \in keys \/ {"out", "in"} \subseteq keys
  /\ None \notin Int \cup Transactions \cup Corrections

CardRow(m, row) ==
  LET signed   == CardNumber(At(row, IF m.out # 0 THEN m.out ELSE m.amount))
      credit   == IF m.in = 0 THEN 0 ELSE CardNumber(At(row, m.in))
      credited == Max({credit, -credit})
      t == [date |-> DateOf(At(row, m.date)), ref |-> At(row, m.ref), desc |-> At(row, m.desc),
            out  |-> Least(signed), bal |-> None,
            in   |-> IF credited # 0 THEN credited ELSE Least(-signed)]
  IN IF t.date = None \/ (t.out = 0 /\ t.in = 0) THEN None ELSE t

(* The heading a row stands under, and the first of its sheet.             *)
Heads(rows, i) == {h \in 1..(i - 1) : canHandle(rows[h])}
CardSheet(rows) ==
  Kept([i \in DOMAIN rows |-> IF canHandle(rows[i]) \/ Heads(rows, i) = {} THEN None
                              ELSE CardRow(CardMap(rows[Max(Heads(rows, i))]), rows[i])])
CardImport(sheets) == FlattenSeq([s \in DOMAIN sheets |-> CardSheet(sheets[s])])

(* importCardWorkbook; and the choice of handleFiles.                      *)
importCardWorkbook(sheets) ==
  LET rows == CardImport(sheets)
  IN IF rows # <<>> THEN rows ELSE BankImport(sheets, "card")
ReadReport(sheets, source) ==
  IF source = "card" \/ readsAsCardReport(sheets) THEN importCardWorkbook(sheets)
  ELSE BankImport(sheets, "bank")

----------------------------------------------------------------------------
(* legacyCardCorrections: for each row, the id it got when the report was  *)
(* read as a statement, with the id it has now, or None.                   *)
(* Bug: both readings are replayed under the heading of now.               *)
BugCorrection(rows, i) ==
  LET now == rows[Max(Heads(rows, i))]
      old == BankImport(<<<<now, rows[i]>>>>, "bank")
      new == CardImport(<<<<now, rows[i]>>>>)
  IN IF old = <<>> \/ old[1].out > 0 THEN None
     ELSE [old |-> Id(old[1]), new |-> IF new = <<>> THEN None ELSE Id(new[1])]
Correction(rows, i) ==
  LET first == rows[Min(Heads(rows, i))]
      now   == rows[Max(Heads(rows, i))]
      old   == BankImport(<<<<first, rows[i]>>>>, "bank")
      new   == CardImport(<<<<now, rows[i]>>>>)
  IN IF old = <<>> \/ old[1].out > 0 THEN None
     ELSE [old |-> Id(old[1]), new |-> IF new = <<>> THEN None ELSE Id(new[1])]

SheetCorrections(rows) ==
  Kept([i \in DOMAIN rows |-> IF canHandle(rows[i]) \/ Heads(rows, i) = {} THEN None
                              ELSE Correction(rows, i)])
legacyCardCorrections(sheets) ==
  LET list == FlattenSeq([s \in DOMAIN sheets |-> SheetCorrections(sheets[s])])
  IN [old \in {list[i].old : i \in DOMAIN list} |->
        list[Max({i \in DOMAIN list : list[i].old = old})].new]

----------------------------------------------------------------------------
(* What the files come from: an issuer writes a report row by row, a bank  *)
(* keeps an account and exports it from either end.                        *)
ReportsInit == book = <<<<>>>> /\ ledger = <<>>

Texts(heading) == [c \in DOMAIN heading |-> <<"s", heading[c]>>]
AddRow(row) ==
  /\ Len(FlattenSeq(book)) < MaxBook
  /\ book' = [book EXCEPT ![Len(book)] = Append(@, row)] /\ UNCHANGED ledger
AddSheet ==
  /\ Len(book) < MaxSheets /\ Last(book) # <<>>
  /\ book' = Append(book, <<>>) /\ UNCHANGED ledger
Move(day, amount) ==
  /\ Len(ledger) < MaxLedger /\ (ledger # <<>> => day >= Last(ledger)[1])
  /\ ledger' = Append(ledger, <<day, amount>>) /\ UNCHANGED book

ReportNext ==
  \/ \E h \in Headings : AddRow(Texts(h))
  \/ \E row \in Charges : AddRow(row)
  \/ AddSheet
AccountNext == \E day \in Days, amount \in Amounts : Move(day, amount)

ReportsSpec == ReportsInit /\ [][ReportNext \/ AccountNext]_<<book, ledger>>

Balance(i) == MapThenSumSet(LAMBDA j : ledger[j][2], 1..i)
StatementCell(word, i) ==
  LET amount == ledger[i][2]
      shown(n) == IF n > 0 THEN <<"n", n>> ELSE Blank
  IN CASE BankKey[word] = "date" -> <<"d", ledger[i][1]>>
       [] BankKey[word] = "desc" -> <<"s", "words">>
       [] BankKey[word] = "out"  -> shown(-amount)
       [] BankKey[word] = "in"   -> shown(amount)
       [] BankKey[word] = "amt"  -> <<"n", amount>>
       [] BankKey[word] = "bal"  -> <<"n", Balance(i)>>
Statement(layout, newestFirst) ==
  LET rows == [i \in DOMAIN ledger |-> [c \in DOMAIN layout |-> StatementCell(layout[c], i)]]
  IN <<Texts(layout)>> \o (IF newestFirst THEN Reverse(rows) ELSE rows)

(* Properties.                                                             *)

(* "Reads a day's closing balance off the first row it sees for that date" *)
(* (bank-importer.ts, orientNewestFirst): whichever end a bank exports an  *)
(* account from and however it names its columns, each movement is read as *)
(* what it was, and the first row of a day carries the balance the day     *)
(* closed with. Not so of a statement of one day, and a balance of zero is *)
(* read as none.                                                           *)
ClosingBalanceFirst ==
  \A layout \in Layouts, newestFirst \in BOOLEAN :
    LET rows == ReadReport(<<Statement(layout, newestFirst)>>, "bank")
        last == Len(ledger)
    IN ledger # <<>> /\ ledger[1][1] # ledger[last][1] =>
         /\ Len(rows) = last
         /\ \A k \in 1..last : LET m == ledger[last + 1 - k] IN
              /\ rows[k].date = m[1] /\ rows[k].in - rows[k].out = m[2]
              /\ rows[k].bal = IF Balance(last + 1 - k) = 0 THEN None
                               ELSE Balance(last + 1 - k)

(* "Matching the old ID also works when installments, currency conversion  *)
(* or a shifted reference changed the amount" (import-corrections.ts):     *)
(* every row of a card report that was filed as income when it was read as *)
(* a statement is found again, under the heading its sheet had then, and   *)
(* is replaced by what such a row says now. Of a report with a heading     *)
(* that only one of the readers takes for one this does not hold, nor of   *)
(* one whose first heading stands too deep for the reader of statements:   *)
(* that reader left the sheet alone, and the replay does not.              *)
ReadAlike(rows) ==
  LET headings == {i \in DOMAIN rows : canHandle(rows[i])}
  IN /\ headings = {i \in DOMAIN rows : IsBankHeader(BankMap(rows[i]))}
     /\ headings = {} \/ findHeader(rows) # 0
Filed(rows, i) ==
  LET h == findHeader(rows)
  IN IF h = 0 \/ i <= h THEN None ELSE BankRow(BankMap(rows[h]), rows[i], "bank")
Now(rows, i) == LET t == CardRow(CardMap(rows[Max(Heads(rows, i))]), rows[i])
                IN IF t = None THEN None ELSE Id(t)
Misread ==
  {l \in UNION {{s} \X DOMAIN book[s] : s \in DOMAIN book} :
     LET t == Filed(book[l[1]], l[2]) IN t # None /\ t.in > 0 /\ t.out = 0}
CorrectionsFindMisreadings ==
  (\A s \in DOMAIN book : ReadAlike(book[s])) =>
    \A l \in Misread :
      LET id == Id(Filed(book[l[1]], l[2]))
          corrections == legacyCardCorrections(book)
      IN /\ id \in DOMAIN corrections
         /\ \E o \in Misread : /\ Id(Filed(book[o[1]], o[2])) = id
                              /\ corrections[id] = Now(book[o[1]], o[2])

=============================================================================
