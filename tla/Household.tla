----------------------------- MODULE Household -----------------------------
(***************************************************************************)
(* The transactions of a household in one page of the browser: S.tx and    *)
(* S.overrides of fe/src/app.ts, what localStorage keeps of them, and the  *)
(* handlers that change them. Every handler is one uninterrupted step but  *)
(* the import of files, which waits for each file and meanwhile keeps what *)
(* it read of S.tx before the first one.                                   *)
(*                                                                         *)
(* A transaction is told apart by its charge (date, description, amount),  *)
(* the bank's reference, the side the money is on, who entered it and its  *)
(* balance; which category was chosen for an id is left out. Money is on   *)
(* one side of a row ("zero": on none, which asOutgoing can make of it).   *)
(***************************************************************************)
EXTENDS Naturals, FiniteSets, Bags, SequencesExt

CONSTANTS
  Charges,     \* date, description and amount: what misreadKey keeps of a row
  Refs, NoRef, \* references of rows; the empty one
  NoId,        \* the id of a row that has none
  Nothing,     \* a line of a report that is no transaction
  Files,       \* reports the household may choose
  Batches,     \* sequences of rows a bank connection may answer
  Hands,       \* rows the household may enter
  Backups,     \* snapshots it may restore, from a file or from the cloud
  Imports,     \* at most this many imports are under way
  MaxRows,     \* bound on the rows of the household
  MaxFiles     \* bound on the files of one import

Sides   == {"in", "out", "zero"}
Sources == {"statement", "card", "hand", "bank"}
TxId(charge, ref, side) == <<charge, ref, side>>
BankId(charge) == <<"bank", charge>>
Ids  == {TxId(c, ref, s) : c \in Charges, ref \in Refs, s \in Sides}
          \cup {BankId(c) : c \in Charges}
Rows == [charge : Charges, ref : Refs, side : Sides, by : Sources,
         bal : {"some", "null", "absent"}, id : Ids \cup {NoId}]

(* Rows as a report or the household gives them: the id is made of what    *)
(* the row says (bank-parser.ts, txId). Rows as a bank connection gives    *)
(* them: with the id the bank gave, if it gave one.                        *)
EnteredRows == {r \in Rows : r.id = TxId(r.charge, r.ref, r.side)}
SyncedRows  == {r \in Rows : r.id \in {NoId, BankId(r.charge)}}

(* Of the rows with an id of the bank there is one of each.                *)
OneOfEach(rows) ==
  \A c \in Charges :
    BagCardinality([r \in {x \in BagToSet(rows) : x.id = BankId(c)} |-> rows[r]]) <= 1

(* The id of a row says which charge it is and on which side the money is; *)
(* a transaction of the bank is on one side, whenever it is synced.        *)
Telling(sideOf, r) ==
  \/ r.id = NoId
  \/ r.id = BankId(r.charge) /\ r.side = sideOf[r.charge]
  \/ \E ref \in Refs : r.id = TxId(r.charge, ref, r.side)

BackupRows == UNION {BagToSet(b.tx) : b \in Backups}
BatchRows  == UNION {ToSet(b) : b \in Batches}

ASSUME HouseholdAssumption ==
  /\ IsFiniteSet(Rows)
  /\ NoRef \in Refs /\ NoId \notin Ids /\ Nothing \notin Rows
  /\ Files \subseteq Seq([was : Ids \cup {NoId}, row : EnteredRows \cup {Nothing}])
  /\ Hands \subseteq EnteredRows
  /\ Batches \subseteq Seq(SyncedRows)
  /\ \A b \in Backups : /\ IsABag(b.tx) /\ BagToSet(b.tx) \subseteq Rows
                        /\ OneOfEach(b.tx) /\ b.overrides \subseteq Ids
  /\ \E sideOf \in [Charges -> Sides] :
       \A r \in BackupRows \cup BatchRows : Telling(sideOf, r)
  /\ MaxRows \in Nat /\ MaxFiles \in Nat \ {0}

VARIABLES
  tx,        \* S.tx; its order, which decorate makes that of the dates, is left out
  overrides, \* S.overrides: the ids a category was chosen for
  saved,     \* what localStorage keeps
  drawn,     \* the rows on the screen, to which the buttons refer
  import     \* handleFiles: files left, and the maps made before the first

vars == <<tx, overrides, saved, drawn, import>>

----------------------------------------------------------------------------
(* What localStorage keeps of a row: no reference, and a balance that is   *)
(* absent becomes null.                                                    *)
Kept(r) == [r EXCEPT !.ref = NoRef,
                     !.bal = IF @ = "absent" THEN "null" ELSE @]
Snapshot(rows, chosen) == [tx |-> BagOfAll(Kept, rows), overrides |-> chosen]

IdsOf(rows) == {r.id : r \in BagToSet(rows)}
Without(rows, ids) == [r \in {x \in BagToSet(rows) : x.id \notin ids} |-> rows[r]]
Plus(rows, r) == rows (+) SetToBag({r})
Copies(r, rows) == IF r \in BagToSet(rows) THEN rows[r] ELSE 0

(* overrides[new] = overrides[old]; delete overrides[old]                  *)
Moved(chosen, old, new) ==
  IF old \in chosen THEN (chosen \cup {new}) \ {old} ELSE chosen

Misread(rows) == {r \in BagToSet(rows) : /\ r.by \notin {"card", "hand"}
                                         /\ r.side = "in" /\ r.bal = "null"}

WithSide(r, side) == [r EXCEPT !.side = side, !.id = TxId(r.charge, r.ref, side)]
AsOutgoing(r) == WithSide(r, IF r.side = "in" THEN "out" ELSE "zero")
Flipped(r)    == WithSide(r, CASE r.side = "in"   -> "out"
                               [] r.side = "out"  -> "in"
                               [] r.side = "zero" -> "zero")

(* Bug: nothing is saved.                                                  *)
BugSaveAndRender(rows, chosen) ==
  /\ BagCardinality(rows) <= MaxRows
  /\ tx' = rows /\ overrides' = chosen
  /\ drawn' = BagToSet(rows) /\ UNCHANGED saved

(* The last lines of a handler: S is as given, saved and drawn.            *)
SaveAndRender(rows, chosen) ==
  /\ BagCardinality(rows) <= MaxRows
  /\ tx' = rows /\ overrides' = chosen
  /\ saved' = Snapshot(rows, chosen)
  /\ drawn' = BagToSet(rows)

NoImport == [left |-> 0, have |-> {}, misread |-> <<>>]

Init ==
  /\ tx = EmptyBag /\ overrides = {} /\ drawn = {}
  /\ saved = Snapshot(EmptyBag, {})
  /\ import = [i \in Imports |-> NoImport]

----------------------------------------------------------------------------
(* Bug: a category for a row without id.                                   *)
BugSetCategory(r) ==
  /\ r \in drawn
  /\ SaveAndRender(tx, overrides \cup {r.id})
  /\ UNCHANGED import

(* The buttons of a row refer to the row as it was drawn.                  *)
SetCategory(r) ==
  /\ r \in drawn
  /\ SaveAndRender(tx, IF r.id = NoId THEN overrides ELSE overrides \cup {r.id})
  /\ UNCHANGED import

Flip(r) ==
  /\ r \in drawn
  /\ LET turned(x) == IF x.id = r.id THEN Flipped(r) ELSE x
     IN SaveAndRender(BagOfAll(turned, tx), Moved(overrides, r.id, Flipped(r).id))
  /\ UNCHANGED import

(* The armed button that turns every misread row into spending.            *)
Repair ==
  LET wrong   == {r.id : r \in Misread(tx)}
      fixed(x) == IF x.id \in wrong THEN AsOutgoing(x) ELSE x
      moved   == {AsOutgoing(r).id : r \in {x \in BagToSet(tx) :
                                             x.id \in wrong \cap overrides}}
  IN /\ wrong # {}
     /\ SaveAndRender(BagOfAll(fixed, tx), (overrides \ wrong) \cup moved)
     /\ UNCHANGED import

(* The form of the drawer asks nothing; quick add refuses a row that is    *)
(* there, and enters spending only.                                        *)
Manual(r) ==
  /\ SaveAndRender(Plus(tx, r), overrides \cup {r.id})
  /\ UNCHANGED import

QuickAdd(r) ==
  /\ r.side = "out" /\ r.id \notin IdsOf(tx)
  /\ Manual(r)

(* The list of typed rows has a button that removes every row of an id.     *)
RemoveExpense(r) ==
  /\ r \in drawn /\ r.by = "hand"
  /\ SaveAndRender(Without(tx, {r.id}), overrides \ {r.id})
  /\ UNCHANGED import

(* A category is deleted: the ids it was chosen for, whichever they are,   *)
(* have none.                                                              *)
DropCategory(ids) ==
  /\ ids \subseteq overrides
  /\ SaveAndRender(tx, overrides \ ids)
  /\ UNCHANGED import

Wipe ==
  /\ tx # EmptyBag
  /\ SaveAndRender(EmptyBag, {})
  /\ UNCHANGED import

(* A backup, the cloud's copy: decoded, and then S itself.                 *)
Restore(b) ==
  /\ SaveAndRender(b.tx, b.overrides)
  /\ UNCHANGED import

(* Bug: rows are compared, not their ids.                                  *)
BugMerge(rows, r) ==
  IF r.id # NoId /\ r \in BagToSet(rows) THEN rows ELSE Plus(rows, r)

(* A sync answers: its rows are merged into what S.tx is by then.          *)
Merge(rows, r) == IF r.id # NoId /\ r.id \in IdsOf(rows) THEN rows ELSE Plus(rows, r)
SyncDone(batch) ==
  /\ SaveAndRender(FoldLeft(Merge, tx, batch), overrides)
  /\ UNCHANGED import

(* The page is loaded again: what localStorage kept, and no import.        *)
Reload ==
  /\ tx' = saved.tx /\ overrides' = saved.overrides
  /\ drawn' = BagToSet(saved.tx)
  /\ import' = [i \in Imports |-> NoImport]
  /\ UNCHANGED saved

----------------------------------------------------------------------------
(* Bug: rows of either side are suspect.                                   *)
BugImportBegin(i, files) ==
  LET suspect == {r \in BagToSet(tx) : r.by # "card" /\ r.bal = "null"}
  IN /\ import[i] = NoImport
     /\ \E m \in [{r.charge : r \in suspect} -> {r.id : r \in suspect}] :
          /\ \A c \in DOMAIN m : \E r \in suspect : r.charge = c /\ r.id = m[c]
          /\ import' = [import EXCEPT ![i] =
                          [left |-> files, have |-> IdsOf(tx), misread |-> m]]
     /\ UNCHANGED <<tx, overrides, saved, drawn>>

(* handleFiles, up to its first await. Of several candidates of a charge   *)
(* the last in S.tx is kept; the order is left out, so any may be it.      *)
ImportBegin(i, files) ==
  LET suspect == {r \in BagToSet(tx) : r.by # "card" /\ r.side = "in" /\ r.bal = "null"}
  IN /\ import[i] = NoImport
     /\ \E m \in [{r.charge : r \in suspect} -> {r.id : r \in suspect}] :
          /\ \A c \in DOMAIN m : \E r \in suspect : r.charge = c /\ r.id = m[c]
          /\ import' = [import EXCEPT ![i] =
                          [left |-> files, have |-> IdsOf(tx), misread |-> m]]
     /\ UNCHANGED <<tx, overrides, saved, drawn>>

(* A file is a sequence of lines; `was` is the id the statement reader     *)
(* once gave the line of a card report (legacyCardCorrections), `row` what *)
(* it is, Nothing for a purchase that was discounted to nothing.           *)
(* State of the loop: [rows, chosen, have, misread].                       *)

(* Line n says what became of id: of several lines the last one, for       *)
(* legacyCardCorrections keeps them in a map.                              *)
Correction(file, n, id) ==
  /\ id # NoId /\ file[n].was = id
  /\ \A k \in DOMAIN file : k > n => file[k].was # id

Dropped(s, ids, charges) ==
  [s EXCEPT !.rows = Without(@, ids), !.have = @ \ ids,
            !.misread = Restrict(@, DOMAIN @ \ charges)]

Waive(s, file, old) ==
  LET waived == {r \in old : \E n \in DOMAIN file : /\ Correction(file, n, r.id)
                                                   /\ file[n].row = Nothing}
      ids == {r.id : r \in waived}
  IN [Dropped(s, ids, {r.charge : r \in waived}) EXCEPT !.chosen = @ \ ids]

(* The old readings of r leave, whether or not r is there already, and     *)
(* each hands its category to r, if r has none, before it leaves. When one *)
(* of them has the id of r, a category of that id outlasts it only if      *)
(* another comes after it in S.tx; the order is left out, so `spared`      *)
(* holds the ids for which one does.                                       *)
Supersede(s, file, spared, old, r) ==
  LET olds == {x \in old : \E n \in DOMAIN file :
                /\ Correction(file, n, x.id)
                /\ file[n].row # Nothing /\ file[n].row.id = r.id}
      ids   == {x.id : x \in olds}
      given == ids \cap s.chosen
      kept  == /\ given # {}
               /\ r.id \notin ids \/ (r.id \in spared /\ given # {r.id})
  IN [Dropped(s, ids, {x.charge : x \in olds}) EXCEPT
        !.chosen = IF kept THEN (@ \ ids) \cup {r.id} ELSE @ \ ids]

(* Bug: the category stays with the old id.                                *)
BugCorrect(s, r) ==
  IF r.by = "card" /\ r.side = "out" /\ r.charge \in DOMAIN s.misread
  THEN LET old == s.misread[r.charge]
       IN [Dropped(s, {old}, {r.charge}) EXCEPT !.chosen = @ \ {old}]
  ELSE s

(* A charge of a card replaces the row that `misread` remembers for it.    *)
Correct(s, r) ==
  IF r.by = "card" /\ r.side = "out" /\ r.charge \in DOMAIN s.misread
  THEN LET old == s.misread[r.charge]
       IN [Dropped(s, {old}, {r.charge}) EXCEPT !.chosen = Moved(@, old, r.id)]
  ELSE s

Add(s, r) ==
  IF r.id \in s.have THEN s
  ELSE LET c == Correct(s, r)
       IN [c EXCEPT !.rows = Plus(@, r), !.have = @ \cup {r.id}]

ReadFile(s, file, spared) ==
  LET old == Misread(s.rows)
      line(t, l) == IF l.row = Nothing THEN t
                    ELSE Add(Supersede(t, file, spared, old, l.row), l.row)
  IN IF \A n \in DOMAIN file : file[n].row = Nothing THEN s
     ELSE FoldLeft(line, Waive(s, file, old), file)

(* The ids of the lines whose id is the same under both readings.          *)
SameIds(file) == {file[n].was : n \in {k \in DOMAIN file :
                    file[k].row # Nothing /\ file[k].row.id = file[k].was}}

(* A file has been read, or could not be (no lines). After the last one    *)
(* the household is saved and drawn; until then it is in memory only.      *)
FileRead(i, file, spared) ==
  LET s == ReadFile([rows |-> tx, chosen |-> overrides, have |-> import[i].have,
                     misread |-> import[i].misread], file, spared)
      last == import[i].left = 1
  IN /\ import[i].left > 0
     /\ import' = [import EXCEPT ![i] =
          IF last THEN NoImport
          ELSE [left |-> @.left - 1, have |-> s.have, misread |-> s.misread]]
     /\ \/ last /\ SaveAndRender(s.rows, s.chosen)
        \/ /\ ~last /\ BagCardinality(s.rows) <= MaxRows
           /\ tx' = s.rows /\ overrides' = s.chosen
           /\ UNCHANGED <<saved, drawn>>

----------------------------------------------------------------------------
Household ==
  \/ \E r \in drawn : SetCategory(r) \/ Flip(r) \/ RemoveExpense(r)
  \/ \E ids \in SUBSET overrides : DropCategory(ids)
  \/ \E r \in Hands : Manual(r) \/ QuickAdd(r)
  \/ Repair
  \/ Wipe
  \/ \E b \in Backups : Restore(b)

Import ==
  \E i \in Imports : \/ \E n \in 1..MaxFiles : ImportBegin(i, n)
                     \/ \E f \in Files : \E spared \in SUBSET SameIds(f) :
                          FileRead(i, f, spared)

Next == Household \/ Import \/ Reload \/ \E b \in Batches : SyncDone(b)

Spec == Init /\ [][Next]_vars

----------------------------------------------------------------------------
(* Properties.                                                             *)

(* The step reads file f for import i; the first conjunct, which the       *)
(* second implies, spares the checker most evaluations of it.              *)
Reads(i, f) ==
  /\ import'[i].left = import[i].left - 1
  /\ \E spared \in SUBSET SameIds(f) : FileRead(i, f, spared)

(* Every row is a row of the program, also while files are being read.     *)
TypeOK ==
  /\ IsABag(tx) /\ BagToSet(tx) \subseteq Rows
  /\ overrides \subseteq Ids /\ drawn \subseteq Rows
  /\ IsABag(saved.tx) /\ BagToSet(saved.tx) \subseteq Rows
  /\ saved.overrides \subseteq Ids
  /\ \A i \in Imports :
       /\ import[i].left \in 0..MaxFiles
       /\ import[i].have \subseteq Ids \cup {NoId}
       /\ DOMAIN import[i].misread \subseteq Charges
       /\ \A c \in DOMAIN import[i].misread : import[i].misread[c] \in Ids \cup {NoId}

(* When no import is under way, what is drawn and what a reload would find *)
(* are what is in memory: no handler forgets to save or to render, and no  *)
(* import that waited leaves something behind. (app.ts save and render at  *)
(* the end of every handler.)                                              *)
ShownIsSaved ==
  (\A i \in Imports : import[i].left = 0) =>
    drawn = BagToSet(tx) /\ saved = Snapshot(tx, overrides)

(* An id of the bank is carried by one row at most, whatever syncs,        *)
(* imports, flips, repairs and restores happen and however they overlap:   *)
(* a sync skips an id that is there, and no other handler gives a row one  *)
(* (mergeSyncedTransactions). A row that was flipped carries it no more.   *)
BankIdsOnce == OneOfEach(tx)

CopiesBy(c, source) ==
  BagCardinality([r \in {x \in BagToSet(tx) : x.charge = c /\ x.by = source} |-> tx[r]])

(* "Clicking Sync now twice ... must not create duplicate rows" (plan of   *)
(* the integration): of each charge there is one row of the bank at most.  *)
(* This does not hold: a flip gives a synced row an id made of its content *)
(* (app.ts:2059), and the next sync, which looks for the bank's id, adds   *)
(* the transaction again.                                                  *)
SyncedOnce == \A c \in Charges : CopiesBy(c, "bank") <= 1

(* "... or syncing after the same period was already covered by a manual   *)
(* statement import, must not create duplicate rows": no charge is there   *)
(* from a statement and from the bank. This does not hold: the row of a    *)
(* statement has an id made of its content and the synced row the id the   *)
(* bank gave it, and only ids are compared.                                *)
StatementNotSynced ==
  \A c \in Charges : CopiesBy(c, "statement") = 0 \/ CopiesBy(c, "bank") = 0

(* An import corrects income that was misread and nothing else: it never   *)
(* removes spending that has an id, although the rows it removes were      *)
(* picked before it waited, and the household may have flipped, wiped or   *)
(* restored them meanwhile (handleFiles).                                  *)
ImportKeepsSpending ==
  [][\A i \in Imports, f \in Files : Reads(i, f) =>
       \A r \in BagToSet(tx) : r.side = "out" /\ r.id # NoId =>
          Copies(r, tx) <= Copies(r, tx')]_vars

(* The rows that file f makes of id: of the line that once had it, and of  *)
(* its charge.                                                             *)
OfCharge(id, c) == id = BankId(c) \/ \E ref \in Refs, s \in Sides : id = TxId(c, ref, s)
Heirs(f, id) ==
  {f[n].row : n \in {k \in DOMAIN f :
     f[k].row # Nothing /\ (f[k].was = id \/ OfCharge(id, f[k].row.charge))}}
OldReadings(i) == {r.id : r \in Misread(tx)} \cup Range(import[i].misread)

(* "The category the customer chose belongs to the charge ... so it moves  *)
(* across to the row that replaces it" (app.ts, handleFiles): when an      *)
(* import takes a category from an id, a row that the file makes of it has *)
(* one then. Exempt are a purchase discounted to nothing, and a row whose  *)
(* own id is that of an old reading, which may lose it in turn: a credit   *)
(* whose id is the same under both readings loses it at once (see the      *)
(* README).                                                                *)
CategoryFollows ==
  [][\A i \in Imports, f \in Files : Reads(i, f) =>
       \A id \in overrides \ overrides' :
         \/ \E n \in DOMAIN f : Correction(f, n, id) /\ f[n].row = Nothing
         \/ \E r \in Heirs(f, id) : r.id \in overrides' \cup OldReadings(i)]_vars

(* "Every other correction here rewrites rows in bulk on evidence; this one*)
(* rewrites the row the customer is pointing at" (app.ts, the flip button):*)
(* flipping a row leaves the rows of every other charge. This does not     *)
(* hold: rows a bank sent without id compare equal, and all are replaced.  *)
FlipKeepsOthers ==
  [][\A r \in drawn : Flip(r) =>
       \A x \in BagToSet(tx) : x.charge # r.charge =>
          Copies(x, tx) <= Copies(x, tx')]_vars

=============================================================================
