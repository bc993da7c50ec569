------------------------------- MODULE Money --------------------------------
(***************************************************************************)
(* What a household is told of its money: which lines are spending         *)
(* (decorate, totals and byCategory of fe/src/app.ts), which charges a     *)
(* settlement paid for (settlement-bills.ts), what is on each card         *)
(* (card-statements.ts, transaction-view.ts) and the month as a plan       *)
(* (financial-plan.ts). All of it is computed from the transactions, at    *)
(* every render; the transactions come from statements and card reports,   *)
(* lose their file name and some of their text when they are saved         *)
(* (privacy.ts), are read again by the rules when they are loaded          *)
(* (state-repository.ts), and can be filed by hand or removed.             *)
(***************************************************************************)
EXTENDS Integers, FiniteSetsExt

CONSTANTS
  Lines,     \* lines a bank statement may have
  Charges,   \* charges a card report may have
  Filed,     \* categories a row may be given
  Window,    \* SETTLEMENT_WINDOW_DAYS
  MonthDays, \* days of a month
  MaxRows    \* bound on the transactions

(* The kind of each category, of which these are enough.                   *)
KindOf == [food |-> "expense", credit |-> "expense", savings |-> "neutral",
           income |-> "income"]
Cats   == DOMAIN KindOf

(* `card` is the cardKey of a charge, `fixed` whether its payee recurs,    *)
(* `filed` whether its category is an override; `again` is how the rules   *)
(* read what a reload leaves of its text.                                  *)
Row(id, day, out, in, source, src, card, cat, fixed, filed, again) ==
  [id |-> id, day |-> day, out |-> out, in |-> in, source |-> source, src |-> src,
   card |-> card, cat |-> cat, fixed |-> fixed, filed |-> filed, again |-> again]

IsRow(t) ==
  /\ t = Row(t.id, t.day, t.out, t.in, t.source, t.src, t.card, t.cat, t.fixed, t.filed,
             t.again)
  /\ {t.day, t.out, t.in} \subseteq Int /\ {t.cat, t.again.cat} \subseteq Cats

ASSUME MoneyAssumption ==
  /\ Window \in Nat /\ MonthDays \in Nat \ {0} /\ MaxRows \in Nat
  /\ Filed \subseteq Cats
  /\ \A t \in Lines : IsRow(t) /\ t.source = "bank"
  /\ \A t \in Charges : IsRow(t) /\ t.source = "card"

VARIABLE tx  \* S.tx, whose order none of this depends on

MoneyInit == tx = {}

----------------------------------------------------------------------------
OnCard(list)    == {t \in list : t.source = "card"}
Out(list)       == MapThenSumSet(LAMBDA t : t.out, list)
In(list)        == MapThenSumSet(LAMBDA t : t.in, list)
OfMonth(m)      == {t \in tx : t.day \div MonthDays = m}
Months          == {t.day \div MonthDays : t \in tx}
Days(list)      == {t.day : t \in list}

(* Bug: the window ends with the newest charge.                            *)
BugKind(t) ==
  IF /\ t.source # "card" /\ t.cat = "credit" /\ t.out > 0 /\ OnCard(tx) # {}
     /\ t.day \in Min(Days(OnCard(tx)))..Max(Days(OnCard(tx)))
  THEN "neutral" ELSE KindOf[t.cat]

(* decorate: with card detail, a settlement in the window is a transfer.   *)
Kind(t) ==
  IF /\ t.source # "card" /\ t.cat = "credit" /\ t.out > 0 /\ OnCard(tx) # {}
     /\ t.day \in Min(Days(OnCard(tx)))..(Max(Days(OnCard(tx))) + Window)
  THEN "neutral" ELSE KindOf[t.cat]

OfKind(kind, list) == {t \in list : Kind(t) = kind}
Totals(list) ==
  LET kept == list \ OfKind("neutral", list)
  IN [in |-> In(kept), out |-> Out(kept), net |-> In(kept) - Out(kept)]
ByCategory(list) ==
  [c \in Cats |-> Out({t \in OfKind("expense", list) : t.cat = c})]

----------------------------------------------------------------------------
(* settlementBills. One report is one bill; a pair is a settlement and the *)
(* report it may have paid.                                                *)
Reports     == {t.src : t \in OnCard(tx)}
Report(src) == {t \in OnCard(tx) : t.src = src}
Billed(charges) == Out(charges) - In(charges)
Settlements == {t \in tx : t.source # "card" /\ t.cat = "credit" /\ t.out > 0}
Claims ==
  {c \in Settlements \X Reports :
     /\ Billed(Report(c[2])) = c[1].out
     /\ c[1].day - Max(Days(Report(c[2]))) \in 0..Window}

Bills == {c \in Claims : \A d \in Claims : d[1] = c[1] \/ d[2] = c[2] => d = c}

----------------------------------------------------------------------------
(* cardStatements, and the folded lines of the table.                      *)
Cards(list) == {t.card : t \in OnCard(list)}
Group(charges) == [out |-> Out(charges), in |-> In(charges), charges |-> charges]
Statements(list) ==
  [k \in Cards(list) |-> Group({t \in OnCard(list) : t.card = k})]

Single(t) == [kind |-> "transaction", charges |-> {t}]
Itemised(list) == {Single(t) : t \in list}

(* Bug: the charges are looked for among the rows of the bank.             *)
BugViewRows(list) ==
  IF OnCard(list) = list THEN Itemised(list)
  ELSE Itemised(list) \cup
       {[kind |-> k, charges |-> {t \in list : t.card = k}] : k \in Cards(list)}

(* transactionViewRows in its default mode: `kind` is the key of a group.  *)
ViewRows(list) ==
  IF OnCard(list) = list THEN Itemised(list)
  ELSE Itemised(list \ OnCard(list)) \cup
       {[kind |-> k, charges |-> {t \in OnCard(list) : t.card = k}] : k \in Cards(list)}

----------------------------------------------------------------------------
(* Bug: what is fixed is read before what it is.                           *)
BugSection(kind, list) ==
  LET neutral == OfKind("neutral", list)
      expense == OfKind("expense", list)
  IN CASE kind = "income"      -> OfKind("income", list)
       [] kind = "savings"     -> {t \in neutral : t.cat # "credit"}
       [] kind = "settlements" -> {t \in neutral : t.cat = "credit"}
       [] kind = "fixed"       -> {t \in list : t.fixed}
       [] kind = "variable"    -> {t \in expense : ~t.fixed}

(* buildFinancialPlan: the rows of each section.                           *)
Section(kind, list) ==
  LET neutral == OfKind("neutral", list)
      expense == OfKind("expense", list)
  IN CASE kind = "income"      -> OfKind("income", list)
       [] kind = "savings"     -> {t \in neutral : t.cat # "credit"}
       [] kind = "settlements" -> {t \in neutral : t.cat = "credit"}
       [] kind = "fixed"       -> {t \in expense : t.fixed}
       [] kind = "variable"    -> {t \in expense : ~t.fixed}
Net(kind, list) == LET rows == Section(kind, list) IN Out(rows) - In(rows)

Plan(list) ==
  LET outgoing == Net("fixed", list) + Net("variable", list) + Net("savings", list)
  IN [outgoing |-> outgoing, surplus |-> -Net("income", list) - outgoing]

----------------------------------------------------------------------------
(* What changes the transactions.                                          *)
Ids == {t.id : t \in tx}

(* A row whose id is there, or was met before in the file, is passed over. *)
Import(added) ==
  /\ IsFiniteSet(added) /\ Cardinality(tx) + Cardinality(added) <= MaxRows
  /\ \A t \in added : t.id \notin Ids /\ \A u \in added : t.id = u.id => t = u
  /\ tx' = tx \cup added

ImportStatement(t) == Import({t})

(* A card report: one file, the charges of one card.                       *)
ImportReport(src) ==
  \E charges \in SUBSET {t \in Charges : t.src = src} \ {{}} : Import(charges)

File(t, cat) ==
  t \in tx /\ tx' = (tx \ {t}) \cup {[t EXCEPT !.cat = cat, !.filed = TRUE]}
RemoveRow(t) == t \in tx /\ tx' = tx \ {t}

(* Bug: the codec keeps nothing of where a row came from.                  *)
BugSanitized(t) == [t EXCEPT !.src = "bank-report", !.source = "bank"]

(* sanitizeTransaction: the name of the file becomes a word for its kind.  *)
Sanitized(t) ==
  [t EXCEPT !.src = IF t.src = "open-banking" THEN t.src
                    ELSE IF t.source = "card" THEN "card-report"
                    ELSE IF t.src = "manual-entry" THEN t.src ELSE "bank-report"]

(* A row whose text is redacted, or is one for a default rule that a       *)
(* reload brings back, is read again; an override wins over the rules.     *)
Reread(t) ==
  [Sanitized(t) EXCEPT !.cat = IF t.filed THEN t.cat ELSE t.again.cat,
                       !.fixed = t.again.fixed]
Reload ==
  \E altered \in SUBSET {t \in tx : Reread(t) # Sanitized(t)} :
    tx' = {IF t \in altered THEN Reread(t) ELSE Sanitized(t) : t \in tx}

MoneyNext ==
  \/ \E t \in Lines : ImportStatement(t)
  \/ \E src \in {t.src : t \in Charges} : ImportReport(src)
  \/ \E t \in tx : RemoveRow(t) \/ \E cat \in Filed : File(t, cat)
  \/ Reload

MoneySpec == MoneyInit /\ [][MoneyNext]_tx

----------------------------------------------------------------------------
(* Properties.                                                             *)

(* "A household opening a bill is reconciling" (settlement-bills.ts): a    *)
(* line that opens is a transfer and not spending as well, in a window     *)
(* that another file computes; and what is under it is under no other      *)
(* line, with nothing of it missing.                                       *)
BillIsNotSpending ==
  \A b \in Bills :
    /\ Kind(b[1]) = "neutral"
    /\ Billed(Report(b[2])) = b[1].out
    /\ \A other \in Bills \ {b} : Report(b[2]) \cap Report(other[2]) = {}

(* The dashboard and the plan read one month alike: what the plan says is  *)
(* left, with what it says was set aside, is the dashboard's net; what the *)
(* categories add up to is the spending, but for money sent back out of an *)
(* income (app.ts totals, byCategory; financial-plan.ts).                  *)
PlanIsTotals ==
  \A m \in Months : LET list == OfMonth(m) totals == Totals(list) spent == ByCategory(list) IN
    /\ Plan(list).surplus + Net("savings", list) = totals.net
    /\ MapThenSumSet(LAMBDA c : spent[c], Cats) = totals.out - Out(OfKind("income", list))

(* "Two Visas fold into two lines, not one" (transaction-view.ts): the     *)
(* table of a month and the cards screen group the same charges, and every *)
(* row of the month is in exactly one line of the table.                   *)
TableIsStatements ==
  \A m \in Months : LET list == OfMonth(m) view == ViewRows(list) IN
    /\ UNION {v.charges : v \in view} = list
    /\ \A v, w \in view : v # w => v.charges \cap w.charges = {}
    /\ \A v \in view : v.kind # "transaction" =>
         Group(v.charges) = Statements(list)[v.kind]

(* What a reload may not change, though it drops the name of the file, may *)
(* redact the text and brings deleted defaults back: the money of a month  *)
(* and of a card, the category the household gave a row, the kind of a row *)
(* that keeps its category, which depends on every charge there is; and if *)
(* every row is read as before, no total and no plan (privacy.ts,          *)
(* state-repository.ts).                                                   *)
ReloadKeepsMoney ==
  [][Reload =>
       /\ Months' = Months /\ Ids' = Ids
       /\ \A m \in Months : LET list == OfMonth(m) IN
            /\ Out(list)' = Out(list) /\ In(list)' = In(list)
            /\ \A k \in Cards(list) : /\ k \in Cards(list)'
                 /\ Statements(list)'[k].out = Statements(list)[k].out
                 /\ Statements(list)'[k].in = Statements(list)[k].in
            /\ (\A t \in tx : Sanitized(t) \in tx') =>
                 Totals(list)' = Totals(list) /\ Plan(list)' = Plan(list)
       /\ \A t \in tx, u \in tx' : u.id = t.id =>
            /\ t.filed => u.cat = t.cat
            /\ u.cat = t.cat => Kind(u)' = Kind(t)]_tx

(* "Once the card's own charges have been imported" (financial-plan.ts),   *)
(* and "without card detail the aggregate is the only record there is, and *)
(* stays an expense" (app.ts): a settlement that is no spending any more   *)
(* has charges of its own among the transactions, in some report that is   *)
(* not another settlement's bill.                                          *)
SettledIsItemised ==
  \A t \in Settlements : Kind(t) = "neutral" =>
    \E src \in Reports : \A b \in Bills : b[2] = src => b[1] = t

(* A line that opens before a reload opens after it. This does not hold:   *)
(* a reload leaves all reports one file name (Sanitized).                  *)
BillsStayOpen ==
  [][Reload => \A b \in Bills : \E c \in Bills' :
       /\ c[1].id = b[1].id
       /\ {t.id : t \in Report(c[2])'} = {t.id : t \in Report(b[2])}]_tx

=============================================================================
