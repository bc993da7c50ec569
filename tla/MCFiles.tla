------------------------------- MODULE MCFiles ------------------------------
(***************************************************************************)
(* Instance of Containers and Reports for the model checker. What is       *)
(* written into one kind of file says nothing of another, so one kind is   *)
(* written in a behaviour.                                                 *)
(***************************************************************************)
EXTENDS Containers, Reports

MCCells ==
  {<<>>, <<"a">>, <<",">>, <<"quote">>, <<"a", "LF">>, <<"quote", ";">>,
   <<"CR", "quote", "quote">>}
MCStrings == {<<>>, <<"a">>, <<"a", "b", "c">>}

(* Headings as the two readers match them: "vendor" and "words" are a      *)
(* description for the reader of card reports or of statements alone.      *)
MCBankKey ==
  [date |-> "date", merchant |-> "desc", details |-> "desc", vendor |-> "", amount |-> "amt",
   billed |-> "out", debit |-> "out", credit |-> "in", balance |-> "bal", reference |-> "ref",
   words |-> ""]
MCCardKeys ==
  [date |-> {"date"}, merchant |-> {"desc"}, details |-> {"desc"}, vendor |-> {"desc"},
   amount |-> {"amount"}, billed |-> {"out"}, debit |-> {"out"}, credit |-> {"in"},
   balance |-> {}, reference |-> {"ref"}, words |-> {}]

MCHeadings ==
  {<<"date", "merchant", "amount">>, <<"date", "merchant", "reference", "billed">>,
   <<"date", "vendor", "amount">>, <<"date", "merchant", "amount", "credit">>}
MCCharges ==
  {<<<<"d", 1>>, <<"s", "words">>, a, b>> :
     a \in {<<"n", 2>>, <<"n", -2>>, <<"()", 2>>}, b \in {<<"n", 2>>, <<"n", 0>>}}
MCLayouts ==
  {<<"date", "details", "debit", "credit", "balance">>, <<"balance", "date", "merchant", "amount">>}

MCAmounts == {-3, -1, 3}

VARIABLE part  \* the kind of file that is written

Init ==
  /\ part \in {"text", "table", "strings", "report", "account"}
  /\ CsvInit /\ TableInit /\ StringsInit /\ ReportsInit
  /\ part # "text" => sep = "," /\ newline = <<"LF">>

TextWrite  == part = "text" /\ CsvNext /\ UNCHANGED <<tableVars, stringVars, book, ledger, part>>
TableWrite == part = "table" /\ TableNext /\ UNCHANGED <<csvVars, stringVars, book, ledger, part>>
StringsWrite ==
  part = "strings" /\ StringsNext /\ UNCHANGED <<csvVars, tableVars, book, ledger, part>>
ReportWrite == part = "report" /\ ReportNext /\ UNCHANGED <<csvVars, tableVars, stringVars, part>>
AccountWrite ==
  part = "account" /\ AccountNext /\ UNCHANGED <<csvVars, tableVars, stringVars, part>>

Next == TextWrite \/ TableWrite \/ StringsWrite \/ ReportWrite \/ AccountWrite

Spec == Init /\ [][Next]_<<csvVars, tableVars, stringVars, book, ledger, part>>
=============================================================================
