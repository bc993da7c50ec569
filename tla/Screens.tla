------------------------------ MODULE Screens ------------------------------
(***************************************************************************)
(* What one page shows (fe/src/app.ts): the dashboard, the screens beside  *)
(* it, the hash a reload comes back to, and the three controls that choose *)
(* a month. A screen has a flag (directoryOpen, goalsOpen, ...) and a      *)
(* section with a `hidden` attribute; handlers set both one by one, and    *)
(* render sets the attributes from the flags.                              *)
(***************************************************************************)
EXTENDS Naturals, FiniteSetsExt

CONSTANTS
  Months,  \* months of transactions, in their order
  NoMonth, \* S.month = null
  All      \* the option for all of history

ASSUME ScreensAssumption ==
  /\ Months \subseteq Nat /\ IsFiniteSet(Months)
  /\ {NoMonth, All} \cap Months = {}

Beside   == {"directory", "goals", "cards", "expenses"}
Tabs     == Beside \cup {"overview", "recommendations"}
Sections == Beside \cup {"empty", "main"}

VARIABLES
  open,      \* the flags that are true
  shown,     \* the sections that are not hidden
  reading,   \* which children of #main are not hidden
  hash, tab, \* location.hash; the tab that is marked
  rows,      \* the months S.tx has rows of
  month,     \* S.month
  chips,     \* the month chips as they were drawn, and the one pressed
  scope, cardScope,  \* the values of #f-scope and #f-card-scope
  phase      \* "boot" before the first render, "importing", or "ready"

screen == <<open, shown, reading, hash, tab>>
months == <<rows, month, chips, scope, cardScope>>
screensVars   == <<screen, months, phase>>

NoChips == [drawn |-> {}, pressed |-> NoMonth]

ScreensInit ==
  /\ hash \in Beside \cup {"none"} /\ open = {hash} \ {"none"}
  /\ shown = {"empty"} /\ reading = "dashboard" /\ tab = "overview"
  /\ rows \in SUBSET Months /\ month = NoMonth /\ chips = NoChips
  /\ scope = NoMonth /\ cardScope = NoMonth /\ phase = "boot"

----------------------------------------------------------------------------
Newest(kept) == IF kept = {} THEN NoMonth ELSE Max(kept)

(* The sections a render shows.                                            *)
Rendered(flags, kept) ==
  IF flags # {} THEN flags ELSE IF kept = {} THEN {"empty"} ELSE {"main"}

(* Bug: the select prefers the month it held.                              *)
BugMonthFilter(held, opened, kept) ==
  IF held \in kept \cup {All} THEN held ELSE IF kept = {} THEN All ELSE opened

(* fillMonthFilter, and the same lines of renderCards: what a select that  *)
(* held a value says after it is filled again.                             *)
MonthFilter(held, opened, kept) ==
  IF held = All \/ kept = {} THEN All
  ELSE IF opened \in kept THEN opened ELSE Newest(kept)

(* render(), with what the selects hold: the month wanted is opened when   *)
(* there are rows of it. An empty household draws neither chips nor table. *)
Render(kept, wanted, held, cardHeld) ==
  LET opened == IF wanted \in kept THEN wanted ELSE Newest(kept)
  IN /\ rows' = kept /\ month' = opened
     /\ shown' = Rendered(open, kept)
     /\ cardScope' = MonthFilter(cardHeld, opened, kept)
     /\ IF kept = {} THEN chips' = chips /\ scope' = held
        ELSE /\ chips' = [drawn |-> kept, pressed |-> opened]
             /\ scope' = MonthFilter(held, opened, kept)
     /\ UNCHANGED <<open, reading, hash, tab>>

----------------------------------------------------------------------------
(* Screens.                                                                *)
(* Bug: the address stays what it was.                                     *)
BugDashboard ==
  /\ open' = {} /\ tab' = "overview" /\ reading' = "dashboard"
  /\ shown' = IF rows = {} THEN {"empty"} ELSE {"main"}
  /\ UNCHANGED <<hash, months, phase>>

Dashboard ==
  /\ open' = {} /\ hash' = "none" /\ tab' = "overview" /\ reading' = "dashboard"
  /\ shown' = IF rows = {} THEN {"empty"} ELSE {"main"}
  /\ UNCHANGED <<months, phase>>

(* Without rows the household is sent to the upload, and the tab stays.    *)
Recommendations ==
  /\ open' = {} /\ hash' = "none"
  /\ IF rows = {}
     THEN shown' = (shown \ Beside) \cup {"empty"} /\ UNCHANGED <<reading, tab>>
     ELSE /\ shown' = (shown \ Beside) \cup {"main"}
          /\ reading' = "recommendations" /\ tab' = "recommendations"
  /\ UNCHANGED <<months, phase>>

(* The flags a screen resets, and the sections it hides, when it opens.    *)
Leaves == [cards |-> {"directory", "goals"}, goals |-> {"directory", "cards"},
           directory |-> {"cards", "goals"},
           expenses |-> {"directory", "goals", "cards"}]

(* Bug: the flag of the screen before stays.                               *)
BugShow(s) ==
  /\ open' = open \cup {s}
  /\ shown' = (shown \ (Leaves[s] \cup {"empty", "main"})) \cup {s}
  /\ hash' = s /\ tab' = s
  /\ UNCHANGED <<reading, months, phase>>

Show(s) ==
  /\ open' = (open \ Leaves[s]) \cup {s}
  /\ shown' = (shown \ (Leaves[s] \cup {"empty", "main"})) \cup {s}
  /\ hash' = s /\ tab' = s
  /\ UNCHANGED <<reading, months, phase>>

(* The tab of a screen that is open leads back, but for the directory's.   *)
Tab(s) == IF s \in open /\ s # "directory" THEN Dashboard ELSE Show(s)

----------------------------------------------------------------------------
(* Months. Every handler but the first lines of an import ends in render.  *)
Ready == phase # "boot"

Chip(m) ==
  /\ Ready /\ "main" \in shown /\ m \in chips.drawn
  /\ Render(rows, m, scope, cardScope) /\ UNCHANGED phase

(* The filters of a table draw that table alone, from its own select.      *)
Table(held) ==
  /\ scope' = MonthFilter(held, month, rows)
  /\ UNCHANGED <<screen, rows, month, chips, cardScope>>
CardTable(held) ==
  /\ cardScope' = MonthFilter(held, month, rows)
  /\ UNCHANGED <<screen, rows, month, chips, scope>>

(* Choosing a month chooses it everywhere; "all history" belongs to the    *)
(* table it is chosen in.                                                  *)
Scope(v) ==
  /\ Ready /\ "main" \in shown /\ v \in chips.drawn \cup {All}
  /\ IF v \in {All, month} THEN Table(v) ELSE Render(rows, v, v, cardScope)
  /\ UNCHANGED phase
CardScope(v) ==
  /\ Ready /\ "cards" \in shown /\ v \in rows \cup {All}
  /\ IF v \in {All, month} THEN CardTable(v) ELSE Render(rows, v, scope, v)
  /\ UNCHANGED phase

(* Another filter of the table: #q, #f-cat, #f-dir, #f-view; #f-card.      *)
Filter ==
  /\ Ready /\ UNCHANGED phase
  /\ \/ "main" \in shown /\ Table(scope)
     \/ "cards" \in shown /\ CardTable(cardScope)

(* A row entered by hand opens its month; a sync, a flip or a removal      *)
(* leaves the month as it is; a restored household has none yet.           *)
Enter(m)      == Ready /\ Render(rows \cup {m}, m, scope, cardScope) /\ UNCHANGED phase
Change(kept)  == Ready /\ Render(kept, month, scope, cardScope) /\ UNCHANGED phase
RestoreRows(kept) == Ready /\ Render(kept, NoMonth, scope, cardScope) /\ UNCHANGED phase
Wipe          == rows # {} /\ RestoreRows({})

(* A file of an import has been read; the last one has.                    *)
ImportFile(m) ==
  /\ Ready /\ phase' = "importing" /\ rows' = rows \cup {m}
  /\ UNCHANGED <<screen, month, chips, scope, cardScope>>
ImportEnd ==
  /\ phase = "importing" /\ phase' = "ready"
  /\ Render(rows, NoMonth, scope, cardScope)

FirstRender ==
  /\ phase = "boot" /\ phase' = "ready"
  /\ Render(rows, month, scope, cardScope)

(* Loaded again, at the address it had. Rows an import had not saved yet   *)
(* are gone.                                                               *)
LoadAgain ==
  /\ open' = {hash} \ {"none"} /\ shown' = {"empty"}
  /\ reading' = "dashboard" /\ tab' = "overview"
  /\ rows' \in IF phase = "importing" THEN SUBSET rows ELSE {rows}
  /\ month' = NoMonth /\ chips' = NoChips
  /\ scope' = NoMonth /\ cardScope' = NoMonth /\ phase' = "boot"
  /\ UNCHANGED hash

ScreensNext ==
  \/ Dashboard \/ Recommendations
  \/ \E s \in Beside : Tab(s)
  \/ Show("expenses")   \* #btn-quick-add
  \/ \E m \in Months : Chip(m) \/ Enter(m) \/ ImportFile(m)
  \/ \E v \in Months \cup {All} : Scope(v) \/ CardScope(v)
  \/ \E kept \in SUBSET Months : RestoreRows(kept) \/ Change(kept)
  \/ Filter \/ Wipe \/ ImportEnd \/ FirstRender \/ LoadAgain

ScreensSpec == ScreensInit /\ [][ScreensNext]_screensVars

----------------------------------------------------------------------------
(* Properties.                                                             *)

ScreensTypeOK ==
  /\ open \subseteq Beside /\ shown \subseteq Sections
  /\ reading \in {"dashboard", "recommendations"}
  /\ hash \in Beside \cup {"none"} /\ tab \in Tabs
  /\ rows \subseteq Months /\ month \in Months \cup {NoMonth}
  /\ chips \in [drawn : SUBSET Months, pressed : Months \cup {NoMonth}]
  /\ {scope, cardScope} \subseteq Months \cup {NoMonth, All}
  /\ phase \in {"boot", "importing", "ready"}

(* "Two controls disagreeing about which month is open is worse than one   *)
(* extra list" (app.ts, fillMonthFilter): the chips, both selects and the  *)
(* figures are of one month, whichever of them was used last, whatever was *)
(* entered, imported, removed, wiped or restored since, and on whatever    *)
(* screen; a select may say "all history" for its own table.               *)
MonthsAgree ==
  phase = "ready" /\ rows # {} =>
    /\ month \in rows
    /\ chips = [drawn |-> rows, pressed |-> month]
    /\ {scope, cardScope} \subseteq {month, All}

(* A render, which any answer or import may cause, moves nobody to another *)
(* screen: the sections handlers left visible are those render shows.      *)
RenderKeepsScreen ==
  /\ Ready => shown \cap Beside = open
  /\ phase = "ready" => shown = Rendered(open, rows)

(* "A hash so a reload comes back to it" (app.ts, goalsOpen): the address  *)
(* names a screen that is open, and names one whenever one is.             *)
HashReturns ==
  /\ hash = "none" <=> open = {}
  /\ hash # "none" => hash \in open

(* "One screen at a time: two open at once would leave a household reading *)
(* one and acting on the other" (app.ts, showCards). This does not hold:   *)
(* expenses, then the cards, and both are open (Leaves).                   *)
OneScreen == Cardinality(shown \cap Beside) <= 1

=============================================================================
