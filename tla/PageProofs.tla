----------------------------- MODULE PageProofs -----------------------------
(***************************************************************************)
(* Theorems about the parts of a page, for any months, pages, days, rings  *)
(* and retention: first the screens (Screens), then the log (BrowserLog),  *)
(* then the page they are parts of (MCPage). Those about its settings are  *)
(* in SettingsProofs.                                                      *)
(***************************************************************************)
EXTENDS MCPage, SettingsProofs

LEMMA NewestIsThere ==
  ASSUME NEW kept \in SUBSET Months, kept # {}
  PROVE  Newest(kept) \in kept
<1>1. IsFiniteSet(kept) /\ kept \subseteq Nat BY ScreensAssumption, FS_Subset
<1>2. kept \subseteq Int BY <1>1
<1>3. Max(kept) \in kept BY <1>1, <1>2, GreatestIs
<1> QED BY <1>3 DEF Newest

LEMMA NewestType ==
  ASSUME NEW kept \in SUBSET Months PROVE Newest(kept) \in kept \cup {NoMonth}
BY NewestIsThere DEF Newest

(* What a select says once it is filled.                                   *)
LEMMA FilterSays ==
  ASSUME NEW held, NEW opened, NEW kept \in SUBSET Months, kept # {}
  PROVE  MonthFilter(held, opened, kept) \in
           IF opened \in kept THEN {opened, All} ELSE {Newest(kept), All}
BY DEF MonthFilter

LEMMA FilterType ==
  ASSUME NEW held, NEW opened, NEW kept \in SUBSET Months
  PROVE  MonthFilter(held, opened, kept) \in Months \cup {All}
BY NewestIsThere DEF MonthFilter

(* The month a render opens is one there are rows of.                      *)
LEMMA RenderOpens ==
  ASSUME NEW kept \in SUBSET Months, NEW wanted, NEW held, NEW cardHeld, kept # {},
         Render(kept, wanted, held, cardHeld)
  PROVE  /\ rows' = kept /\ month' \in kept
         /\ chips' = [drawn |-> kept, pressed |-> month']
         /\ scope' \in {month', All} /\ cardScope' \in {month', All}
<1>1. month' \in kept /\ rows' = kept BY NewestIsThere DEF Render
<1>2. /\ chips' = [drawn |-> kept, pressed |-> month']
      /\ scope' = MonthFilter(held, month', kept)
      /\ cardScope' = MonthFilter(cardHeld, month', kept)
  BY DEF Render
<1> QED BY <1>1, <1>2, FilterSays

LEMMA RenderType ==
  ASSUME NEW kept \in SUBSET Months, NEW wanted, NEW held \in Months \cup {NoMonth, All},
         NEW cardHeld, ScreensTypeOK, Render(kept, wanted, held, cardHeld),
         phase' \in {"boot", "importing", "ready"}
  PROVE  ScreensTypeOK'
<1>1. rows' = kept /\ month' \in Months \cup {NoMonth}
  BY NewestType DEF Render
<1>2. shown' \subseteq Sections BY DEF Render, Rendered, ScreensTypeOK, Sections
<1>3. cardScope' \in Months \cup {All} BY FilterType DEF Render
<1>4. scope' \in Months \cup {NoMonth, All} BY FilterType DEF Render
<1>5. chips' \in [drawn : SUBSET Months, pressed : Months \cup {NoMonth}]
  <2>1. CASE kept = {} BY <2>1 DEF Render, ScreensTypeOK
  <2>2. CASE kept # {}
    <3>1. chips' = [drawn |-> kept, pressed |-> month'] BY <2>2 DEF Render
    <3> QED BY <1>1, <3>1
  <2> QED BY <2>1, <2>2
<1>6. open' = open /\ reading' = reading /\ hash' = hash /\ tab' = tab BY DEF Render
<1> QED BY <1>1, <1>2, <1>3, <1>4, <1>5, <1>6 DEF ScreensTypeOK

----------------------------------------------------------------------------
(* Every step draws the household, chooses a screen, fills the select of   *)
(* one table, reads a file or loads the page.                              *)
Draws ==
  /\ \E kept \in SUBSET Months : \E wanted, held, cardHeld \in Months \cup {NoMonth, All} :
       Render(kept, wanted, held, cardHeld)
  /\ phase' \in {phase, "ready"} /\ (phase = "boot" => phase' = "ready")
Chooses == Dashboard \/ Recommendations \/ \E s \in Beside : Show(s)
Fills == /\ \E held : Table(held) \/ CardTable(held)
         /\ phase' = phase

LEMMA Steps ==
  ScreensTypeOK /\ [ScreensNext]_screensVars =>
    \/ Draws \/ Chooses \/ Fills \/ LoadAgain \/ UNCHANGED screensVars
    \/ \E m \in Months : ImportFile(m)
<1> SUFFICES ASSUME ScreensTypeOK, ScreensNext
             PROVE  Draws \/ Chooses \/ Fills \/ LoadAgain \/ \E m \in Months : ImportFile(m)
  OBVIOUS
<1> DEFINE Selects == Months \cup {NoMonth, All}
<1>1. /\ rows \in SUBSET Months /\ month \in Selects /\ NoMonth \in Selects
      /\ scope \in Selects /\ cardScope \in Selects
      /\ phase \in {"boot", "importing", "ready"}
  BY DEF ScreensTypeOK
<1>2. ASSUME NEW m \in Months, Chip(m) PROVE Draws
  <2>1. m \in Selects OBVIOUS
  <2> HIDE DEF Selects
  <2>2. Render(rows, m, scope, cardScope) /\ phase' = phase /\ phase # "boot"
    BY <1>2 DEF Chip, Ready
  <2> QED BY <1>1, <2>1, <2>2 DEF Draws, Selects
<1>3. ASSUME NEW m \in Months, Enter(m) PROVE Draws
  <2>1. m \in Selects /\ rows \cup {m} \in SUBSET Months BY <1>1
  <2>2. Render(rows \cup {m}, m, scope, cardScope) /\ phase' = phase /\ phase # "boot"
    BY <1>3 DEF Enter, Ready
  <2> QED BY <1>1, <2>1, <2>2 DEF Draws
<1>4. ASSUME NEW kept \in SUBSET Months, Change(kept) \/ RestoreRows(kept) PROVE Draws
  <2>1. \/ Render(kept, month, scope, cardScope)
        \/ Render(kept, NoMonth, scope, cardScope)
    BY <1>4 DEF Change, RestoreRows
  <2>2. phase' = phase /\ phase # "boot" BY <1>4 DEF Change, RestoreRows, Ready
  <2> QED BY <1>1, <2>1, <2>2 DEF Draws
<1>5. CASE Wipe BY <1>4, <1>5 DEF Wipe
<1>6. CASE ImportEnd
  <2>1. Render(rows, NoMonth, scope, cardScope) /\ phase' = "ready"
    BY <1>6 DEF ImportEnd
  <2> QED BY <1>1, <2>1 DEF Draws
<1>7. CASE FirstRender
  <2>1. Render(rows, month, scope, cardScope) /\ phase' = "ready"
    BY <1>7 DEF FirstRender
  <2> QED BY <1>1, <2>1 DEF Draws
<1>8. ASSUME NEW v \in Months \cup {All}, Scope(v) PROVE Draws \/ Fills
  <2>1. v \in Selects OBVIOUS
  <2>2. Table(v) \/ Render(rows, v, v, cardScope) BY <1>8 DEF Scope
  <2>3. phase' = phase /\ phase # "boot" BY <1>8 DEF Scope, Ready
  <2> QED BY <1>1, <2>1, <2>2, <2>3 DEF Draws, Fills
<1>9. ASSUME NEW v \in Months \cup {All}, CardScope(v) PROVE Draws \/ Fills
  <2>1. v \in Selects OBVIOUS
  <2>2. CardTable(v) \/ Render(rows, v, scope, v) BY <1>9 DEF CardScope
  <2>3. phase' = phase /\ phase # "boot" BY <1>9 DEF CardScope, Ready
  <2> QED BY <1>1, <2>1, <2>2, <2>3 DEF Draws, Fills
<1>10. CASE Filter BY <1>10 DEF Filter, Fills
<1>11. CASE \E s \in Beside : Tab(s) BY <1>11 DEF Tab, Chooses
<1>12. CASE Show("expenses") BY <1>12 DEF Chooses, Beside
<1> QED BY <1>2, <1>3, <1>4, <1>5, <1>6, <1>7, <1>8, <1>9, <1>10, <1>11, <1>12
        DEF ScreensNext, Chooses

LEMMA ScreensTypeInit == ScreensInit => ScreensTypeOK
BY DEF ScreensInit, ScreensTypeOK, NoChips, Beside, Sections, Tabs

LEMMA ScreensTypeStep == ScreensTypeOK /\ [ScreensNext]_screensVars => ScreensTypeOK'
<1> SUFFICES ASSUME ScreensTypeOK, [ScreensNext]_screensVars PROVE ScreensTypeOK'
  OBVIOUS
<1>1. CASE Draws
  <2>1. PICK kept \in SUBSET Months, wanted, held, cardHeld \in Months \cup {NoMonth, All} :
          Render(kept, wanted, held, cardHeld)
    BY <1>1 DEF Draws
  <2>2. phase' \in {"boot", "importing", "ready"} BY <1>1 DEF Draws, ScreensTypeOK
  <2> QED BY <2>1, <2>2, RenderType
<1>2. CASE Chooses
  <2>1. months' = months /\ phase' = phase BY <1>2 DEF Chooses, Dashboard, Recommendations, Show
  <2>2. /\ open' \subseteq Beside /\ shown' \subseteq Sections
        /\ reading' \in {"dashboard", "recommendations"}
        /\ hash' \in Beside \cup {"none"} /\ tab' \in Tabs
    BY <1>2 DEF Chooses, Dashboard, Recommendations, Show, ScreensTypeOK, Sections, Tabs
  <2> QED BY <2>1, <2>2 DEF months, ScreensTypeOK
<1>3. CASE Fills
  <2>1. PICK held : Table(held) \/ CardTable(held) BY <1>3 DEF Fills
  <2>2. MonthFilter(held, month, rows) \in Months \cup {All}
    BY FilterType DEF ScreensTypeOK
  <2>3. /\ screen' = screen /\ rows' = rows /\ month' = month /\ chips' = chips
        /\ phase' = phase
    BY <1>3, <2>1 DEF Table, CardTable, Fills
  <2>4. {scope', cardScope'} \subseteq Months \cup {NoMonth, All}
    BY <2>1, <2>2 DEF Table, CardTable, ScreensTypeOK
  <2> QED BY <2>3, <2>4 DEF screen, ScreensTypeOK
<1>4. CASE LoadAgain
  <2>1. rows' \subseteq Months BY <1>4 DEF LoadAgain, ScreensTypeOK
  <2> QED BY <1>4, <2>1 DEF LoadAgain, ScreensTypeOK, NoChips, Beside, Sections, Tabs
<1>5. CASE \E m \in Months : ImportFile(m)
  BY <1>5 DEF ImportFile, screen, ScreensTypeOK
<1>6. CASE UNCHANGED screensVars
  BY <1>6 DEF screensVars, screen, months, ScreensTypeOK
<1> QED BY <1>1, <1>2, <1>3, <1>4, <1>5, <1>6, Steps

(* Every variable of the page's screens and months keeps its type.         *)
THEOREM ScreensTypeCorrect == ScreensSpec => []ScreensTypeOK
BY ScreensTypeInit, ScreensTypeStep, PTL DEF ScreensSpec

----------------------------------------------------------------------------
LEMMA MonthsStep == MonthsAgree /\ ScreensTypeOK /\ [ScreensNext]_screensVars => MonthsAgree'
<1> SUFFICES ASSUME MonthsAgree, ScreensTypeOK, [ScreensNext]_screensVars,
                    phase' = "ready", rows' # {}
             PROVE  MonthsAgree'
  BY DEF MonthsAgree
<1>1. CASE Draws
  <2>1. PICK kept \in SUBSET Months, wanted, held, cardHeld \in Months \cup {NoMonth, All} :
          Render(kept, wanted, held, cardHeld)
    BY <1>1 DEF Draws
  <2>2. kept # {} BY <2>1 DEF Render
  <2> QED BY <2>1, <2>2, RenderOpens DEF MonthsAgree
<1>2. CASE Chooses
  BY <1>2 DEF Chooses, Dashboard, Recommendations, Show, months, MonthsAgree
<1>3. CASE Fills
  <2>1. PICK held : Table(held) \/ CardTable(held) BY <1>3 DEF Fills
  <2>2. rows' = rows /\ month' = month /\ chips' = chips /\ phase' = phase
    BY <1>3, <2>1 DEF Table, CardTable, Fills
  <2>3. /\ month \in rows /\ chips = [drawn |-> rows, pressed |-> month]
        /\ {scope, cardScope} \subseteq {month, All} /\ rows \in SUBSET Months
    BY <2>2 DEF MonthsAgree, ScreensTypeOK
  <2>4. MonthFilter(held, month, rows) \in {month, All} BY <2>3, FilterSays
  <2>5. {scope', cardScope'} \subseteq {month, All}
    BY <2>1, <2>3, <2>4 DEF Table, CardTable
  <2> QED BY <2>2, <2>3, <2>5 DEF MonthsAgree
<1>4. CASE LoadAgain BY <1>4 DEF LoadAgain
<1>5. CASE \E m \in Months : ImportFile(m) BY <1>5 DEF ImportFile
<1>6. CASE UNCHANGED screensVars BY <1>6 DEF screensVars, months, MonthsAgree
<1> QED BY <1>1, <1>2, <1>3, <1>4, <1>5, <1>6, Steps

(* The chips, both selects and the figures are of one month whenever the   *)
(* page is at rest, for any number of months and whichever way the rows    *)
(* came and went.                                                          *)
THEOREM MonthsCorrect == ScreensSpec => []MonthsAgree
<1>1. ScreensInit => MonthsAgree BY DEF ScreensInit, MonthsAgree
<1> QED BY <1>1, MonthsStep, ScreensTypeCorrect, PTL DEF ScreensSpec

----------------------------------------------------------------------------
LEMMA HashStep == HashReturns /\ ScreensTypeOK /\ [ScreensNext]_screensVars => HashReturns'
<1> SUFFICES ASSUME HashReturns, ScreensTypeOK, [ScreensNext]_screensVars
             PROVE  HashReturns'
  OBVIOUS
<1>1. CASE Draws \/ Fills \/ UNCHANGED screensVars \/ \E m \in Months : ImportFile(m)
  BY <1>1 DEF Draws, Render, Fills, Table, CardTable, ImportFile, screensVars, screen,
     HashReturns
<1>2. CASE Chooses
  BY <1>2 DEF Chooses, Dashboard, Recommendations, Show, Beside, HashReturns
<1>3. CASE LoadAgain BY <1>3 DEF LoadAgain, HashReturns
<1> QED BY <1>1, <1>2, <1>3, Steps

(* The address names a screen that is open, whenever one is: a reload      *)
(* comes back to it.                                                       *)
THEOREM HashCorrect == ScreensSpec => []HashReturns
<1>1. ScreensInit => HashReturns BY DEF ScreensInit, Beside, HashReturns
<1> QED BY <1>1, HashStep, ScreensTypeCorrect, PTL DEF ScreensSpec

----------------------------------------------------------------------------
LEMMA KeepsStep ==
  RenderKeepsScreen /\ ScreensTypeOK /\ [ScreensNext]_screensVars => RenderKeepsScreen'
<1> SUFFICES ASSUME RenderKeepsScreen, ScreensTypeOK, [ScreensNext]_screensVars
             PROVE  RenderKeepsScreen'
  OBVIOUS
<1> USE DEF Ready
<1>1. CASE Draws
  <2>1. open' = open /\ shown' = Rendered(open, rows') BY <1>1 DEF Draws, Render
  <2>2. open \subseteq Beside BY DEF ScreensTypeOK
  <2>3. shown' \cap Beside = open BY <2>1, <2>2 DEF Rendered, Beside
  <2> QED BY <2>1, <2>3 DEF RenderKeepsScreen
<1>2. CASE Fills \/ UNCHANGED screensVars
  BY <1>2 DEF Fills, Table, CardTable, screensVars, screen, months, RenderKeepsScreen
<1>3. CASE \E m \in Months : ImportFile(m)
  BY <1>3 DEF ImportFile, screen, RenderKeepsScreen
<1>4. CASE LoadAgain BY <1>4 DEF LoadAgain, RenderKeepsScreen
<1>5. CASE Chooses
  <2>1. phase' = phase /\ rows' = rows
    BY <1>5 DEF Chooses, Dashboard, Recommendations, Show, months
  <2>2. "empty" \notin Beside /\ "main" \notin Beside BY DEF Beside
  <2>3. CASE Dashboard
    BY <2>1, <2>2, <2>3 DEF Dashboard, Rendered, RenderKeepsScreen
  <2>4. CASE Recommendations
    <3>1. open' = {} /\ shown' = (shown \ Beside) \cup Rendered({}, rows)
      BY <2>4 DEF Recommendations, Rendered
    <3>2. shown' \cap Beside = {} BY <2>2, <3>1 DEF Rendered
    <3>3. phase = "ready" => shown \ Beside \subseteq Rendered({}, rows)
      BY DEF RenderKeepsScreen, Rendered, ScreensTypeOK
    <3> QED BY <2>1, <3>1, <3>2, <3>3 DEF RenderKeepsScreen
  <2>5. ASSUME NEW s \in Beside, Show(s) PROVE RenderKeepsScreen'
    <3>1. /\ open' = (open \ Leaves[s]) \cup {s}
          /\ shown' = (shown \ (Leaves[s] \cup {"empty", "main"})) \cup {s}
      BY <2>5 DEF Show
    <3>2. phase # "boot" => shown \ {"empty", "main"} = open
      BY <2>2 DEF RenderKeepsScreen, ScreensTypeOK, Sections
    <3>3. phase # "boot" => shown' = open' BY <3>1, <3>2
    <3>4. open' \subseteq Beside /\ open' # {} BY <3>1 DEF ScreensTypeOK
    <3> QED BY <2>1, <3>3, <3>4 DEF RenderKeepsScreen, Rendered
  <2> QED BY <1>5, <2>3, <2>4, <2>5 DEF Chooses
<1> QED BY <1>1, <1>2, <1>3, <1>4, <1>5, Steps

(* No render moves the household to another screen: what the handlers      *)
(* left visible one by one is what a render would show, on any path.       *)
THEOREM KeepsCorrect == ScreensSpec => []RenderKeepsScreen
<1>1. ScreensInit => RenderKeepsScreen BY DEF ScreensInit, Ready, RenderKeepsScreen
<1> QED BY <1>1, KeepsStep, ScreensTypeCorrect, PTL DEF ScreensSpec

----------------------------------------------------------------------------
(* What is true of every copy and of every page's memory.                  *)
CopiesOK(copies) ==
  \A d \in DOMAIN copies :
    /\ d \in 0..MaxDay /\ copies[d] \in Seq(Records)
    /\ Len(copies[d]) \in 1..Capacity
    /\ \A k \in DOMAIN copies[d] : copies[d][k].day = d
Remembers(records, day) ==
  /\ records \in Seq(Records) /\ Len(records) <= Capacity
  /\ \A k \in DOMAIN records : records[k].day = day
LoggerOK(logger) == logger \in Loggers /\ Remembers(logger.records, logger.day)

LEMMA LoggerFields ==
  ASSUME NEW logger \in Loggers
  PROVE  /\ logger.day \in 0..MaxDay /\ logger.records \in Seq(Records)
         /\ logger.due \in BOOLEAN /\ logger.open /\ logger.level \in Levels
BY DEF Loggers

LEMMA FlushedCopies ==
  ASSUME NEW copies, NEW logger, NEW fails \in BOOLEAN,
         CopiesOK(copies), LoggerOK(logger)
  PROVE  /\ CopiesOK(Flushed(copies, logger, fails))
         /\ DOMAIN Flushed(copies, logger, fails) \subseteq DOMAIN copies \cup {logger.day}
<1> DEFINE after == Flushed(copies, logger, fails)
<1>1. logger.day \in 0..MaxDay /\ logger.records \in Seq(Records)
  BY LoggerFields DEF LoggerOK
<1>2. CASE logger.records = <<>>
  BY <1>2 DEF Flushed
<1>3. CASE logger.records # <<>> /\ fails
  <2>1. after = Restrict(copies, DOMAIN copies \cap {logger.day}) BY <1>3 DEF Flushed
  <2>2. /\ DOMAIN after = DOMAIN copies \cap {logger.day}
        /\ \A d \in DOMAIN after : after[d] = copies[d]
    BY <2>1 DEF Restrict
  <2> QED BY <2>2 DEF CopiesOK
<1>4. CASE logger.records # <<>> /\ ~fails
  <2>1. after = [d \in DOMAIN copies \cup {logger.day} |->
                   IF d = logger.day THEN logger.records ELSE copies[d]]
    BY <1>4 DEF Flushed
  <2>2. Len(logger.records) \in 1..Capacity
    <3>1. Len(logger.records) \in Nat \ {0} BY <1>1, <1>4, EmptySeq
    <3> QED BY <3>1, BrowserLogAssumption DEF LoggerOK, Remembers
  <2>3. /\ DOMAIN after = DOMAIN copies \cup {logger.day}
        /\ after[logger.day] = logger.records
        /\ \A d \in DOMAIN copies : d # logger.day => after[d] = copies[d]
    BY <2>1
  <2>4. CopiesOK(after)
    <3> SUFFICES ASSUME NEW d \in DOMAIN after
                 PROVE  /\ d \in 0..MaxDay /\ after[d] \in Seq(Records)
                        /\ Len(after[d]) \in 1..Capacity
                        /\ \A k \in DOMAIN after[d] : after[d][k].day = d
      BY DEF CopiesOK
    <3> HIDE DEF after
    <3>1. CASE d = logger.day BY <1>1, <2>2, <2>3, <3>1 DEF LoggerOK, Remembers
    <3>2. CASE d # logger.day BY <2>3, <3>2 DEF CopiesOK
    <3> QED BY <3>1, <3>2
  <2> QED BY <2>3, <2>4
<1> QED BY <1>2, <1>3, <1>4

LEMMA PrunedCopies ==
  ASSUME NEW copies, CopiesOK(copies)
  PROVE  /\ CopiesOK(Pruned(copies))
         /\ DOMAIN Pruned(copies) = {d \in DOMAIN copies : today - d < Retention}
<1>1. /\ DOMAIN Pruned(copies) = {d \in DOMAIN copies : today - d < Retention}
      /\ \A d \in DOMAIN Pruned(copies) : Pruned(copies)[d] = copies[d]
  BY DEF Pruned, Restrict
<1> QED BY <1>1 DEF CopiesOK

(* The ring of a page that takes one more record of its day.               *)
LEMMA RingAppend ==
  ASSUME NEW r \in Records, NEW records, Remembers(records, r.day)
  PROVE  Remembers(Ring(Append(records, r)), r.day)
<1> DEFINE longer == Append(records, r)
           ring == Ring(longer)
           from == Len(longer) - Capacity + 1
<1>1. /\ longer \in Seq(Records) /\ Len(longer) = Len(records) + 1
      /\ Len(records) \in Nat /\ Capacity \in Nat \ {0}
  BY BrowserLogAssumption DEF Remembers
<1>2. \A k \in 1..Len(longer) : longer[k] \in Records /\ longer[k].day = r.day
  <2> SUFFICES ASSUME NEW k \in 1..Len(longer)
               PROVE  longer[k] \in Records /\ longer[k].day = r.day
    OBVIOUS
  <2>1. CASE k = Len(longer) BY <1>1, <2>1
  <2>2. CASE k # Len(longer)
    <3>1. k \in DOMAIN records /\ longer[k] = records[k] /\ records[k] \in Records
      BY <1>1, <2>2 DEF Remembers
    <3> QED BY <3>1 DEF Remembers
  <2> QED BY <2>1, <2>2
<1> HIDE DEF longer
<1>3. ASSUME Len(longer) > Capacity PROVE Remembers(ring, r.day)
  <2>1. ring = SubSeq(longer, from, Len(longer)) BY <1>3 DEF Ring
  <2>2. from \in Int /\ from >= 1 /\ Len(longer) \in Nat BY <1>1, <1>3
  <2>3. \A i \in from..Len(longer) : longer[i] \in Records /\ longer[i].day = r.day
    BY <1>2, <2>2
  <2> HIDE DEF from
  <2>4. /\ ring \in Seq(Records)
        /\ Len(ring) = IF from <= Len(longer) THEN Len(longer) - from + 1 ELSE 0
        /\ \A i \in 1..(Len(longer) - from + 1) : ring[i] = longer[from + i - 1]
    BY <2>1, <2>2, <2>3, SubSeqProperties
  <2>5. Len(ring) <= Capacity BY <1>1, <1>3, <2>4 DEF from
  <2>6. \A k \in DOMAIN ring : ring[k].day = r.day
    <3> SUFFICES ASSUME NEW k \in 1..Len(ring) PROVE ring[k].day = r.day
      BY <2>4, LenProperties
    <3>1. k \in 1..(Len(longer) - from + 1) /\ from + k - 1 \in from..Len(longer)
      BY <2>2, <2>4
    <3> QED BY <2>3, <2>4, <3>1
  <2> QED BY <2>4, <2>5, <2>6 DEF Remembers
<1>4. ASSUME ~(Len(longer) > Capacity) PROVE Remembers(ring, r.day)
  <2>1. ring = longer BY <1>4 DEF Ring
  <2>2. DOMAIN longer = 1..Len(longer) BY <1>1, LenProperties
  <2> QED BY <1>1, <1>2, <1>4, <2>1, <2>2 DEF Remembers
<1> QED BY <1>3, <1>4 DEF longer

(* The first step of a write: a page whose day is over starts a new one.   *)
RollsOver(r, logger, copies) ==
  /\ LoggerOK(r.logger) /\ r.logger.day = today /\ CopiesOK(r.copies)
  /\ IF logger.day = today THEN r.copies = copies
     ELSE /\ DOMAIN r.copies \subseteq DOMAIN copies \cup {logger.day}
          /\ \A d \in DOMAIN r.copies : today - d < Retention

LEMMA RolledPage ==
  ASSUME NEW logger, NEW copies, NEW fails \in BOOLEAN, LoggerOK(logger),
         CopiesOK(copies), today \in 0..MaxDay
  PROVE  RollsOver(Rolled(logger, copies, fails), logger, copies)
<1> DEFINE r == Rolled(logger, copies, fails)
<1>1. CASE logger.day = today
  <2>1. r = [logger |-> logger, copies |-> copies] BY <1>1 DEF Rolled
  <2>2. r.logger = logger /\ r.copies = copies BY <2>1
  <2> HIDE DEF r
  <2>3. RollsOver(r, logger, copies) BY <1>1, <2>2 DEF RollsOver
  <2> QED BY <2>3 DEF r
<1>2. CASE logger.day # today
  <2> DEFINE fresh == [logger EXCEPT !.day = today, !.due = FALSE, !.records = <<>>]
             flushed == Flushed(copies, logger, fails)
             pruned == Pruned(flushed)
  <2>1. r.logger = fresh /\ r.copies = pruned BY <1>2 DEF Rolled
  <2>2. fresh \in Loggers /\ fresh.day = today /\ fresh.records = <<>>
    BY EmptySeq DEF LoggerOK, Loggers
  <2>3. LoggerOK(fresh)
    <3>1. Len(<<>>) <= Capacity /\ <<>> \in Seq(Records) /\ DOMAIN <<>> = {}
      BY BrowserLogAssumption
    <3> HIDE DEF fresh
    <3> QED BY <2>2, <3>1 DEF LoggerOK, Remembers
  <2>4. /\ CopiesOK(pruned) /\ DOMAIN pruned \subseteq DOMAIN copies \cup {logger.day}
        /\ \A d \in DOMAIN pruned : today - d < Retention
    <3>1. CopiesOK(flushed) /\ DOMAIN flushed \subseteq DOMAIN copies \cup {logger.day}
      BY FlushedCopies
    <3> HIDE DEF flushed
    <3>2. CopiesOK(pruned) /\ DOMAIN pruned = {d \in DOMAIN flushed : today - d < Retention}
      BY <3>1, PrunedCopies
    <3> QED BY <3>1, <3>2
  <2>5. fresh.day = today BY <2>2
  <2> HIDE DEF fresh, pruned, r
  <2>6. RollsOver(r, logger, copies) BY <1>2, <2>1, <2>3, <2>4, <2>5 DEF RollsOver
  <2> QED BY <2>6 DEF r
<1> QED BY <1>1, <1>2

(* What a write leaves: the page is at today, and so is what it copies.    *)
Takes(p, logger) ==
  /\ LoggerOK(logger) /\ logger.day = today
  /\ page' = [page EXCEPT ![p] = logger]
AddsOrPrunes(p) ==
  \/ page[p].day = today /\ DOMAIN stored' \subseteq DOMAIN stored \cup {today}
  \/ \A d \in DOMAIN stored' :
       d = today \/ (today - d < Retention /\ d \in DOMAIN stored \cup {page[p].day})

LEMMA WriteShape ==
  ASSUME NEW p \in Pages, NEW level, NEW fails \in BOOLEAN, LoggerOK(page[p]),
         CopiesOK(stored), today \in 0..MaxDay, written \in 0..MaxRecords,
         Write(p, level, fails)
  PROVE  /\ \E logger : Takes(p, logger)
         /\ CopiesOK(stored') /\ AddsOrPrunes(p)
<1> DEFINE r == Rolled(page[p], stored, fails)
           record == [day |-> today, n |-> written + 1]
           new == [r.logger EXCEPT !.records = Ring(Append(@, record))]
           last == [new EXCEPT !.due = FALSE]
<1>1. /\ page' = [page EXCEPT ![p] = last]
      /\ stored' = IF new.due THEN Flushed(r.copies, new, fails) ELSE r.copies
      /\ written < MaxRecords
  BY DEF Write
<1>2. /\ LoggerOK(r.logger) /\ r.logger.day = today /\ CopiesOK(r.copies)
      /\ IF page[p].day = today THEN r.copies = stored
         ELSE /\ DOMAIN r.copies \subseteq DOMAIN stored \cup {page[p].day}
              /\ \A d \in DOMAIN r.copies : today - d < Retention
  BY RolledPage DEF RollsOver
<1> HIDE DEF r
<1>3. record \in Records /\ record.day = today BY <1>1, BrowserLogAssumption DEF Records
<1>4. Remembers(Ring(Append(r.logger.records, record)), today)
  <2> HIDE DEF record
  <2> QED BY <1>2, <1>3, RingAppend DEF LoggerOK
<1>5. LoggerOK(new) /\ new.day = today
  <2>1. r.logger \in Loggers BY <1>2 DEF LoggerOK
  <2> HIDE DEF record
  <2>2. new \in Loggers /\ new.records = Ring(Append(r.logger.records, record)) /\ new.day = today
    BY <1>2, <1>4, <2>1 DEF Loggers, Remembers
  <2> QED BY <1>4, <2>2 DEF LoggerOK
<1> HIDE DEF new
<1>6. LoggerOK(last) /\ last.day = today
  <2>1. last \in Loggers /\ last.records = new.records /\ last.day = new.day
    BY <1>5 DEF LoggerOK, Loggers
  <2> QED BY <1>5, <2>1 DEF LoggerOK
<1> HIDE DEF last
<1>7. \E logger : Takes(p, logger) BY <1>1, <1>6 DEF Takes
<1>8. CopiesOK(stored') /\ DOMAIN stored' \subseteq DOMAIN r.copies \cup {today}
  BY <1>1, <1>2, <1>5, FlushedCopies
<1> QED BY <1>2, <1>7, <1>8 DEF AddsOrPrunes

----------------------------------------------------------------------------
LogInv ==
  /\ today \in 0..MaxDay /\ written \in 0..MaxRecords
  /\ page \in [Pages -> Loggers \cup {Closed}]
  /\ CopiesOK(stored)
  /\ \A p \in Open : LoggerOK(page[p]) /\ page[p].day <= today

(* Copies can only pile up since the last pruning, on the day T, and only  *)
(* one for each page: the page that pruned is of that day, and every other *)
(* one of the day it has had since.                                        *)
Window(T) == {d \in 0..MaxDay : T - Retention < d /\ d <= T}
PiledUp(T, f, z) ==
  /\ f[z] = T
  /\ \A p \in Open : f[p] = page[p].day
  /\ DOMAIN stored \subseteq Window(T) \cup {f[p] : p \in Pages}
SpreadInv ==
  \/ DOMAIN stored = {} /\ Open = {}
  \/ \E T \in 0..today, f \in [Pages -> 0..today], z \in Pages : PiledUp(T, f, z)

(* A step after which the clock is no earlier, and a page that is open was *)
(* so before, on the same day; what it copies is of a day an open page has.*)
Ages ==
  /\ today' \in 0..MaxDay /\ today <= today' /\ written' \in 0..MaxRecords
  /\ page' \in [Pages -> Loggers \cup {Closed}]
  /\ \A p \in Open' : p \in Open /\ page'[p].day = page[p].day /\ LoggerOK(page'[p])
  /\ CopiesOK(stored')
  /\ DOMAIN stored' \subseteq DOMAIN stored \cup {page[p].day : p \in Open}

(* A step in which page p prunes the copies and is of today.               *)
Tidies(p) ==
  /\ today' = today /\ written' \in 0..MaxRecords
  /\ \E logger : Takes(p, logger)
  /\ CopiesOK(stored')
  /\ \A d \in DOMAIN stored' : d = today \/ (d <= today /\ today - d < Retention)

LEMMA ClosedIsClosed == ~Closed.open /\ \A l \in Loggers : l.open
BY DEF Closed, Loggers

LEMMA OpenPages ==
  ASSUME LogInv, NEW p \in Pages
  PROVE  /\ p \in Open => page[p] \in Loggers /\ page[p].day \in 0..today
         /\ p \notin Open => page[p] = Closed
<1>1. today \in 0..MaxDay /\ MaxDay \in Nat BY BrowserLogAssumption DEF LogInv
<1>2. p \in Open => page[p] \in Loggers /\ page[p].day \in 0..MaxDay /\ page[p].day <= today
  BY LoggerFields DEF LogInv, LoggerOK
<1>3. page[p] \in Loggers => p \in Open BY ClosedIsClosed DEF Open
<1> QED BY <1>1, <1>2, <1>3 DEF LogInv

(* Every copy is of today or before.                                       *)
LEMMA CopiesPast ==
  ASSUME LogInv, SpreadInv, NEW d \in DOMAIN stored PROVE d \in 0..today
<1>1. today \in 0..MaxDay /\ MaxDay \in Nat BY BrowserLogAssumption DEF LogInv
<1>2. PICK T \in 0..today, f \in [Pages -> 0..today], z \in Pages : PiledUp(T, f, z)
  BY DEF SpreadInv
<1>3. d \in Window(T) \/ \E p \in Pages : d = f[p] BY <1>2 DEF PiledUp
<1>4. d \in Window(T) => d \in 0..today BY <1>1 DEF Window
<1> QED BY <1>3, <1>4

LEMMA AgesInv == LogInv /\ Ages => LogInv'
<1> SUFFICES ASSUME LogInv, Ages, NEW p \in Open' PROVE page'[p].day <= today'
  BY DEF LogInv, Ages
<1>1. p \in Open /\ page'[p].day = page[p].day /\ p \in Pages BY DEF Ages, Open
<1>2. page[p].day \in 0..today BY <1>1, OpenPages
<1>3. today \in Nat /\ today' \in Nat /\ today <= today' BY BrowserLogAssumption DEF LogInv, Ages
<1> QED BY <1>1, <1>2, <1>3

LEMMA AgesSpread == LogInv /\ SpreadInv /\ Ages => SpreadInv'
<1> SUFFICES ASSUME LogInv, SpreadInv, Ages PROVE SpreadInv'
  OBVIOUS
<1>1. /\ Open' \subseteq Open /\ \A p \in Open' : page'[p].day = page[p].day
      /\ DOMAIN stored' \subseteq DOMAIN stored \cup {page[p].day : p \in Open}
  BY DEF Ages
<1>2. CASE DOMAIN stored = {} /\ Open = {} BY <1>1, <1>2 DEF SpreadInv
<1>3. CASE \E T \in 0..today, f \in [Pages -> 0..today], z \in Pages : PiledUp(T, f, z)
  <2>1. PICK T \in 0..today, f \in [Pages -> 0..today], z \in Pages : PiledUp(T, f, z)
    BY <1>3
  <2>2. 0..today \subseteq 0..today'
    <3>1. today \in Nat /\ today' \in Nat /\ today <= today'
      BY BrowserLogAssumption DEF LogInv, Ages
    <3> QED BY <3>1
  <2>3. T \in 0..today' /\ f \in [Pages -> 0..today'] BY <2>2
  <2>4. Open \subseteq Pages BY DEF Open
  <2>5. PiledUp(T, f, z)' BY <1>1, <2>1, <2>4 DEF PiledUp, Window
  <2> QED BY <2>3, <2>5 DEF SpreadInv
<1> QED BY <1>2, <1>3 DEF SpreadInv

LEMMA TidiesInv ==
  ASSUME NEW p \in Pages, LogInv, Tidies(p) PROVE LogInv'
<1>1. PICK logger : Takes(p, logger) BY DEF Tidies
<1>2. logger \in Loggers /\ logger.day = today /\ LoggerOK(logger)
  BY <1>1 DEF Takes, LoggerOK
<1>3. /\ page' \in [Pages -> Loggers \cup {Closed}] /\ page'[p] = logger
      /\ \A q \in Pages : q # p => page'[q] = page[q]
  BY <1>1, <1>2 DEF Takes, LogInv
<1>4. ASSUME NEW q \in Open' PROVE LoggerOK(page'[q]) /\ page'[q].day <= today'
  <2>1. today' = today /\ today \in Nat BY BrowserLogAssumption DEF Tidies, LogInv
  <2>2. q = p \/ (q \in Open /\ page'[q] = page[q]) BY <1>3 DEF Open
  <2> QED BY <1>2, <1>3, <2>1, <2>2 DEF LogInv
<1> QED BY <1>3, <1>4 DEF LogInv, Tidies

LEMMA TidiesSpread ==
  ASSUME NEW p \in Pages, LogInv, Tidies(p) PROVE SpreadInv'
<1>1. PICK logger : Takes(p, logger) BY DEF Tidies
<1>2. LogInv' BY TidiesInv
<1>3. today' = today /\ today \in Nat /\ Retention \in Nat \ {0}
  BY BrowserLogAssumption DEF Tidies, LogInv
<1> DEFINE f == [q \in Pages |-> IF q \in Open' THEN page'[q].day ELSE today]
<1>4. f \in [Pages -> 0..today']
  <2>1. \A q \in Open' : page'[q].day \in 0..today'
    <3>1. ASSUME NEW q \in Open' PROVE page'[q].day \in 0..today'
      <4>1. q \in Pages /\ LoggerOK(page'[q]) /\ page'[q].day <= today'
        BY <1>2 DEF LogInv, Open
      <4>2. page'[q].day \in 0..MaxDay BY <4>1, LoggerFields DEF LoggerOK
      <4>3. page'[q].day \in Nat BY <4>2, BrowserLogAssumption
      <4> QED BY <1>3, <4>1, <4>3
    <3> QED BY <3>1
  <2> QED BY <1>3, <2>1
<1>5. f[p] = today'
  <2>1. page'[p] = logger /\ logger.day = today BY <1>1 DEF Takes, LogInv
  <2> QED BY <1>3, <2>1
<1>6. \A q \in Open' : f[q] = page'[q].day BY DEF Open
<1>7. DOMAIN stored' \subseteq Window(today') \cup {f[q] : q \in Pages}
  <2> SUFFICES ASSUME NEW d \in DOMAIN stored' PROVE d \in Window(today')
    OBVIOUS
  <2>1. d = today \/ (d <= today /\ today - d < Retention) BY DEF Tidies
  <2>2. d \in 0..MaxDay BY DEF Tidies, CopiesOK
  <2>3. d \in Nat BY <2>2, BrowserLogAssumption
  <2> QED BY <1>3, <2>1, <2>2, <2>3 DEF Window
<1>8. PICK T \in 0..today', g \in [Pages -> 0..today'] : T = today' /\ g = f
  <2> HIDE DEF f
  <2>1. today' \in 0..today' BY <1>3
  <2> QED BY <1>4, <2>1
<1> HIDE DEF f
<1>9. PiledUp(T, g, p)'
  <2>1. g[p] = T /\ \A q \in Open' : g[q] = page'[q].day BY <1>5, <1>6, <1>8
  <2>2. DOMAIN stored' \subseteq Window(T) \cup {g[q] : q \in Pages} BY <1>7, <1>8
  <2> QED BY <2>1, <2>2 DEF PiledUp, Window
<1> QED BY <1>9 DEF SpreadInv

LEMMA WriteStep ==
  ASSUME NEW p \in Pages, NEW level, NEW fails \in BOOLEAN, LogInv, SpreadInv,
         Write(p, level, fails)
  PROVE  Ages \/ Tidies(p)
<1>1. p \in Open /\ page[p] \in Loggers /\ LoggerOK(page[p]) /\ page[p].day \in 0..today
  BY OpenPages DEF Write, Open, LogInv
<1>2. /\ today' = today /\ written' \in 0..MaxRecords /\ today \in 0..MaxDay /\ today \in Nat
  BY BrowserLogAssumption DEF Write, LogInv
<1>3. /\ \E logger : Takes(p, logger)
      /\ CopiesOK(stored') /\ AddsOrPrunes(p)
  BY <1>1, WriteShape DEF LogInv
<1>4. CASE page[p].day = today /\ DOMAIN stored' \subseteq DOMAIN stored \cup {today}
  <2>1. PICK logger : Takes(p, logger) BY <1>3
  <2>2. logger \in Loggers /\ LoggerOK(logger) /\ logger.day = today
    BY <2>1 DEF Takes, LoggerOK
  <2>3. page' = [page EXCEPT ![p] = logger] BY <2>1 DEF Takes
  <2>4. page' \in [Pages -> Loggers \cup {Closed}] BY <2>2, <2>3 DEF LogInv
  <2>5. \A q \in Open' : q \in Open /\ page'[q].day = page[q].day /\ LoggerOK(page'[q])
    BY <1>1, <1>4, <2>2, <2>3 DEF Open, LogInv
  <2>6. DOMAIN stored' \subseteq DOMAIN stored \cup {page[q].day : q \in Open}
    BY <1>1, <1>4
  <2> QED BY <1>2, <1>3, <2>4, <2>5, <2>6 DEF Ages
<1>5. CASE \A d \in DOMAIN stored' :
             \/ d = today
             \/ today - d < Retention /\ d \in DOMAIN stored \cup {page[p].day}
  <2>1. \A d \in DOMAIN stored : d <= today BY <1>2, CopiesPast
  <2>2. page[p].day <= today BY <1>1, <1>2
  <2>3. \A d \in DOMAIN stored' : d = today \/ (d <= today /\ today - d < Retention)
    BY <1>5, <2>1, <2>2
  <2> QED BY <1>2, <1>3, <2>3 DEF Tidies
<1> QED BY <1>3, <1>4, <1>5 DEF AddsOrPrunes

LEMMA LoadStep ==
  ASSUME NEW p \in Pages, NEW asked, LogInv, SpreadInv, Load(p, asked)
  PROVE  Tidies(p)
<1> DEFINE logger == [open |-> TRUE, level |-> IF asked \in Levels THEN asked ELSE "info",
                      day |-> today, records |-> <<>>, due |-> TRUE]
<1>1. page' = [page EXCEPT ![p] = logger] /\ stored' = Pruned(stored)
      /\ today' = today /\ written' = written
  BY DEF Load
<1>2. "info" \in Levels BY DEF Levels, Severity
<1>3. logger \in Loggers /\ logger.records = <<>> /\ logger.day = today
  <2>1. (IF asked \in Levels THEN asked ELSE "info") \in Levels BY <1>2
  <2>2. <<>> \in Seq(Records) /\ today \in 0..MaxDay BY EmptySeq DEF LogInv
  <2> QED BY <2>1, <2>2 DEF Loggers
<1>4. LoggerOK(logger)
  <2>1. Len(<<>>) <= Capacity /\ <<>> \in Seq(Records) /\ DOMAIN <<>> = {}
    BY BrowserLogAssumption
  <2> HIDE DEF logger
  <2> QED BY <1>3, <2>1 DEF LoggerOK, Remembers
<1>5. Takes(p, logger) BY <1>1, <1>3, <1>4 DEF Takes
<1>6. /\ CopiesOK(stored')
      /\ DOMAIN stored' = {d \in DOMAIN stored : today - d < Retention}
  BY <1>1, PrunedCopies DEF LogInv
<1>7. \A d \in DOMAIN stored : d <= today
  BY CopiesPast, BrowserLogAssumption DEF LogInv
<1> HIDE DEF logger
<1> QED BY <1>1, <1>5, <1>6, <1>7 DEF Tidies, LogInv

LEMMA HideStep ==
  ASSUME NEW p \in Pages, NEW leaves \in BOOLEAN, NEW fails \in BOOLEAN, LogInv,
         Hide(p, leaves, fails)
  PROVE  Ages
<1> DEFINE seen == [page[p] EXCEPT !.due = FALSE]
<1>1. p \in Open /\ page[p] \in Loggers /\ LoggerOK(page[p])
  BY OpenPages DEF Hide, Open, LogInv
<1>2. /\ stored' = Flushed(stored, page[p], fails) /\ today' = today /\ written' = written
      /\ page' = [page EXCEPT ![p] = IF leaves THEN Closed ELSE seen]
  BY DEF Hide
<1>3. CopiesOK(stored') /\ DOMAIN stored' \subseteq DOMAIN stored \cup {page[p].day}
  BY <1>1, <1>2, FlushedCopies DEF LogInv
<1>4. seen \in Loggers /\ seen.day = page[p].day /\ seen.records = page[p].records
  BY <1>1 DEF Loggers
<1>5. LoggerOK(seen) BY <1>1, <1>4 DEF LoggerOK
<1> HIDE DEF seen
<1>6. page' \in [Pages -> Loggers \cup {Closed}] BY <1>2, <1>4 DEF LogInv
<1>7. \A q \in Open' : q \in Open /\ page'[q].day = page[q].day /\ LoggerOK(page'[q])
  BY <1>1, <1>2, <1>4, <1>5, ClosedIsClosed DEF Open, LogInv
<1> QED BY <1>1, <1>2, <1>3, <1>6, <1>7, BrowserLogAssumption DEF Ages, LogInv

LEMMA DueStep ==
  ASSUME LogInv, AllDue, stored' = stored, written' = written,
         today' \in 0..MaxDay, today <= today'
  PROVE  Ages
<1>1. ASSUME NEW q \in Pages
      PROVE  /\ page'[q] \in Loggers \cup {Closed}
             /\ q \in Open' => q \in Open /\ page'[q].day = page[q].day /\ LoggerOK(page'[q])
  <2>1. CASE q \in Open
    <3> DEFINE due == [page[q] EXCEPT !.due = TRUE]
    <3>1. page[q] \in Loggers /\ LoggerOK(page[q]) BY <2>1, OpenPages DEF LogInv
    <3>2. page'[q] = due BY <2>1 DEF AllDue, Open
    <3>3. due \in Loggers /\ due.day = page[q].day /\ due.records = page[q].records
      BY <3>1 DEF Loggers
    <3>4. LoggerOK(due) BY <3>1, <3>3 DEF LoggerOK
    <3> HIDE DEF due
    <3> QED BY <2>1, <3>2, <3>3, <3>4
  <2>2. CASE q \notin Open
    <3>1. page'[q] = Closed BY <2>2 DEF AllDue, Open
    <3> QED BY <3>1, ClosedIsClosed DEF Open
  <2> QED BY <2>1, <2>2
<1>2. page' \in [Pages -> Loggers \cup {Closed}]
  <2>1. page' = [q \in Pages |-> page'[q]] BY DEF AllDue
  <2> QED BY <1>1, <2>1
<1>3. Open' \subseteq Pages BY DEF Open
<1> QED BY <1>1, <1>2, <1>3 DEF Ages, LogInv

LEMMA LogSteps ==
  LogInv /\ SpreadInv /\ [LogNext]_logVars => Ages \/ \E p \in Pages : Tidies(p)
<1> SUFFICES ASSUME LogInv, SpreadInv, [LogNext]_logVars
             PROVE  Ages \/ \E p \in Pages : Tidies(p)
  OBVIOUS
<1>0. today \in Nat BY BrowserLogAssumption DEF LogInv
<1>1. CASE Second BY <1>0, <1>1, DueStep DEF Second, LogInv
<1>2. CASE NextDay
  <2>1. today' \in 0..MaxDay /\ today <= today'
    BY <1>0, <1>2, BrowserLogAssumption DEF NextDay, LogInv
  <2> QED BY <1>2, <2>1, DueStep DEF NextDay
<1>3. ASSUME NEW p \in Pages, PageStep(p) PROVE Ages \/ Tidies(p)
  <2>1. CASE \E asked \in Asked : Load(p, asked) BY <2>1, LoadStep
  <2>2. CASE \E fails \in Fails, level \in Levels \ {"silent"} : Write(p, level, fails)
    BY <2>2, WriteStep, BrowserLogAssumption
  <2>3. CASE \E fails \in Fails, leaves \in BOOLEAN : Hide(p, leaves, fails)
    BY <2>3, HideStep, BrowserLogAssumption
  <2>4. CASE Kill(p)
    <3>1. page' = [page EXCEPT ![p] = Closed] /\ stored' = stored /\ today' = today
          /\ written' = written
      BY <2>4 DEF Kill
    <3>2. page' \in [Pages -> Loggers \cup {Closed}] BY <3>1 DEF LogInv
    <3>3. \A q \in Open' : q \in Open /\ page'[q].day = page[q].day /\ LoggerOK(page'[q])
      BY <3>1, ClosedIsClosed DEF Open, LogInv
    <3> QED BY <1>0, <3>1, <3>2, <3>3 DEF Ages, LogInv
  <2> QED BY <1>3, <2>1, <2>2, <2>3, <2>4 DEF PageStep
<1>4. CASE UNCHANGED logVars BY <1>0, <1>4 DEF logVars, Ages, LogInv, Open
<1> QED BY <1>1, <1>2, <1>3, <1>4 DEF LogNext

LEMMA LogInvariant == LogSpec => [](LogInv /\ SpreadInv)
<1>1. LogInit => LogInv /\ SpreadInv
  <2> SUFFICES ASSUME LogInit PROVE LogInv /\ SpreadInv
    OBVIOUS
  <2>1. DOMAIN stored = {} BY DEF LogInit
  <2>2. Open = {} BY ClosedIsClosed DEF LogInit, Open
  <2> QED BY <2>1, <2>2, BrowserLogAssumption DEF LogInit, LogInv, SpreadInv, CopiesOK
<1>2. LogInv /\ SpreadInv /\ [LogNext]_logVars => (LogInv /\ SpreadInv)'
  BY LogSteps, AgesInv, AgesSpread, TidiesInv, TidiesSpread
<1> QED BY <1>1, <1>2, PTL DEF LogSpec

(* The log keeps its types, whatever pages are opened, hidden, killed or   *)
(* left open over any number of days.                                      *)
THEOREM LogTypeCorrect == LogSpec => []LogTypeOK
<1>1. LogInv => LogTypeOK BY DEF LogInv, LogTypeOK, CopiesOK
<1> QED BY <1>1, LogInvariant, PTL

(* A copy holds records of its own day only and no more than a page keeps, *)
(* whichever page wrote it and however long after midnight.                *)
THEOREM DatesCorrect == LogSpec => []DatesLineUp
<1>1. LogInv => DatesLineUp
  BY DEF LogInv, DatesLineUp, CopiesOK, LoggerOK, Remembers
<1> QED BY <1>1, LogInvariant, PTL

----------------------------------------------------------------------------
(* How many days a function of the pages has, one of them given.           *)
LEMMA DaysOfPages ==
  ASSUME NEW f, NEW z \in Pages
  PROVE  LET days == {f[p] : p \in Pages \ {z}}
         IN  /\ IsFiniteSet(days)
             /\ Cardinality(days) + 1 <= Cardinality(Pages)
<1> DEFINE others == Pages \ {z}
           days == {f[p] : p \in others}
           g == [p \in others |-> f[p]]
<1>1. /\ IsFiniteSet(others) /\ Cardinality(others) = Cardinality(Pages) - 1
      /\ Cardinality(Pages) \in Nat
  BY BrowserLogAssumption, FS_RemoveElement, FS_CardinalityType
<1>2. g \in Surjection(others, days) BY DEF Surjection
<1> HIDE DEF g, days, others
<1>3. IsFiniteSet(days) /\ Cardinality(days) <= Cardinality(others)
  BY <1>1, <1>2, FS_Surjection
<1>4. Cardinality(days) \in Nat BY <1>3, FS_CardinalityType
<1>5. Cardinality(days) + 1 <= Cardinality(Pages) BY <1>1, <1>3, <1>4
<1> QED BY <1>3, <1>5 DEF days, others

LEMMA WindowSize ==
  ASSUME NEW T \in Nat
  PROVE  IsFiniteSet(Window(T)) /\ Cardinality(Window(T)) <= Retention
<1>1. Retention \in Nat \ {0} /\ MaxDay \in Nat BY BrowserLogAssumption
<1> DEFINE all == (T - Retention + 1)..T
<1>2. Window(T) \in SUBSET all
  <2>1. ASSUME NEW d \in Window(T) PROVE d \in all BY <1>1, <2>1 DEF Window
  <2> QED BY <2>1
<1>3. IsFiniteSet(all) /\ Cardinality(all) = Retention
  <2>1. T - Retention + 1 \in Int /\ ~(T - Retention + 1 > T)
        /\ T - (T - Retention + 1) + 1 = Retention
    BY <1>1
  <2> QED BY <2>1, FS_Interval
<1> HIDE DEF all
<1> QED BY <1>2, <1>3, FS_Subset

LEMMA PiledUpFew ==
  ASSUME LogInv, NEW T \in 0..today, NEW f \in [Pages -> 0..today], NEW z \in Pages,
         PiledUp(T, f, z)
  PROVE  FewCopies
<1> DEFINE days == {f[p] : p \in Pages \ {z}}
           both == Window(T) \cup days
<1>1. T \in Nat /\ today \in Nat /\ MaxDay \in Nat /\ T \in 0..MaxDay /\ Retention \in Nat \ {0}
  BY BrowserLogAssumption DEF LogInv
<1>2. IsFiniteSet(Window(T)) /\ Cardinality(Window(T)) <= Retention BY <1>1, WindowSize
<1>3. IsFiniteSet(days) /\ Cardinality(days) + 1 <= Cardinality(Pages) BY DaysOfPages
<1>4. T \in Window(T) BY <1>1 DEF Window
<1>5. DOMAIN stored \subseteq both BY <1>4 DEF PiledUp
<1> HIDE DEF days
<1>6. /\ IsFiniteSet(both)
      /\ Cardinality(both) = Cardinality(Window(T)) + Cardinality(days)
                               - Cardinality(Window(T) \cap days)
  BY <1>2, <1>3, FS_Union
<1>7. IsFiniteSet(Window(T) \cap days) BY <1>2, FS_Intersection
<1>8. /\ Cardinality(Window(T)) \in Nat /\ Cardinality(days) \in Nat
      /\ Cardinality(Window(T) \cap days) \in Nat /\ Cardinality(Pages) \in Nat
      /\ Cardinality(both) \in Nat
  BY <1>2, <1>3, <1>6, <1>7, FS_CardinalityType, BrowserLogAssumption
<1> HIDE DEF both
<1>9. /\ Cardinality(DOMAIN stored) <= Cardinality(both)
      /\ Cardinality(DOMAIN stored) \in Nat
  BY <1>5, <1>6, FS_Subset, FS_CardinalityType
<1> QED BY <1>1, <1>2, <1>3, <1>6, <1>8, <1>9 DEF FewCopies

(* Copies never pile up: there are fewer than the days that are kept and   *)
(* one for each page, however many pages stay open past their day.         *)
THEOREM CopiesCorrect == LogSpec => []FewCopies
<1>1. LogInv /\ SpreadInv => FewCopies
  <2> SUFFICES ASSUME LogInv, SpreadInv PROVE FewCopies
    OBVIOUS
  <2>1. CASE DOMAIN stored = {}
    <3>1. Cardinality(DOMAIN stored) = 0 BY <2>1, FS_EmptySet
    <3>2. Cardinality(Pages) \in Nat BY BrowserLogAssumption, FS_CardinalityType
    <3> QED BY <3>1, <3>2, BrowserLogAssumption DEF FewCopies
  <2> QED BY <2>1, PiledUpFew DEF SpreadInv
<1> QED BY <1>1, LogInvariant, PTL

----------------------------------------------------------------------------
(* Every sequence of records a flush or a page may add to the archive.     *)
Kept(copies) == {copies[d] : d \in DOMAIN copies}
Memories == Kept(stored) \cup {page[p].records : p \in Open}

Grows(m) == \A i, j \in DOMAIN m : i < j => m[i].n < m[j].n
(* A record of an earlier day was written before one of a later day.       *)
DaysApart(m, l) ==
  \A i \in DOMAIN m, j \in DOMAIN l : m[i].day < l[j].day => m[i].n < l[j].n
InOrder(memories, day, last) ==
  /\ \A m \in memories : /\ m \in Seq(Records) /\ Grows(m)
                         /\ \A i \in DOMAIN m : m[i].n <= last /\ m[i].day <= day
  /\ \A m, l \in memories : DaysApart(m, l)
OrderInv == InOrder(Memories, today, written)

LEMMA FlushedKeeps ==
  ASSUME NEW copies, NEW logger, NEW fails \in BOOLEAN
  PROVE  Kept(Flushed(copies, logger, fails)) \subseteq Kept(copies) \cup {logger.records}
<1> DEFINE after == Flushed(copies, logger, fails)
<1>1. CASE logger.records = <<>>
  <2>1. after = copies BY <1>1 DEF Flushed
  <2> QED BY <2>1
<1>2. CASE logger.records # <<>> /\ fails
  <2>1. after = Restrict(copies, DOMAIN copies \cap {logger.day}) BY <1>2 DEF Flushed
  <2>2. /\ DOMAIN after = DOMAIN copies \cap {logger.day}
        /\ \A d \in DOMAIN after : after[d] = copies[d]
    BY <2>1 DEF Restrict
  <2> QED BY <2>2 DEF Kept
<1>3. CASE logger.records # <<>> /\ ~fails
  <2>1. after = [d \in DOMAIN copies \cup {logger.day} |->
                   IF d = logger.day THEN logger.records ELSE copies[d]]
    BY <1>3 DEF Flushed
  <2> QED BY <2>1 DEF Kept
<1> QED BY <1>1, <1>2, <1>3

LEMMA PrunedKeeps == ASSUME NEW copies PROVE Kept(Pruned(copies)) \subseteq Kept(copies)
BY DEF Pruned, Restrict, Kept

LEMMA RolledKeeps ==
  ASSUME NEW logger, NEW copies, NEW fails \in BOOLEAN, LoggerOK(logger)
  PROVE  LET r == Rolled(logger, copies, fails)
         IN  /\ Kept(r.copies) \subseteq Kept(copies) \cup {logger.records}
             /\ r.logger.records \in {logger.records, <<>>}
<1> DEFINE r == Rolled(logger, copies, fails)
           flushed == Flushed(copies, logger, fails)
<1>1. CASE logger.day = today
  <2>1. r.logger = logger /\ r.copies = copies BY <1>1 DEF Rolled
  <2> HIDE DEF r
  <2>2. Kept(r.copies) \subseteq Kept(copies) \cup {logger.records} BY <2>1
  <2> QED BY <2>1, <2>2 DEF r
<1>2. CASE logger.day # today
  <2>1. r.copies = Pruned(flushed)
        /\ r.logger = [logger EXCEPT !.day = today, !.due = FALSE, !.records = <<>>]
    BY <1>2 DEF Rolled
  <2>2. r.logger.records = <<>> BY <2>1 DEF LoggerOK, Loggers
  <2>3. Kept(Pruned(flushed)) \subseteq Kept(copies) \cup {logger.records}
    BY FlushedKeeps, PrunedKeeps
  <2> HIDE DEF r
  <2>4. Kept(r.copies) \subseteq Kept(copies) \cup {logger.records} BY <2>1, <2>3
  <2> QED BY <2>2, <2>4 DEF r
<1> QED BY <1>1, <1>2

(* The ring keeps the order, and takes nothing but the new record.         *)
LEMMA RingGrows ==
  ASSUME NEW m \in Seq(Records), NEW r \in Records, Grows(m),
         \A i \in DOMAIN m : m[i].n < r.n
  PROVE  LET ring == Ring(Append(m, r))
         IN  /\ ring \in Seq(Records) /\ Grows(ring)
             /\ \A i \in DOMAIN ring : ring[i] = r \/ \E k \in DOMAIN m : ring[i] = m[k]
<1> DEFINE longer == Append(m, r)
           ring == Ring(longer)
           from == Len(longer) - Capacity + 1
           Fine(s) == /\ s \in Seq(Records) /\ Grows(s)
                      /\ \A i \in DOMAIN s : s[i] = r \/ \E k \in DOMAIN m : s[i] = m[k]
<1>1. /\ longer \in Seq(Records) /\ Len(longer) = Len(m) + 1 /\ DOMAIN longer = 1..Len(longer)
      /\ Len(m) \in Nat /\ Capacity \in Nat \ {0} /\ DOMAIN m = 1..Len(m)
      /\ \A i \in 1..Len(longer) : longer[i] = IF i = Len(longer) THEN r ELSE m[i]
  BY BrowserLogAssumption
<1> HIDE DEF longer
<1>2. \A i \in 1..Len(longer) : longer[i] = r \/ \E k \in DOMAIN m : longer[i] = m[k]
  BY <1>1
<1>3. ASSUME NEW i \in 1..Len(longer), NEW j \in 1..Len(longer), i < j
      PROVE  longer[i].n < longer[j].n
  <2>1. i \in DOMAIN m /\ longer[i] = m[i] BY <1>1, <1>3
  <2>2. CASE j = Len(longer) BY <1>1, <2>1, <2>2
  <2>3. CASE j # Len(longer)
    <3>1. j \in DOMAIN m /\ longer[j] = m[j] BY <1>1, <2>3
    <3> QED BY <1>3, <2>1, <3>1 DEF Grows
  <2> QED BY <2>2, <2>3
<1>4. ASSUME Len(longer) > Capacity PROVE Fine(ring)
  <2>1. ring = SubSeq(longer, from, Len(longer)) BY <1>4 DEF Ring
  <2>2. from \in Int /\ from >= 1 /\ from <= Len(longer) /\ Len(longer) \in Nat BY <1>1, <1>4
  <2>3. \A i \in from..Len(longer) : longer[i] \in Records
    <3>1. \A i \in from..Len(longer) : i \in 1..Len(longer) BY <2>2
    <3> QED BY <1>1, <3>1, ElementOfSeq
  <2> HIDE DEF from
  <2>4. /\ ring \in Seq(Records)
        /\ Len(ring) = IF from <= Len(longer) THEN Len(longer) - from + 1 ELSE 0
        /\ \A i \in 1..(Len(longer) - from + 1) : ring[i] = longer[from + i - 1]
    BY <2>1, <2>2, <2>3, SubSeqProperties
  <2>5. DOMAIN ring = 1..(Len(longer) - from + 1) BY <2>2, <2>4, LenProperties
  <2>6. \A i \in DOMAIN ring : ring[i] = longer[from + i - 1] /\ from + i - 1 \in 1..Len(longer)
    BY <2>2, <2>4, <2>5
  <2> HIDE DEF ring
  <2>7. ASSUME NEW i \in DOMAIN ring, NEW j \in DOMAIN ring, i < j PROVE ring[i].n < ring[j].n
    <3>1. from + i - 1 < from + j - 1 BY <2>2, <2>5, <2>7
    <3> QED BY <1>3, <2>6, <3>1
  <2> QED BY <1>2, <2>4, <2>6, <2>7 DEF Grows
<1>5. ASSUME ~(Len(longer) > Capacity) PROVE Fine(ring)
  <2>1. ring = longer BY <1>5 DEF Ring
  <2> QED BY <1>1, <1>2, <1>3, <2>1 DEF Grows
<1>6. Fine(ring) BY <1>4, <1>5
<1> QED BY <1>6 DEF longer

LEMMA FewerInOrder ==
  ASSUME NEW old, NEW new, NEW day \in Nat, NEW later \in Nat, NEW last \in Nat, NEW more \in Nat,
         InOrder(old, day, last), new \subseteq old \cup {<<>>}, day <= later, last <= more
  PROVE  InOrder(new, later, more)
<1>1. ASSUME NEW m \in new
      PROVE  /\ m \in Seq(Records) /\ Grows(m)
             /\ \A i \in DOMAIN m : m[i].n <= more /\ m[i].day <= later
  <2>1. CASE m = <<>>
    <3>1. <<>> \in Seq(Records) /\ DOMAIN <<>> = {} OBVIOUS
    <3> QED BY <2>1, <3>1 DEF Grows
  <2>2. CASE m \in old
    <3>1. ASSUME NEW i \in DOMAIN m PROVE m[i].n <= more /\ m[i].day <= later
      <4>1. m \in Seq(Records) /\ m[i].n <= last /\ m[i].day <= day BY <2>2 DEF InOrder
      <4>2. m[i] \in Records BY <4>1
      <4>3. m[i].n \in Int /\ m[i].day \in Int BY <4>2, BrowserLogAssumption DEF Records
      <4> QED BY <4>1, <4>3
    <3> QED BY <2>2, <3>1 DEF InOrder
  <2> QED BY <1>1, <2>1, <2>2
<1>2. ASSUME NEW m \in new, NEW l \in new PROVE DaysApart(m, l)
  <2>1. DOMAIN <<>> = {} OBVIOUS
  <2>2. CASE m = <<>> BY <2>1, <2>2 DEF DaysApart
  <2>3. CASE l = <<>> BY <2>1, <2>3 DEF DaysApart
  <2>4. CASE m \in old /\ l \in old BY <2>4 DEF InOrder
  <2> QED BY <1>2, <2>2, <2>3, <2>4
<1> QED BY <1>1, <1>2 DEF InOrder

(* One more memory, with a record written last and on the last day.        *)
LEMMA OneMoreInOrder ==
  ASSUME NEW old, NEW day \in Nat, NEW last \in Nat, InOrder(old, day, last),
         NEW m \in old, NEW r \in Records, r.n = last + 1, r.day = day
  PROVE  InOrder(old \cup {Ring(Append(m, r))}, day, last + 1)
<1> DEFINE ring == Ring(Append(m, r))
           new == old \cup {ring}
<1>1. m \in Seq(Records) /\ Grows(m) BY DEF InOrder
<1>2. ASSUME NEW l \in old, NEW i \in DOMAIN l
      PROVE  /\ l[i].n \in Int /\ l[i].day \in Int
             /\ l[i].n <= last /\ l[i].day <= day /\ l[i].n < r.n
  <2>1. l \in Seq(Records) /\ l[i].n <= last /\ l[i].day <= day BY DEF InOrder
  <2>2. l[i] \in Records BY <2>1
  <2>3. l[i].n \in Int /\ l[i].day \in Int BY <2>2, BrowserLogAssumption DEF Records
  <2> QED BY <2>1, <2>3
<1>3. /\ ring \in Seq(Records) /\ Grows(ring)
      /\ \A i \in DOMAIN ring : ring[i] = r \/ \E k \in DOMAIN m : ring[i] = m[k]
  BY <1>1, <1>2, RingGrows
<1> HIDE DEF ring
<1>4. ASSUME NEW i \in DOMAIN ring PROVE ring[i].n <= last + 1 /\ ring[i].day <= day
  <2>1. CASE ring[i] = r BY <2>1
  <2>2. ASSUME NEW k \in DOMAIN m, ring[i] = m[k] PROVE ring[i].n <= last + 1 /\ ring[i].day <= day
    BY <1>2, <2>2
  <2> QED BY <1>3, <2>1, <2>2
<1>5. ASSUME NEW l \in new
      PROVE  /\ l \in Seq(Records) /\ Grows(l)
             /\ \A i \in DOMAIN l : l[i].n <= last + 1 /\ l[i].day <= day
  <2>1. CASE l = ring BY <1>3, <1>4, <2>1
  <2>2. CASE l \in old
    <3>1. \A i \in DOMAIN l : l[i].n <= last + 1 /\ l[i].day <= day
      <4>1. ASSUME NEW i \in DOMAIN l PROVE l[i].n <= last + 1 /\ l[i].day <= day
        BY <1>2, <2>2
      <4> QED BY <4>1
    <3> QED BY <2>2, <3>1 DEF InOrder
  <2> QED BY <2>1, <2>2
(* Where a record of the new memory stands: last of all, or as in m.       *)
<1>6. ASSUME NEW l \in old PROVE DaysApart(ring, l) /\ DaysApart(l, ring)
  <2>1. ASSUME NEW i \in DOMAIN ring, NEW j \in DOMAIN l, ring[i].day < l[j].day
        PROVE  ring[i].n < l[j].n
    <3>1. CASE ring[i] = r BY <1>2, <2>1, <3>1
    <3>2. ASSUME NEW k \in DOMAIN m, ring[i] = m[k] PROVE ring[i].n < l[j].n
      <4>1. DaysApart(m, l) BY DEF InOrder
      <4> QED BY <2>1, <3>2, <4>1 DEF DaysApart
    <3> QED BY <1>3, <3>1, <3>2
  <2>2. ASSUME NEW i \in DOMAIN ring, NEW j \in DOMAIN l, l[j].day < ring[i].day
        PROVE  l[j].n < ring[i].n
    <3>1. CASE ring[i] = r BY <1>2, <3>1
    <3>2. ASSUME NEW k \in DOMAIN m, ring[i] = m[k] PROVE l[j].n < ring[i].n
      <4>1. DaysApart(l, m) BY DEF InOrder
      <4> QED BY <2>2, <3>2, <4>1 DEF DaysApart
    <3> QED BY <1>3, <3>1, <3>2
  <2> QED BY <2>1, <2>2 DEF DaysApart
<1>7. DaysApart(ring, ring)
  <2>1. ASSUME NEW i \in DOMAIN ring, NEW j \in DOMAIN ring, ring[i].day < ring[j].day
        PROVE  ring[i].n < ring[j].n
    <3>1. CASE ring[i] = r
      <4>1. ring[j].day <= day BY <1>4
      <4>2. ring[j].day \in Int /\ day \in Int
        <5>1. ring[j] \in Records BY <1>3
        <5> QED BY <5>1, BrowserLogAssumption DEF Records
      <4> QED BY <2>1, <3>1, <4>1, <4>2
    <3>2. ASSUME NEW k \in DOMAIN m, ring[i] = m[k] PROVE ring[i].n < ring[j].n
      <4>1. DaysApart(m, ring) BY <1>6
      <4> QED BY <2>1, <3>2, <4>1 DEF DaysApart
    <3> QED BY <1>3, <3>1, <3>2
  <2> QED BY <2>1 DEF DaysApart
<1>8. \A l, k \in new : DaysApart(l, k)
  <2>1. \A l, k \in old : DaysApart(l, k) BY DEF InOrder
  <2> QED BY <1>6, <1>7, <2>1
<1>9. InOrder(new, day, last + 1)
  <2> HIDE DEF new
  <2> QED BY <1>5, <1>8 DEF InOrder
<1> QED BY <1>9 DEF ring

(* What a step does to the memories: none of them is new but, in a write,  *)
(* the ring of the page that writes.                                       *)
Repeats == Memories' \subseteq Memories \cup {<<>>} /\ written' = written
WritesTo(m) == 
  LET r == [day |-> today, n |-> written + 1]
  IN  /\ Memories' \subseteq Memories \cup {<<>>, Ring(Append(m, r))}
      /\ today' = today /\ written' = written + 1 /\ written < MaxRecords
Remembered == Repeats \/ \E m \in Memories \cup {<<>>} : WritesTo(m)

LEMMA RememberedOrder ==
  ASSUME LogInv, OrderInv, Remembered, today' \in 0..MaxDay, today <= today'
  PROVE  OrderInv'
<1>1. /\ today \in 0..MaxDay /\ MaxDay \in Nat /\ MaxRecords \in Nat
      /\ written \in 0..MaxRecords
  BY BrowserLogAssumption DEF LogInv
<1>2. today \in Nat /\ today' \in Nat /\ written \in Nat BY <1>1
<1>3. InOrder(Memories, today, written) BY DEF OrderInv
<1>4. CASE Repeats
  <2>1. InOrder(Memories', today', written')
    <3> DEFINE new == Memories'
               later == today'
               more == written'
    <3>1. /\ new \subseteq Memories \cup {<<>>} /\ later \in Nat /\ more \in Nat
          /\ today <= later /\ written <= more
      BY <1>2, <1>4 DEF Repeats
    <3> HIDE DEF new, later, more
    <3>2. InOrder(new, later, more) BY <1>2, <1>3, <3>1, FewerInOrder
    <3> QED BY <3>2 DEF new, later, more
  <2> QED BY <2>1 DEF OrderInv, InOrder
<1>5. ASSUME NEW m \in Memories \cup {<<>>}, WritesTo(m) PROVE OrderInv'
  <2> DEFINE r == [day |-> today, n |-> written + 1]
             old == Memories \cup {<<>>}
             most == old \cup {Ring(Append(m, r))}
  <2>1. r \in Records /\ r.n = written + 1 /\ r.day = today
    BY <1>1, <1>2, <1>5 DEF Records, WritesTo
  <2>2. Memories' \subseteq most /\ today' = today /\ written' = written + 1
    BY <1>5 DEF WritesTo
  <2> HIDE DEF r
  <2>3. InOrder(old, today, written) BY <1>2, <1>3, FewerInOrder
  <2> HIDE DEF old
  <2>4. m \in old BY <1>5 DEF old
  <2>5. InOrder(most, today, written + 1) BY <1>2, <2>1, <2>3, <2>4, OneMoreInOrder
  <2> HIDE DEF most
  <2>6. written + 1 \in Nat /\ today <= today /\ written + 1 <= written + 1 BY <1>2
  <2>7. InOrder(Memories', today, written + 1)
    <3> DEFINE new == Memories'
    <3>1. new \subseteq most \cup {<<>>} BY <2>2
    <3> HIDE DEF new
    <3>2. InOrder(new, today, written + 1) BY <1>2, <2>5, <2>6, <3>1, FewerInOrder
    <3> QED BY <3>2 DEF new
  <2> QED BY <2>2, <2>7 DEF OrderInv, InOrder
<1> QED BY <1>4, <1>5 DEF Remembered
LEMMA PageMemories ==
  ASSUME NEW p \in Pages, NEW logger, page \in [Pages -> Loggers \cup {Closed}],
         page' = [page EXCEPT ![p] = logger]
  PROVE  Memories' \subseteq Kept(stored') \cup Memories \cup {logger.records}
<1>1. Kept(stored') = Kept(stored)' BY DEF Kept
<1>2. ASSUME NEW q \in Open' PROVE page'[q].records \in Memories \cup {logger.records}
  <2>1. CASE q = p BY <2>1
  <2>2. CASE q # p
    <3>1. q \in Open /\ page'[q] = page[q] BY <1>2, <2>2 DEF Open
    <3> QED BY <3>1 DEF Memories
  <2> QED BY <2>1, <2>2
<1> QED BY <1>1, <1>2 DEF Memories

LEMMA WriteRemembers ==
  ASSUME NEW p \in Pages, NEW level, NEW fails \in BOOLEAN, LogInv, Write(p, level, fails)
  PROVE  \E m \in Memories \cup {<<>>} : WritesTo(m)
<1> DEFINE r == Rolled(page[p], stored, fails)
           record == [day |-> today, n |-> written + 1]
           m == r.logger.records
           new == [r.logger EXCEPT !.records = Ring(Append(@, record))]
           last == [new EXCEPT !.due = FALSE]
<1>1. /\ page' = [page EXCEPT ![p] = last]
      /\ stored' = IF new.due THEN Flushed(r.copies, new, fails) ELSE r.copies
      /\ written < MaxRecords /\ written' = written + 1 /\ today' = today
  BY DEF Write
<1>2. p \in Open /\ LoggerOK(page[p]) BY DEF Write, Open, LogInv
<1>3. page[p].records \in Memories BY <1>2 DEF Memories
<1>4. /\ Kept(r.copies) \subseteq Kept(stored) \cup {page[p].records}
      /\ m \in {page[p].records, <<>>}
  BY <1>2, RolledKeeps
<1>5. LoggerOK(r.logger)
  <2>1. RollsOver(r, page[p], stored) BY <1>2, RolledPage DEF LogInv
  <2> HIDE DEF r
  <2> QED BY <2>1 DEF RollsOver
<1> HIDE DEF r
<1>6. new.records = Ring(Append(m, record)) /\ last.records = new.records
  BY <1>5 DEF LoggerOK, Loggers
<1> HIDE DEF new, last, m
<1>7. Kept(stored') \subseteq Kept(r.copies) \cup {new.records}
  BY <1>1, FlushedKeeps
<1>8. page \in [Pages -> Loggers \cup {Closed}] BY DEF LogInv
<1>9. Memories' \subseteq Kept(stored') \cup Memories \cup {last.records}
  BY <1>1, <1>8, PageMemories
<1>10. Kept(stored) \subseteq Memories BY DEF Memories
<1>11. Memories' \subseteq Memories \cup {<<>>, Ring(Append(m, record))}
  BY <1>3, <1>4, <1>6, <1>7, <1>9, <1>10
<1>12. m \in Memories \cup {<<>>} BY <1>3, <1>4
<1> QED BY <1>1, <1>11, <1>12 DEF WritesTo

LEMMA LoadRemembers ==
  ASSUME NEW p \in Pages, NEW asked, LogInv, Load(p, asked) PROVE Repeats
<1> DEFINE logger == [open |-> TRUE, level |-> IF asked \in Levels THEN asked ELSE "info",
                      day |-> today, records |-> <<>>, due |-> TRUE]
<1>1. page' = [page EXCEPT ![p] = logger] /\ stored' = Pruned(stored) /\ written' = written
  BY DEF Load
<1>2. logger.records = <<>> OBVIOUS
<1> HIDE DEF logger
<1>3. page \in [Pages -> Loggers \cup {Closed}] BY DEF LogInv
<1>4. Memories' \subseteq Kept(stored') \cup Memories \cup {logger.records}
  BY <1>1, <1>3, PageMemories
<1>5. Kept(stored') \subseteq Memories BY <1>1, PrunedKeeps DEF Memories
<1> QED BY <1>1, <1>2, <1>4, <1>5 DEF Repeats

LEMMA HideRemembers ==
  ASSUME NEW p \in Pages, NEW leaves \in BOOLEAN, NEW fails \in BOOLEAN, LogInv,
         Hide(p, leaves, fails)
  PROVE  Repeats
<1> DEFINE seen == [page[p] EXCEPT !.due = FALSE]
<1>1. p \in Open /\ LoggerOK(page[p]) BY DEF Hide, Open, LogInv
<1>2. /\ stored' = Flushed(stored, page[p], fails) /\ written' = written
      /\ page' = [page EXCEPT ![p] = IF leaves THEN Closed ELSE seen]
  BY DEF Hide
<1>3. page[p].records \in Memories BY <1>1 DEF Memories
<1>4. seen.records = page[p].records BY <1>1 DEF LoggerOK, Loggers
<1> HIDE DEF seen
<1>5. Kept(stored') \subseteq Memories BY <1>2, <1>3, FlushedKeeps DEF Memories
<1>6. Kept(stored') = Kept(stored)' BY DEF Kept
<1>7. ASSUME NEW q \in Open' PROVE page'[q].records \in Memories
  <2>1. page \in [Pages -> Loggers \cup {Closed}] BY DEF LogInv
  <2>2. CASE q = p
    <3>1. page'[p] = IF leaves THEN Closed ELSE seen BY <1>2, <2>1
    <3>2. page'[p] = seen BY <1>7, <2>2, <3>1, ClosedIsClosed DEF Open
    <3> QED BY <1>3, <1>4, <2>2, <3>2
  <2>3. CASE q # p
    <3>1. q \in Open /\ page'[q] = page[q] BY <1>2, <1>7, <2>1, <2>3 DEF Open
    <3> QED BY <3>1 DEF Memories
  <2> QED BY <2>2, <2>3
<1> QED BY <1>2, <1>5, <1>6, <1>7 DEF Repeats, Memories

LEMMA DueRemembers ==
  ASSUME LogInv, AllDue, stored' = stored, written' = written PROVE Repeats
<1>1. ASSUME NEW q \in Open' PROVE page'[q].records \in Memories
  <2>1. q \in Pages /\ page'[q].open BY DEF Open
  <2>2. q \in Open BY <2>1, ClosedIsClosed DEF AllDue, Open
  <2>3. page'[q] = [page[q] EXCEPT !.due = TRUE] BY <2>1, <2>2 DEF AllDue, Open
  <2>4. page[q] \in Loggers BY <2>2 DEF LogInv, LoggerOK
  <2>5. page'[q].records = page[q].records BY <2>3, <2>4 DEF Loggers
  <2> QED BY <2>2, <2>5 DEF Memories
<1>2. Kept(stored)' = Kept(stored) BY DEF Kept
<1> QED BY <1>1, <1>2 DEF Repeats, Memories

LEMMA LogRemembers == LogInv /\ [LogNext]_logVars => Remembered
<1> SUFFICES ASSUME LogInv, [LogNext]_logVars PROVE Remembered
  OBVIOUS
<1>1. CASE Second BY <1>1, DueRemembers DEF Second, Remembered
<1>2. CASE NextDay BY <1>2, DueRemembers DEF NextDay, Remembered
<1>3. ASSUME NEW p \in Pages, PageStep(p) PROVE Remembered
  <2>1. CASE \E asked \in Asked : Load(p, asked) BY <2>1, LoadRemembers DEF Remembered
  <2>2. CASE \E fails \in Fails, level \in Levels \ {"silent"} : Write(p, level, fails)
    BY <2>2, WriteRemembers, BrowserLogAssumption DEF Remembered
  <2>3. CASE \E fails \in Fails, leaves \in BOOLEAN : Hide(p, leaves, fails)
    BY <2>3, HideRemembers, BrowserLogAssumption DEF Remembered
  <2>4. CASE Kill(p)
    <3>1. page' = [page EXCEPT ![p] = Closed] /\ stored' = stored /\ written' = written
      BY <2>4 DEF Kill
    <3>2. page \in [Pages -> Loggers \cup {Closed}] BY DEF LogInv
    <3>3. \A q \in Open' : q \in Open /\ page'[q] = page[q]
      BY <3>1, <3>2, ClosedIsClosed DEF Open
    <3>4. Kept(stored)' = Kept(stored) BY <3>1 DEF Kept
    <3> QED BY <3>1, <3>3, <3>4 DEF Remembered, Repeats, Memories
  <2> QED BY <1>3, <2>1, <2>2, <2>3, <2>4 DEF PageStep
<1>4. CASE UNCHANGED logVars
  <2>1. Memories' = Memories BY <1>4 DEF logVars, Memories, Kept, Open
  <2> QED BY <1>4, <2>1 DEF logVars, Remembered, Repeats
<1> QED BY <1>1, <1>2, <1>3, <1>4 DEF LogNext

LEMMA OrderInvariant == LogSpec => []OrderInv
<1>1. LogInit => OrderInv
  <2> SUFFICES ASSUME LogInit PROVE OrderInv
    OBVIOUS
  <2>1. DOMAIN stored = {} BY DEF LogInit
  <2>2. Open = {} BY ClosedIsClosed DEF LogInit, Open
  <2>3. Memories = {} BY <2>1, <2>2 DEF Memories, Kept
  <2> QED BY <2>3 DEF OrderInv, InOrder
<1>2. LogInv /\ LogInv' /\ SpreadInv /\ OrderInv /\ [LogNext]_logVars => OrderInv'
  <2> SUFFICES ASSUME LogInv, LogInv', SpreadInv, OrderInv, [LogNext]_logVars PROVE OrderInv'
    OBVIOUS
  <2>1. today \in Nat /\ today' \in 0..MaxDay BY BrowserLogAssumption DEF LogInv
  <2>2. today <= today' BY <2>1, LogSteps DEF Ages, Tidies
  <2> QED BY <2>1, <2>2, LogRemembers, RememberedOrder
<1> QED BY <1>1, <1>2, LogInvariant, PTL DEF LogSpec
----------------------------------------------------------------------------
Ascending(days, D) ==
  /\ days \in [1..Cardinality(D) -> D]
  /\ \A i, j \in DOMAIN days : i < j => days[i] < days[j]

(* The days that have a copy can be sorted.                                *)
LEMMA SortedExists ==
  ASSUME NEW D, D \subseteq 0..MaxDay PROVE \E days : Ascending(days, D)
<1> DEFINE n == MaxDay + 1
           Sortable(T) == \E days : Ascending(days, T)
           P == {k \in 0..n : \A T \in SUBSET (0..(k - 1)) : Sortable(T)}
<1>1. MaxDay \in Nat /\ n \in Nat BY BrowserLogAssumption
<1>2. 0 \in P
  <2>1. \A T \in SUBSET (0..(0 - 1)) : T = {} OBVIOUS
  <2>2. Sortable({})
    <3> DEFINE days == [i \in 1..0 |-> 0]
    <3>1. Cardinality({}) = 0 BY FS_EmptySet
    <3>2. DOMAIN days = {} /\ days \in [1..0 -> {}] OBVIOUS
    <3> HIDE DEF days
    <3>3. Ascending(days, {}) BY <3>1, <3>2 DEF Ascending
    <3> QED BY <3>3
  <2> HIDE DEF Sortable
  <2>3. \A T \in SUBSET (0..(0 - 1)) : Sortable(T) BY <2>1, <2>2
  <2>4. 0 \in 0..n BY <1>1
  <2> QED BY <2>3, <2>4
<1>3. ASSUME NEW k \in 1..n, k - 1 \in P PROVE k \in P
  <2>1. ASSUME NEW T \in SUBSET (0..(k - 1)) PROVE Sortable(T)
    <3> DEFINE m == k - 1
               Below == T \ {m}
               c == Cardinality(Below)
    <3>1. m \in Nat /\ Below \in SUBSET (0..(m - 1)) BY <1>1
    <3>2. Sortable(Below) BY <1>3, <3>1
    <3>3. CASE m \notin T
      <4>1. Below = T BY <3>3
      <4> QED BY <3>2, <4>1
    <3>4. CASE m \in T
      <4>1. PICK short : Ascending(short, Below) BY <3>2
      <4>2. IsFiniteSet(Below) /\ c \in Nat /\ Cardinality(T) = c + 1
        <5>1. IsFiniteSet(0..(m - 1)) BY <3>1, FS_Interval
        <5>2. IsFiniteSet(Below) BY <3>1, <5>1, FS_Subset
        <5>3. T = Below \cup {m} /\ m \notin Below BY <3>4
        <5> HIDE DEF Below
        <5> QED BY <5>2, <5>3, FS_AddElement, FS_CardinalityType
      <4> HIDE DEF c
      <4> DEFINE days == [i \in 1..(c + 1) |-> IF i = c + 1 THEN m ELSE short[i]]
      <4>3. short \in [1..c -> Below] /\ \A i, j \in 1..c : i < j => short[i] < short[j]
        BY <4>1 DEF Ascending, c
      <4>4. ASSUME NEW i \in 1..c PROVE short[i] \in T /\ short[i] \in Int /\ short[i] < m
        <5>1. short[i] \in Below BY <4>3
        <5>2. short[i] \in T BY <5>1
        <5> HIDE DEF m, Below
        <5>3. short[i] \in 0..(m - 1) BY <3>1, <5>1
        <5> QED BY <3>1, <5>2, <5>3
      <4>5. ASSUME NEW i \in 1..(c + 1) PROVE days[i] \in T
        <5>1. CASE i = c + 1 BY <3>4, <5>1
        <5>2. CASE i # c + 1
          <6>1. i \in 1..c BY <4>2, <5>2
          <6> QED BY <4>4, <5>2, <6>1
        <5> QED BY <5>1, <5>2
      <4>6. ASSUME NEW i \in 1..(c + 1), NEW j \in 1..(c + 1), i < j PROVE days[i] < days[j]
        <5>1. i \in 1..c /\ days[i] = short[i] BY <4>2, <4>6
        <5>2. CASE j = c + 1 BY <4>4, <5>1, <5>2
        <5>3. CASE j # c + 1
          <6>1. j \in 1..c /\ days[j] = short[j] BY <4>2, <5>3
          <6> QED BY <4>3, <4>6, <5>1, <6>1
        <5> QED BY <5>2, <5>3
      <4>7. days \in [1..(c + 1) -> T] BY <4>5
      <4> HIDE DEF days, m, Below
      <4>8. DOMAIN days = 1..(c + 1) BY <4>7
      <4>9. Ascending(days, T) BY <4>2, <4>6, <4>7, <4>8 DEF Ascending
      <4> QED BY <4>9
    <3> QED BY <3>3, <3>4
  <2> HIDE DEF Sortable
  <2> QED BY <1>1, <2>1
<1>4. n \in P
  <2> HIDE DEF P, n
  <2> QED BY <1>1, <1>2, <1>3, Induction
<1>5. D \in SUBSET (0..(n - 1)) BY <1>1
<1> HIDE DEF Sortable, n
<1>6. Sortable(D) BY <1>4, <1>5
<1> QED BY <1>6 DEF Sortable

LEMMA DaysSorted ==
  ASSUME DOMAIN stored \subseteq 0..MaxDay PROVE Ascending(StoredDays, DOMAIN stored)
<1> DEFINE D == DOMAIN stored
           Fits(days) == /\ days \in [1..Cardinality(D) -> D]
                         /\ \A i, j \in DOMAIN days : i < j => days[i] < days[j]
<1>1. PICK days : Ascending(days, D) BY SortedExists
<1>2. StoredDays = CHOOSE d : Fits(d) BY Zenon DEF StoredDays
<1>3. Fits(days) BY <1>1 DEF Ascending
<1> HIDE DEF Fits
<1>4. Fits(StoredDays) BY Zenon, <1>2, <1>3
<1> QED BY <1>4 DEF Fits, Ascending

(* A memory in order that holds what s holds, and then what t holds.       *)
OneAfter(s, t, u) ==
  /\ u \in Seq(Records) /\ Grows(u)
  /\ \A i \in DOMAIN u : \/ \E j \in DOMAIN s : u[i] = s[j]
                        \/ \E j \in DOMAIN t : u[i] = t[j]

LEMMA JoinGrows ==
  ASSUME NEW s \in Seq(Records), NEW t \in Seq(Records), Grows(s), Grows(t),
         \A i \in DOMAIN s, j \in DOMAIN t : s[i].n < t[j].n
  PROVE  OneAfter(s, t, s \o t)
<1> DEFINE both == s \o t
           a == Len(s)
           b == Len(t)
<1>1. /\ both \in Seq(Records) /\ Len(both) = a + b /\ a \in Nat /\ b \in Nat
      /\ DOMAIN both = 1..(a + b) /\ DOMAIN s = 1..a /\ DOMAIN t = 1..b
  <2>1. both \in Seq(Records) /\ Len(both) = a + b BY ConcatProperties
  <2> QED BY <2>1, LenProperties
<1>2. \A i \in 1..(a + b) : both[i] = IF i <= a THEN s[i] ELSE t[i - a] BY ConcatProperties
<1> HIDE DEF both, a, b
<1>3. ASSUME NEW i \in 1..(a + b)
      PROVE  \/ i \in DOMAIN s /\ both[i] = s[i]
             \/ i > a /\ i - a \in DOMAIN t /\ both[i] = t[i - a]
  BY <1>1, <1>2
<1>4. ASSUME NEW i \in 1..(a + b), NEW j \in 1..(a + b), i < j PROVE both[i].n < both[j].n
  <2>1. CASE j <= a
    <3>1. i \in DOMAIN s /\ j \in DOMAIN s /\ both[i] = s[i] /\ both[j] = s[j]
      BY <1>1, <1>2, <1>4, <2>1
    <3> QED BY <1>4, <3>1 DEF Grows
  <2>2. CASE i > a
    <3>1. /\ i - a \in DOMAIN t /\ j - a \in DOMAIN t /\ i - a < j - a
          /\ both[i] = t[i - a] /\ both[j] = t[j - a]
      BY <1>1, <1>2, <1>4, <2>2
    <3> QED BY <3>1 DEF Grows
  <2>3. CASE i <= a /\ j > a
    <3>1. /\ i \in DOMAIN s /\ both[i] = s[i]
          /\ j - a \in DOMAIN t /\ both[j] = t[j - a]
      BY <1>1, <1>2, <2>3
    <3> QED BY <3>1
  <2> QED BY <1>1, <2>1, <2>2, <2>3
<1>5. Grows(both) BY <1>1, <1>4 DEF Grows
<1>6. \A i \in DOMAIN both : \/ \E j \in DOMAIN s : both[i] = s[j]
                             \/ \E j \in DOMAIN t : both[i] = t[j]
  BY <1>1, <1>3
<1> QED BY <1>1, <1>5, <1>6 DEF both, OneAfter

LEMMA InOrderArchive == LogInv /\ OrderInv => ArchiveInOrder
<1> SUFFICES ASSUME LogInv, OrderInv PROVE ArchiveInOrder
  OBVIOUS
<1> DEFINE D == DOMAIN stored
           n == Cardinality(D)
           days == StoredDays
           parts == [k \in DOMAIN days |-> stored[days[k]]]
<1>1. D \subseteq 0..MaxDay /\ MaxDay \in Nat
  BY BrowserLogAssumption DEF LogInv, CopiesOK
<1>2. n \in Nat
  <2>1. IsFiniteSet(0..MaxDay) BY <1>1, FS_Interval
  <2> QED BY <1>1, <2>1, FS_Subset, FS_CardinalityType
<1>3. Ascending(days, D) BY <1>1, DaysSorted
<1>4. Archive = FlattenSeq(parts) BY DEF Archive
<1> HIDE DEF n, days
<1>5. /\ DOMAIN days = 1..n /\ \A k \in 1..n : days[k] \in D
      /\ \A i, j \in 1..n : i < j => days[i] < days[j]
  BY <1>3 DEF Ascending, n
<1>6. ASSUME NEW k \in 1..n
      PROVE  /\ parts[k] \in Memories /\ parts[k] \in Seq(Records) /\ Grows(parts[k])
             /\ \A i \in DOMAIN parts[k] : parts[k][i].day = days[k]
  <2>1. parts[k] = stored[days[k]] /\ days[k] \in D BY <1>5
  <2>2. parts[k] \in Memories BY <2>1 DEF Memories, Kept
  <2> QED BY <2>1, <2>2 DEF LogInv, CopiesOK, OrderInv, InOrder
<1>7. DOMAIN parts = 1..n BY <1>5
<1>8. parts \in [1..n -> Seq(Records)] BY <1>5, <1>6
<1>9. CASE n = 0
  <2>1. Len(parts) = 0 BY <1>8, <1>9
  <2>2. FlattenSeq(parts) = parts BY Zenon, <2>1 DEF FlattenSeq
  <2>3. DOMAIN Archive = {} BY <1>4, <1>7, <1>9, <2>2
  <2> QED BY <2>3 DEF ArchiveInOrder
<1> HIDE DEF parts
<1>10. CASE n # 0
  <2>1. n \in Nat \ {0} BY <1>2, <1>10
  <2>2. PICK whole : Joined(n, parts, whole) /\ FlattenSeq(parts) = whole[n]
    BY <1>8, <2>1, FlattenJoins
  <2> DEFINE ReadsOn(k) ==
        /\ whole[k] \in Seq(Records) /\ Grows(whole[k])
        /\ \A i \in DOMAIN whole[k] :
             /\ whole[k][i].day <= days[k]
             /\ \E m \in Memories : \E x \in DOMAIN m : whole[k][i] = m[x]
      P == {k \in 0..n : k = 0 \/ ReadsOn(k)}
  <2>3. 0 \in P BY <1>2
  <2>4. ASSUME NEW k \in 1..n, k - 1 \in P PROVE k \in P
    <3>1. days[k] \in Int BY <1>1, <1>5
    <3>2. CASE k = 1
      <4>1. whole[k] = parts[k] BY <2>2, <3>2 DEF Joined
      <4>2. \A i \in DOMAIN parts[k] : parts[k][i].day <= days[k] BY <1>6, <3>1
      <4>3. ReadsOn(k) BY <1>6, <4>1, <4>2
      <4> QED BY <4>3, <1>2
    <3>3. CASE k # 1
      <4> DEFINE l == k - 1
      <4>1. l \in 1..n /\ l # 0 /\ l < k BY <1>2, <3>3
      <4>2. ReadsOn(l) BY <2>4, <4>1
      <4>3. whole[k] = whole[l] \o parts[k] BY <2>2, <3>3 DEF Joined
      <4>4. days[l] < days[k] /\ days[l] \in Int BY <1>1, <1>5, <4>1
      <4> HIDE DEF l
      <4>5. ASSUME NEW i \in DOMAIN whole[l], NEW j \in DOMAIN parts[k]
            PROVE  whole[l][i].n < parts[k][j].n
        <5>1. PICK m \in Memories : \E x \in DOMAIN m : whole[l][i] = m[x] BY <4>2
        <5>0. PICK x \in DOMAIN m : whole[l][i] = m[x] BY <5>1
        <5>2. DaysApart(m, parts[k]) BY <1>6 DEF OrderInv, InOrder
        <5>3. m[x].day <= days[l] /\ parts[k][j].day = days[k] BY <1>6, <4>2, <5>0
        <5>4. m[x].day \in Int
          <6>1. m \in Seq(Records) BY DEF OrderInv, InOrder
          <6>2. m[x] \in Records BY <6>1
          <6> QED BY <6>2, BrowserLogAssumption DEF Records
        <5>5. m[x].day < parts[k][j].day BY <3>1, <4>4, <5>3, <5>4
        <5> QED BY <5>0, <5>2, <5>5 DEF DaysApart
      <4>6. whole[l] \in Seq(Records) /\ Grows(whole[l]) BY <4>2
      <4>7. OneAfter(whole[l], parts[k], whole[k])
        <5>1. parts[k] \in Seq(Records) /\ Grows(parts[k]) BY <1>6
        <5>2. OneAfter(whole[l], parts[k], whole[l] \o parts[k])
          BY <4>5, <4>6, <5>1, JoinGrows
        <5> QED BY <4>3, <5>2
      <4>8. ASSUME NEW i \in DOMAIN whole[k]
            PROVE  /\ whole[k][i].day <= days[k]
                   /\ \E m \in Memories : \E x \in DOMAIN m : whole[k][i] = m[x]
        <5>1. ASSUME NEW j \in DOMAIN whole[l], whole[k][i] = whole[l][j]
              PROVE  whole[k][i].day <= days[k]
          <6>1. whole[l][j].day <= days[l] BY <4>2
          <6>2. whole[k][i] \in Records BY <4>7 DEF OneAfter
          <6>3. whole[k][i].day \in Int BY <6>2, BrowserLogAssumption DEF Records
          <6> QED BY <3>1, <4>4, <5>1, <6>1, <6>3
        <5>2. ASSUME NEW j \in DOMAIN whole[l], whole[k][i] = whole[l][j]
              PROVE  \E m \in Memories : \E x \in DOMAIN m : whole[k][i] = m[x]
          BY <4>2, <5>2
        <5>3. ASSUME NEW j \in DOMAIN parts[k], whole[k][i] = parts[k][j]
              PROVE  /\ whole[k][i].day <= days[k]
                     /\ \E m \in Memories : \E x \in DOMAIN m : whole[k][i] = m[x]
          BY <1>6, <3>1, <5>3
        <5> QED BY <4>7, <5>1, <5>2, <5>3 DEF OneAfter
      <4>9. ReadsOn(k) BY <4>7, <4>8 DEF OneAfter
      <4> HIDE DEF ReadsOn
      <4> QED BY <4>9, <1>2
    <3> QED BY <3>2, <3>3
  <2>5. n \in P
    <3> HIDE DEF P
    <3>1. \A k \in 0..n : k \in P BY ONLY <1>2, <2>3, <2>4, Induction
    <3> QED BY <1>2, <3>1
  <2>6. ReadsOn(n) BY <1>10, <2>5
  <2>7. Grows(Archive) BY <1>4, <2>2, <2>6
  <2> QED BY <2>7 DEF Grows, ArchiveInOrder
<1> QED BY <1>9, <1>10

(* What support is sent reads in the order it was written, whatever pages  *)
(* wrote it, across midnight and through copies that were refused.         *)
THEOREM ArchiveCorrect == LogSpec => []ArchiveInOrder
BY InOrderArchive, LogInvariant, OrderInvariant, PTL

----------------------------------------------------------------------------
(* The page keeps every promise of its parts.                              *)
LEMMA PartsMove == Spec => ScreensSpec /\ SettingsSpec /\ LogSpec
<1>1. Init => ScreensInit /\ SettingsInit /\ LogInit BY DEF Init
<1>2. [Next]_pageVars => /\ [ScreensNext]_screensVars
                         /\ [SettingsNext]_settingsVars
                         /\ [LogNext]_logVars
  BY DEF Next, ScreensMove, SettingsMove, LogMove, pageVars
<1> QED BY <1>1, <1>2, PTL DEF Spec, ScreensSpec, SettingsSpec, LogSpec

(* Every variable of the page keeps its type, whichever part moves.        *)
THEOREM PageTypeCorrect == Spec => []TypeOK
BY PartsMove, ScreensTypeCorrect, SettingsTypeCorrect, LogTypeCorrect, PTL DEF TypeOK

(* What the run of the page checks, for any values of the constants.       *)
THEOREM PageCorrect ==
  Spec => /\ [](MonthsAgree /\ HashReturns /\ RenderKeepsScreen)
          /\ []DrawerIsCurrent /\ ReloadKeepsCategories
          /\ [](DatesLineUp /\ FewCopies /\ ArchiveInOrder)
BY PartsMove, MonthsCorrect, HashCorrect, KeepsCorrect, DrawerCorrect, ReloadCorrect,
   DatesCorrect, CopiesCorrect, ArchiveCorrect, PTL
=============================================================================
