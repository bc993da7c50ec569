----------------------------- MODULE BrowserLog -----------------------------
(***************************************************************************)
(* The diagnostic log of the page (fe/src/logging.ts): every page keeps a  *)
(* ring of its newest records in memory and copies it to localStorage,     *)
(* under a key per day, which all pages of the household share. A record   *)
(* is told apart by the day it was written on and its number in the order  *)
(* of writing; what it says is left out.                                   *)
(***************************************************************************)
EXTENDS Integers, SequencesExt

CONSTANTS
  Pages,      \* tabs, open or not
  Asked,      \* log levels a page may be asked for by its address or a stored key
  Fails,      \* whether localStorage may refuse a copy: a subset of BOOLEAN
  Capacity,   \* records a page keeps
  Retention,  \* days a copy is kept, today included
  MaxDay,     \* bound on the days
  MaxRecords  \* bound on the records written

ASSUME BrowserLogAssumption ==
  /\ IsFiniteSet(Pages) /\ Fails \subseteq BOOLEAN
  /\ Capacity \in Nat \ {0} /\ Retention \in Nat \ {0}
  /\ MaxDay \in Nat /\ MaxRecords \in Nat

VARIABLES
  today,    \* the clock, in days
  written,  \* the number of records written so far
  page,     \* page[p]: its Logger, or Closed
  stored    \* the copies in localStorage: a function of some days

logVars == <<today, written, page, stored>>

Severity == [debug |-> 10, info |-> 20, warn |-> 30, error |-> 40, silent |-> 100]
Levels   == DOMAIN Severity
Records  == [day : 0..MaxDay, n : 1..MaxRecords]
Closed   == [open |-> FALSE]

(* `due` says that PERSIST_INTERVAL_MS has passed since the last flush.    *)
Loggers == [open : {TRUE}, level : Levels, day : 0..MaxDay,
            records : Seq(Records), due : BOOLEAN]

Open == {p \in Pages : page[p].open}

LogInit ==
  /\ today = 0 /\ written = 0
  /\ page = [p \in Pages |-> Closed]
  /\ stored = <<>>

----------------------------------------------------------------------------
Ring(records) ==
  IF Len(records) > Capacity
  THEN SubSeq(records, Len(records) - Capacity + 1, Len(records))
  ELSE records

(* Bug: the copy is that of the day it is written on.                      *)
BugFlushed(copies, logger, fails) ==
  CASE logger.records = <<>> -> copies
    [] logger.records # <<>> /\ fails  -> Restrict(copies, DOMAIN copies \cap {logger.day})
    [] logger.records # <<>> /\ ~fails ->
         [d \in DOMAIN copies \cup {today} |->
            IF d = today THEN logger.records ELSE copies[d]]

(* What a flush of the logger leaves in localStorage. A copy that is       *)
(* refused gives back the space of the other days.                         *)
Flushed(copies, logger, fails) ==
  CASE logger.records = <<>> -> copies
    [] logger.records # <<>> /\ fails  -> Restrict(copies, DOMAIN copies \cap {logger.day})
    [] logger.records # <<>> /\ ~fails ->
         [d \in DOMAIN copies \cup {logger.day} |->
            IF d = logger.day THEN logger.records ELSE copies[d]]

(* Bug: pruning counts from the day before.                                *)
BugPruned(copies) == Restrict(copies, {d \in DOMAIN copies : today - d <= Retention})
Pruned(copies) == Restrict(copies, {d \in DOMAIN copies : today - d < Retention})

(* Bug: a new day's memory begins with the records of the day before.      *)
BugRolled(logger, copies, fails) ==
  IF logger.day = today THEN [logger |-> logger, copies |-> copies]
  ELSE [logger |-> [logger EXCEPT !.day = today, !.due = FALSE],
        copies |-> Pruned(Flushed(copies, logger, fails))]

(* rollDay: the records so far are copied under their own day, and a new   *)
(* day's memory begins empty.                                              *)
Rolled(logger, copies, fails) ==
  IF logger.day = today THEN [logger |-> logger, copies |-> copies]
  ELSE [logger |-> [logger EXCEPT !.day = today, !.due = FALSE, !.records = <<>>],
        copies |-> Pruned(Flushed(copies, logger, fails))]

(* Bug: the level is the one asked for, whatever it is.                    *)
BugLoad(p, asked) ==
  /\ ~page[p].open
  /\ page' = [page EXCEPT ![p] =
       [open |-> TRUE, level |-> asked, day |-> today, records |-> <<>>, due |-> TRUE]]
  /\ stored' = Pruned(stored)
  /\ UNCHANGED <<today, written>>

(* The page is loaded: resolveLevel and the constructor.                   *)
Load(p, asked) ==
  /\ ~page[p].open
  /\ page' = [page EXCEPT ![p] =
       [open |-> TRUE, level |-> IF asked \in Levels THEN asked ELSE "info",
        day |-> today, records |-> <<>>, due |-> TRUE]]
  /\ stored' = Pruned(stored)
  /\ UNCHANGED <<today, written>>

(* A command of the household is an "info"; other code writes any level.   *)
Write(p, level, fails) ==
  /\ page[p].open /\ Severity[level] >= Severity[page[p].level]
  /\ written < MaxRecords
  /\ LET r   == Rolled(page[p], stored, fails)
         new == [r.logger EXCEPT !.records =
                   Ring(Append(@, [day |-> today, n |-> written + 1]))]
     IN /\ page' = [page EXCEPT ![p] = [new EXCEPT !.due = FALSE]]
        /\ stored' = IF new.due THEN Flushed(r.copies, new, fails) ELSE r.copies
  /\ written' = written + 1
  /\ UNCHANGED today

(* The page is hidden; it may come back, or be left (pagehide).            *)
Hide(p, leaves, fails) ==
  /\ page[p].open
  /\ stored' = Flushed(stored, page[p], fails)
  /\ page' = [page EXCEPT ![p] = IF leaves THEN Closed ELSE [@ EXCEPT !.due = FALSE]]
  /\ UNCHANGED <<today, written>>

(* The browser ends without a word.                                        *)
Kill(p) ==
  /\ page[p].open
  /\ page' = [page EXCEPT ![p] = Closed]
  /\ UNCHANGED <<today, written, stored>>

AllDue == page' = [p \in Pages |->
            IF page[p].open THEN [page[p] EXCEPT !.due = TRUE] ELSE Closed]
Second == AllDue /\ UNCHANGED <<today, written, stored>>
NextDay ==
  /\ today < MaxDay /\ today' = today + 1
  /\ AllDue /\ UNCHANGED <<written, stored>>

PageStep(p) ==
  \/ \E asked \in Asked : Load(p, asked)
  \/ \E fails \in Fails, level \in Levels \ {"silent"} : Write(p, level, fails)
  \/ \E fails \in Fails, leaves \in BOOLEAN : Hide(p, leaves, fails)
  \/ Kill(p)

LogNext == Second \/ NextDay \/ \E p \in Pages : PageStep(p)

LogSpec == LogInit /\ [][LogNext]_logVars

----------------------------------------------------------------------------
(* storedDays().sort(): the days that have a copy, the oldest first.       *)
StoredDays ==
  CHOOSE days \in [1..Cardinality(DOMAIN stored) -> DOMAIN stored] :
    \A i, j \in DOMAIN days : i < j => days[i] < days[j]

(* archive(), after its flush: the copies, day by day.                     *)
Archive == FlattenSeq([k \in DOMAIN StoredDays |-> stored[StoredDays[k]]])

(* Properties.                                                             *)

LogTypeOK ==
  /\ today \in 0..MaxDay /\ written \in 0..MaxRecords
  /\ page \in [Pages -> Loggers \cup {Closed}]
  /\ DOMAIN stored \subseteq 0..MaxDay
  /\ \A d \in DOMAIN stored : stored[d] \in Seq(Records)

(* "A tab left open past midnight starts a new day's copy rather than      *)
(* growing yesterday's, which is what makes the dated files line up with   *)
(* the server's" (logging.ts, rollDay): whatever page flushes, and however *)
(* long after midnight, a copy holds records of its own day only, and no   *)
(* more of them than a page keeps.                                         *)
DatesLineUp ==
  /\ \A d \in DOMAIN stored : \A k \in DOMAIN stored[d] : stored[d][k].day = d
  /\ \A d \in DOMAIN stored : Len(stored[d]) \in 1..Capacity
  /\ \A p \in Open : \A k \in DOMAIN page[p].records :
       page[p].records[k].day = page[p].day

(* What support is sent reads in the order things happened, although       *)
(* several pages write it and each from a memory of its own (archive).     *)
ArchiveInOrder ==
  \A i, j \in DOMAIN Archive : i < j => Archive[i].n < Archive[j].n

(* "Without turning the log into a place data accumulates": a page whose   *)
(* day is over may add its copy once more, but there are never more copies *)
(* than are retained and one for each other page (prune).                  *)
FewCopies == Cardinality(DOMAIN stored) < Retention + Cardinality(Pages)

(* "A dated copy per day ... so a problem reported the morning after still *)
(* has the records that describe it" (app.ts, log): while its day is       *)
(* retained, a copy loses a record only when it is full. This does not     *)
(* hold: a page that is loaded again begins with an empty ring, and its    *)
(* first flush replaces the copy of the day (logging.ts:146).              *)
DayIsKept ==
  [][\A d \in DOMAIN stored : today' - d < Retention =>
       /\ d \in DOMAIN stored'
       /\ \/ ToSet(stored[d]) \subseteq ToSet(stored'[d])
          \/ Len(stored'[d]) = Capacity]_logVars

=============================================================================
