------------------------------ MODULE Settings ------------------------------
(***************************************************************************)
(* What a household decides in one page: rules, categories, the category   *)
(* of a row, budgets and goals (S of fe/src/app.ts); the drawer, whose     *)
(* rows hold the index they were drawn at; and AppStateCodec, which reads  *)
(* a saved state or a backup and merges the program's defaults into it. It *)
(* refuses a state as a whole, and save asks it nothing.                   *)
(***************************************************************************)
EXTENDS Naturals, SequencesExt

CONSTANTS
  DefaultRules, DefaultCats, \* as the program starts
  RuleIds, CatIds,           \* ids a click can make (Date.now())
  Wanted,                    \* categories given to the row, a budget or a rule
  Texts, Long,               \* matching texts; one the codec refuses
  Backups,                   \* states a file or the cloud may hold
  GoalLimit,                 \* MAX_GOALS
  MaxRules,                  \* bound on the rules
  None

Rule(id, match, cat) == [id |-> id, match |-> match, cat |-> cat]
RuleIdsOf(list) == [i \in DOMAIN list |-> list[i].id]
AllCats     == ToSet(DefaultCats) \cup CatIds
Rules       == [id : ToSet(RuleIdsOf(DefaultRules)) \cup RuleIds, match : Texts \cup {"", Long},
                cat : AllCats]
States      == [rules : Seq(Rules), cats : Seq(AllCats), chosen : AllCats \cup {None},
                budgets : SUBSET AllCats, goals : 0..(GoalLimit + 1)]

ASSUME SettingsAssumption ==
  /\ DefaultRules \in Seq(Rules)
  /\ DefaultCats \in Seq(AllCats) /\ "other" \in ToSet(DefaultCats)
  /\ Wanted \subseteq AllCats /\ None \notin AllCats /\ None \notin States
  /\ Long \notin Texts
  /\ GoalLimit \in Nat /\ MaxRules \in Nat /\ Backups \subseteq States

VARIABLES
  S,        \* the state in memory; `chosen` is the override of one row
  defaults, \* DEFAULT_RULES and DEFAULT_CATS
  shared,   \* what of them S still is: "arrays", "objects" (of the rules), "nothing"
  saved,    \* what localStorage keeps
  drawer    \* the drawer as it was last drawn

settingsVars == <<S, defaults, shared, saved, drawer>>

Start == [rules |-> DefaultRules, cats |-> DefaultCats, chosen |-> None,
          budgets |-> {}, goals |-> 0]
ClosedDrawer == [open |-> FALSE]
Drawn(s, form) ==
  [open |-> TRUE, rules |-> RuleIdsOf(s.rules), cats |-> s.cats, form |-> form]

SettingsInit ==
  /\ S = Start /\ saved = None /\ shared = "arrays"
  /\ defaults = [rules |-> DefaultRules, cats |-> DefaultCats]
  /\ drawer = ClosedDrawer

----------------------------------------------------------------------------
(* AppStateCodec.decode.                                                   *)
Refused(s) ==
  \/ \E i \in DOMAIN s.rules : s.rules[i].match = Long
  \/ s.cats = <<>> \/ s.goals > GoalLimit

HasRule(rules, r) == \E i \in DOMAIN rules : /\ rules[i].match = r.match
                                              /\ rules[i].cat = r.cat

(* Bug: the defaults come before the household's rules.                    *)
BugWithRules(rules, given) ==
  LET push(list, r) == IF HasRule(list, r) THEN list ELSE <<r>> \o list
  IN FoldLeft(push, rules, given)

(* A default rule that is not there by then comes last.                    *)
WithRules(rules, given) ==
  LET push(list, r) == IF HasRule(list, r) THEN list ELSE Append(list, r)
  IN FoldLeft(push, rules, given)

(* A default category that is not there returns at its own position.       *)
WithCats(cats, given) ==
  LET insert(list, i) ==
        IF given[i] \in ToSet(list) THEN list
        ELSE InsertAt(list, IF i <= Len(list) THEN i ELSE Len(list) + 1, given[i])
  IN FoldLeft(insert, cats, [i \in DOMAIN given |-> i])

Decode(s) == [s EXCEPT !.rules = WithRules(@, defaults.rules),
                       !.cats  = WithCats(@, defaults.cats)]

----------------------------------------------------------------------------
(* The last lines of a handler: S is saved, and the drawer is drawn again  *)
(* or is not. The selects of its form are filled when it opens.            *)
Save(s) == S' = s /\ saved' = s
Redraw(s) == drawer' = IF drawer.open THEN Drawn(s, drawer.form) ELSE drawer

(* A list changed in place is changed in the defaults too while they are   *)
(* one array; a rule changed in place, while they have their rules in      *)
(* common.                                                                 *)
InPlace(rules, cats) ==
  /\ defaults' = IF shared = "arrays" THEN [rules |-> rules, cats |-> cats]
                 ELSE IF shared = "objects" THEN [defaults EXCEPT !.cats = cats]
                 ELSE defaults
  /\ UNCHANGED shared

EditedRules(list, r) == [i \in DOMAIN list |-> IF list[i].id = r.id THEN r ELSE list[i]]
EditRule(i, r) ==
  LET rules == [S.rules EXCEPT ![i] = r]
  IN /\ Save([S EXCEPT !.rules = rules])
     /\ defaults' = IF shared = "nothing" THEN defaults
                    ELSE [defaults EXCEPT !.rules = EditedRules(@, r)]
     /\ UNCHANGED <<shared, drawer>>

(* An id no rule has; another rule is within the bound.                    *)
CanAdd(id) == id \notin ToSet(RuleIdsOf(S.rules)) /\ Len(S.rules) < MaxRules

(* The rows of the drawer. A rule's selects list the categories drawn.     *)
RuleMatch(i, text) ==
  /\ drawer.open /\ i \in DOMAIN drawer.rules /\ i \in DOMAIN S.rules
  /\ EditRule(i, [S.rules[i] EXCEPT !.match = text])
RuleCat(i, c) ==
  /\ drawer.open /\ i \in DOMAIN drawer.rules /\ i \in DOMAIN S.rules
  /\ c \in ToSet(drawer.cats)
  /\ EditRule(i, [S.rules[i] EXCEPT !.cat = c])
DeleteRule(i) ==
  LET s == [S EXCEPT !.rules = RemoveAt(@, i)]
  IN /\ drawer.open /\ i \in DOMAIN drawer.rules /\ i \in DOMAIN S.rules
     /\ Save(s) /\ Redraw(s) /\ InPlace(s.rules, s.cats)

(* S.rules becomes a new array, of the same rules.                         *)
WithoutCat(rules, c) ==
  LET keep(list, r) == IF r.cat = c THEN list ELSE Append(list, r)
  IN FoldLeft(keep, <<>>, rules)

DeleteCat(i) ==
  /\ drawer.open /\ i \in DOMAIN drawer.cats /\ i \in DOMAIN S.cats
  /\ LET c == drawer.cats[i]
         s == [S EXCEPT !.chosen = IF @ = c THEN None ELSE @,
                        !.rules = WithoutCat(@, c),
                        !.budgets = @ \ {c}, !.cats = RemoveAt(@, i)]
     IN /\ c \notin {"other", "income"}
        /\ Save(s) /\ Redraw(s)
        /\ IF shared = "nothing" THEN UNCHANGED <<defaults, shared>>
           ELSE /\ shared' = "objects"
                /\ defaults' = [defaults EXCEPT !.cats = s.cats]

(* Bug: the drawer is not drawn again.                                     *)
BugAddRule(id) ==
  LET s == [S EXCEPT !.rules = <<Rule(id, "", S.cats[1])>> \o @]
  IN /\ drawer.open /\ CanAdd(id) /\ Save(s)
     /\ InPlace(s.rules, s.cats) /\ UNCHANGED drawer

AddRule(id) ==
  LET s == [S EXCEPT !.rules = <<Rule(id, "", S.cats[1])>> \o @]
  IN /\ drawer.open /\ CanAdd(id) /\ Save(s) /\ Redraw(s)
     /\ InPlace(s.rules, s.cats)
AddCat(id) ==
  LET s == [S EXCEPT !.cats = InsertAt(@, Len(@), id)]
  IN /\ drawer.open /\ id \notin ToSet(S.cats) /\ Save(s) /\ Redraw(s)
     /\ InPlace(s.rules, s.cats)

Budget(c) ==
  /\ drawer.open /\ c \in ToSet(drawer.cats)
  /\ \E given \in BOOLEAN :
       Save([S EXCEPT !.budgets = IF given THEN @ \cup {c} ELSE @ \ {c}])
  /\ UNCHANGED <<defaults, shared, drawer>>

(* #manual-form: its category is one of those there were when it opened.   *)
Manual(c) ==
  /\ drawer.open /\ c \in drawer.form
  /\ Save([S EXCEPT !.chosen = c])
  /\ drawer' = ClosedDrawer /\ UNCHANGED <<defaults, shared>>

OpenDrawer ==
  /\ ~drawer.open /\ drawer' = Drawn(S, ToSet(S.cats))
  /\ UNCHANGED <<S, saved, defaults, shared>>
CloseDrawer ==
  /\ drawer.open /\ drawer' = ClosedDrawer
  /\ UNCHANGED <<S, saved, defaults, shared>>

----------------------------------------------------------------------------
(* The page behind the drawer, which is inert while it is open.            *)
Choose(c) ==
  /\ ~drawer.open /\ c \in ToSet(S.cats) /\ Save([S EXCEPT !.chosen = c])
  /\ UNCHANGED <<defaults, shared, drawer>>
ApproveRule(id, text) ==
  LET s == [S EXCEPT !.rules = <<Rule(id, text, S.chosen)>> \o @]
  IN /\ ~drawer.open /\ S.chosen # None /\ CanAdd(id)
     /\ Save(s) /\ InPlace(s.rules, s.cats) /\ UNCHANGED drawer
ApproveBudget(c) ==
  /\ ~drawer.open /\ c \in ToSet(S.cats) /\ Save([S EXCEPT !.budgets = @ \cup {c}])
  /\ UNCHANGED <<defaults, shared, drawer>>
Goals ==
  /\ ~drawer.open
  /\ \/ S.goals <= GoalLimit /\ Save([S EXCEPT !.goals = @ + 1])
     \/ S.goals > 0 /\ Save([S EXCEPT !.goals = @ - 1])
  /\ UNCHANGED <<defaults, shared, drawer>>

(* A backup has been read, or the cloud's copy has come.                   *)
Restore(b) ==
  LET s == Decode(b)
  IN /\ ~Refused(b) /\ Len(s.rules) <= MaxRules /\ Save(s) /\ Redraw(s)
     /\ shared' = "nothing" /\ UNCHANGED defaults

(* The page is loaded again: load() starts clean when nothing can be read. *)
Reload ==
  /\ defaults' = [rules |-> DefaultRules, cats |-> DefaultCats]
  /\ drawer' = ClosedDrawer
  /\ saved # None => Len(WithRules(saved.rules, DefaultRules)) <= MaxRules
  /\ IF saved = None \/ (saved # None /\ Refused(saved))
     THEN S' = Start /\ shared' = "arrays" /\ UNCHANGED saved
     ELSE /\ shared' = "nothing"
          /\ Save([saved EXCEPT !.rules = WithRules(@, DefaultRules),
                                !.cats  = WithCats(@, DefaultCats)])

InDrawer ==
  \/ \E i \in DOMAIN S.rules :
       \/ DeleteRule(i)
       \/ \E text \in Texts \cup {Long} : RuleMatch(i, text)
       \/ \E c \in Wanted : RuleCat(i, c)
  \/ \E i \in DOMAIN S.cats : DeleteCat(i)
  \/ \E id \in RuleIds : AddRule(id)
  \/ \E id \in CatIds : AddCat(id)
  \/ \E c \in Wanted : Budget(c) \/ Manual(c)
  \/ CloseDrawer

SettingsNext ==
  \/ InDrawer \/ OpenDrawer \/ Goals \/ Reload
  \/ \E c \in Wanted : Choose(c) \/ ApproveBudget(c)
  \/ \E id \in RuleIds, text \in Texts : ApproveRule(id, text)
  \/ \E b \in Backups : Restore(b)

SettingsSpec == SettingsInit /\ [][SettingsNext]_settingsVars

----------------------------------------------------------------------------
(* RuleBasedTransactionCategorizer, for a row of a text without override.  *)
Matching(rules, text) == {i \in DOMAIN rules : rules[i].match = text}
Category(rules, text) ==
  LET hits == Matching(rules, text)
  IN IF hits = {} THEN "other"
     ELSE rules[CHOOSE i \in hits : \A j \in hits : i <= j].cat

(* Properties.                                                             *)

SettingsTypeOK ==
  /\ S \in States /\ saved \in States \cup {None}
  /\ shared \in {"arrays", "objects", "nothing"}
  /\ defaults \in [rules : Seq(Rules), cats : Seq(AllCats)]
  /\ drawer \in [open : {TRUE}, rules : Seq(ToSet(RuleIdsOf(DefaultRules)) \cup RuleIds),
                 cats : Seq(AllCats), form : SUBSET AllCats] \cup {ClosedDrawer}

(* The rows of the open drawer act on S.rules[i] and S.cats[i] by the      *)
(* index they were drawn at: the i-th row is always of the i-th rule and   *)
(* the i-th category, whatever was added, deleted, approved or restored    *)
(* since (app.ts, renderDrawer).                                           *)
DrawerIsCurrent ==
  drawer.open =>
    /\ drawer.rules = RuleIdsOf(S.rules)
    /\ drawer.cats = S.cats

(* Default rules a reload merges in take no row from a rule of the         *)
(* household: a text some rule matched is filed as it was, also when that  *)
(* rule is an edited default whose original comes back                     *)
(* (AppStateCodec.decode, RuleBasedTransactionCategorizer).                *)
ReloadKeepsCategories ==
  [][Reload /\ saved' = S' => \A text \in Texts :
       Matching(saved.rules, text) # {} =>
         Category(S'.rules, text) = Category(saved.rules, text)]_settingsVars

(* "Minimised transactions, categories, rules and budgets are stored ...   *)
(* in this browser" (resources/en.json, privacyFooter): what was saved is  *)
(* found again when the page is loaded.                                    *)
SavedIsReadBack == saved # None => ~Refused(saved)

=============================================================================
