# A TLA+ model of "מאזן הבית" (Home Economy)

This directory is a verification development of the repository it stands beside:
TLA+ modules translated from the source, TLC configurations that check them on
small instances, and proofs checked by TLAPS. `PROJECT.json` maps every
definition that stands for code to the lines it stands for.

    tlasany M.tla                                  parse
    tlc -workers 2 -config X.cfg M                 model-check (the table of runs names X and M)
    tlapm M.tla                                    prove       (every module named ...Proofs)

## The system

A household finance application that is local first. The browser holds the
household's transactions and settings in `localStorage`; a FastAPI server,
deployed as serverless functions (so usually as several processes), offers
sign-in, a cloud copy of the household's state and read-only bank connections,
all stored in Supabase under row-level security.

| Component | State | Operations | Hard because | Modelled in |
| --- | --- | --- | --- | --- |
| Open banking routes and store (`server/open_banking_*.py`) | connection rows, encrypted refresh tokens, `_sync_locks` | callback, sync, revoke, connections, consent | bank tokens are single use; requests interleave at every await; several processes, one database; writes without an answer | `OpenBanking`, `TokenCustody` |
| Snapshot and consent server (`server/app.py`, `supabase_store.py`) | one snapshot row, one consent row, one profile row | GET/PUT/DELETE snapshots, profile, consents | consent is read in one call and the snapshot written in the next | `CloudSync` |
| Cloud sync client (`fe/src/app.ts`, `cloud-sync*.ts`) | sign-in state, consent, what the server has | push, delete, restore, reconcile | a PUT that times out may land after a DELETE | `CloudSync` |
| Consent write-through (`fe/src/consent-sync.ts`, `consent.ts`) | local record, server row | accept, withdraw | fire-and-forget writes may be reordered | `CloudSync` |
| Household transactions (`fe/src/app.ts`, `misread-rows.ts`, ...) | transactions and overrides in memory and in `localStorage` | import, quick add, edit, flip, repair, wipe, backup, sync merge | handlers read state, await file readers, and write it back | `Household` |
| Settings (`fe/src/app.ts`, `state-repository.ts`, `categorization.ts`) | rules, categories, budgets, goals, the drawer's rows | the drawer, approvals, backups, reload | rows act by index; the codec refuses as a whole and merges defaults in | `Settings` |
| Screens (`fe/src/app.ts`) | four flags, six sections, the address, the month in four places | tabs, chips, selects, every render | kept in step by hand, in a dozen handlers | `Screens` |
| File readers (`spreadsheet-reader.ts`, `bank-importer.ts`, `credit-card-importer.ts`, `import-corrections.ts`) | none | bytes to rows, rows to transactions | quoting, spans, strings cut into blocks, headings in two vocabularies, an old misreading to replay | `Containers`, `Reports` |
| Figures (`app.ts`, `settlement-bills.ts`, `card-statements.ts`, `financial-plan.ts`, `transaction-view.ts`) | none | functions of the transactions | the same money is in a statement and in a report, and four files decide which counts | `Money` |
| Advice (`financial-agents.ts`, `app.ts`) | none | payday, forecast, subscriptions, anomalies, duplicates, savings, budgets | days of short months, percentiles, tolerances; two files compute the same | `Advice` |
| Browser log (`fe/src/logging.ts`) | records in memory and per day in `localStorage` | write, flush, roll, prune | two tabs, midnight and reloads share a copy | `BrowserLog` |
| Sign-in (`server/auth_flow.py`, `app.py`), bank round trip (`connect`, `callback`) | PKCE cookies, session cookie | start, finish, sign out | two tabs overwrite each other's round trip | `CloudSync` (the session only) |
| Database schema, request guard, server log, metrics, user profile, presentation, scripts | | | | not modelled, see the end |

How they interact: the browser calls the server over HTTP and never waits for one
call before it starts another; the server calls Supabase and the bank from a
threadpool and awaits each call; the processes share the database only; two tabs
share cookies and `localStorage` only. Inside a page a file goes through a container
reader and one of the two importers (`Containers`, `Reports`), its rows into the
household (`Household`), and every change of the household or of a rule ends in a
render, which computes the figures and the advice anew (`Money`, `Advice`) and draws
the screen that is open (`Screens`).

What makes each correct:

* Open banking: a refresh token that was spent is never stored or presented again
  by accident; a connection is revoked only when its grant has ended or the
  household asked; an active connection has its token; no call to the bank
  without consent; every request ends.
* Snapshots and consent: what is stored was consented to; what was saved can be read
  back; a device is not overwritten without a question.
* Household: an import is idempotent; no id of the bank is carried twice; no row the
  household entered is lost by a handler that was waiting; corrections replace what they
  correct and nothing else.
* Settings: what was saved is found again; a row of the drawer acts on what it shows.
* Screens: the address, the sections and the controls say the same.
* Readers: a cell is read where it stands; a movement is read as what it was,
  whichever end the file begins with.
* Figures and advice: the same money is counted once, two places that compute one
  figure agree, and a reload loses no money and nothing that was filed by hand.
* Browser log: the copies of the days are apart, in order, and few.

## The plan

1. `OpenBanking`, `TokenCustody`, `OpenBankingProofs`: bank connections. Done.
2. `CloudSync`, `CloudSyncProofs`: the cloud copy and its consent. Done.
3. `Household`: the handlers of one page over the transactions. Done.
4. `Screens`, `Settings`, `BrowserLog`: the rest of a page's state. Done.
5. `Money`, `Advice`: what is computed from the transactions, checked against what
   another part of the code computes. Done.
6. `Containers`, `Reports`: from files to transactions. Done.
7. Theorems about every part: bank connections (`OpenBankingProofs`), the cloud copy
   (`CloudSyncProofs`), the household (`HouseholdProofs`), the settings (`SettingsProofs`),
   the screens and the log (`PageProofs`), figures and advice (`FiguresProofs`), the readers
   (`FilesProofs`), all on `FoldProofs`. Done: every safety property the passing runs check
   is a theorem.
8. What is left: liveness stays with the model checker; the parts named at the end are not
   modelled.

## The runs

| Run | Module, configuration | Distinct states | Question | Answer |
| --- | --- | --- | --- | --- |
| `ob_one_process` | `MCOpenBanking`, `OpenBankingOneProcess` | 20 310 | does the lock do what its comment says when every call is answered? | yes |
| `ob_faults` | `MCOpenBanking`, `OpenBankingFaults` | 355 059 | what remains true whatever goes wrong? | token custody |
| `ob_live` | `MCOpenBanking`, `OpenBankingLive` | 26 012 | is every request answered? | yes |
| `ob_revoked_sync` | `MCOpenBanking`, `OpenBankingRevokedSync` | | does revoking stop syncs, as the design says? | no |
| `cs_safety` | `MCCloudSync`, `CloudSyncSafety` | 1 317 622 | is nothing stored without consent, and are rows safe from the boot check? | yes |
| `cs_deleted` | `MCCloudSync`, `CloudSyncDeleted` | | is a deleted copy gone when the page says so? | no |
| `hh_safety` | `MCHousehold`, `HouseholdSafety` | 128 845 | do memory, storage and screen agree, and what may an import remove? | yes, no spending |
| `page` | `MCPage`, `PageSafety` | 256 950 | do screens, drawer and log keep what they show and store in step? | yes |
| `settings_saved` | `MCSettings`, `SettingsSaved` | | is what was saved found again? | no |
| `figures` | `MCFigures`, `FiguresSafety` | 70 244 | do two places that compute one figure agree? | yes |
| `settled_twice` | `MCMoney`, `MoneySettled` | | is a settlement that counts no more itemised somewhere? | no |
| `files` | `MCFiles`, `FilesSafety` | 146 411 | is what a file says what is read of it? | yes |

Every property of the eight passing runs has a mutant in `PROJECT.json`: a definition
of the model changed the way a bug in that code would change it (an operator
`Bug...` beside it), with which the run finds the property violated. The four other
runs are disagreements between the code and what the repository says of it.

`MCPage`, `MCFigures` and `MCFiles` each run several modules that share no variable:
one of them moves in a behaviour, whichever, and the others stay as they began. The
states of the parts add up instead of multiplying, and a property of one part says
nothing of another, so nothing is lost.

## OpenBanking

State and code:

| Variable | Code |
| --- | --- |
| `status`, `token`, `consent` | the three tables; an absent row is `"absent"`, `0`, `"none"` |
| `lock` | `_sync_locks` of each process |
| `req` | the local variables of each request under way and the call it makes next |
| `newest`, `live` | the bank: its newest token of a grant, and whether the grant stands |
| `late` | writes whose answer was lost and that the database may still apply |
| `faults` | a counter that bounds how often something goes wrong |

A route is a sequence of threadpool calls with an `await` in between. Each call is
one action, so requests interleave at exactly the places where the code may be
preempted. `run_in_threadpool` calls are atomic at the database (one statement
each). A token is the number of rotations of its grant; `Honoured` says that the
bank accepts the newest only. The lock's queue is first in, first out
(`asyncio.Lock`), which the model leaves open for safety and states as strong
fairness of `SyncLock` for liveness.

What goes wrong: the bank rotates and its answer is lost (`SyncRefreshUnanswered`),
the insert of a connection or any later write loses its answer and is applied later or
never (`CallbackInsertUnanswered`, `WriteUnanswered`, `LateWrite`), a process
dies (`Crash`), the grant ends (`GrantEnds`). Reads that fail, a missing
configuration or a bank that answers anything unusable without having rotated end
the request and are free (`SyncFails`).

Assumed of the environment and not modelled: the database accepts the writes it is
sent, the encryption key stays
the same, and a bank's token is accepted once.

### Instances

`ob_one_process` has one connection, three requests, one process and no fault;
`ob_faults` two requests, two processes and two faults of any kind; `ob_live` two requests,
one process and one fault; `ob_revoked_sync` no fault.

Connections share nothing but the consent row, so one connection is enough; a
second only multiplies the states. Two requests are the least that interleave;
the third in `ob_one_process` waits for the lock while a second holds it and a
revoke runs beside both. `MaxToken = 3` lets a grant be rotated twice: a stale
token can be one or two rotations behind. `MaxFaults = 2` lets a fault meet the
consequences of another one (a late write after a crash).

Fairness: `WF(Step(r))` because every call has a timeout (8 or 10 seconds), so a
request's next step happens; `SF(SyncLock(r))` because the lock's queue is fair.
Nothing is assumed of arrivals, faults or late writes.

### The disagreement

`ob_revoked_sync`: a revoked connection may sync. Sync looks its connection up and never
at its status, so it is enough that a token is stored after a revoke. In the trace of the
run a callback does it: `create_connection` inserts the row, the household revokes, and its
second write stores the token of the grant. The upsert of a sync that is under way while
the connection is revoked does the same, in a longer trace. The callback takes no lock, so
a lock in the revoke would repair the longer trace and leave the shorter one; to look at the
status before the bank is called would repair both.

### Proofs (`OpenBankingProofs`)

For any sets of connections, requests and processes, any faults and any bounds:

* `TypeCorrect`: `[]TypeOK`. It needs `Control`: a request under way has a
  connection and a process (`Addressed`).
* `LockExcludes`: `[]OneRefreshPerProcess`. The mutual exclusion is not inductive;
  `LockInv` adds that the lock's holder is a sync of that connection in that
  process inside the `async with` block, and that everyone inside holds it.
* `NewestCorrect`: `[]OnlyNewestIsStored`. `CarryInv` adds that a token in a
  request's hands is between 1 and the newest, that the database never holds
  more than the newest, and which requests have a token nobody else can have rotated.
* `RefusalCorrect`: `[]RefusedOnlyWhenGrantEnded`. `CalmInv` describes the
  executions without a fault: no late writes, the stored token is the newest unless a
  sync is about to store it, the token a sync read is still honoured unless the grant
  ended, and a sync that is dropping the token was refused for that reason.
* `TokenCorrect`: `[]ActiveHasToken`, from the same invariant.

* `ConsentCorrect`: `[]SyncedUnderConsent`. `ConsentInv`: past the gate a request keeps
  what it saw, and one that is about to read consent reads `"active"` only if consent was
  in force since it began. Every action is shown either to leave the gate alone
  (`GateKept`) or to be one of the few that change consent or pass it.
* `CustodyCorrect`: `Spec => CustodyKept`, the refinement of
  `TokenCustody`. The custody of a connection (what the database holds, who holds what,
  whether the connection is closed) is a function of the detailed state; each action is
  shown to be a custody step of one connection or a stutter. That needs the invariants
  above and `OpenedInv`: a request that inserts finds no row, one that found a row still
  has it, and a late store has one.

Assumption: `ConstantsAssumption` only (`None` is none of the ids; the bounds are
numbers). Only model-checked: the liveness property `EveryRequestAnswered` (fairness is
beyond the prover).

## CloudSync

One page of the browser, the snapshot and consent routes, and the two rows.

| Variable | Code |
| --- | --- |
| `local`, `agreed` | `S` and the consent record, both in `localStorage` (`state-repository.ts`, `consent.ts`) |
| `session` | the session cookie is there and valid |
| `signedIn`, `booting` | what the page knows of it: `signedIn`, and whether `loadSignInState` has yet to answer |
| `shown` | the cloud section was visible when `renderCloudSync` last ran |
| `copy`, `conflict` | `cloudReconciliationPayload`, `cloudReconciliationOutcome = 'conflict'` |
| `row`, `consent` | `app_snapshots` and the cloud-sync row of `consent_acceptances` |
| `call` | the calls under way |

A call goes through `sent`, for a push `passed` (the route has read consent and has
not written yet), and `ok` or `failed`; the page then hears it (`PushDone`, ...,
`Failed`) or has given it up (`GiveUp` after the ten seconds of `cloud-sync.ts`, `Boot`
for a reload) and nobody hears it (`Unheard`), as nobody hears the answer to a
consent call. Calls are served in any order. The
buttons need the section to have been *shown*, not consent to be in force: nothing
hides the section when consent is withdrawn in the drawer.

A household's state is one of a few contents. What the properties tell apart is
whether it is that of a new device (`Empty`), has no transaction (`NoRows`), or has
something the server drops (`WithNulls`: a row without balance, a goal without date).
`Text` keeps that the page compares JSON texts although the database's `jsonb` keeps
keys in an order of its own.

Two calls are the least that overtake each other, and every property is about one call
and what happens beside it; the proofs are for any number. `Faulty` lets any call be
refused (429, 413, 502) and any write lose its answer after it was applied; `cs_deleted`
leaves it off, so that it needs no fault. The slots are symmetric.
Nothing is fair: no property promises that something happens, because the code
promises nothing of the kind (a withdrawal that fails is not sent again).

Proved for any number of calls and any contents (`CloudSyncProofs`): `TypeCorrect`,
`ConsentCorrect` (`[]StoredUnderConsent`) and `RowsKept` (`CheckKeepsRows`). The
gate is inductive together with `SeesConsent`: a push under way while the server's
consent is active has been seen with it, which every action that activates consent or
sends a push must keep. `RowsKept` needs only the step of the check.

The disagreement, `cs_deleted`: a push that passed the gate is stored after the delete,
and the household has read that the copy was deleted.

## Household

`S.tx` and `S.overrides` in one page, what `localStorage` keeps of them, what is drawn,
and every handler that changes them.

| Variable | Code |
| --- | --- |
| `tx` | `S.tx` as a bag: `decorate` sorts by date, and no property is about the order |
| `overrides` | the keys of `S.overrides` |
| `saved` | the entry of `localStorage`, after `sanitizeTransaction` |
| `drawn` | the rows of the last `render`, to which the buttons' closures refer |
| `import` | per `handleFiles` under way: the files left, `have` and `misread` |

A row is its charge (date, description and amount, as in `misreadKey`), the reference,
the side, who entered it, whether it has a balance (`"absent"` is a synced row before
the first save has made it `null`) and its id. `TxId` is `transactionId`; the hash is
taken to be injective, and so is redaction. `"zero"` is a row with no amount on either
side, which `asOutgoing` makes of spending that shares the id of a misread row.

Every handler is one action: it computes, saves and renders without a pause
(`SaveAndRender`). `handleFiles` is the exception: `ImportBegin` up to the first
`await`, then one `FileRead` per file; the last one saves and renders. `ReadFile` is the
loop over a file: purchases discounted to nothing leave (`Waive`), old readings of a line
leave (`Supersede`), duplicates are skipped, a misread row of the same charge is replaced
(`Correct`), the row is added. `Restore` stands for a backup file and for the three ways
the cloud's copy replaces `S`; `SyncDone` for a bank's answer; `Reload` for a reload, a
crash of the page, or a closed tab.

Of several lines with one old id the last says what became of it (`Correction`), since
`legacyCardCorrections` keeps them in a map. Old readings hand over their category one
after another, in the order of `S.tx`: it matters only to a line whose id is the same under
both readings, and `FileRead` leaves it open for those (`spared`). In the end it matters
only if a third line gives a category back to one of the readings in between, for which the
instance has too few rows: there the theorem speaks, and not the run.

The instance has one charge in files, told apart by side, source and reference; one import of at
most two files, at most two rows, five kinds of file, three answers of a bank, and one
backup. `ShownIsSaved`: memory, storage and screen agree. `BankIdsOnce`: no two rows
carry one id of the bank. `ImportKeepsSpending` and `CategoryFollows`: what an import may
remove, and where categories go. `RemoveExpense` is the button of the list of typed rows,
and `DropCategory` what the deletion of a category does to overrides; which of them had that
category is left open.

Two rows are the least that share an id or a charge; two files are the least between
which something else can happen to rows an import has already touched. The bank is
consistent: the same id always has the same amount and side.

### Proofs (`HouseholdProofs`)

For any charges, references, reports, answers of the bank, backups and entered rows, and
any number of imports under way: `TypeCorrect`, `BankIdsCorrect` (`[]BankIdsOnce`),
`ShownCorrect` (`[]ShownIsSaved`), `SpendingCorrect` (`ImportKeepsSpending`) and
`CategoriesCorrect` (`CategoryFollows`).

None of the first three is inductive. A sync could bring a second row with an id of
the bank if a flip or a repair could make such an id, and an import could remove
spending if an id it remembers from before it waited could be one of spending by now.
`HouseholdInv` follows what an id says: every row in memory, in storage and on the screen
is `Told` (its id is none, or made of its charge and its side, or the bank's, whose side
is that of the transaction), rows in memory and storage are `Once` per id of the bank, what
is saved is a fixed point of `Kept`, and an import remembers, for a charge, an id of income of that charge
(`InIds`, `Own`).
Then whatever an import drops is income, for any file and after any other handler
(`KeepsOn` through `Dropped`, `Waive`, `Supersede`, `Correct` and `Add`, by induction over
the lines of the file). TLC checks the five properties on the instance; the invariant
itself ranges over all bags and is only proved.

`CategoryFollows` is an induction over the lines as well. An id that loses its category has
a row of its line or charge that gets it (`Takes`); that row can lose it again only if its
own id is that of an old reading, all of which are known before the first line
(`Settles`, `SettlesOn`). The exemption is needed: a row that replaces an old reading and
has the id of another one is removed in its turn. An earlier form of the property, which
asked of any row of the file to have a category, was too weak where a file has other rows
and false for chains of replacements; the proof was how that came out.

`HouseholdAssumption`, and why it holds of the code: there are finitely many rows (texts are
bounded by the codec, amounts are finite decimals); rows of reports and of the forms have
the id `transactionId` makes of them; rows of a bank connection have the bank's id or none
(`open_banking_sync.py:42`); a backup and the cloud's copy were saved by this program, so
that they have one of each of the bank's transactions; and what the bank sends under one
id stays on one side, which is assumed of the bank.

## Settings

`S.rules`, `S.cats`, `S.budgets`, `S.goals` and one override (`chosen`) of one page, what
`localStorage` keeps of them, and the drawer.

| Variable | Code |
| --- | --- |
| `S`, `saved` | the state in memory; the entry of `localStorage` |
| `defaults`, `shared` | `DEFAULT_RULES`, `DEFAULT_CATS`, and what of them `S` still is: until the first load that finds something, `S.rules` and `S.cats` are those very arrays, and edits change the defaults (app.ts:349-353) |
| `drawer` | whether it is open, and the rules and categories its rows were drawn from: their listeners hold an index |

Every handler is one action: it changes `S`, saves, and draws the drawer again or does
not (`Redraw`). `Decode` is `AppStateCodec.decode`: a state with one rule of more than
200 characters, no category or too many goals is refused as a whole (`Refused`); default
rules that are missing are appended (`WithRules`), default categories return at their
position (`WithCats`). Both are folds over the defaults that compare with the list as it
has become, as the loops of `decode` do: of two equal default rules one is added. Budgets
are kept by category, goals by number.

In the run: one default rule and two default categories, one rule and one category a
click can add, one matching text and one that is too long, and a backup that has lost
the defaults. Three rules are enough for a learned rule, an edited default and the
default that comes back.

* `DrawerIsCurrent`: the i-th row of the drawer is that of the i-th rule and category.
* `ReloadKeepsCategories`: the defaults a reload merges in take no row from the rules of
  the household, also when an edited default has its original back.
* `settings_saved`: `SavedIsReadBack` does not hold. The drawer gives a rule any text,
  `save` writes it, and the next load starts clean and overwrites what was kept.

Proved for any rules, categories, texts and backups (`SettingsProofs`):
`SettingsTypeCorrect`, `DrawerCorrect` (`[]DrawerIsCurrent`) and `ReloadCorrect`
(`ReloadKeepsCategories`). The types, the drawer and the category "other" need each other
and are one invariant, `SettingsInv`: the type of the list after `AddCat` needs a category
to be there; "other" is there because the row whose button deletes by index is that of the
category it names; and the drawer is current because the lists it was drawn from have
their types. `SettingsInv` holds in TLC's instance as well. `ReloadCorrect` rests on
`WithRulesIs` (the household's rules are a prefix of the merged ones) and `SameCategory`
(a longer list has the same first match). Assumed: the defaults are lists of rules and
categories with "other" among them, and backups are states, which `decode` checks.

## Screens

| Variable | Code |
| --- | --- |
| `open`, `shown` | `directoryOpen`, `goalsOpen`, `cardsOpen`, `expensesOpen`; the sections that are not hidden |
| `hash`, `tab`, `reading` | `location.hash`, the tab marked, whether `#main` shows the dashboard or the recommendations |
| `rows` | the months `S.tx` has rows of |
| `month`, `chips`, `scope`, `cardScope` | `S.month`, the chips as drawn, the values of `#f-scope` and `#f-card-scope` |
| `phase` | before the first render, during an import, otherwise |

`Render` is `render()` with the functions it calls that touch these: it opens the month
wanted if there are rows of it, sets the sections from the flags and fills the controls
again. Handlers of tabs set flags and sections themselves (`Show`, `Dashboard`,
`Recommendations`, with what each leaves alone in `Leaves`). A file that is read between
two awaits of an import changes `S.tx` and nothing else (`ImportFile`). Two months are
enough for the month in question to be there, gone, or another one.

* `MonthsAgree`: chips, selects and figures are of one month, or a select says all of it.
* `HashReturns`: the address names an open screen, and names one whenever one is open.
* `RenderKeepsScreen`: a render that an answer or an import causes moves nobody.

Proved for any finite set of months (`PageProofs`): `ScreensTypeCorrect`,
`MonthsCorrect`, `HashCorrect` and `KeepsCorrect`, the three properties each with the type
invariant and with one step per handler. The months are finite because the rows are.

## BrowserLog

| Variable | Code |
| --- | --- |
| `page` | per tab its `Logger`: level, day, ring, and whether `PERSIST_INTERVAL_MS` has passed since the last flush |
| `stored` | the copies in `localStorage`, one per day, shared by all tabs |
| `today`, `written` | the clock in days; how many records have been written, which numbers them |

`Write` rolls the day if it is over (flush the old records under their day, prune),
appends to the ring and flushes if it is due; `Hide` is `pagehide` and
`visibilitychange`; `Kill` is a tab that ends without either; storage may refuse a copy,
which gives up the others (`Flushed`). Two pages, days 0 to 3 with two retained, rings of
two records and four records in all: a page can sleep past the retention of its day
while the other writes.

* `DatesLineUp`: a copy holds records of its own day, at most a ring of them.
* `ArchiveInOrder`: the archive reads in the order of writing, whoever wrote.
* `FewCopies`: there are never more copies than are retained and one per other page.

Proved for any pages, days, rings and retention (`PageProofs`): `LogTypeCorrect`,
`DatesCorrect` (`[]DatesLineUp`), `CopiesCorrect` (`[]FewCopies`) and `ArchiveCorrect`
(`[]ArchiveInOrder`). `LogInv` says of every
copy and every page's memory what `DatesLineUp` says of the stored ones. `FewCopies` is not
inductive: a page whose day is over may bring back a copy that was pruned. `SpreadInv`
says what may have come back: since the last pruning, on a day T, copies are of the days
retained then or of the day of some page, each page has one such day, and the page that
pruned is of T itself. The number of pages is finite.
`ArchiveInOrder` needs `OrderInv`: numbers grow within every copy and within every page's
memory, and everything written on one day, by whichever page, has smaller numbers than
everything written on a later one. Then the archive, the copies sorted by day and
concatenated, grows: `DaysSorted` says that the days are sorted, `FlattenJoins` of
`FoldProofs` what a concatenation is, and the rest is an induction over the copies.

`PageTypeCorrect` and `PageCorrect` put the three parts of the page together, as the run
does.

## Money

`S.tx` as a set of rows with what the figures look at: day, sides, source, file, card,
category, whether the payee recurs, whether the category was chosen by hand (`filed`), and
how the rules read it once its text was redacted or a default rule is back (`again`).
`MoneyNext` imports a line of a statement or a report of one card, files a row under a
category, removes one, or reloads. `Sanitized` is what the codec does to the name of the
file; `Reload` also lets any rows be read again (`Reread`): which texts are redacted
(`privacy.ts:71`) and which deleted defaults return (`state-repository.ts:134-147`) is left
open, and an override wins over both. Everything else is computed:
`Kind` is `decorate`, `Totals` and `ByCategory` the dashboard, `Bills` is
`settlement-bills.ts`, `Statements` `card-statements.ts`, `ViewRows`
`transaction-view.ts`, `Plan` `financial-plan.ts`.

The instance has two cards with a report each, refunds, settlements of two amounts inside
and outside the window, money set aside, a salary, and money sent back; months have three
days and the window two instead of 45. Four rows are enough for two settlements that
compete for one report and for two reports that compete for one settlement.

* `BillIsNotSpending`: a line that opens is a transfer, in a window another file computes,
  and its charges are under no other line and all there.
* `PlanIsTotals`: what the plan says is left is the dashboard's net, and the categories
  add up to the spending.
* `TableIsStatements`: the folded lines of the table are those of the cards screen, and
  every row is in one line.
* `ReloadKeepsMoney`: what a reload may not change. Every month and every card keeps its
  money, a row filed by hand its category, and a row that keeps its category its kind, which
  depends on all charges there are; if every row is read as before, no total and no plan
  changes. The categories of other rows may change, and with them totals and plan.
* `settled_twice`: `SettledIsItemised` does not hold. The window in which settlements are
  transfers runs from the first charge of any card to 45 days past the last of any card: a
  settlement of a card in no report leaves the spending because of another card's report.

Proved for any lines, charges, windows and months (`FiguresProofs`): `MoneyTypeCorrect`
(`MoneyInv`: finitely many rows, no two with one id), `BillsCorrect`, `PlanCorrect`,
`TableCorrect` and `ReloadCorrect`. The sums of the figures are folds over sets, in an order
nobody chose (`MapThenSumSet`); `FoldProofs` shows that the order is none of their business
(`SumAnyOrder`), that the sum over a set is that over its parts (`SumsAdd`) and that it
may be taken after renaming (`SumRenamed`), which a reload does: rows keep amounts and lose
file names and some of their text. `BillsCorrect` needs that the charges of a line that
opens are in the window in which settlements are transfers, for any window; `PlanCorrect`
that every row of spending is in one category.

## Advice

`history` is `S.tx` as the agents see it. A day is a number and a calendar (`Lengths`)
makes months of it, so that months can be too short. Halves and percentages are kept
exact by multiplying (`Median2`, `Committed2` and others are twice the value). `Payday` is
`paydayAgent`, `Events`, `Burn` and `ForecastOut2` are `forecast`, and `Subscriptions`,
`Anomalies`, `Duplicates`, `Savings` and `Suggested` are the other agents. A row has two
payees: `payee` as the agents read its description (`merchantKey`) and `norm` as the
forecast does (`normPayee`), either of which may be blank; `fee` and `duty` say whether the
description names a fee, or an obligation that is no subscription.

The instance has a salary on three dates, with a balance, a side income, a rent that
rises, a shop that repeats an amount or becomes dearer and is once written in other letters,
and a bank's fee; six of fourteen movements at once, in any combination. The second month
is shorter than the others.

* `PaydayIsNext`: the next income is the first possible day after the balance.
* `TwoForecastsAgree`: what `paydayAgent` calls committed is what `forecast` takes off
  before that day, and both measure the same rate for the rest, of histories whose
  descriptions the two group alike (`SameReading`, the antecedent). Without it the property
  does not hold: the instance has a row to show it.
* `RisesAgree`: subscriptions and anomalies call the same payee dearer.
* `OneReview`: no two opportunities have one id. A payee is asked about once for its year,
  be it a fee, a rise or a subscription, and once for every two days a charge was repeated
  on; a subscription with a repeated charge is asked about in both ways.
* `DuplicatesLeaveOne`: what might be claimed back leaves one charge, and none counts twice.
* `BudgetIsEnough`: a suggested budget would have been enough in three of four months.

Proved for any calendar, horizon, tolerance and history (`FiguresProofs`):
`AdviceTypeCorrect` (`AdviceInv`: finitely many movements of different ids) and, from it,
the six properties (`PaydayCorrect`, `ForecastsCorrect`, `RisesCorrect`, `ReviewCorrect`,
`BudgetCorrect`, `DuplicatesCorrect`). What is hard is in the arithmetic: the next due day
lies after the balance and within two months of it, since months have days and the day is
cut to the length of the month; medians and percentiles are members of a finite set, counted
by cardinalities; a rise of a third over the greatest amount is one over the median; of a
group of charges one has the least id, and it is the only one nobody claims.
`AdviceAssumption` is that the calendar has at least two months and covers the movements and
the horizon, and that amounts are natural numbers.

## Containers

The readers of `spreadsheet-reader.ts`, each against a writer that puts one thing after
another as the format allows and remembers what it meant; the file may end after any step.

* Separated text: `parseCSV` is a fold of `Char` over the characters, against a writer that
  quotes any cell (and must quote some). `CsvKeepsCells`: every cell is read with every
  character, in its place. Cells of up to three characters with separators, quotes and
  line ends; three cells; the three separators and both line ends.
* HTML tables: `TableRow` is one turn of `htmlRows`, against where a browser places cells
  (`Place`). `TableKeepsColumns`: a cell is read in the columns and rows it covers. Three
  rows of three columns, with spans of up to three: every way two spans can meet.
* The string table of a .xls: `TakeToken` is `biffString` and the skipping after it over
  a cursor that walks into CONTINUE blocks, against a writer that cuts anywhere, and may
  change the width of characters where it cuts inside a string. `StringsSurvive`: a string
  is read as it was written. Inside a string and its formatting the reader goes on as
  often as it takes, but before a header it goes on one block only: two cuts there, with an
  empty block between them, are exempted (`hollow`), and the reader is then `lost`. Nine
  tokens: a string of three characters with two cuts, or two strings with two cuts between.

`Char` and the others are folds and recursive functions; no module of the project declares
a `RECURSIVE` operator.

Proved for any characters, cells, strings, widths and spans, and for files of any length
(`FilesProofs`):

* `CsvTypeCorrect`, `CsvCorrect`. Between two steps of the writer, `parseCSV` stands in the
  cell that was written last (`CsvInv`), which is a statement about a fold over the whole
  text: `Reaches` says what the fold has read after a text, and how it goes on after a longer
  one.
* `TableTypeCorrect`, `TableCorrect`. `TableInv`: no two cells cover a place, and what is
  carried into the next row is what the cells above still cover. Inside a row the same is
  said of the columns passed so far (`Along`); cells carried from above are passed in between,
  which is an induction of its own.
* `StringsTypeCorrect`, `StringsCorrect`. `StringsInv`: what the reader still expects is what
  the writer has not written, in the width the reader takes it for, and unless a block was
  empty between two strings it has met the cuts there have been since the last one.

`ContainersAssumption` says that cells and strings are sequences of characters and that a
span covers something.

## Reports

From rows to transactions: `BankImport` (`bank-importer.ts`), `CardImport`
(`credit-card-importer.ts`), the choice between them (`ReadReport`) and
`legacyCardCorrections`. A cell is a text, a number, a number in brackets or a day. What a
heading means is given to the model (`BankKey`, `CardKeys`): the patterns of the two
readers differ, and which texts only one of them knows is what matters. Hashes do not
collide. An issuer writes a report row by row and sheet by sheet; a bank keeps an account
and exports it, oldest or newest first.

* `ClosingBalanceFirst`: whichever end a bank exports from, and however it names its
  columns, each movement is read as what it was, and the first row of a day carries the
  balance the day closed with. Four movements on three days: two on one day, and days
  before and after.
* `CorrectionsFindMisreadings`: every row of a card report that was filed as income when
  it was read as a statement is found under the id it had, and replaced by what such a row
  says now. Four rows in two sheets: two headings, and a row under each.

Proved for any headings, columns, amounts and days, and for reports, statements and accounts
of any length (`FilesProofs`): `ReportsTypeCorrect`, `StatementsCorrect`
(`[]ClosingBalanceFirst`) and `CorrectionsCorrect` (`[]CorrectionsFindMisreadings`). The
invariant is small (`ReportsInv`: a report is headings and charges, an account moves from
day to day); the work is in what the readers compute. For a statement: the heading is found
in the first row, each column under the name it was given (`LayoutIsNamed`), no reader takes
the file for a card report, a row shows its movement (`StatementRowShows`), and the
orientation is that of the days unless all are one day. For corrections: the heading the
replay keeps is the one the reader of statements used (`FirstHeading`), a row under two
headings is read as in the whole sheet (`TwoRows`, `TwoCardRows`), and a row that was filed
as income is therefore among the corrections, under its id (`FiledIsReplayed`); of two lines
of one id the last one counts, which the property allows for.

`RowsAssumption` says what reports are made of: charges are no headings, and a statement
shows date, description, balance and either an amount or both sides. The proof of
`CorrectionsFindMisreadings` failed at first where a heading stands below the thirty rows
the reader of statements looks at: the replay has no such limit (`import-corrections.ts:18`),
so that rows the statement reader never read are replayed. A card report with so long a
preamble is exempted, with the reports whose headings only one reader knows.

## Visible in the model, with no run

What follows was met while modelling. Where a property states it, the module has the
property with the remark that it does not hold.

Bank connections:

* A refresh without an answer is not retryable once the bank has rotated, though
  `open_banking_routes.py:215` says so: the stored token is spent, the retry is refused and
  revokes a connection whose grant stands (`TransientFailureIsRetryable`).
* A refused sync deletes the token and may then fail to mark the connection, which is the
  state `open_banking_routes.py:209` wants to avoid (`RefusedSyncRevokes`).
* Withdrawing the bank consent revokes no connection (`resources/en.json:144`).

The cloud copy:

* The server stores a payload without its nulls (`models.py:137`), and the page refuses it
  (`privacy.ts:122`): a copy with a row without balance is never read back
  (`CopyCanBeRecovered`).
* A device with goals or budgets and no transaction counts as empty and is overwritten
  (`cloud-sync-reconciliation.ts:10`, `DeviceKeptUnlessNew`).
* `app.ts:1871-1874` says withdrawn consent means "do not touch the cloud"; the actions
  at 1879-1930 do not ask, and the section stays on the screen.
* `consent.ts:1-2` calls the server's record a mirror; a withdrawal while not signed in,
  before `loadSignInState` answers, or whose call fails is never sent.
* A copy of this very device is reported as a conflict at boot, because of the order of
  keys (`cloud-sync-reconciliation.ts:11`).
* `useCloudData` (`app.ts:1924`) applies the copy read at boot.

The household:

* The plan of the integration (`docs/superpowers/plans/2026-10-07-open-banking-integration.md:27`)
  asks that a second sync, and a sync of a period whose statement was imported, add no
  duplicate; `mergeSyncedTransactions` compares ids, and nothing else. A synced row that is
  flipped gets the id `transactionId` makes of its content (`app.ts:2059`): the next sync
  finds no row with the bank's id and adds the transaction again (`SyncedOnce`). A row of a
  statement has such an id from the beginning: a sync after an import doubles the period
  (`StatementNotSynced`). `BankIdsOnce` is about ids, and holds.
* Flipping a row a bank sent without an id replaces every other row without an id by a copy
  of it (`app.ts:2064`, `FlipKeepsOthers`). Flipping a refund gives it the id of the
  purchase it refunds; flipping either then changes both.
* Income entered by hand is taken for a misread row when a card report has a charge of
  the same date, words and amount (`app.ts:2694` lacks the exclusion that
  `misread-rows.ts:15` explains), and is removed.
* A synced salary has no balance; after a reload it has the balance `null`, counts as
  misread and is turned into spending by the repair button (`misread-rows.ts:11-13`).
* A line whose id is the same under both readings (a credit column) loses the
  household's category (`app.ts:2752-2755`); `CategoryFollows` exempts rows whose id is that
  of an old reading.
* Two imports at once add a report twice, and a row flipped between two files of an import
  may be dropped with the misreading whose id it now has. The form of the drawer, unlike
  quick add, takes a row that is there.
* A report whose only lines were discounted to nothing waives nothing
  (`rows.length` is tested first).
* Deleted default rules and categories return at the next load (`state-repository.ts:134`),
  and the codec redacts descriptions (`privacy.ts:71`), of which the rules make categories:
  a reload may move rows nobody filed to another category and kind, make a payee recur no
  more, and so change totals and plan. `ReloadKeepsMoney` says what it leaves alone.
* The categories of the manual form are those there were when the drawer was opened.

Screens and the log:

* Expenses, then cards, and two screens are open (`app.ts:973-988`, `OneScreen`).
* After a reload at an address with a hash, the tab of the dashboard stays marked.
* A page that is loaded again begins with an empty ring, and its first flush replaces the
  copy of the day (`logging.ts:146`, `DayIsKept`).

Figures and advice:

* Bills no longer open after a reload, since all card rows have one file name
  (`settlement-bills.ts:33`, `BillsStayOpen`).
* The agents and the forecast read descriptions differently: `merchantKey`
  (`financial-agents.ts:96`) ignores letter case, digits and names of card companies and
  keeps four words, `normPayee` (`app.ts:499`) keeps letter case, takes out long numbers and
  cuts after 28 characters. A payee written in two ways recurs for one and not for the other,
  and `committed` differs from the forecast; `TwoForecastsAgree` has the hypothesis
  `SameReading`.
* The forecast's daily rate and the agents take both the settlement line and the charges
  it settles, which `app.ts:414-419` counts once.
* A charge on day 31 is never due in the forecast's shorter months, while `paydayAgent`
  moves it to their last day; `TwoForecastsAgree` exempts such months.
* Duplicate evidence uses the tolerance of the later amount in one place and of the earlier
  in another: of 1000 and 995 one row stays out.

Files:

* A quote inside a cell that is not quoted (`בע"מ`) begins a quoted part and swallows
  separators and line ends up to the next quote; and all three separators split any file
  (`spreadsheet-reader.ts:591-596`).
* A table row that stops before a column with a span from above leaves the span for the
  rows below, which shift (`spreadsheet-reader.ts:660`); `TableKeepsColumns` exempts it.
* Before a string of a .xls the reader goes on one block only (`spreadsheet-reader.ts:316`):
  after an empty CONTINUE there it reads past the block; `StringsSurvive` exempts it.
* A balance of exactly zero is read as none (`bank-importer.ts:173`), and a statement of a
  single day keeps the order it came in (`bank-importer.ts:122`).
* The reader of statements reads "(20)" as 20, that of card reports as -20.
* Corrections keep the first heading the reader of *card reports* recognises, not the
  first bank heading (`import-corrections.ts:18-19`, against the comment at 7): a report
  with a heading only one of them knows is not corrected, and is exempted. Nor does the
  replay stop looking for a heading after thirty rows, as that reader does.

## Not modelled

* Bytes: the sectors of an OLE container, zip and XML, the placement of cells in .xlsx,
  .xls and SpreadsheetML sheets, and the formats of numbers and dates. They are layouts of
  data without a choice of order.
* Presentation: words, markup, charts (the balance series among it), marketing events.
* Savings goals' pace, missing charges, the wording of learned rules: one comparison each.
* The round trips of sign-in and of the bank's consent page, whose cookies two tabs share
  (`open_banking_routes.py:121`): the first to come back finds the other's state. No
  document says what two tabs may expect.
* A second tab over one household (`app.ts:370`): each saves the whole of it over the other.
* The request guard (beyond 10 000 clients the oldest bucket is evicted while its window
  runs, `request_guard.py:45`), the server's log files (`logging_config.py:72` numbers
  backups by the first free index, retention sorts names), metrics, the user profile.
* The column grants. The models assume that the writes are granted; the migrations refuse
  the upsert of an acceptance (`202608230001_create_app_snapshots.sql:72` grants no insert
  of `accepted_at` and `withdrawn_at`, which its body names).
* Encryption, HTTP details, and a full `localStorage` outside the log.

## Proved and only model-checked

Eight modules hold proofs. What they prove is about the specifications of the parts
(`Spec` of `OpenBanking`, `CloudSync` and `Household`, `ScreensSpec`, `SettingsSpec`,
`LogSpec`, `MoneySpec`, `AdviceSpec`, `CsvSpec`, `TableSpec`, `StringsSpec`, `ReportsSpec`)
for every value of the constants that satisfies the named assumptions of the module; the
runs check the same properties on instances. The modules that run several parts at once
(`MCPage`, `MCFigures`, `MCFiles`) have a theorem that puts them together (`PageCorrect`,
`FiguresCorrect`, `FilesCorrect`). The bounds of the models (`MaxRows`, `MaxRules`,
`MaxToken`, ...) are constants too, so that no theorem depends on how small an instance is.

`FoldProofs` has what the other proofs need of the library. `FoldLeft` is a `CHOOSE` of a
recursive function on sets of positions, sums and the cardinality of a bag one on sets of
members. The induction theorems of the library take operators, which no prover here can
instantiate, so the module states induction for membership in a set (`Induction`, from
`WFMin` over the natural numbers) and derives that such functions exist, that a fold goes
through the positions in order (`FoldChain`), that sums may be taken in any order and in
parts (`SumAnyOrder`, `SumsAdd`), what a concatenation of sequences has in it
(`FlattenJoins`, `FlattenMembers`), and that finite sets of numbers have a least and a
greatest member. A fold over a file, a batch, the rules or the categories is then a chain of
values in a set that is closed under one turn of the loop.

Only model-checked is `EveryRequestAnswered`, which is liveness under fairness and beyond
the prover. The four properties of the runs that expect a violation do not hold and have no
theorem.
