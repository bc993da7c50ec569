------------------------------- MODULE Advice -------------------------------
(***************************************************************************)
(* What a household is told of its habits: the agents of                   *)
(* financial-agents.ts and the forecast of fe/src/app.ts. Each is computed *)
(* from the transactions alone, and several compute the same thing in      *)
(* their own way: when a charge is due, what has become dearer, what goes  *)
(* on being spent. Amounts are whole; a median is kept doubled, a rate as  *)
(* a total and its days.                                                   *)
(***************************************************************************)
EXTENDS Integers, Sequences, FiniteSetsExt

CONSTANTS
  Movements,  \* transactions there may be
  Lengths,    \* days of each month, from the first; the last are in the future
  Horizon,    \* days of the forecast
  Span,       \* days a rate is measured over: 90
  Step,       \* what a budget is rounded up to: 50
  None,       \* a row without a balance
  MaxHistory  \* bound on the transactions

VARIABLE history  \* S.tx; rows of one day are met in the order of their ids

(* A description is read twice: as `payee` by the agents (merchantKey) and *)
(* as `norm` by the forecast (normPayee); either may be left with nothing. *)
(* `fee` and `duty` say whether it names a fee, or an obligation.          *)
Fields == {"id", "t", "payee", "norm", "out", "in", "bal", "cat", "fee", "duty"}
Blank  == ""

AdviceInit == history = {}

----------------------------------------------------------------------------
(* The calendar: days are numbered from 1.                                 *)
Before(m)    == MapThenSumSet(LAMBDA k : Lengths[k], 1..(m - 1))
MonthOf(t)   == CHOOSE m \in DOMAIN Lengths : t - Before(m) \in 1..Lengths[m]
DayOf(t)     == t - Before(MonthOf(t))
DateAt(m, d) == Before(m) + Min({d, Lengths[m]})

(* The calendar goes on for two months after the last transaction, and for *)
(* as long as the forecast.                                                *)
ASSUME AdviceAssumption ==
  /\ Lengths \in Seq(Nat \ {0}) /\ Len(Lengths) > 1
  /\ Horizon \in Nat /\ MaxHistory \in Nat
  /\ Span \in Nat \ {0} /\ Step \in Nat \ {0}
  /\ \A r \in Movements :
       /\ DOMAIN r = Fields /\ {r.id, r.t, r.out, r.in} \subseteq Nat
       /\ r.t \in 1..Before(Len(Lengths) - 1) /\ r.t + Horizon <= Before(Len(Lengths) + 1)

(* The next day a charge of this day of the month is due.                  *)
(* Bug: a charge due today is due again today.                             *)
BugDueAfter(d, asOf) ==
  IF DateAt(MonthOf(asOf), d) < asOf THEN DateAt(MonthOf(asOf) + 1, d)
  ELSE DateAt(MonthOf(asOf), d)
DueAfter(d, asOf) ==
  IF DateAt(MonthOf(asOf), d) <= asOf THEN DateAt(MonthOf(asOf) + 1, d)
  ELSE DateAt(MonthOf(asOf), d)

(* The value in position k of a function's values in order, and a median.  *)
Nth(v, k) ==
  v[CHOOSE r \in DOMAIN v : /\ Cardinality({o \in DOMAIN v : v[o] < v[r]}) < k
                            /\ Cardinality({o \in DOMAIN v : v[o] <= v[r]}) >= k]
Median2(v) ==
  LET n == Cardinality(DOMAIN v)
  IN IF n = 0 THEN 0 ELSE Nth(v, (n + 1) \div 2) + Nth(v, n \div 2 + 1)
Rounded(twice) == (twice + 1) \div 2

(* percentile75: the position. Bug: it is rounded down.                    *)
BugRank75(n) == Max({1, (3 * n) \div 4})
Rank75(n)    == Max({1, (3 * n + 3) \div 4})

OutOf(r)   == r.out
Outs(list) == [r \in list |-> r.out]
Ins(list)  == [r \in list |-> r.in]
Going   == {r \in history : r.out > 0}
Coming  == {r \in history : r.in > 0}
Payees(list)    == {r.payee : r \in list} \ {Blank}
Of(payee, list) == {r \in list : r.payee = payee}
MonthsOf(list)  == {MonthOf(r.t) : r \in list}

(* Payees met in two months at least, and the day of the month they come.  *)
Recurring(list)    == {p \in Payees(list) : Cardinality(MonthsOf(Of(p, list))) >= 2}
UsualDay(rows)       == Rounded(Median2([r \in rows |-> DayOf(r.t)]))
ExpectedDay(p, list) == UsualDay(Of(p, list))

----------------------------------------------------------------------------
(* The newest balance: currentBalance, and the first lines of paydayAgent. *)
Known  == {r \in history : r.bal # None}
Latest == CHOOSE r \in Known : \A o \in Known : o.t < r.t \/ (o.t = r.t /\ r.id <= o.id)

(* paydayAgent. The income it waits for is the recurring one of the        *)
(* greatest median, and the first met of several.                          *)
Income ==
  LET m(p) == Median2(Ins(Of(p, Coming)))
      first(p) == Min({r.id : r \in Of(p, Coming)})
  IN CHOOSE p \in Recurring(Coming) :
       \A q \in Recurring(Coming) : m(q) < m(p) \/ (m(q) = m(p) /\ first(p) <= first(q))
NextIncome == DueAfter(ExpectedDay(Income, Coming), Latest.t)

(* Bug: what is due on the day of the income is due before it.             *)
BugCommitted2 ==
  LET next == NextIncome
      asOf == Latest.t
      due  == {p \in Recurring(Going) : DueAfter(ExpectedDay(p, Going), asOf) <= next}
  IN MapThenSumSet(LAMBDA p : Median2(Outs(Of(p, Going))), due)

(* Twice what recurring charges take before the next income.               *)
Committed2 ==
  LET next == NextIncome
      asOf == Latest.t
      due  == {p \in Recurring(Going) : DueAfter(ExpectedDay(p, Going), asOf) < next}
  IN MapThenSumSet(LAMBDA p : Median2(Outs(Of(p, Going))), due)

(* discretionaryDailyRate: a total, and the days it was spent in.          *)
Discretionary ==
  LET asOf      == Latest.t
      recurring == Recurring(Going)
      begin     == Max({asOf - (Span - 1), Min({r.t : r \in {o \in history : o.t <= asOf}})})
  IN [total |-> MapThenSumSet(OutOf, {r \in Going : /\ r.t \in (asOf - (Span - 1))..asOf
                                                    /\ r.payee \notin recurring}),
      days  |-> Max({1, asOf - begin + 1})]

(* What is free until the next income: the least of what the balance bears *)
(* and what is usually spent in as many days.                              *)
Payday ==
  LET days      == Max({1, NextIncome - Latest.t})
      usual     == Discretionary
      available == (2 * Latest.bal - Committed2) * usual.days
      typical   == 2 * usual.total * days              \* both times twice usual.days
  IN [asOf |-> Latest.t, next |-> NextIncome, daysRemaining |-> days,
      free |-> Max({0, IF typical > 0 THEN Min({available, typical}) ELSE available})]

----------------------------------------------------------------------------
(* recurring and forecast: the groups of what only leaves, by their norm;  *)
(* one that recurs is expected on its day of every month within the        *)
(* horizon, and the rest at the rate of the last days.                     *)
OfNorm(n) == {r \in history : r.in = 0 /\ r.norm = n}
Regular ==
  {g \in {OfNorm(n) : n \in {r.norm : r \in history} \ {Blank}} :
     Cardinality(MonthsOf(g)) >= 2 /\ Median2(Outs(g)) > 0}
Events ==
  LET asOf == Latest.t IN
  {e \in ((asOf + 1)..(asOf + Horizon)) \X Regular : DayOf(e[1]) = UsualDay(e[2])}
Burn ==
  LET asOf    == Latest.t
      regular == Regular
      begin   == Max({asOf - (Span - 1), Min({r.t : r \in history})})
  IN [total |-> MapThenSumSet(OutOf, {r \in Going : /\ r.t \in begin..asOf
                                                    /\ OfNorm(r.norm) \notin regular}),
      days  |-> asOf - begin + 1]
ForecastOut2(upTo) ==
  MapThenSumSet(LAMBDA e : Median2(Outs(e[2])), {e \in Events : e[1] < upTo})

----------------------------------------------------------------------------
(* subscriptionAgent, anomalyAgent: the newest charge against the ones     *)
(* before it. A percentage is rounded half up, as Math.round does.         *)
Percent(new, base2) == (400 * new - 200 * base2 + base2) \div (2 * base2)
Newest(p, list) ==
  CHOOSE r \in Of(p, list) : \A o \in Of(p, list) : o.t < r.t \/ (o.t = r.t /\ o.id <= r.id)
Prior(p, list)     == Of(p, list) \ {Newest(p, list)}
Baseline2(p, list) == Median2(Outs(Prior(p, list)))
InThreeMonths(list) == {p \in Payees(list) : Cardinality(MonthsOf(Of(p, list))) >= 3}

NotSubscriptions == {"home", "cash", "fees", "credit", "savings", "income"}
Candidates == {r \in Going : r.out <= 600 /\ r.cat \notin NotSubscriptions /\ ~r.duty}
Spread(list) == Max({r.out : r \in list}) - Min({r.out : r \in list})

(* Bug: the newest charge counts in what it is compared with.              *)
BugIncrease(p) ==
  Max({0, Percent(Newest(p, Candidates).out, Median2(Outs(Of(p, Candidates))))})
Increase(p) == Max({0, Percent(Newest(p, Candidates).out, Baseline2(p, Candidates))})

Subscriptions ==
  {p \in InThreeMonths(Candidates) :
     200 * Spread(Prior(p, Candidates)) <= 12 * Baseline2(p, Candidates)}
Anomalies ==
  {p \in InThreeMonths(Going) :
     /\ Cardinality(Prior(p, Going)) >= 2
     /\ Percent(Newest(p, Going).out, Baseline2(p, Going)) >= 30
     /\ 100 * Newest(p, Going).out > 115 * Max({r.out : r \in Prior(p, Going)})}

(* duplicateAgent: two charges that follow each other, within five days    *)
(* and half a percent, or one of the currency.                             *)
Gap(a, b) == Max({a - b, b - a})
Earlier(a, b) == a.t < b.t \/ (a.t = b.t /\ a.id < b.id)
Alike(a, b) ==
  /\ b.t - a.t \in 1..5 /\ 1000 * Gap(a.out, b.out) <= Max({1000, 5 * a.out})

(* Bug: every two charges are compared.                                    *)
BugDuplicates ==
  {d \in Going \X Going : /\ d[1].payee = d[2].payee /\ d[1].payee # Blank
                          /\ Earlier(d[1], d[2]) /\ Alike(d[1], d[2])}
Duplicates ==
  {d \in Going \X Going :
     /\ d[1].payee = d[2].payee /\ d[1].payee # Blank
     /\ Earlier(d[1], d[2]) /\ Alike(d[1], d[2])
     /\ \A o \in Of(d[1].payee, Going) : ~(Earlier(d[1], o) /\ Earlier(o, d[2]))}

(* Bug: a fee is offered as a subscription as well.                        *)
BugReviewed == Subscriptions

(* savingsOpportunityAgent. An opportunity is known by its payee and, if   *)
(* it is a repeated charge, by the two days; `charge` is what is claimed.  *)
Fees     == {p \in Payees(Going) : {r \in Of(p, Going) : r.fee} # {}}
FeeReviews == Recurring({r \in Going : r.fee})
Reviewed == Subscriptions \ Fees
Annual(p, type) == [payee |-> p, type |-> type, days |-> <<>>, charge |-> {}]
Repeated(d) ==
  [payee |-> d[1].payee, type |-> "duplicate-review", days |-> <<d[1].t, d[2].t>>,
   charge |-> {d[2]}]
Savings ==
  LET dearer(p) == Increase(p) >= 5
      rise2(p)  == 2 * Newest(p, Going).out - Baseline2(p, Going)
  IN {Annual(p, "fee-review") : p \in FeeReviews}
     \cup {Annual(p, "price-increase") : p \in {q \in Reviewed : dearer(q) /\ rise2(q) > 0}}
     \cup {Annual(p, "subscription-review") : p \in {q \in Reviewed : ~dearer(q)}}
     \cup {Repeated(d) : d \in Duplicates}

----------------------------------------------------------------------------
(* budgetAgent.                                                            *)
Recent == LET all == MonthsOf(history) IN {m \in all : Cardinality({o \in all : o > m}) < 3}
Spent(c, m) == MapThenSumSet(OutOf, {r \in history : r.cat = c /\ MonthOf(r.t) = m})
Budgeted == {c \in {r.cat : r \in Going} : \E m \in Recent : Spent(c, m) > 0}
Suggested(c) ==
  LET spent == [m \in Recent |-> Spent(c, m)]
      p == Nth(spent, Rank75(Cardinality(Recent)))
  IN Max({Step, ((p + Step - 1) \div Step) * Step})

----------------------------------------------------------------------------
Record(r) ==
  /\ r.id \notin {o.id : o \in history} /\ Cardinality(history) < MaxHistory
  /\ history' = history \cup {r}
Forget(r) == r \in history /\ history' = history \ {r}

AdviceNext == \E r \in Movements : Record(r) \/ Forget(r)
AdviceSpec == AdviceInit /\ [][AdviceNext]_history

(* Properties.                                                             *)

HasPayday == Known # {} /\ Recurring(Coming) # {}

(* The next income is the first day after the balance that is its day of   *)
(* the month, or the last of a month that is too short for it, so there is *)
(* always a day to spread the money over (paydayAgent).                    *)
PaydayIsNext ==
  HasPayday =>
    LET day  == ExpectedDay(Income, Coming)
        asOf == Payday.asOf
    IN /\ Payday.daysRemaining >= 1
       /\ Payday.next = Min({t \in (asOf + 1)..Before(Len(Lengths)) :
                               \E m \in DOMAIN Lengths : t = DateAt(m, day)})

(* The agents and the forecast read the same payees in the charges: the    *)
(* two take letter case, digits, brands and length each in its own way.    *)
(* And no transaction has two sides, or none.                              *)
SameReading ==
  /\ \A r \in history : r.in = 0 <=> r.out > 0
  /\ \A r, o \in Going : /\ r.payee = Blank <=> r.norm = Blank
                         /\ r.payee = o.payee <=> r.norm = o.norm

(* What paydayAgent calls committed is what the forecast takes off the     *)
(* balance before the next income, and both measure the same days for the  *)
(* rest: two computations in two files, of the charges they group alike.   *)
(* Where a month is too short for the day of a charge they differ, and     *)
(* beyond the horizon.                                                     *)
TwoForecastsAgree ==
  HasPayday /\ SameReading =>
    LET next == NextIncome IN
    /\ \/ \E p \in Recurring(Going), m \in MonthOf(Latest.t)..MonthOf(next) :
            ExpectedDay(p, Going) > Lengths[m]
       \/ next > Latest.t + Horizon
       \/ Committed2 = ForecastOut2(next)
    /\ Discretionary = Burn

(* What became dearer for one agent did so for the other: a subscription   *)
(* that is a third dearer than it ever was is reported as unusual, and an  *)
(* unusual subscription as dearer.                                         *)
RisesAgree ==
  \A p \in Subscriptions : Of(p, Going) = Of(p, Candidates) =>
    (p \in Anomalies <=>
       /\ Increase(p) >= 30
       /\ 100 * Newest(p, Going).out > 115 * Max({r.out : r \in Prior(p, Going)}))

(* A household is asked one thing of a payee at most for its year - a fee, *)
(* a rise, or the subscription - and one of two days a charge was repeated *)
(* on: no two opportunities have the same id (savingsOpportunityAgent).    *)
OneReview ==
  \A s, o \in Savings : s.payee = o.payee /\ s.days = o.days => s = o

(* Of charges that look like one another, all but one might be claimed     *)
(* back, and none twice (duplicateAgent).                                  *)
DuplicatesLeaveOne ==
  \A p \in Payees(Going) :
    LET found == {d \in Duplicates : d[1].payee = p}
    IN found # {} =>
         Min({r.out : r \in Of(p, Going)}) + MapThenSumSet(LAMBDA d : d[2].out, found)
           <= MapThenSumSet(OutOf, Of(p, Going))

(* A suggested budget would have been enough in three of four recent       *)
(* months (budgetAgent, percentile75).                                     *)
BudgetIsEnough ==
  \A c \in Budgeted :
    4 * Cardinality({m \in Recent : Spent(c, m) <= Suggested(c)}) >= 3 * Cardinality(Recent)

=============================================================================
