--------------------------- MODULE FiguresProofs ----------------------------
(***************************************************************************)
(* Theorems about what is computed from the transactions: the figures      *)
(* (Money), for any lines, charges, window and months, and the advice      *)
(* (Advice), for any calendar, horizon and histories. What they need of    *)
(* the rows is that they are finitely many and no two have one id; the     *)
(* rest is about sums, medians and dates.                                  *)
(***************************************************************************)
EXTENDS MCFigures, FoldProofs

AreRows(list) == IsFiniteSet(list) /\ \A t \in list : IsRow(t)

(* The transactions are rows, no two of one id.                            *)
MoneyInv == AreRows(tx) /\ \A t, u \in tx : t.id = u.id => t = u

----------------------------------------------------------------------------
(* Sums of the amounts of rows.                                            *)
OutsOf(list) == [t \in list |-> t.out]
InsOf(list)  == [t \in list |-> t.in]

LEMMA OutIsSum == ASSUME NEW list PROVE Out(list) = SumOf(OutsOf(list))
<1> DEFINE
  rows(i) == [T \in SUBSET list |-> IF T = {} THEN 0 ELSE Chosen(T).out + i[T \ {Chosen(T)}]]
  sums(i) == [T \in SUBSET list |->
                IF T = {} THEN 0 ELSE OutsOf(list)[Chosen(T)] + i[T \ {Chosen(T)}]]
  ofRows == CHOOSE i : i = rows(i)
  ofSums == CHOOSE i : i = sums(i)
<1>1. Out(list) = ofRows[list] BY Zenon DEF Out, MapThenSumSet, MapThenFoldSet, Chosen
<1>2. DOMAIN OutsOf(list) = list BY DEF OutsOf
<1>3. SumOf(OutsOf(list)) = ofSums[list] BY Zenon, <1>2 DEF SumOf, Chosen
<1>4. \A i : rows(i) = sums(i) BY AnyIn DEF OutsOf
<1>5. ofRows = ofSums
  <2> HIDE DEF rows, sums
  <2> QED BY Zenon, <1>4
<1> QED BY <1>1, <1>3, <1>5

LEMMA InIsSum == ASSUME NEW list PROVE In(list) = SumOf(InsOf(list))
<1> DEFINE
  rows(i) == [T \in SUBSET list |-> IF T = {} THEN 0 ELSE Chosen(T).in + i[T \ {Chosen(T)}]]
  sums(i) == [T \in SUBSET list |->
                IF T = {} THEN 0 ELSE InsOf(list)[Chosen(T)] + i[T \ {Chosen(T)}]]
  ofRows == CHOOSE i : i = rows(i)
  ofSums == CHOOSE i : i = sums(i)
<1>1. In(list) = ofRows[list] BY Zenon DEF In, MapThenSumSet, MapThenFoldSet, Chosen
<1>2. DOMAIN InsOf(list) = list BY DEF InsOf
<1>3. SumOf(InsOf(list)) = ofSums[list] BY Zenon, <1>2 DEF SumOf, Chosen
<1>4. \A i : rows(i) = sums(i) BY AnyIn DEF InsOf
<1>5. ofRows = ofSums
  <2> HIDE DEF rows, sums
  <2> QED BY Zenon, <1>4
<1> QED BY <1>1, <1>3, <1>5

LEMMA OutTable ==
  ASSUME NEW list, IsFiniteSet(list), \A t \in list : t.out \in Int
  PROVE  /\ OutsOf(list) \in [list -> Int]
         /\ \E g \in [SUBSET list -> Int] :
              Sums(list, OutsOf(list), g) /\ \A T \in SUBSET list : Out(T) = g[T]
<1>1. OutsOf(list) \in [list -> Int] BY DEF OutsOf
<1>2. PICK g \in [SUBSET list -> Int] : Sums(list, OutsOf(list), g)
  BY <1>1, SumsExist
<1>3. ASSUME NEW T \in SUBSET list PROVE Out(T) = g[T]
  <2>1. OutsOf(T) = [x \in T |-> OutsOf(list)[x]] BY DEF OutsOf
  <2>2. SumOf([x \in T |-> OutsOf(list)[x]]) = g[T] BY <1>1, <1>2, SumOfPart
  <2> QED BY <2>1, <2>2, OutIsSum
<1> QED BY <1>1, <1>2, <1>3

LEMMA InTable ==
  ASSUME NEW list, IsFiniteSet(list), \A t \in list : t.in \in Int
  PROVE  /\ InsOf(list) \in [list -> Int]
         /\ \E g \in [SUBSET list -> Int] :
              Sums(list, InsOf(list), g) /\ \A T \in SUBSET list : In(T) = g[T]
<1>1. InsOf(list) \in [list -> Int] BY DEF InsOf
<1>2. PICK g \in [SUBSET list -> Int] : Sums(list, InsOf(list), g)
  BY <1>1, SumsExist
<1>3. ASSUME NEW T \in SUBSET list PROVE In(T) = g[T]
  <2>1. InsOf(T) = [x \in T |-> InsOf(list)[x]] BY DEF InsOf
  <2>2. SumOf([x \in T |-> InsOf(list)[x]]) = g[T] BY <1>1, <1>2, SumOfPart
  <2> QED BY <2>1, <2>2, InIsSum
<1> QED BY <1>1, <1>2, <1>3

(* Two groups of rows that share none add up.                              *)
AddUp(list) ==
  /\ \A T \in SUBSET list : Out(T) \in Int /\ In(T) \in Int
  /\ \A T, U \in SUBSET list : T \cap U = {} =>
       Out(T \cup U) = Out(T) + Out(U) /\ In(T \cup U) = In(T) + In(U)

LEMMA FiguresAdd == ASSUME NEW list, AreRows(list) PROVE AddUp(list)
<1>1. PICK g \in [SUBSET list -> Int] :
        Sums(list, OutsOf(list), g) /\ \A V \in SUBSET list : Out(V) = g[V]
  BY OutTable DEF AreRows, IsRow
<1>2. PICK k \in [SUBSET list -> Int] :
        Sums(list, InsOf(list), k) /\ \A V \in SUBSET list : In(V) = k[V]
  BY InTable DEF AreRows, IsRow
<1>a. OutsOf(list) \in [list -> Int] /\ InsOf(list) \in [list -> Int]
  BY OutTable, InTable DEF AreRows, IsRow
<1>b. IsFiniteSet(list) BY DEF AreRows
<1>c. Sums(list, OutsOf(list), g) /\ Sums(list, InsOf(list), k) BY <1>1, <1>2
<1>d. Additive(list, g) /\ Additive(list, k) BY <1>a, <1>b, <1>c, SumsAdd
<1>3. ASSUME NEW T \in SUBSET list, NEW U \in SUBSET list, T \cap U = {}
      PROVE  Out(T \cup U) = Out(T) + Out(U) /\ In(T \cup U) = In(T) + In(U)
  <2>1. g[T \cup U] = g[T] + g[U] BY <1>d, <1>3 DEF Additive
  <2>2. k[T \cup U] = k[T] + k[U] BY <1>d, <1>3 DEF Additive
  <2>3. T \cup U \in SUBSET list OBVIOUS
  <2> QED BY <1>1, <1>2, <2>1, <2>2, <2>3
<1>4. \A T \in SUBSET list : Out(T) \in Int /\ In(T) \in Int BY <1>1, <1>2
<1> QED BY <1>3, <1>4 DEF AddUp

(* Rows that are rewritten, each another way, and keep their amounts.      *)
LEMMA FiguresRewritten ==
  ASSUME NEW list, AreRows(list), NEW other, AreRows(other), NEW f \in [list -> other],
         \A t, u \in list : f[t] = f[u] => t = u,
         \A t \in list : f[t].out = t.out /\ f[t].in = t.in,
         NEW T \in SUBSET list
  PROVE  Out(ImageOf(f, T)) = Out(T) /\ In(ImageOf(f, T)) = In(T)
<1>1. PICK g \in [SUBSET list -> Int] :
        Sums(list, OutsOf(list), g) /\ \A V \in SUBSET list : Out(V) = g[V]
  BY OutTable DEF AreRows, IsRow
<1>2. PICK k \in [SUBSET list -> Int] :
        Sums(list, InsOf(list), k) /\ \A V \in SUBSET list : In(V) = k[V]
  BY InTable DEF AreRows, IsRow
<1>3. PICK i \in [SUBSET other -> Int] :
        Sums(other, OutsOf(other), i) /\ \A V \in SUBSET other : Out(V) = i[V]
  BY OutTable DEF AreRows, IsRow
<1>4. PICK j \in [SUBSET other -> Int] :
        Sums(other, InsOf(other), j) /\ \A V \in SUBSET other : In(V) = j[V]
  BY InTable DEF AreRows, IsRow
<1>5. Renames(f, list, OutsOf(list), other, OutsOf(other)) BY DEF Renames, OutsOf
<1>6. Renames(f, list, InsOf(list), other, InsOf(other)) BY DEF Renames, InsOf
<1>7. g[T] = i[ImageOf(f, T)] BY <1>1, <1>3, <1>5, SumRenamed DEF AreRows
<1>8. k[T] = j[ImageOf(f, T)] BY <1>2, <1>4, <1>6, SumRenamed DEF AreRows
<1>9. ImageOf(f, T) \in SUBSET other BY DEF ImageOf
<1> QED BY <1>1, <1>2, <1>3, <1>4, <1>7, <1>8, <1>9

----------------------------------------------------------------------------
(* A line that opens: the report it paid for is among the charges, which   *)
(* the window of its kind spans.                                           *)
LEMMA BillsAreTransfers == ASSUME MoneyInv PROVE BillIsNotSpending
<1>1. ASSUME NEW b \in Bills PROVE Kind(b[1]) = "neutral"
  <2> DEFINE t == b[1]
             paid == Days(Report(b[2]))
             all == Days(OnCard(tx))
  <2>1. /\ t \in tx /\ t.source # "card" /\ t.cat = "credit" /\ t.out > 0
        /\ b[2] \in Reports /\ t.day - Max(paid) \in 0..Window
    BY <1>1 DEF Bills, Claims, Settlements
  <2>2. paid # {} /\ paid \subseteq all /\ OnCard(tx) # {}
    BY <2>1 DEF Reports, Report, Days
  <2>3. IsFiniteSet(all) /\ all \subseteq Int
    <3>1. IsFiniteSet(OnCard(tx)) BY FS_Subset DEF MoneyInv, AreRows, OnCard
    <3> DEFINE day == [u \in OnCard(tx) |-> u.day]
    <3>2. ImageOf(day, OnCard(tx)) = all BY DEF Days, ImageOf
    <3>3. IsFiniteSet(all) BY <3>1, <3>2, FiniteImage
    <3> QED BY <3>3 DEF MoneyInv, AreRows, IsRow, OnCard, Days
  <2>4. IsFiniteSet(paid) /\ paid \subseteq Int BY <2>2, <2>3, FS_Subset
  <2> HIDE DEF paid, all
  <2>5. Max(paid) \in paid BY <2>2, <2>4, GreatestIs
  <2>6. Min(all) <= Max(paid) /\ Max(paid) <= Max(all)
    <3>1. all # {} /\ Max(paid) \in all BY <2>2, <2>5
    <3>2. Min(all) <= Max(paid) BY <2>3, <3>1, LeastIs
    <3>3. Max(all) >= Max(paid) /\ Max(all) \in Int BY <2>3, <3>1, GreatestIs
    <3>4. Max(paid) \in Int BY <2>3, <3>1
    <3> QED BY <3>2, <3>3, <3>4
  <2>7. Min(all) \in Int /\ Max(all) \in Int /\ Max(paid) \in Int
    <3>1. all # {} BY <2>2, <2>4
    <3> QED BY <2>3, <2>4, <2>5, <3>1, LeastIs, GreatestIs
  <2>8. t.day \in Int BY <2>1 DEF MoneyInv, AreRows, IsRow
  <2>9. t.day \in Min(all)..(Max(all) + Window)
    BY <2>1, <2>6, <2>7, <2>8, MoneyAssumption
  <2> QED BY <2>1, <2>2, <2>9 DEF Kind, all
<1>2. ASSUME NEW b \in Bills PROVE Billed(Report(b[2])) = b[1].out
  BY <1>2 DEF Bills, Claims
<1>3. ASSUME NEW b \in Bills, NEW other \in Bills \ {b}
      PROVE  Report(b[2]) \cap Report(other[2]) = {}
  <2>1. SUFFICES ASSUME NEW t \in Report(b[2]), t \in Report(other[2]) PROVE FALSE
    OBVIOUS
  <2>2. b[2] = other[2] BY <2>1 DEF Report
  <2> QED BY <2>2, <1>3 DEF Bills
<1> QED BY <1>1, <1>2, <1>3 DEF BillIsNotSpending

(* The table of a month.                                                   *)
LEMMA FoldedLines ==
  ASSUME NEW list, NEW v \in ViewRows(list)
  PROVE  \/ \E t \in list : v = Single(t) /\ (OnCard(list) = list \/ t \notin OnCard(list))
         \/ /\ OnCard(list) # list
            /\ \E k \in Cards(list) :
                 v = [kind |-> k, charges |-> {t \in OnCard(list) : t.card = k}]
BY DEF ViewRows, Itemised

LEMMA LinesHaveCharges ==
  ASSUME NEW list, NEW v \in ViewRows(list) PROVE v.charges \subseteq list
BY FoldedLines DEF Single, OnCard

LEMMA EveryRowHasALine ==
  ASSUME NEW list, NEW t \in list PROVE \E v \in ViewRows(list) : t \in v.charges
<1>1. CASE OnCard(list) = list \/ t \notin OnCard(list)
  <2>1. Single(t) \in ViewRows(list) BY <1>1 DEF ViewRows, Itemised
  <2>2. t \in Single(t).charges BY DEF Single
  <2> QED BY <2>1, <2>2
<1>2. CASE OnCard(list) # list /\ t \in OnCard(list)
  <2> DEFINE v == [kind |-> t.card, charges |-> {u \in OnCard(list) : u.card = t.card}]
  <2>1. t.card \in Cards(list) BY <1>2 DEF Cards
  <2>2. v \in ViewRows(list) BY <1>2, <2>1 DEF ViewRows
  <2>3. t \in v.charges BY <1>2
  <2> HIDE DEF v
  <2> QED BY <2>2, <2>3
<1> QED BY <1>1, <1>2

LEMMA TablesAreStatements == TableIsStatements
<1> SUFFICES ASSUME NEW list
             PROVE  /\ UNION {v.charges : v \in ViewRows(list)} = list
                    /\ \A v, w \in ViewRows(list) : v # w => v.charges \cap w.charges = {}
                    /\ \A v \in ViewRows(list) : v.kind # "transaction" =>
                         Group(v.charges) = Statements(list)[v.kind]
  BY DEF TableIsStatements
<1>1. UNION {v.charges : v \in ViewRows(list)} = list
  BY LinesHaveCharges, EveryRowHasALine
<1>2. ASSUME NEW v \in ViewRows(list), NEW w \in ViewRows(list), v # w
      PROVE  v.charges \cap w.charges = {}
  <2> DEFINE Folded(k) == [kind |-> k, charges |-> {t \in OnCard(list) : t.card = k}]
  <2>1. SUFFICES ASSUME NEW t \in v.charges, t \in w.charges PROVE v = w BY <1>2
  <2>2. \A u : Single(u).charges = {u} BY DEF Single
  <2>3. \A k : Folded(k).charges = {u \in OnCard(list) : u.card = k} OBVIOUS
  <2>4. \/ v = Single(t) /\ (OnCard(list) = list \/ t \notin OnCard(list))
        \/ OnCard(list) # list /\ t \in OnCard(list) /\ v = Folded(t.card)
    <3> HIDE DEF Folded
    <3>1. \/ \E u \in list : v = Single(u) /\ (OnCard(list) = list \/ u \notin OnCard(list))
          \/ OnCard(list) # list /\ \E k \in Cards(list) : v = Folded(k)
      BY FoldedLines DEF Folded
    <3> QED BY <2>1, <2>2, <2>3, <3>1
  <2>5. \/ w = Single(t) /\ (OnCard(list) = list \/ t \notin OnCard(list))
        \/ OnCard(list) # list /\ t \in OnCard(list) /\ w = Folded(t.card)
    <3> HIDE DEF Folded
    <3>1. \/ \E u \in list : w = Single(u) /\ (OnCard(list) = list \/ u \notin OnCard(list))
          \/ OnCard(list) # list /\ \E k \in Cards(list) : w = Folded(k)
      BY FoldedLines DEF Folded
    <3> QED BY <2>1, <2>2, <2>3, <3>1
  <2> HIDE DEF Folded
  <2> QED BY <2>4, <2>5
<1>3. ASSUME NEW v \in ViewRows(list), v.kind # "transaction"
      PROVE  Group(v.charges) = Statements(list)[v.kind]
  <2>1. \A u : Single(u).kind = "transaction" BY DEF Single
  <2>2. PICK k \in Cards(list) : v = [kind |-> k, charges |-> {t \in OnCard(list) : t.card = k}]
    BY <1>3, <2>1, FoldedLines
  <2>3. v.kind = k /\ v.charges = {t \in OnCard(list) : t.card = k} BY <2>2
  <2>4. Statements(list)[k] = Group({t \in OnCard(list) : t.card = k}) BY DEF Statements
  <2> QED BY <2>3, <2>4
<1> QED BY <1>1, <1>2, <1>3

----------------------------------------------------------------------------
(* The plan and the dashboard.                                             *)
LEMMA PartOfRows ==
  ASSUME NEW list, AreRows(list), NEW T \in SUBSET list PROVE AreRows(T)
BY FS_Subset DEF AreRows

LEMMA MonthIsRows == ASSUME MoneyInv, NEW m PROVE AreRows(OfMonth(m))
<1>1. OfMonth(m) \in SUBSET tx BY DEF OfMonth
<1> QED BY <1>1, PartOfRows DEF MoneyInv

LEMMA KindOfRow ==
  ASSUME NEW t, IsRow(t) PROVE Kind(t) \in {"expense", "income", "neutral"}
BY DEF Kind, IsRow, KindOf, Cats

LEMMA FourCategories == Cats = {"food", "credit", "savings", "income"}
BY DEF Cats, KindOf

LEMMA CategoriesAdded ==
  ASSUME NEW h \in [Cats -> Int]
  PROVE  MapThenSumSet(LAMBDA c : h[c], Cats)
           = h["food"] + h["credit"] + h["savings"] + h["income"]
<1>1. MapThenSumSet(LAMBDA c : h[c], Cats) = SumOf(h)
  <2>1. DOMAIN h = Cats OBVIOUS
  <2> QED BY Zenon, <2>1 DEF MapThenSumSet, MapThenFoldSet, SumOf
<1>2. IsFiniteSet(Cats)
  <2>1. IsFiniteSet({}) BY FS_EmptySet
  <2>2. IsFiniteSet({} \cup {"food"}) BY <2>1, FS_AddElement
  <2>3. IsFiniteSet(({} \cup {"food"}) \cup {"credit"}) BY <2>2, FS_AddElement
  <2>4. IsFiniteSet((({} \cup {"food"}) \cup {"credit"}) \cup {"savings"})
    BY <2>3, FS_AddElement
  <2>5. IsFiniteSet(((({} \cup {"food"}) \cup {"credit"}) \cup {"savings"}) \cup {"income"})
    BY <2>4, FS_AddElement
  <2>6. Cats = ((({} \cup {"food"}) \cup {"credit"}) \cup {"savings"}) \cup {"income"}
    BY FourCategories
  <2> QED BY <2>5, <2>6
<1>3. PICK g \in [SUBSET Cats -> Int] : Sums(Cats, h, g) /\ SumOf(h) = g[Cats]
  BY <1>2, SumsExist
<1>4. AnyOrder(Cats, h, g) /\ g[{}] = 0 BY <1>3 DEF Sums
<1>5. \A T \in SUBSET Cats : \A x \in T : g[T] = h[x] + g[T \ {x}] BY <1>4 DEF AnyOrder
<1>6. g[{"food", "credit", "savings", "income"}] = h["food"] + g[{"credit", "savings", "income"}]
  <2> DEFINE T == {"food", "credit", "savings", "income"}
  <2>1. T \in SUBSET Cats /\ "food" \in T BY FourCategories
  <2>2. T \ {"food"} = {"credit", "savings", "income"} OBVIOUS
  <2> HIDE DEF T
  <2>3. g[T] = h["food"] + g[T \ {"food"}] BY <1>5, <2>1
  <2> QED BY <2>2, <2>3 DEF T
<1>7. g[{"credit", "savings", "income"}] = h["credit"] + g[{"savings", "income"}]
  <2> DEFINE T == {"credit", "savings", "income"}
  <2>1. T \in SUBSET Cats /\ "credit" \in T BY FourCategories
  <2>2. T \ {"credit"} = {"savings", "income"} OBVIOUS
  <2> HIDE DEF T
  <2>3. g[T] = h["credit"] + g[T \ {"credit"}] BY <1>5, <2>1
  <2> QED BY <2>2, <2>3 DEF T
<1>8. g[{"savings", "income"}] = h["savings"] + g[{"income"}]
  <2> DEFINE T == {"savings", "income"}
  <2>1. T \in SUBSET Cats /\ "savings" \in T BY FourCategories
  <2>2. T \ {"savings"} = {"income"} OBVIOUS
  <2> HIDE DEF T
  <2>3. g[T] = h["savings"] + g[T \ {"savings"}] BY <1>5, <2>1
  <2> QED BY <2>2, <2>3 DEF T
<1>9. g[{"income"}] = h["income"] + g[{}]
  <2> DEFINE T == {"income"}
  <2>1. T \in SUBSET Cats /\ "income" \in T BY FourCategories
  <2>2. T \ {"income"} = {} OBVIOUS
  <2> HIDE DEF T
  <2>3. g[T] = h["income"] + g[T \ {"income"}] BY <1>5, <2>1
  <2> QED BY <2>2, <2>3 DEF T
<1>10. {h["food"], h["credit"], h["savings"], h["income"]} \subseteq Int BY FourCategories
<1> QED BY <1>1, <1>3, <1>4, <1>6, <1>7, <1>8, <1>9, <1>10, FourCategories

LEMMA SpendingByCategory ==
  ASSUME NEW list, AreRows(list)
  PROVE  MapThenSumSet(LAMBDA c : ByCategory(list)[c], Cats) = Out(OfKind("expense", list))
<1> DEFINE spent == OfKind("expense", list)
           Under(c) == {t \in spent : t.cat = c}
           h == ByCategory(list)
<1>a. AddUp(list) BY FiguresAdd
<1>1. spent \in SUBSET list /\ \A c : Under(c) \in SUBSET list BY DEF OfKind
<1>2. \A t \in spent : t.cat \in {"food", "credit", "savings", "income"}
  BY <1>1, FourCategories DEF AreRows, IsRow
<1>3. \A c \in Cats : h[c] = Out(Under(c)) BY DEF ByCategory
<1>4. \A c \in Cats : Out(Under(c)) \in Int
  <2> HIDE DEF Under, spent
  <2> QED BY <1>1, <1>a DEF AddUp
<1>5. h \in [Cats -> Int] BY <1>3, <1>4 DEF ByCategory
<1> DEFINE two == Under("food") \cup Under("credit")
           three == two \cup Under("savings")
<1>6. Out(two) = Out(Under("food")) + Out(Under("credit"))
  <2>1. Under("food") \cap Under("credit") = {} OBVIOUS
  <2> HIDE DEF Under, spent
  <2> QED BY <1>1, <1>a, <2>1 DEF AddUp
<1>7. Out(three) = Out(two) + Out(Under("savings"))
  <2>1. two \cap Under("savings") = {} /\ two \in SUBSET list BY <1>1
  <2> HIDE DEF Under, spent, two
  <2> QED BY <1>1, <1>a, <2>1 DEF AddUp
<1>8. Out(spent) = Out(three) + Out(Under("income"))
  <2>1. three \cap Under("income") = {} /\ three \in SUBSET list BY <1>1
  <2>2. spent = three \cup Under("income") BY <1>2
  <2> HIDE DEF Under, spent, three
  <2> QED BY <1>1, <1>a, <2>1, <2>2 DEF AddUp
<1>9. MapThenSumSet(LAMBDA c : h[c], Cats) = h["food"] + h["credit"] + h["savings"] + h["income"]
  <2> HIDE DEF h
  <2> QED BY <1>5, CategoriesAdded
<1>10. /\ h["food"] = Out(Under("food")) /\ h["credit"] = Out(Under("credit"))
       /\ h["savings"] = Out(Under("savings")) /\ h["income"] = Out(Under("income"))
  <2> HIDE DEF h, Under
  <2> QED BY <1>3, FourCategories
<1> HIDE DEF h, Under, spent
<1> QED BY <1>6, <1>7, <1>8, <1>9, <1>10 DEF h, spent

LEMMA PlansAreTotals == ASSUME MoneyInv PROVE PlanIsTotals
<1> SUFFICES ASSUME NEW m
             PROVE  LET list == OfMonth(m) totals == Totals(list) spent == ByCategory(list) IN
                    /\ Plan(list).surplus + Net("savings", list) = totals.net
                    /\ MapThenSumSet(LAMBDA c : spent[c], Cats)
                         = totals.out - Out(OfKind("income", list))
  BY DEF PlanIsTotals
<1> DEFINE list == OfMonth(m)
           expense == OfKind("expense", list)
           income == OfKind("income", list)
           kept == list \ OfKind("neutral", list)
           fixed == {t \in expense : t.fixed}
           other == {t \in expense : ~t.fixed}
           saved == Section("savings", list)
<1>1. AreRows(list) BY MonthIsRows
<1>a. AddUp(list) BY <1>1, FiguresAdd
<1>2. kept = expense \cup income /\ expense \cap income = {}
  <2>1. \A t \in list : Kind(t) \in {"expense", "income", "neutral"}
    BY <1>1, KindOfRow DEF AreRows
  <2> HIDE DEF list
  <2> QED BY <2>1 DEF OfKind
<1>3. expense = fixed \cup other /\ fixed \cap other = {} OBVIOUS
<1>4. {expense, income, fixed, other, saved, kept} \subseteq SUBSET list
  BY DEF OfKind, Section
<1>5. Net("income", list) = Out(income) - In(income) BY DEF Net, Section
<1>6. Net("fixed", list) = Out(fixed) - In(fixed) BY DEF Net, Section
<1>7. Net("variable", list) = Out(other) - In(other) BY DEF Net, Section
<1>8. Net("savings", list) = Out(saved) - In(saved) BY DEF Net
<1>9. /\ Totals(list).out = Out(kept) /\ Totals(list).net = In(kept) - Out(kept)
  BY DEF Totals
<1>10. Plan(list).surplus =
         -Net("income", list) - (Net("fixed", list) + Net("variable", list) + Net("savings", list))
  BY DEF Plan
<1>11. MapThenSumSet(LAMBDA c : ByCategory(list)[c], Cats) = Out(expense)
  BY <1>1, SpendingByCategory
<1> HIDE DEF list, expense, income, kept, fixed, other, saved
<1>12. /\ Out(kept) = Out(expense) + Out(income) /\ In(kept) = In(expense) + In(income)
       /\ {Out(income), In(income)} \subseteq Int
  BY <1>a, <1>2, <1>4 DEF AddUp
<1>13. /\ Out(expense) = Out(fixed) + Out(other) /\ In(expense) = In(fixed) + In(other)
       /\ {Out(fixed), In(fixed), Out(other), In(other)} \subseteq Int
  BY <1>a, <1>3, <1>4 DEF AddUp
<1>14. {Out(saved), In(saved)} \subseteq Int BY <1>a, <1>4 DEF AddUp
<1>15. Plan(list).surplus + Net("savings", list) = Totals(list).net
  BY <1>5, <1>6, <1>7, <1>8, <1>9, <1>10, <1>12, <1>13, <1>14
<1>16. Out(expense) = Totals(list).out - Out(income)
  BY <1>9, <1>12, <1>13
<1> QED BY <1>11, <1>15, <1>16 DEF list, income

----------------------------------------------------------------------------
(* A reload gives each row a row of its money, whatever is read again; one *)
(* that keeps its category keeps its kind.                                 *)
Loaded(altered) == [t \in tx |-> IF t \in altered THEN Reread(t) ELSE Sanitized(t)]
Loads(altered)  == tx' = ImageOf(Loaded(altered), tx)

Keeps(t, u) ==
  /\ u.id = t.id /\ u.day = t.day /\ u.out = t.out /\ u.in = t.in /\ u.source = t.source
  /\ u.card = t.card /\ (t.filed => u.cat = t.cat)

(* Every row is read as it was before.                                     *)
AsBefore(altered) ==
  \A t \in tx : Loaded(altered)[t].cat = t.cat /\ Loaded(altered)[t].fixed = t.fixed

LEMMA ReloadLoads == ASSUME Reload PROVE \E altered : Loads(altered)
<1>1. PICK altered \in SUBSET tx :
        tx' = {IF t \in altered THEN Reread(t) ELSE Sanitized(t) : t \in tx}
  BY Zenon DEF Reload
<1>2. ImageOf(Loaded(altered), tx) = {Loaded(altered)[t] : t \in tx} BY DEF ImageOf
<1>3. \A t \in tx : Loaded(altered)[t] = IF t \in altered THEN Reread(t) ELSE Sanitized(t)
  BY DEF Loaded
<1>4. Loads(altered) BY <1>1, <1>2, <1>3 DEF Loads
<1> QED BY <1>4

LEMMA SanitizedKeeps ==
  ASSUME NEW t, IsRow(t)
  PROVE  /\ Keeps(t, Sanitized(t)) /\ IsRow(Sanitized(t))
         /\ Sanitized(t).cat = t.cat /\ Sanitized(t).fixed = t.fixed
         /\ Sanitized(t).filed = t.filed /\ Sanitized(t).again = t.again
<1>1. t = Row(t.id, t.day, t.out, t.in, t.source, t.src, t.card, t.cat, t.fixed, t.filed,
              t.again)
  BY DEF IsRow
<1>2. Sanitized(t) = Row(t.id, t.day, t.out, t.in, t.source, Sanitized(t).src, t.card, t.cat,
                         t.fixed, t.filed, t.again)
  BY <1>1 DEF Sanitized, Row
<1>3. /\ Keeps(t, Sanitized(t)) /\ Sanitized(t).cat = t.cat /\ Sanitized(t).fixed = t.fixed
      /\ Sanitized(t).filed = t.filed /\ Sanitized(t).again = t.again
  BY <1>2 DEF Row, Keeps
<1>4. IsRow(Sanitized(t)) BY <1>2, <1>3 DEF IsRow, Row
<1> QED BY <1>3, <1>4

(* What becomes of a row when two of its fields change, and no other.      *)
IsWhole(t) ==
  t = Row(t.id, t.day, t.out, t.in, t.source, t.src, t.card, t.cat, t.fixed, t.filed, t.again)
Changed(t, cat, fixed, filed) ==
  Row(t.id, t.day, t.out, t.in, t.source, t.src, t.card, cat, fixed, filed, t.again)

LEMMA CatChanged ==
  ASSUME NEW t, NEW cat, IsWhole(t)
  PROVE  [t EXCEPT !.cat = cat] = Changed(t, cat, t.fixed, t.filed)
BY DEF IsWhole, Changed, Row

LEMMA FixedChanged ==
  ASSUME NEW t, NEW fixed, IsWhole(t)
  PROVE  [t EXCEPT !.fixed = fixed] = Changed(t, t.cat, fixed, t.filed)
BY DEF IsWhole, Changed, Row

LEMMA FiledChanged ==
  ASSUME NEW t, NEW filed, IsWhole(t)
  PROVE  [t EXCEPT !.filed = filed] = Changed(t, t.cat, t.fixed, filed)
BY DEF IsWhole, Changed, Row

LEMMA ChangedIsWhole ==
  ASSUME NEW t, NEW cat, NEW fixed, NEW filed, NEW u, u = Changed(t, cat, fixed, filed)
  PROVE  /\ IsWhole(u) /\ u.cat = cat /\ u.fixed = fixed /\ u.filed = filed
         /\ u.id = t.id /\ u.day = t.day /\ u.out = t.out /\ u.in = t.in
         /\ u.source = t.source /\ u.src = t.src /\ u.card = t.card /\ u.again = t.again
BY DEF IsWhole, Changed, Row

LEMMA CatAndFixedChanged ==
  ASSUME NEW t, NEW cat, NEW fixed, IsWhole(t)
  PROVE  [t EXCEPT !.cat = cat, !.fixed = fixed] = Changed(t, cat, fixed, t.filed)
<1> DEFINE u == [t EXCEPT !.cat = cat]
<1>1. u = Changed(t, cat, t.fixed, t.filed) BY CatChanged
<1>2. [t EXCEPT !.cat = cat, !.fixed = fixed] = [u EXCEPT !.fixed = fixed] OBVIOUS
<1> HIDE DEF u
<1>3. IsWhole(u) BY <1>1, ChangedIsWhole
<1>4. [u EXCEPT !.fixed = fixed] = Changed(u, u.cat, fixed, u.filed) BY <1>3, FixedChanged
<1>5. Changed(u, u.cat, fixed, u.filed) = Changed(t, cat, fixed, t.filed)
  BY <1>1, ChangedIsWhole DEF Changed
<1> QED BY <1>2, <1>4, <1>5

LEMMA CatAndFiledChanged ==
  ASSUME NEW t, NEW cat, NEW filed, IsWhole(t)
  PROVE  [t EXCEPT !.cat = cat, !.filed = filed] = Changed(t, cat, t.fixed, filed)
<1> DEFINE u == [t EXCEPT !.cat = cat]
<1>1. u = Changed(t, cat, t.fixed, t.filed) BY CatChanged
<1>2. [t EXCEPT !.cat = cat, !.filed = filed] = [u EXCEPT !.filed = filed] OBVIOUS
<1> HIDE DEF u
<1>3. IsWhole(u) BY <1>1, ChangedIsWhole
<1>4. [u EXCEPT !.filed = filed] = Changed(u, u.cat, u.fixed, filed) BY <1>3, FiledChanged
<1>5. Changed(u, u.cat, u.fixed, filed) = Changed(t, cat, t.fixed, filed)
  BY <1>1, ChangedIsWhole DEF Changed
<1> QED BY <1>2, <1>4, <1>5

LEMMA RereadKeeps ==
  ASSUME NEW t, IsRow(t) PROVE Keeps(t, Reread(t)) /\ IsRow(Reread(t))
<1> DEFINE cat == IF t.filed THEN t.cat ELSE t.again.cat
           kept == Sanitized(t)
           read == Reread(t)
<1>1. Keeps(t, kept) /\ IsRow(kept) /\ kept.again = t.again /\ kept.filed = t.filed
  BY SanitizedKeeps
<1>2. IsWhole(kept) BY <1>1 DEF IsRow, IsWhole
<1>3. cat \in Cats BY DEF IsRow
<1>4. read = [kept EXCEPT !.cat = cat, !.fixed = t.again.fixed] BY DEF Reread
<1>5. t.filed => cat = t.cat OBVIOUS
<1> HIDE DEF cat, kept, read
<1>6. read = Changed(kept, cat, t.again.fixed, kept.filed) BY <1>2, <1>4, CatAndFixedChanged
<1>7. /\ IsWhole(read) /\ read.cat = cat /\ read.again = kept.again
      /\ read.id = kept.id /\ read.day = kept.day /\ read.out = kept.out
      /\ read.in = kept.in /\ read.source = kept.source /\ read.card = kept.card
  BY <1>6, ChangedIsWhole
<1>8. IsRow(read) BY <1>1, <1>3, <1>7 DEF IsRow, IsWhole
<1>9. Keeps(t, read) BY <1>1, <1>5, <1>7 DEF Keeps
<1> QED BY <1>8, <1>9 DEF read

LEMMA LoadedKeeps ==
  ASSUME MoneyInv, NEW altered, Loads(altered)
  PROVE  /\ Loaded(altered) \in [tx -> tx'] /\ AreRows(tx')
         /\ \A t \in tx : Keeps(t, Loaded(altered)[t])
         /\ \A t, u \in tx : Loaded(altered)[t] = Loaded(altered)[u] => t = u
<1> DEFINE read == Loaded(altered)
<1>1. tx' = ImageOf(read, tx) BY DEF Loads
<1>2. \A t \in tx : Keeps(t, read[t]) /\ IsRow(read[t])
  BY SanitizedKeeps, RereadKeeps DEF MoneyInv, AreRows, Loaded
<1>3. read = [t \in tx |-> read[t]] BY DEF Loaded
<1> HIDE DEF read
<1>4. read \in [tx -> tx'] BY <1>1, <1>3 DEF ImageOf
<1>5. ASSUME NEW t \in tx, NEW u \in tx, read[t] = read[u] PROVE t = u
  <2>1. t.id = u.id BY <1>2, <1>5 DEF Keeps
  <2> QED BY <2>1 DEF MoneyInv
<1>6. IsFiniteSet(ImageOf(read, tx)) BY FiniteImage DEF MoneyInv, AreRows
<1>7. AreRows(tx') BY <1>1, <1>2, <1>6 DEF AreRows, ImageOf
<1> QED BY <1>2, <1>4, <1>5, <1>7 DEF read

LEMMA LoadedSums ==
  ASSUME MoneyInv, NEW altered, Loads(altered), NEW T \in SUBSET tx
  PROVE  Out(ImageOf(Loaded(altered), T)) = Out(T) /\ In(ImageOf(Loaded(altered), T)) = In(T)
<1> DEFINE read == Loaded(altered)
<1>1. AreRows(tx) BY DEF MoneyInv
<1>2. \A t \in tx : read[t].out = t.out /\ read[t].in = t.in BY LoadedKeeps DEF Keeps
<1>3. read \in [tx -> tx'] /\ AreRows(tx') /\ \A t, u \in tx : read[t] = read[u] => t = u
  BY LoadedKeeps
<1> HIDE DEF read
<1>4. Out(ImageOf(read, T)) = Out(T) /\ In(ImageOf(read, T)) = In(T)
  BY <1>1, <1>2, <1>3, FiguresRewritten
<1> QED BY <1>4 DEF read

LEMMA LoadedKind ==
  ASSUME MoneyInv, NEW altered, Loads(altered), NEW t \in tx, NEW u,
         u = Loaded(altered)[t], u.cat = t.cat
  PROVE  Kind(u)' = Kind(t)
<1> DEFINE read == Loaded(altered)
<1>1. Keeps(t, u) BY LoadedKeeps
<1>2. tx' = ImageOf(read, tx) /\ \A v \in tx : Keeps(v, read[v]) BY LoadedKeeps DEF Loads
<1> HIDE DEF read
<1>3. OnCard(tx)' = ImageOf(read, OnCard(tx)) BY <1>2 DEF OnCard, ImageOf, Keeps
<1>4. Days(OnCard(tx))' = Days(OnCard(tx)) BY <1>2, <1>3 DEF Days, ImageOf, Keeps, OnCard
<1>5. OnCard(tx)' = {} <=> OnCard(tx) = {} BY <1>3 DEF ImageOf
<1> QED BY <1>1, <1>4, <1>5 DEF Kind, Keeps

LEMMA LoadedMonths ==
  ASSUME MoneyInv, NEW altered, Loads(altered)
  PROVE  /\ Months' = Months /\ Ids' = Ids
         /\ \A m : OfMonth(m)' = ImageOf(Loaded(altered), OfMonth(m))
<1> DEFINE read == Loaded(altered)
<1>1. tx' = ImageOf(read, tx) /\ \A v \in tx : Keeps(v, read[v]) BY LoadedKeeps DEF Loads
<1> HIDE DEF read
<1>2. Months' = Months BY <1>1 DEF Months, ImageOf, Keeps
<1>3. Ids' = Ids BY <1>1 DEF Ids, ImageOf, Keeps
<1>4. \A m : OfMonth(m)' = ImageOf(read, OfMonth(m)) BY <1>1 DEF OfMonth, ImageOf, Keeps
<1> QED BY <1>2, <1>3, <1>4 DEF read

LEMMA LoadedMonthSums ==
  ASSUME MoneyInv, NEW altered, Loads(altered), NEW m
  PROVE  Out(OfMonth(m))' = Out(OfMonth(m)) /\ In(OfMonth(m))' = In(OfMonth(m))
<1>1. OfMonth(m)' = ImageOf(Loaded(altered), OfMonth(m)) BY LoadedMonths
<1>2. OfMonth(m) \in SUBSET tx BY DEF OfMonth
<1>3. /\ Out(OfMonth(m)') = Out(OfMonth(m)) /\ In(OfMonth(m)') = In(OfMonth(m))
  BY <1>1, <1>2, LoadedSums
<1> QED BY <1>3

LEMMA LoadedKinds ==
  ASSUME MoneyInv, NEW altered, Loads(altered), AsBefore(altered), NEW m, NEW kind
  PROVE  OfKind(kind, OfMonth(m))' = ImageOf(Loaded(altered), OfKind(kind, OfMonth(m)))
<1> DEFINE read == Loaded(altered)
<1>1. OfMonth(m)' = ImageOf(read, OfMonth(m)) BY LoadedMonths
<1>2. OfMonth(m) \subseteq tx BY DEF OfMonth
<1>3. OfKind(kind, OfMonth(m))' = {u \in OfMonth(m)' : Kind(u)' = kind} BY DEF OfKind
<1>4. \A t \in tx : \A u : u = read[t] => Kind(u)' = Kind(t) BY LoadedKind DEF AsBefore
<1> HIDE DEF read
<1>5. {u \in ImageOf(read, OfMonth(m)) : Kind(u)' = kind}
        = ImageOf(read, {t \in OfMonth(m) : Kind(t) = kind})
  BY <1>2, <1>4 DEF ImageOf
<1>6. OfKind(kind, OfMonth(m))' = ImageOf(read, OfKind(kind, OfMonth(m)))
  BY <1>1, <1>3, <1>5 DEF OfKind
<1> QED BY <1>6 DEF read

LEMMA LoadedTotals ==
  ASSUME MoneyInv, NEW altered, Loads(altered), AsBefore(altered), NEW m
  PROVE  Totals(OfMonth(m))' = Totals(OfMonth(m))
<1> DEFINE list == OfMonth(m)
           neutral == OfKind("neutral", list)
           read == Loaded(altered)
<1>1. list' = ImageOf(read, list) /\ neutral' = ImageOf(read, neutral)
  BY LoadedMonths, LoadedKinds
<1>2. list \subseteq tx /\ neutral \subseteq list BY DEF OfMonth, OfKind
<1>3. \A t, u \in tx : read[t] = read[u] => t = u BY LoadedKeeps
<1>4. list' \ neutral' = ImageOf(read, list \ neutral)
  <2> HIDE DEF list, neutral, read
  <2> QED BY <1>1, <1>2, <1>3 DEF ImageOf
<1>5. /\ Out(list' \ neutral') = Out(list \ neutral)
      /\ In(list' \ neutral') = In(list \ neutral)
  <2> HIDE DEF list, neutral
  <2> QED BY <1>2, <1>4, LoadedSums
<1> QED BY <1>5 DEF Totals

LEMMA LoadedSections ==
  ASSUME MoneyInv, NEW altered, Loads(altered), AsBefore(altered),
         NEW m, NEW kind \in {"income", "savings", "fixed", "variable"}
  PROVE  Net(kind, OfMonth(m))' = Net(kind, OfMonth(m))
<1> DEFINE list == OfMonth(m)
           rows == Section(kind, list)
           read == Loaded(altered)
<1>1. \A k : OfKind(k, list)' = ImageOf(read, OfKind(k, list)) BY LoadedKinds
<1>2. \A k : OfKind(k, list) \subseteq tx BY DEF OfMonth, OfKind
<1>3. \A t \in tx : read[t].cat = t.cat /\ read[t].fixed = t.fixed BY DEF AsBefore
<1> HIDE DEF read
<1>4. rows' = ImageOf(read, rows)
  <2>1. CASE kind = "income" BY <1>1, <2>1 DEF Section
  <2>2. CASE kind = "savings"
    <3>1. rows' = {t \in OfKind("neutral", list)' : t.cat # "credit"} BY <2>2 DEF Section
    <3>2. rows = {t \in OfKind("neutral", list) : t.cat # "credit"} BY <2>2 DEF Section
    <3> HIDE DEF rows, list
    <3> QED BY <1>1, <1>2, <1>3, <3>1, <3>2 DEF ImageOf
  <2>3. CASE kind = "fixed"
    <3>1. rows' = {t \in OfKind("expense", list)' : t.fixed} BY <2>3 DEF Section
    <3>2. rows = {t \in OfKind("expense", list) : t.fixed} BY <2>3 DEF Section
    <3> HIDE DEF rows, list
    <3> QED BY <1>1, <1>2, <1>3, <3>1, <3>2 DEF ImageOf
  <2>4. CASE kind = "variable"
    <3>1. rows' = {t \in OfKind("expense", list)' : ~t.fixed} BY <2>4 DEF Section
    <3>2. rows = {t \in OfKind("expense", list) : ~t.fixed} BY <2>4 DEF Section
    <3> HIDE DEF rows, list
    <3> QED BY <1>1, <1>2, <1>3, <3>1, <3>2 DEF ImageOf
  <2> QED BY <2>1, <2>2, <2>3, <2>4
<1>5. rows \subseteq tx BY <1>2 DEF Section
<1>6. Out(rows') = Out(rows) /\ In(rows') = In(rows)
  <2> HIDE DEF rows
  <2> QED BY <1>4, <1>5, LoadedSums DEF read
<1> QED BY <1>6 DEF Net

LEMMA LoadedPlan ==
  ASSUME MoneyInv, NEW altered, Loads(altered), AsBefore(altered), NEW m
  PROVE  Plan(OfMonth(m))' = Plan(OfMonth(m))
<1>1. /\ Net("income", OfMonth(m))' = Net("income", OfMonth(m))
      /\ Net("savings", OfMonth(m))' = Net("savings", OfMonth(m))
      /\ Net("fixed", OfMonth(m))' = Net("fixed", OfMonth(m))
      /\ Net("variable", OfMonth(m))' = Net("variable", OfMonth(m))
  BY LoadedSections
<1> QED BY <1>1 DEF Plan

LEMMA LoadedCards ==
  ASSUME MoneyInv, NEW altered, Loads(altered), NEW m, NEW k \in Cards(OfMonth(m))
  PROVE  /\ k \in Cards(OfMonth(m))'
         /\ Statements(OfMonth(m))'[k].out = Statements(OfMonth(m))[k].out
         /\ Statements(OfMonth(m))'[k].in = Statements(OfMonth(m))[k].in
<1> DEFINE list == OfMonth(m)
           mine == {t \in OnCard(list) : t.card = k}
           read == Loaded(altered)
<1>1. list' = ImageOf(read, list) BY LoadedMonths
<1>2. list \subseteq tx BY DEF OfMonth
<1>3. \A t \in tx : read[t].source = t.source /\ read[t].card = t.card
  BY LoadedKeeps DEF Keeps
<1> HIDE DEF read
<1>4. OnCard(list)' = ImageOf(read, OnCard(list))
  <2>1. OnCard(list)' = {t \in list' : t.source = "card"} BY DEF OnCard
  <2> HIDE DEF list
  <2> QED BY <1>1, <1>2, <1>3, <2>1 DEF OnCard, ImageOf
<1>5. mine' = ImageOf(read, mine)
  <2>1. mine' = {t \in OnCard(list)' : t.card = k} OBVIOUS
  <2>2. OnCard(list) \subseteq tx BY <1>2 DEF OnCard
  <2> HIDE DEF list
  <2> QED BY <1>3, <1>4, <2>1, <2>2 DEF ImageOf
<1>6. mine \subseteq tx BY <1>2 DEF OnCard
<1>7. Out(mine') = Out(mine) /\ In(mine') = In(mine)
  <2> HIDE DEF mine
  <2> QED BY <1>5, <1>6, LoadedSums DEF read
<1>8. mine # {} BY DEF Cards
<1>9. mine' # {} BY <1>5, <1>8 DEF ImageOf
<1>10. k \in Cards(list)' BY <1>9 DEF Cards
<1>11. Statements(list)[k] = Group(mine) /\ Statements(list)'[k] = Group(mine')
  BY <1>10 DEF Statements
<1> QED BY <1>7, <1>10, <1>11 DEF Group

(* Where every row is what the codec makes of it, nothing was read again.  *)
LEMMA LoadedAsBefore ==
  ASSUME MoneyInv, NEW altered, Loads(altered), \A t \in tx : Sanitized(t) \in tx'
  PROVE  AsBefore(altered)
<1> DEFINE read == Loaded(altered)
<1> SUFFICES ASSUME NEW t \in tx PROVE read[t].cat = t.cat /\ read[t].fixed = t.fixed
  BY DEF AsBefore
<1>1. /\ Keeps(t, Sanitized(t))
      /\ Sanitized(t).cat = t.cat /\ Sanitized(t).fixed = t.fixed
  BY SanitizedKeeps DEF MoneyInv, AreRows
<1>2. PICK v \in tx : read[v] = Sanitized(t) BY DEF Loads, ImageOf
<1>3. Keeps(v, read[v]) BY LoadedKeeps
<1> HIDE DEF read
<1>4. v.id = t.id BY <1>1, <1>2, <1>3 DEF Keeps
<1>5. v = t BY <1>4 DEF MoneyInv
<1> QED BY <1>1, <1>2, <1>5

LEMMA LoadedRows ==
  ASSUME MoneyInv, NEW altered, Loads(altered), NEW t \in tx, NEW u \in tx', u.id = t.id
  PROVE  /\ t.filed => u.cat = t.cat
         /\ u.cat = t.cat => Kind(u)' = Kind(t)
<1>1. PICK v \in tx : u = Loaded(altered)[v] BY DEF Loads, ImageOf
<1>2. Keeps(v, u) BY <1>1, LoadedKeeps
<1>3. v = t BY <1>2 DEF MoneyInv, Keeps
<1>4. ASSUME u.cat = t.cat PROVE Kind(u)' = Kind(t) BY <1>1, <1>3, <1>4, LoadedKind
<1> QED BY <1>2, <1>3, <1>4 DEF Keeps

----------------------------------------------------------------------------
(* Every step keeps the transactions rows of different ids.                *)
LEMMA MoneyStarts == ASSUME MoneyInit PROVE MoneyInv
BY FS_EmptySet DEF MoneyInit, MoneyInv, AreRows

LEMMA ImportKeeps ==
  ASSUME MoneyInv, NEW added, \A t \in added : IsRow(t), Import(added) PROVE MoneyInv'
<1>1. IsFiniteSet(tx \cup added) BY FS_Union DEF Import, MoneyInv, AreRows
<1>2. AreRows(tx') BY <1>1 DEF Import, MoneyInv, AreRows
<1>3. ASSUME NEW t \in tx', NEW u \in tx', t.id = u.id PROVE t = u
  BY <1>3 DEF Import, MoneyInv, Ids
<1> QED BY <1>2, <1>3 DEF MoneyInv, AreRows

LEMMA FileKeeps ==
  ASSUME MoneyInv, NEW t \in tx, NEW cat \in Filed, File(t, cat) PROVE MoneyInv'
<1> DEFINE yes == TRUE
           u == [t EXCEPT !.cat = cat, !.filed = yes]
<1>1. tx' = (tx \ {t}) \cup {u} BY DEF File
<1>2. IsRow(t) BY DEF MoneyInv, AreRows
<1>3. IsWhole(t) BY <1>2 DEF IsRow, IsWhole
<1> HIDE DEF yes
<1>4. u = Changed(t, cat, t.fixed, yes) BY <1>3, CatAndFiledChanged
<1> HIDE DEF u
<1>5. /\ IsWhole(u) /\ u.cat = cat /\ u.again = t.again /\ u.id = t.id
      /\ u.day = t.day /\ u.out = t.out /\ u.in = t.in
  BY <1>4, ChangedIsWhole
<1>6. cat \in Cats BY MoneyAssumption
<1>7. IsRow(u) BY <1>2, <1>5, <1>6 DEF IsRow, IsWhole
<1>8. IsFiniteSet((tx \ {t}) \cup {u})
  BY FS_RemoveElement, FS_AddElement DEF MoneyInv, AreRows
<1>9. AreRows(tx') BY <1>1, <1>7, <1>8 DEF MoneyInv, AreRows
<1>10. ASSUME NEW v \in tx', NEW w \in tx', v.id = w.id PROVE v = w
  BY <1>1, <1>5, <1>10 DEF MoneyInv
<1> QED BY <1>9, <1>10 DEF MoneyInv, AreRows

LEMMA ReloadKeeps == ASSUME MoneyInv, Reload PROVE MoneyInv'
<1> PICK altered : Loads(altered) BY ReloadLoads
<1>1. AreRows(tx') BY LoadedKeeps
<1>2. ASSUME NEW t \in tx', NEW u \in tx', t.id = u.id PROVE t = u
  <2>1. PICK v \in tx : t = Loaded(altered)[v] BY <1>2 DEF Loads, ImageOf
  <2>2. PICK w \in tx : u = Loaded(altered)[w] BY <1>2 DEF Loads, ImageOf
  <2>3. v.id = w.id BY <1>2, <2>1, <2>2, LoadedKeeps DEF Keeps
  <2> QED BY <2>1, <2>2, <2>3 DEF MoneyInv
<1> QED BY <1>1, <1>2 DEF MoneyInv, AreRows

LEMMA MoneySteps == ASSUME MoneyInv, [MoneyNext]_tx PROVE MoneyInv'
<1>1. ASSUME NEW t \in Lines, ImportStatement(t) PROVE MoneyInv'
  BY <1>1, ImportKeeps, MoneyAssumption DEF ImportStatement
<1>2. ASSUME NEW src, ImportReport(src) PROVE MoneyInv'
  <2>1. PICK charges \in SUBSET Charges : Import(charges) BY <1>2 DEF ImportReport
  <2> QED BY <2>1, ImportKeeps, MoneyAssumption
<1>3. ASSUME NEW t \in tx, RemoveRow(t) PROVE MoneyInv'
  BY <1>3, FS_RemoveElement DEF RemoveRow, MoneyInv, AreRows
<1>4. ASSUME NEW t \in tx, NEW cat \in Filed, File(t, cat) PROVE MoneyInv'
  BY <1>4, FileKeeps
<1>5. CASE Reload BY <1>5, ReloadKeeps
<1>6. CASE UNCHANGED tx BY <1>6 DEF MoneyInv, AreRows
<1> QED BY <1>1, <1>2, <1>3, <1>4, <1>5, <1>6 DEF MoneyNext

(* The transactions are rows of different ids, whatever is imported, filed *)
(* or removed, and across a reload.                                        *)
THEOREM MoneyTypeCorrect == MoneySpec => []MoneyInv
<1>1. MoneyInit => MoneyInv BY MoneyStarts
<1>2. MoneyInv /\ [MoneyNext]_tx => MoneyInv' BY MoneySteps
<1> QED BY <1>1, <1>2, PTL DEF MoneySpec

(* A line that opens is no spending, has all its charges, and shares none. *)
THEOREM BillsCorrect == MoneySpec => []BillIsNotSpending
<1>1. MoneyInv => BillIsNotSpending BY BillsAreTransfers
<1> QED BY <1>1, MoneyTypeCorrect, PTL

(* The plan and the dashboard agree on what is left and what was spent.    *)
THEOREM PlanCorrect == MoneySpec => []PlanIsTotals
<1>1. MoneyInv => PlanIsTotals BY PlansAreTotals
<1> QED BY <1>1, MoneyTypeCorrect, PTL

(* The lines of the table share no row, miss none, and are the cards'.     *)
THEOREM TableCorrect == MoneySpec => []TableIsStatements
BY TablesAreStatements, PTL

(* A reload changes no month's money and no card's, keeps what was filed   *)
(* by hand, and changes the kind of no row that keeps its category; where  *)
(* every row is read as before, it changes no total and no plan.           *)
THEOREM ReloadCorrect == MoneySpec => ReloadKeepsMoney
<1> DEFINE Kept ==
      /\ Months' = Months /\ Ids' = Ids
      /\ \A m \in Months : LET list == OfMonth(m) IN
           /\ Out(list)' = Out(list) /\ In(list)' = In(list)
           /\ \A k \in Cards(list) : /\ k \in Cards(list)'
                /\ Statements(list)'[k].out = Statements(list)[k].out
                /\ Statements(list)'[k].in = Statements(list)[k].in
           /\ (\A t \in tx : Sanitized(t) \in tx') =>
                Totals(list)' = Totals(list) /\ Plan(list)' = Plan(list)
      /\ \A t \in tx, u \in tx' : u.id = t.id =>
           /\ t.filed => u.cat = t.cat
           /\ u.cat = t.cat => Kind(u)' = Kind(t)
<1>1. ASSUME MoneyInv, Reload PROVE Kept
  <2> PICK altered : Loads(altered) BY <1>1, ReloadLoads
  <2>1. Months' = Months /\ Ids' = Ids BY <1>1, LoadedMonths
  <2>2. \A m : Out(OfMonth(m))' = Out(OfMonth(m)) /\ In(OfMonth(m))' = In(OfMonth(m))
    BY <1>1, LoadedMonthSums
  <2>3. \A m : \A k \in Cards(OfMonth(m)) :
          /\ k \in Cards(OfMonth(m))'
          /\ Statements(OfMonth(m))'[k].out = Statements(OfMonth(m))[k].out
          /\ Statements(OfMonth(m))'[k].in = Statements(OfMonth(m))[k].in
    BY <1>1, LoadedCards
  <2>4. ASSUME \A t \in tx : Sanitized(t) \in tx', NEW m
        PROVE  /\ Totals(OfMonth(m))' = Totals(OfMonth(m))
               /\ Plan(OfMonth(m))' = Plan(OfMonth(m))
    <3>1. AsBefore(altered) BY <1>1, <2>4, LoadedAsBefore
    <3> QED BY <1>1, <3>1, LoadedTotals, LoadedPlan
  <2>5. \A t \in tx, u \in tx' : u.id = t.id =>
          /\ t.filed => u.cat = t.cat
          /\ u.cat = t.cat => Kind(u)' = Kind(t)
    BY <1>1, LoadedRows
  <2> QED BY Zenon, <2>1, <2>2, <2>3, <2>4, <2>5
<1>2. MoneyInv /\ [MoneyNext]_tx => [Reload => Kept]_tx BY <1>1
<1> QED BY <1>2, MoneyTypeCorrect, PTL DEF MoneySpec, ReloadKeepsMoney

----------------------------------------------------------------------------
(* The advice is given of finitely many rows of different ids.             *)
AdviceInv ==
  /\ IsFiniteSet(history) /\ history \subseteq Movements
  /\ \A r, o \in history : r.id = o.id => r = o

LEMMA RowsOfHistory ==
  ASSUME AdviceInv, NEW T \in SUBSET history
  PROVE  /\ IsFiniteSet(T) /\ \A r \in T : {r.id, r.t, r.out, r.in} \subseteq Nat
         /\ \A r, o \in T : r.id = o.id => r = o
BY FS_Subset, AdviceAssumption DEF AdviceInv

(* A household is asked one thing of a payee at most for its year.         *)
LEMMA FeesAreReviewedOnce == ASSUME NEW p \in FeeReviews PROVE p \in Fees
<1>1. p \in Payees({r \in Going : r.fee}) BY DEF FeeReviews, Recurring
<1>2. PICK r \in Going : r.fee /\ r.payee = p BY <1>1 DEF Payees
<1>3. r \in Of(p, Going) /\ p \in Payees(Going) BY <1>1, <1>2 DEF Of, Payees
<1>4. r \in {o \in Of(p, Going) : o.fee} BY <1>2, <1>3
<1> QED BY <1>3, <1>4 DEF Fees

(* Duplicates are two charges of one payee, some days apart, with no other *)
(* of its charges between them.                                            *)
LEMMA DuplicateIs ==
  ASSUME NEW d \in Duplicates
  PROVE  /\ d = <<d[1], d[2]>> /\ d[1] \in Going /\ d[2] \in Going
         /\ d[2].payee = d[1].payee /\ d[2].t - d[1].t \in 1..5 /\ Earlier(d[1], d[2])
         /\ \A o \in Of(d[1].payee, Going) : ~(Earlier(d[1], o) /\ Earlier(o, d[2]))
<1>1. /\ d \in Going \X Going /\ d[1].payee = d[2].payee
      /\ Earlier(d[1], d[2]) /\ Alike(d[1], d[2])
      /\ \A o \in Of(d[1].payee, Going) : ~(Earlier(d[1], o) /\ Earlier(o, d[2]))
  BY Zenon DEF Duplicates
<1>2. d[2].t - d[1].t \in 1..5 BY <1>1 DEF Alike
<1> QED BY <1>1, <1>2

(* Charges that follow each other are not told apart by their days alone,  *)
(* but no charge is between the two.                                       *)
LEMMA RepeatedOnce ==
  ASSUME AdviceInv, NEW d \in Duplicates, NEW e \in Duplicates,
         d[1].payee = e[1].payee, d[1].t = e[1].t, d[2].t = e[2].t
  PROVE  d = e
<1> DEFINE Adjacent(x) ==
      /\ x = <<x[1], x[2]>> /\ x[1] \in Going /\ x[2] \in Going
      /\ x[2].payee = x[1].payee /\ x[2].t - x[1].t \in 1..5
      /\ \A o \in Going : o.payee = x[1].payee => ~(Earlier(x[1], o) /\ Earlier(o, x[2]))
<1>1. Adjacent(d) /\ Adjacent(e) BY DuplicateIs DEF Of
<1>2. \A r \in Going : r.t \in Nat /\ r.id \in Nat /\ r \in history
  BY RowsOfHistory DEF Going
<1>3. d[1].t < d[2].t /\ e[1].t < e[2].t BY <1>1, <1>2
<1>4. d[1] = e[1]
  <2>1. ~(d[1].id < e[1].id)
    <3>1. d[1].id < e[1].id => Earlier(d[1], e[1]) /\ Earlier(e[1], d[2]) BY <1>3 DEF Earlier
    <3> QED BY <1>1, <3>1
  <2>2. ~(e[1].id < d[1].id)
    <3>1. e[1].id < d[1].id => Earlier(e[1], d[1]) /\ Earlier(d[1], e[2]) BY <1>3 DEF Earlier
    <3> QED BY <1>1, <3>1
  <2>3. d[1].id \in Nat /\ e[1].id \in Nat BY <1>1, <1>2
  <2>4. d[1].id = e[1].id BY <2>1, <2>2, <2>3
  <2> QED BY <1>1, <1>2, <2>4 DEF AdviceInv
<1>5. d[2] = e[2]
  <2>1. ~(d[2].id < e[2].id)
    <3>1. d[2].id < e[2].id => Earlier(e[1], d[2]) /\ Earlier(d[2], e[2]) BY <1>3 DEF Earlier
    <3> QED BY <1>1, <3>1
  <2>2. ~(e[2].id < d[2].id)
    <3>1. e[2].id < d[2].id => Earlier(d[1], e[2]) /\ Earlier(e[2], d[2]) BY <1>3 DEF Earlier
    <3> QED BY <1>1, <3>1
  <2>3. d[2].id \in Nat /\ e[2].id \in Nat BY <1>1, <1>2
  <2>4. d[2].id = e[2].id BY <2>1, <2>2, <2>3
  <2> QED BY <1>1, <1>2, <2>4 DEF AdviceInv
<1> QED BY <1>1, <1>4, <1>5

LEMMA OneThingAsked == ASSUME AdviceInv PROVE OneReview
<1> DEFINE dearer(p) == Increase(p) >= 5
           Asked(s) ==
             \/ s = Annual(s.payee, "fee-review") /\ s.payee \in Fees
             \/ /\ s = Annual(s.payee, "price-increase")
                /\ s.payee \notin Fees /\ dearer(s.payee)
             \/ /\ s = Annual(s.payee, "subscription-review")
                /\ s.payee \notin Fees /\ ~dearer(s.payee)
<1>1. ASSUME NEW s \in Savings PROVE Asked(s) \/ \E d \in Duplicates : s = Repeated(d)
  <2> HIDE DEF dearer
  <2>1. \/ \E p \in FeeReviews : s = Annual(p, "fee-review")
        \/ \E p \in Reviewed : dearer(p) /\ s = Annual(p, "price-increase")
        \/ \E p \in Reviewed : ~dearer(p) /\ s = Annual(p, "subscription-review")
        \/ \E d \in Duplicates : s = Repeated(d)
    BY DEF Savings, dearer
  <2>2. \A p \in Reviewed : p \notin Fees BY DEF Reviewed
  <2>3. \A p, type : Annual(p, type).payee = p BY DEF Annual
  <2> QED BY <2>1, <2>2, <2>3, FeesAreReviewedOnce
<1>2. \A s : Asked(s) => s.days = <<>> BY DEF Annual
<1>3. \A d : Repeated(d).days = <<d[1].t, d[2].t>> /\ Repeated(d).payee = d[1].payee
  BY DEF Repeated
<1>4. \A d, e \in Duplicates :
        Repeated(d).payee = Repeated(e).payee /\ Repeated(d).days = Repeated(e).days => d = e
  BY <1>3, RepeatedOnce
<1>5. \A s, o : Asked(s) /\ Asked(o) /\ s.payee = o.payee => s = o
  <2> HIDE DEF dearer
  <2> QED OBVIOUS
<1>6. \A d : Repeated(d).days # <<>>
  <2>1. \A t, u : <<t, u>> # <<>> OBVIOUS
  <2> QED BY <1>3, <2>1
<1> HIDE DEF Asked, dearer
<1> QED BY <1>1, <1>2, <1>4, <1>5, <1>6 DEF OneReview

----------------------------------------------------------------------------
(* The value in a position of the values in order is one of them, with as  *)
(* many before it as the position says.                                    *)
IsNth(v, k, r) ==
  /\ r \in DOMAIN v
  /\ Cardinality({o \in DOMAIN v : v[o] < v[r]}) < k
  /\ Cardinality({o \in DOMAIN v : v[o] <= v[r]}) >= k

LEMMA NthExists ==
  ASSUME NEW D, IsFiniteSet(D), NEW v \in [D -> Int], NEW k \in 1..Cardinality(D)
  PROVE  \E r \in D : Nth(v, k) = v[r] /\ IsNth(v, k, r)
<1> DEFINE UpTo(r) == {o \in D : v[o] <= v[r]}
           Below(r) == {o \in D : v[o] < v[r]}
           Enough == {r \in D : Cardinality(UpTo(r)) >= k}
<1>1. Cardinality(D) \in Nat BY FS_CardinalityType
<1>2. \A T \in SUBSET D : IsFiniteSet(T) /\ IsFiniteSet(ImageOf(v, T)) /\ ImageOf(v, T) \subseteq Int
  <2>1. ASSUME NEW T \in SUBSET D
        PROVE  IsFiniteSet(T) /\ IsFiniteSet(ImageOf(v, T)) /\ ImageOf(v, T) \subseteq Int
    <3>1. IsFiniteSet(T) BY FS_Subset
    <3>2. ImageOf(v, T) \subseteq Int BY DEF ImageOf
    <3> QED BY <3>1, <3>2, FiniteImage
  <2> QED BY <2>1
<1>3. \A T \in SUBSET D : T # {} =>
        /\ \E r \in T : \A o \in T : v[o] <= v[r]
        /\ \E r \in T : \A o \in T : v[r] <= v[o]
  <2>1. ASSUME NEW T \in SUBSET D, T # {}
        PROVE  /\ \E r \in T : \A o \in T : v[o] <= v[r]
               /\ \E r \in T : \A o \in T : v[r] <= v[o]
    <3> DEFINE image == ImageOf(v, T)
    <3>1. image # {} BY <2>1 DEF ImageOf
    <3>2. IsFiniteSet(image) /\ image \subseteq Int BY <1>2
    <3> HIDE DEF image
    <3>3. Max(image) \in image /\ \A y \in image : Max(image) >= y BY <3>1, <3>2, GreatestIs
    <3>4. Min(image) \in image /\ \A y \in image : Min(image) <= y BY <3>1, <3>2, LeastIs
    <3>5. Max(image) \in Int /\ Min(image) \in Int BY <3>2, <3>3, <3>4
    <3>6. \A o \in T : v[o] \in image /\ v[o] \in Int BY DEF ImageOf, image
    <3>7. PICK r \in T : v[r] = Max(image) BY <3>3 DEF ImageOf, image
    <3>8. PICK s \in T : v[s] = Min(image) BY <3>4 DEF ImageOf, image
    <3>9. \A o \in T : v[o] <= v[r] BY <3>3, <3>5, <3>6, <3>7
    <3>10. \A o \in T : v[s] <= v[o] BY <3>4, <3>6, <3>8
    <3> QED BY <3>9, <3>10
  <2> QED BY <2>1
<1>4. D # {} BY <1>1, FS_EmptySet
<1>5. PICK last \in D : \A o \in D : v[o] <= v[last] BY <1>3, <1>4
<1>6. UpTo(last) = D BY <1>5
<1>7. Enough # {} BY <1>1, <1>6
<1>8. PICK r \in Enough : \A o \in Enough : v[r] <= v[o]
  <2> HIDE DEF Enough
  <2>1. Enough \in SUBSET D BY DEF Enough
  <2> QED BY <1>3, <1>7, <2>1
<1>9. ASSUME ~(Cardinality(Below(r)) < k) PROVE FALSE
  <2>1. Below(r) \in SUBSET D OBVIOUS
  <2>2. Cardinality(Below(r)) \in Nat BY <1>2, <2>1, FS_CardinalityType
  <2>3. Below(r) # {}
    <3>1. ASSUME Below(r) = {} PROVE FALSE
      <4>1. Cardinality(Below(r)) = 0 BY <3>1, FS_EmptySet
      <4> QED BY <1>9, <4>1
    <3> QED BY <3>1
  <2>4. PICK q \in Below(r) : \A o \in Below(r) : v[o] <= v[q]
    <3> HIDE DEF Below
    <3> QED BY <1>3, <2>1, <2>3
  <2>5. v[q] \in Int /\ v[r] \in Int /\ v[q] < v[r] /\ q \in D /\ r \in D OBVIOUS
  <2>6. UpTo(q) = Below(r)
    <3>1. ASSUME NEW o \in D PROVE o \in UpTo(q) <=> o \in Below(r)
      <4>1. v[o] \in Int OBVIOUS
      <4>2. v[o] <= v[q] => v[o] < v[r] BY <2>5, <4>1
      <4>3. v[o] < v[r] => v[o] <= v[q] BY <2>4
      <4> QED BY <4>2, <4>3
    <3> QED BY <3>1
  <2>7. Cardinality(UpTo(q)) >= k BY <1>9, <2>2, <2>6
  <2>8. q \in Enough BY <2>5, <2>7
  <2>9. v[r] <= v[q] BY <1>8, <2>8
  <2> QED BY <2>5, <2>9
<1>10. IsNth(v, k, r)
  <2>1. DOMAIN v = D /\ r \in D OBVIOUS
  <2> QED BY <1>9, <2>1 DEF IsNth
<1>11. \E x \in DOMAIN v : IsNth(v, k, x) BY <1>10 DEF IsNth
<1>12. Nth(v, k) = v[CHOOSE x \in DOMAIN v : /\ Cardinality({o \in DOMAIN v : v[o] < v[x]}) < k
                                            /\ Cardinality({o \in DOMAIN v : v[o] <= v[x]}) >= k]
  BY DEF Nth
<1> DEFINE c == CHOOSE x \in DOMAIN v : /\ Cardinality({o \in DOMAIN v : v[o] < v[x]}) < k
                                        /\ Cardinality({o \in DOMAIN v : v[o] <= v[x]}) >= k
<1>13. IsNth(v, k, c) /\ c \in DOMAIN v BY <1>11 DEF IsNth
<1>14. c \in D BY <1>13
<1> HIDE DEF c
<1> QED BY <1>12, <1>13, <1>14 DEF c

(* A median is no less than the least of its values.                       *)
LEMMA MedianAtLeast ==
  ASSUME NEW D, IsFiniteSet(D), D # {}, NEW v \in [D -> Int], NEW a \in Int,
         \A o \in D : v[o] >= a
  PROVE  Median2(v) \in Int /\ Median2(v) >= 2 * a
<1> DEFINE n == Cardinality(D)
           i == (n + 1) \div 2
           j == n \div 2 + 1
<1>1. n \in Nat \ {0} BY FS_CardinalityType, FS_EmptySet
<1>2. i \in 1..n /\ j \in 1..n BY <1>1
<1>3. Median2(v) = Nth(v, i) + Nth(v, j) BY <1>1 DEF Median2
<1> HIDE DEF i, j, n
<1>4. PICK r \in D : Nth(v, i) = v[r] BY <1>2, NthExists DEF n
<1>5. PICK s \in D : Nth(v, j) = v[s] BY <1>2, NthExists DEF n
<1>6. v[r] \in Int /\ v[r] >= a /\ v[s] \in Int /\ v[s] >= a OBVIOUS
<1> QED BY <1>3, <1>4, <1>5, <1>6

----------------------------------------------------------------------------
(* The rows of a payee, in the order of their days.                        *)
LEMMA LastOfRows ==
  ASSUME AdviceInv, NEW T \in SUBSET history, T # {}
  PROVE  \E r \in T : \A o \in T : r = o \/ Earlier(o, r)
<1> DEFINE R == {d \in T \X T : Earlier(d[1], d[2])}
<1>1. Orders(R, T)
  <2>1. \A r \in T : r.t \in Nat /\ r.id \in Nat BY RowsOfHistory
  <2>2. \A r, o \in T : r.id = o.id => r = o BY RowsOfHistory
  <2>3. \A r, o \in T : <<r, o>> \in R <=> Earlier(r, o) OBVIOUS
  <2> HIDE DEF R
  <2>4. \A r, o, q \in T : Earlier(r, o) /\ Earlier(o, q) => Earlier(r, q)
    BY <2>1 DEF Earlier
  <2>5. \A r \in T : ~Earlier(r, r) BY <2>1 DEF Earlier
  <2>6. \A r, o \in T : r = o \/ Earlier(r, o) \/ Earlier(o, r) BY <2>1, <2>2 DEF Earlier
  <2> QED BY <2>3, <2>4, <2>5, <2>6 DEF Orders
<1>2. IsFiniteSet(T) BY RowsOfHistory
<1>3. \A r, o \in T : <<r, o>> \in R <=> Earlier(r, o) OBVIOUS
<1> HIDE DEF R
<1>4. PICK r \in T : \A o \in T : r = o \/ <<o, r>> \in R BY <1>1, <1>2, LastExists
<1> QED BY <1>3, <1>4

LEMMA FirstOfRows ==
  ASSUME AdviceInv, NEW T \in SUBSET history, T # {}
  PROVE  \E r \in T : \A o \in T : r = o \/ Earlier(r, o)
<1> DEFINE R == {d \in T \X T : Earlier(d[2], d[1])}
<1>1. Orders(R, T)
  <2>1. \A r \in T : r.t \in Nat /\ r.id \in Nat BY RowsOfHistory
  <2>2. \A r, o \in T : r.id = o.id => r = o BY RowsOfHistory
  <2>3. \A r, o \in T : <<r, o>> \in R <=> Earlier(o, r) OBVIOUS
  <2> HIDE DEF R
  <2>4. \A r, o, q \in T : Earlier(o, r) /\ Earlier(q, o) => Earlier(q, r)
    BY <2>1 DEF Earlier
  <2>5. \A r \in T : ~Earlier(r, r) BY <2>1 DEF Earlier
  <2>6. \A r, o \in T : r = o \/ Earlier(r, o) \/ Earlier(o, r) BY <2>1, <2>2 DEF Earlier
  <2> QED BY <2>3, <2>4, <2>5, <2>6 DEF Orders
<1>2. IsFiniteSet(T) BY RowsOfHistory
<1>3. \A r, o \in T : <<r, o>> \in R <=> Earlier(o, r) OBVIOUS
<1> HIDE DEF R
<1>4. PICK r \in T : \A o \in T : r = o \/ <<o, r>> \in R BY <1>1, <1>2, LastExists
<1> QED BY <1>3, <1>4

LEMMA NewestIsLast ==
  ASSUME AdviceInv, NEW p, NEW list \in SUBSET history, Of(p, list) # {}
  PROVE  Newest(p, list) \in Of(p, list)
<1> DEFINE T == Of(p, list)
<1>1. T \in SUBSET history BY DEF Of
<1>2. PICK r \in T : \A o \in T : r = o \/ Earlier(o, r) BY <1>1, LastOfRows
<1>3. \A o \in T : o.t \in Nat /\ o.id \in Nat BY <1>1, RowsOfHistory
<1> HIDE DEF T
<1>4. \E x \in T : \A o \in T : o.t < x.t \/ (o.t = x.t /\ o.id <= x.id)
  BY <1>2, <1>3 DEF Earlier
<1> QED BY <1>4 DEF Newest, T

LEMMA MonthsAreFewer ==
  ASSUME AdviceInv, NEW T \in SUBSET history
  PROVE  IsFiniteSet(MonthsOf(T)) /\ Cardinality(MonthsOf(T)) <= Cardinality(T)
<1> DEFINE f == [r \in T |-> MonthOf(r.t)]
<1>1. f \in Surjection(T, MonthsOf(T)) BY DEF Surjection, MonthsOf
<1>2. IsFiniteSet(T) BY RowsOfHistory
<1> HIDE DEF f
<1> QED BY <1>1, <1>2, FS_Surjection

LEMMA RowsOfList == Going \subseteq history /\ Candidates \subseteq Going
BY DEF Going, Candidates

(* Both agents compare the newest charge with the same ones.               *)
LEMMA SameRise == ASSUME AdviceInv PROVE RisesAgree
<1> SUFFICES ASSUME NEW p \in Subscriptions, Of(p, Going) = Of(p, Candidates)
             PROVE  p \in Anomalies <=>
                      /\ Increase(p) >= 30
                      /\ 100 * Newest(p, Going).out > 115 * Max({r.out : r \in Prior(p, Going)})
  BY DEF RisesAgree
<1> DEFINE T == Of(p, Going)
           last == Newest(p, Going)
           base == Baseline2(p, Going)
           rise == Percent(last.out, base)
<1>1. p \in Payees(Candidates) /\ Cardinality(MonthsOf(T)) >= 3
  BY DEF Subscriptions, InThreeMonths
<1>2. p \in InThreeMonths(Going) BY <1>1, RowsOfList DEF Payees, InThreeMonths
<1>3. T \in SUBSET history BY RowsOfList DEF Of
<1>4. IsFiniteSet(T) /\ Cardinality(T) \in Nat /\ Cardinality(T) >= 3
  <2>1. IsFiniteSet(T) BY <1>3, RowsOfHistory
  <2>2. Cardinality(T) \in Nat BY <2>1, FS_CardinalityType
  <2>3. Cardinality(MonthsOf(T)) \in Nat /\ Cardinality(MonthsOf(T)) <= Cardinality(T)
    BY <1>3, MonthsAreFewer, FS_CardinalityType
  <2> QED BY <1>1, <2>1, <2>2, <2>3
<1>5. last \in T
  <2>1. T # {} BY <1>4, FS_EmptySet
  <2> QED BY <2>1, RowsOfList, NewestIsLast
<1>6. Prior(p, Going) = T \ {last} BY DEF Prior
<1> DEFINE prior == Prior(p, Going)
<1>7. IsFiniteSet(prior) /\ Cardinality(prior) = Cardinality(T) - 1
  BY <1>4, <1>5, <1>6, FS_RemoveElement
<1>8. Cardinality(prior) >= 2 BY <1>4, <1>7
<1>9. \A r \in T : r.out \in Nat /\ r.out > 0
  <2>1. \A r \in T : r.out > 0 BY DEF Of, Going
  <2> QED BY <1>3, <2>1, RowsOfHistory
<1>10. last.out \in Nat BY <1>5, <1>9
<1>11. base \in Nat /\ base >= 2
  <2> DEFINE v == Outs(prior)
  <2>1. prior # {} BY <1>8, FS_EmptySet
  <2>2. v \in [prior -> Int] /\ \A o \in prior : v[o] >= 1 BY <1>6, <1>9 DEF Outs
  <2>3. base = Median2(v) BY DEF Baseline2
  <2> HIDE DEF prior, v
  <2>4. Median2(v) \in Int /\ Median2(v) >= 2 * 1 BY <1>7, <2>1, <2>2, MedianAtLeast
  <2> QED BY <2>3, <2>4
<1>12. rise \in Int
  <2>1. rise = (400 * last.out - 200 * base + base) \div (2 * base) BY DEF Percent
  <2>2. 2 * base \in Nat /\ 2 * base > 0 BY <1>11
  <2> HIDE DEF rise, base, last
  <2> DEFINE over == 400 * last.out - 200 * base + base
             under == 2 * base
  <2>3. over \in Int BY <1>10, <1>11
  <2>4. under \in Nat /\ under > 0 BY <2>2
  <2> HIDE DEF over, under
  <2>5. over \div under \in Int BY <2>3, <2>4
  <2> QED BY <2>1, <2>5 DEF over, under
<1>13. Increase(p) = Max({0, rise})
  <2>1. Newest(p, Candidates) = last BY DEF Newest
  <2>2. Prior(p, Candidates) = prior BY <2>1 DEF Prior
  <2> QED BY <2>1, <2>2 DEF Increase, Baseline2
<1>14. Increase(p) >= 30 <=> rise >= 30
  <2> HIDE DEF rise
  <2>1. Increase(p) = IF 0 >= rise THEN 0 ELSE rise BY <1>12, <1>13, OfTwo
  <2> QED BY <1>12, <2>1
<1> HIDE DEF rise
<1> QED BY <1>2, <1>8, <1>14 DEF Anomalies, rise

----------------------------------------------------------------------------
(* What rows take together.                                                *)
LEMMA TakenIsOut == ASSUME NEW T PROVE MapThenSumSet(OutOf, T) = Out(T)
BY Zenon DEF Out, MapThenSumSet, MapThenFoldSet, OutOf

LEMMA OutIsNat ==
  ASSUME NEW T, IsFiniteSet(T), \A r \in T : r.out \in Nat PROVE Out(T) \in Nat
<1>a. \A r \in T : r.out \in Int OBVIOUS
<1>1. PICK g \in [SUBSET T -> Int] :
        Sums(T, OutsOf(T), g) /\ \A V \in SUBSET T : Out(V) = g[V]
  BY <1>a, OutTable
<1>2. OutsOf(T) \in [T -> Nat] BY DEF OutsOf
<1>3. T \in SUBSET T /\ Sums(T, OutsOf(T), g) BY <1>1
<1>4. g[T] \in Nat BY <1>2, <1>3, SumsAreNat
<1> QED BY <1>1, <1>3, <1>4

(* What might be claimed back: the second charge of each pair.             *)
Seconds(found) == [d \in found |-> d[2].out]

LEMMA ClaimedIsSum ==
  ASSUME NEW found PROVE MapThenSumSet(LAMBDA d : d[2].out, found) = SumOf(Seconds(found))
<1> DEFINE
  pairs(i) == [T \in SUBSET found |->
                 IF T = {} THEN 0 ELSE Chosen(T)[2].out + i[T \ {Chosen(T)}]]
  sums(i) == [T \in SUBSET found |->
                IF T = {} THEN 0 ELSE Seconds(found)[Chosen(T)] + i[T \ {Chosen(T)}]]
  ofPairs == CHOOSE i : i = pairs(i)
  ofSums == CHOOSE i : i = sums(i)
<1>1. MapThenSumSet(LAMBDA d : d[2].out, found) = ofPairs[found]
  BY Zenon DEF MapThenSumSet, MapThenFoldSet, Chosen
<1>2. DOMAIN Seconds(found) = found BY DEF Seconds
<1>3. SumOf(Seconds(found)) = ofSums[found] BY Zenon, <1>2 DEF SumOf, Chosen
<1>4. \A i : pairs(i) = sums(i) BY AnyIn DEF Seconds
<1>5. ofPairs = ofSums
  <2> HIDE DEF pairs, sums
  <2> QED BY Zenon, <1>4
<1> QED BY <1>1, <1>3, <1>5

(* Charges follow each other, so each is the second of one pair at most,   *)
(* and the first of them all of none.                                      *)
LEMMA OneIsLeft == ASSUME AdviceInv PROVE DuplicatesLeaveOne
<1> SUFFICES ASSUME NEW p \in Payees(Going), {d \in Duplicates : d[1].payee = p} # {}
             PROVE  LET found == {d \in Duplicates : d[1].payee = p} IN
                      Min({r.out : r \in Of(p, Going)}) + MapThenSumSet(LAMBDA d : d[2].out, found)
                        <= MapThenSumSet(OutOf, Of(p, Going))
  BY DEF DuplicatesLeaveOne
<1> DEFINE found == {d \in Duplicates : d[1].payee = p}
           T == Of(p, Going)
           f == [d \in found |-> d[2]]
           claimed == ImageOf(f, found)
<1>1. T \in SUBSET history BY RowsOfList DEF Of
<1>2. IsFiniteSet(T) /\ (\A r \in T : r.out \in Nat /\ r.t \in Nat /\ r.id \in Nat)
      /\ \A r, o \in T : r.id = o.id => r = o
  BY <1>1, RowsOfHistory
<1>3. ASSUME NEW d \in found
      PROVE  /\ d = <<d[1], d[2]>> /\ d[1] \in T /\ d[2] \in T /\ Earlier(d[1], d[2])
             /\ \A o \in T : ~(Earlier(d[1], o) /\ Earlier(o, d[2]))
  BY <1>3, DuplicateIs DEF Of
<1>4. IsFiniteSet(found)
  <2>1. IsFiniteSet(T \X T) BY <1>2, FS_Product
  <2>2. found \subseteq T \X T BY <1>3
  <2> QED BY <2>1, <2>2, FS_Subset
<1>5. f \in [found -> T] BY <1>3
<1>6. ASSUME NEW d \in found, NEW e \in found, f[d] = f[e] PROVE d = e
  <2>1. d[2] = e[2] BY <1>6
  <2>2. d[1] = e[1] \/ Earlier(d[1], e[1]) \/ Earlier(e[1], d[1])
    BY <1>2, <1>3 DEF Earlier
  <2>3. d[1] = e[1] BY <2>1, <2>2, <1>3
  <2> QED BY <2>1, <2>3, <1>3
<1> HIDE DEF found
<1>7. T # {} BY DEF Payees, Of
<1>8. PICK first \in T : \A o \in T : first = o \/ Earlier(first, o)
  <2> HIDE DEF T
  <2> QED BY <1>1, <1>7, FirstOfRows
<1>9. first \notin claimed
  <2>1. ASSUME first \in claimed PROVE FALSE
    <3>1. PICK d \in found : first = d[2] BY <2>1 DEF ImageOf
    <3>2. Earlier(d[1], first) /\ d[1] \in T BY <1>3, <3>1
    <3>3. first = d[1] \/ Earlier(first, d[1]) BY <1>8, <3>2
    <3> QED BY <1>2, <3>2, <3>3 DEF Earlier
  <2> QED BY <2>1
<1>10. claimed \in SUBSET T /\ T \ claimed \in SUBSET T /\ first \in T \ claimed
  BY <1>5, <1>9 DEF ImageOf
<1> HIDE DEF T, f, claimed
<1>a. \A r \in T : r.out \in Int BY <1>2
<1>11. PICK g \in [SUBSET T -> Int] :
         Sums(T, OutsOf(T), g) /\ \A V \in SUBSET T : Out(V) = g[V]
  BY <1>2, <1>a, OutTable
<1>12. OutsOf(T) \in [T -> Nat] /\ OutsOf(T) \in [T -> Int] BY <1>2 DEF OutsOf
<1>13. Seconds(found) \in [found -> Int] BY <1>2, <1>3 DEF Seconds
<1>14. PICK k \in [SUBSET found -> Int] :
         Sums(found, Seconds(found), k) /\ SumOf(Seconds(found)) = k[found]
  BY <1>4, <1>13, SumsExist
<1>15. Renames(f, found, Seconds(found), T, OutsOf(T))
  <2>1. \A d \in found : f[d] = d[2] BY DEF f
  <2>2. \A d \in found : OutsOf(T)[f[d]] = Seconds(found)[d] BY <1>5, <2>1 DEF OutsOf, Seconds
  <2> QED BY <1>5, <1>6, <2>2 DEF Renames
<1>16. k[found] = g[claimed]
  <2>1. Sums(T, OutsOf(T), g) /\ Sums(found, Seconds(found), k) BY <1>11, <1>14
  <2>2. found \in SUBSET found OBVIOUS
  <2> QED BY <1>4, <1>15, <2>1, <2>2, SumRenamed DEF claimed
<1>17. g[T] = g[claimed] + g[T \ claimed]
  <2>1. Sums(T, OutsOf(T), g) BY <1>11
  <2>2. Additive(T, g) BY <1>2, <1>12, <2>1, SumsAdd
  <2>3. claimed \cap (T \ claimed) = {} /\ claimed \cup (T \ claimed) = T BY <1>10
  <2> QED BY <1>10, <2>2, <2>3 DEF Additive
<1>18. g[T \ claimed] = first.out + g[(T \ claimed) \ {first}]
  <2>1. AnyOrder(T, OutsOf(T), g) BY <1>11 DEF Sums
  <2>2. OutsOf(T)[first] = first.out BY DEF OutsOf
  <2> QED BY <1>10, <2>1, <2>2 DEF AnyOrder
<1>19. g[(T \ claimed) \ {first}] \in Nat
  <2>1. (T \ claimed) \ {first} \in SUBSET T OBVIOUS
  <2>2. Sums(T, OutsOf(T), g) BY <1>11
  <2> QED BY <1>2, <1>12, <2>1, <2>2, SumsAreNat
<1>20. Min({r.out : r \in T}) <= first.out /\ Min({r.out : r \in T}) \in Int
  <2> DEFINE outs == {r.out : r \in T}
  <2>1. outs = ImageOf(OutsOf(T), T) BY DEF ImageOf, OutsOf
  <2>a. IsFiniteSet(ImageOf(OutsOf(T), T)) BY <1>2, FiniteImage
  <2>2. IsFiniteSet(outs) BY <2>1, <2>a
  <2>3. outs \subseteq Int /\ first.out \in outs BY <1>2
  <2> HIDE DEF outs
  <2>4. Min(outs) \in outs /\ Min(outs) <= first.out BY <2>2, <2>3, LeastIs
  <2> QED BY <2>3, <2>4 DEF outs
<1>21. first.out \in Int /\ g[claimed] \in Int BY <1>2, <1>10, <1>11
<1>22. MapThenSumSet(LAMBDA d : d[2].out, found) = g[claimed] BY ClaimedIsSum, <1>14, <1>16
<1>23. MapThenSumSet(OutOf, T) = g[T] BY TakenIsOut, <1>11
<1>24. Min({r.out : r \in T}) + g[claimed] <= g[T]
  <2> DEFINE least == Min({r.out : r \in T})
             others == g[(T \ claimed) \ {first}]
  <2> HIDE DEF least, others
  <2>1. g[T] = g[claimed] + (first.out + others) BY <1>17, <1>18 DEF others
  <2>2. least <= first.out /\ least \in Int BY <1>20 DEF least
  <2>3. others \in Nat BY <1>19 DEF others
  <2>4. least + g[claimed] <= g[T] BY <1>21, <2>1, <2>2, <2>3
  <2> QED BY <2>4 DEF least
<1> QED BY <1>22, <1>23, <1>24 DEF found, T

----------------------------------------------------------------------------
(* Budgets.                                                                *)
LEMMA RoundedUp ==
  ASSUME NEW p \in Nat, NEW s \in Nat \ {0}
  PROVE  ((p + s - 1) \div s) * s >= p /\ ((p + s - 1) \div s) * s \in Int
OBVIOUS

LEMMA RankIsThreeQuarters ==
  ASSUME NEW n \in Nat \ {0} PROVE Rank75(n) \in 1..n /\ 4 * Rank75(n) >= 3 * n
<1> DEFINE q == (3 * n + 3) \div 4
<1>1. q \in 1..n /\ 4 * q >= 3 * n OBVIOUS
<1> HIDE DEF q
<1>2. Rank75(n) = Max({1, q}) BY DEF Rank75, q
<1>3. Max({1, q}) = q BY <1>1, OfTwo
<1> QED BY <1>1, <1>2, <1>3

LEMMA BudgetsSuffice == ASSUME AdviceInv PROVE BudgetIsEnough
<1> SUFFICES ASSUME NEW c \in Budgeted
             PROVE  4 * Cardinality({m \in Recent : Spent(c, m) <= Suggested(c)})
                      >= 3 * Cardinality(Recent)
  BY DEF BudgetIsEnough
<1> DEFINE n == Cardinality(Recent)
           spent == [m \in Recent |-> Spent(c, m)]
           p == Nth(spent, Rank75(n))
           round == ((p + Step - 1) \div Step) * Step
<1>1. IsFiniteSet(Recent)
  <2>1. IsFiniteSet(MonthsOf(history)) BY MonthsAreFewer
  <2>2. Recent \subseteq MonthsOf(history) BY DEF Recent
  <2> QED BY <2>1, <2>2, FS_Subset
<1>2. n \in Nat \ {0}
  <2>1. Recent # {} BY DEF Budgeted
  <2> QED BY <1>1, <2>1, FS_CardinalityType, FS_EmptySet
<1>3. \A m \in Recent : Spent(c, m) \in Nat
  <2>1. ASSUME NEW m \in Recent PROVE Spent(c, m) \in Nat
    <3> DEFINE T == {r \in history : r.cat = c /\ MonthOf(r.t) = m}
    <3>1. T \in SUBSET history OBVIOUS
    <3>2. Spent(c, m) = Out(T) BY TakenIsOut DEF Spent
    <3> HIDE DEF T
    <3>3. IsFiniteSet(T) /\ \A r \in T : r.out \in Nat BY <3>1, RowsOfHistory
    <3> QED BY <3>2, <3>3, OutIsNat
  <2> QED BY <2>1
<1>4. spent \in [Recent -> Int] /\ \A m \in Recent : spent[m] \in Nat BY <1>3
<1>5. Rank75(n) \in 1..n /\ 4 * Rank75(n) >= 3 * n BY <1>2, RankIsThreeQuarters
<1>6. Suggested(c) = Max({Step, round}) BY DEF Suggested
<1> HIDE DEF round
<1>7. PICK r \in Recent : p = spent[r] /\ IsNth(spent, Rank75(n), r)
  <2> HIDE DEF spent
  <2> QED BY <1>1, <1>4, <1>5, NthExists
<1>8. p \in Nat BY <1>4, <1>7
<1>9. round >= p /\ round \in Int
  <2> HIDE DEF p
  <2> QED BY <1>8, RoundedUp, AdviceAssumption DEF round
<1>10. Suggested(c) >= p /\ Suggested(c) \in Int
  <2> HIDE DEF p
  <2>1. Max({Step, round}) = IF Step >= round THEN Step ELSE round
    BY <1>9, AdviceAssumption, OfTwo
  <2> QED BY <1>6, <1>8, <1>9, <2>1, AdviceAssumption
<1> DEFINE enough == {m \in Recent : Spent(c, m) <= Suggested(c)}
           few == {m \in Recent : spent[m] <= p}
<1>11. Cardinality(few) >= Rank75(n) BY <1>7 DEF IsNth
<1>12. few \subseteq enough
  <2>1. ASSUME NEW m \in few PROVE m \in enough
    <3>1. m \in Recent /\ spent[m] <= p /\ spent[m] = Spent(c, m) BY <2>1
    <3> HIDE DEF p, spent
    <3>2. Spent(c, m) <= Suggested(c) BY <1>3, <1>8, <1>10, <3>1
    <3> QED BY <3>1, <3>2
  <2> QED BY <2>1
<1>13. IsFiniteSet(enough) /\ IsFiniteSet(few) BY <1>1, FS_Subset
<1> HIDE DEF enough, few
<1>14. Cardinality(few) <= Cardinality(enough) BY <1>12, <1>13, FS_Subset
<1>15. Cardinality(few) \in Nat /\ Cardinality(enough) \in Nat BY <1>13, FS_CardinalityType
<1> HIDE DEF n
<1>16. 4 * Cardinality(enough) >= 3 * n BY <1>2, <1>5, <1>11, <1>14, <1>15
<1> QED BY <1>16 DEF enough, n

----------------------------------------------------------------------------
(* The calendar: each month begins where the one before it ends.           *)
LEMMA BeforeIsSum ==
  ASSUME NEW m PROVE Before(m) = SumOf([k \in 1..(m - 1) |-> Lengths[k]])
<1> DEFINE
  h == [k \in 1..(m - 1) |-> Lengths[k]]
  days(i) == [T \in SUBSET (1..(m - 1)) |->
                IF T = {} THEN 0 ELSE Lengths[Chosen(T)] + i[T \ {Chosen(T)}]]
  sums(i) == [T \in SUBSET (1..(m - 1)) |->
                IF T = {} THEN 0 ELSE h[Chosen(T)] + i[T \ {Chosen(T)}]]
  ofDays == CHOOSE i : i = days(i)
  ofSums == CHOOSE i : i = sums(i)
<1>1. Before(m) = ofDays[1..(m - 1)]
  BY Zenon DEF Before, MapThenSumSet, MapThenFoldSet, Chosen
<1>2. DOMAIN h = 1..(m - 1) OBVIOUS
<1>3. SumOf(h) = ofSums[1..(m - 1)] BY Zenon, <1>2 DEF SumOf, Chosen
<1>4. \A i : days(i) = sums(i) BY AnyIn
<1>5. ofDays = ofSums
  <2> HIDE DEF days, sums
  <2> QED BY Zenon, <1>4
<1> QED BY <1>1, <1>3, <1>5

Final == Len(Lengths)

LEMMA CalendarSteps ==
  /\ Final \in Nat /\ Before(1) = 0
  /\ \A m \in 1..(Final + 1) : Before(m) \in Nat
  /\ \A m \in 1..Final : /\ Lengths[m] \in Nat \ {0} /\ Before(m) \in Nat
                         /\ Before(m + 1) = Before(m) + Lengths[m]
<1> DEFINE D == 1..Final
<1>1. Final \in Nat /\ Lengths \in [D -> Int] /\ Lengths \in [D -> Nat]
      /\ \A m \in D : Lengths[m] \in Nat \ {0}
  BY AdviceAssumption DEF Final
<1>2. IsFiniteSet(D) BY <1>1, FS_Interval
<1>3. PICK g \in [SUBSET D -> Int] : Sums(D, Lengths, g) BY <1>1, <1>2, SumsExist
<1>4. Sums(D, Lengths, g) /\ g[{}] = 0 /\ AnyOrder(D, Lengths, g) BY <1>3 DEF Sums
<1>5. ASSUME NEW m \in 1..(Final + 1) PROVE Before(m) = g[1..(m - 1)] /\ Before(m) \in Nat
  <2> DEFINE T == 1..(m - 1)
  <2>1. T \in SUBSET D BY <1>1
  <2> HIDE DEF T, D
  <2>2. SumOf([k \in T |-> Lengths[k]]) = g[T] BY <1>1, <1>2, <1>4, <2>1, SumOfPart
  <2>3. g[T] \in Nat BY <1>1, <1>2, <1>4, <2>1, SumsAreNat
  <2> QED BY <2>2, <2>3, BeforeIsSum DEF T
<1>6. Before(1) = 0
  <2>1. 1..(1 - 1) = {} /\ 1 \in 1..(Final + 1) BY <1>1
  <2> QED BY <1>4, <1>5, <2>1
<1>7. ASSUME NEW m \in D PROVE Before(m + 1) = Before(m) + Lengths[m]
  <2>1. m \in 1..(Final + 1) /\ m + 1 \in 1..(Final + 1) BY <1>1
  <2>2. Before(m + 1) = g[1..((m + 1) - 1)] /\ Before(m) = g[1..(m - 1)] BY <1>5, <2>1
  <2>3. 1..((m + 1) - 1) = 1..m /\ (1..m) \ {m} = 1..(m - 1) /\ m \in 1..m BY <1>1
  <2> DEFINE T == 1..m
  <2>4. T \in SUBSET D /\ m \in T BY <1>1
  <2> HIDE DEF T
  <2>5. g[T] = Lengths[m] + g[T \ {m}] BY <1>4, <2>4 DEF AnyOrder
  <2>6. Before(m) \in Nat /\ Lengths[m] \in Nat BY <1>1, <1>5, <2>1
  <2>7. Before(m + 1) = g[T] BY <2>2, <2>3 DEF T
  <2>8. Before(m) = g[T \ {m}] BY <2>2, <2>3 DEF T
  <2> QED BY <2>5, <2>6, <2>7, <2>8
<1>8. \A m \in D : m \in 1..(Final + 1) BY <1>1
<1> QED BY <1>1, <1>5, <1>6, <1>7, <1>8

LEMMA MonthsFollow ==
  ASSUME NEW i \in 1..(Final + 1), NEW j \in 1..(Final + 1), i < j
  PROVE  Before(i + 1) <= Before(j) /\ Before(i) < Before(j)
<1> DEFINE P == {k \in 0..Final : \A m \in 1..k : Before(m + 1) <= Before(k + 1)}
<1>1. Final \in Nat BY CalendarSteps
<1>2. 0 \in P BY <1>1
<1>3. ASSUME NEW k \in 1..Final, k - 1 \in P PROVE k \in P
  <2>1. Before(k + 1) = Before(k) + Lengths[k] /\ Lengths[k] \in Nat /\ Before(k) \in Nat
    BY CalendarSteps
  <2>2. ASSUME NEW m \in 1..k PROVE Before(m + 1) <= Before(k + 1)
    <3>1. CASE m = k BY <3>1, <2>1
    <3>2. CASE m # k
      <4>1. m \in 1..(k - 1) BY <3>2
      <4>2. Before(m + 1) <= Before((k - 1) + 1) BY <1>3, <4>1
      <4>3. (k - 1) + 1 = k /\ m + 1 \in 1..(Final + 1) BY <1>1
      <4>4. Before(m + 1) \in Nat BY <4>3, CalendarSteps
      <4> QED BY <2>1, <4>2, <4>3, <4>4
    <3> QED BY <3>1, <3>2
  <2> QED BY <1>1, <2>2
<1>4. \A k \in 0..Final : k \in P
  <2> HIDE DEF P
  <2> QED BY <1>1, <1>2, <1>3, Induction
<1>5. j - 1 \in 0..Final /\ i \in 1..(j - 1) /\ (j - 1) + 1 = j /\ i \in 1..Final BY <1>1
<1>6. Before(i + 1) <= Before(j)
  <2>1. j - 1 \in P BY <1>4, <1>5
  <2>2. Before(i + 1) <= Before((j - 1) + 1) BY <1>5, <2>1
  <2> QED BY <1>5, <2>2
<1>7. Before(i) < Before(i + 1) BY <1>5, CalendarSteps
<1>8. Before(i) \in Nat /\ Before(i + 1) \in Nat /\ Before(j) \in Nat
  <2>1. i + 1 \in 1..(Final + 1) BY <1>1, <1>5
  <2> QED BY <2>1, CalendarSteps
<1> QED BY <1>6, <1>7, <1>8

(* A day of month m, and no other month.                                   *)
FallsIn(t, m) == t - Before(m) \in 1..Lengths[m]

LEMMA MonthIs ==
  ASSUME NEW t \in Int, NEW m \in 1..Final, FallsIn(t, m)
  PROVE  /\ MonthOf(t) = m /\ DayOf(t) = t - Before(m)
         /\ t \in (Before(m) + 1)..Before(m + 1)
<1>1. \A k \in 1..Final : FallsIn(t, k) => t \in (Before(k) + 1)..Before(k + 1)
  BY CalendarSteps DEF FallsIn
<1>2. ASSUME NEW k \in 1..Final, FallsIn(t, k) PROVE k = m
  <2>1. k < m \/ k = m \/ m < k BY CalendarSteps
  <2>2. /\ k \in 1..(Final + 1) /\ m \in 1..(Final + 1)
        /\ k + 1 \in 1..(Final + 1) /\ m + 1 \in 1..(Final + 1)
    BY CalendarSteps
  <2>3. k < m => Before(k + 1) <= Before(m) BY <2>2, MonthsFollow
  <2>4. m < k => Before(m + 1) <= Before(k) BY <2>2, MonthsFollow
  <2>5. {Before(k), Before(m), Before(k + 1), Before(m + 1)} \subseteq Nat
    BY <2>2, CalendarSteps
  <2> QED BY <1>1, <1>2, <2>1, <2>3, <2>4, <2>5
<1>3. DOMAIN Lengths = 1..Final BY AdviceAssumption DEF Final
<1>4. MonthOf(t) = m
  <2>1. m \in DOMAIN Lengths /\ t - Before(m) \in 1..Lengths[m] BY <1>3 DEF FallsIn
  <2>2. \A k \in DOMAIN Lengths : t - Before(k) \in 1..Lengths[k] => k = m
    BY <1>2, <1>3 DEF FallsIn
  <2> QED BY <2>1, <2>2 DEF MonthOf
<1> QED BY <1>1, <1>4 DEF DayOf

LEMMA DayHasMonth ==
  ASSUME NEW j \in 0..Final, NEW t \in 1..Before(j + 1)
  PROVE  /\ MonthOf(t) \in 1..j /\ FallsIn(t, MonthOf(t))
<1> DEFINE P == {k \in 0..Final : \A d \in 1..Before(k + 1) : \E m \in 1..k : FallsIn(d, m)}
<1>1. Final \in Nat BY CalendarSteps
<1>2. 0 \in P
  <2>1. Before(0 + 1) = 0 /\ 1..0 = {} BY CalendarSteps
  <2> QED BY <1>1, <2>1
<1>3. ASSUME NEW k \in 1..Final, k - 1 \in P PROVE k \in P
  <2>1. Before(k + 1) = Before(k) + Lengths[k] /\ Lengths[k] \in Nat /\ Before(k) \in Nat
    BY CalendarSteps
  <2>2. ASSUME NEW d \in 1..Before(k + 1) PROVE \E m \in 1..k : FallsIn(d, m)
    <3>1. CASE d <= Before(k)
      <4>1. (k - 1) + 1 = k /\ d \in 1..Before(k) BY <3>1, <2>1
      <4>2. d \in 1..Before((k - 1) + 1) BY <4>1
      <4>3. \E m \in 1..(k - 1) : FallsIn(d, m) BY <1>3, <4>2
      <4> QED BY <4>3
    <3>2. CASE d > Before(k) BY <3>2, <2>1 DEF FallsIn
    <3> QED BY <3>1, <3>2, <2>1
  <2> QED BY <1>1, <2>2
<1>4. \A k \in 0..Final : k \in P
  <2> HIDE DEF P
  <2> QED BY <1>1, <1>2, <1>3, Induction
<1>5. PICK m \in 1..j : FallsIn(t, m)
  <2>1. j \in P BY <1>4
  <2> QED BY <2>1
<1>6. MonthOf(t) = m
  <2>1. m \in 1..Final BY <1>1
  <2>2. t \in Int
    <3>1. j + 1 \in 1..(Final + 1) BY <1>1
    <3> QED BY <3>1, CalendarSteps
  <2> QED BY <1>5, <2>1, <2>2, MonthIs
<1> QED BY <1>5, <1>6

(* The date a charge of a day of the month has in a month.                 *)
LEMMA DateIs ==
  ASSUME NEW m \in 1..Final, NEW d \in Int, d >= 1
  PROVE  /\ DateAt(m, d) = Before(m) + (IF d <= Lengths[m] THEN d ELSE Lengths[m])
         /\ DateAt(m, d) \in (Before(m) + 1)..Before(m + 1) /\ DateAt(m, d) \in Int
         /\ MonthOf(DateAt(m, d)) = m
         /\ d <= Lengths[m] => DayOf(DateAt(m, d)) = d
<1> DEFINE x == IF d <= Lengths[m] THEN d ELSE Lengths[m]
<1>1. Lengths[m] \in Nat \ {0} /\ Before(m) \in Nat /\ Before(m + 1) = Before(m) + Lengths[m]
  BY CalendarSteps
<1>2. Min({d, Lengths[m]}) = x
  <2>1. Lengths[m] \in Int BY <1>1
  <2> QED BY <2>1, OfTwo
<1>3. DateAt(m, d) = Before(m) + x BY <1>2 DEF DateAt
<1>4. x \in 1..Lengths[m] BY <1>1
<1> HIDE DEF x
<1>5. DateAt(m, d) \in Int /\ DateAt(m, d) - Before(m) = x BY <1>1, <1>3, <1>4
<1>6. FallsIn(DateAt(m, d), m) BY <1>4, <1>5 DEF FallsIn
<1>7. MonthOf(DateAt(m, d)) = m /\ DayOf(DateAt(m, d)) = x
      /\ DateAt(m, d) \in (Before(m) + 1)..Before(m + 1)
  BY <1>5, <1>6, MonthIs
<1>8. d <= Lengths[m] => x = d BY DEF x
<1> QED BY <1>3, <1>5, <1>7, <1>8 DEF x

LEMMA DatesFollow ==
  ASSUME NEW i \in 1..Final, NEW j \in 1..Final, i < j, NEW d \in Int, d >= 1,
         NEW e \in Int, e >= 1
  PROVE  DateAt(i, d) < DateAt(j, e)
<1>1. DateAt(i, d) \in (Before(i) + 1)..Before(i + 1) BY DateIs
<1>2. DateAt(j, e) \in (Before(j) + 1)..Before(j + 1) BY DateIs
<1>3. i \in 1..(Final + 1) /\ j \in 1..(Final + 1) /\ i + 1 \in 1..(Final + 1) BY CalendarSteps
<1>4. Before(i + 1) <= Before(j) BY <1>3, MonthsFollow
<1>5. {Before(i), Before(j), Before(i + 1)} \subseteq Nat BY <1>3, CalendarSteps
<1> QED BY <1>1, <1>2, <1>4, <1>5

----------------------------------------------------------------------------
(* The newest balance, and the income that is waited for.                  *)
LEMMA LatestIsKnown ==
  ASSUME AdviceInv, Known # {} PROVE Latest \in Known /\ Latest \in history
<1> DEFINE R == {d \in Known \X Known : \/ d[1].t < d[2].t
                                        \/ d[1].t = d[2].t /\ d[1].id > d[2].id}
<1>1. Known \in SUBSET history BY DEF Known
<1>2. /\ \A r \in Known : r.t \in Nat /\ r.id \in Nat
      /\ \A r, o \in Known : r.id = o.id => r = o
      /\ IsFiniteSet(Known)
  BY <1>1, RowsOfHistory
<1>3. \A r, o \in Known : <<r, o>> \in R <=> (r.t < o.t \/ (r.t = o.t /\ r.id > o.id))
  OBVIOUS
<1> HIDE DEF R
<1>4. Orders(R, Known) BY <1>2, <1>3 DEF Orders
<1>5. PICK r \in Known : \A o \in Known : r = o \/ <<o, r>> \in R BY <1>2, <1>4, LastExists
<1>6. ASSUME NEW o \in Known PROVE o.t < r.t \/ (o.t = r.t /\ r.id <= o.id)
  <2>1. {r.t, r.id, o.t, o.id} \subseteq Nat BY <1>2
  <2>2. CASE r = o BY <2>1, <2>2
  <2>3. CASE <<o, r>> \in R
    <3>1. o.t < r.t \/ (o.t = r.t /\ o.id > r.id) BY <1>3, <2>3
    <3> QED BY <2>1, <3>1
  <2> QED BY <1>5, <2>2, <2>3
<1>7. Latest \in Known BY <1>6 DEF Latest
<1> QED BY <1>1, <1>7

LEMMA RowDay ==
  ASSUME NEW r \in Movements
  PROVE  /\ r.t \in Nat /\ MonthOf(r.t) \in 1..(Final - 2) /\ FallsIn(r.t, MonthOf(r.t))
         /\ r.t + Horizon <= Before(Final + 1)
<1>1. r.t \in 1..Before(Final - 1) /\ r.t + Horizon <= Before(Final + 1) /\ r.t \in Nat
  BY AdviceAssumption DEF Final
<1>2. Final \in Nat /\ Final > 1 BY AdviceAssumption, CalendarSteps DEF Final
<1>3. Final - 2 \in 0..Final /\ (Final - 2) + 1 = Final - 1 BY <1>2
<1>4. r.t \in 1..Before((Final - 2) + 1) BY <1>1, <1>3
<1> QED BY <1>1, <1>3, <1>4, DayHasMonth

LEMMA DayIsExpected ==
  ASSUME AdviceInv, NEW list \in SUBSET history, NEW p \in Recurring(list)
  PROVE  ExpectedDay(p, list) \in Int /\ ExpectedDay(p, list) >= 1
<1> DEFINE T == Of(p, list)
           v == [r \in T |-> DayOf(r.t)]
<1>1. T \in SUBSET history /\ T # {} BY DEF Recurring, Payees, Of
<1>2. IsFiniteSet(T) BY <1>1, RowsOfHistory
<1>3. \A r \in T : DayOf(r.t) \in Int /\ DayOf(r.t) >= 1
  <2>1. ASSUME NEW r \in T PROVE DayOf(r.t) \in Int /\ DayOf(r.t) >= 1
    <3>1. r \in Movements BY <1>1 DEF AdviceInv
    <3>2. FallsIn(r.t, MonthOf(r.t)) /\ r.t \in Nat BY <3>1, RowDay
    <3>3. MonthOf(r.t) \in 1..(Final - 2) /\ Final \in Nat BY <3>1, RowDay, CalendarSteps
    <3>4. Lengths[MonthOf(r.t)] \in Nat
      <4>1. MonthOf(r.t) \in 1..Final BY <3>3
      <4> QED BY <4>1, CalendarSteps
    <3> QED BY <3>2, <3>4 DEF FallsIn, DayOf
  <2> QED BY <2>1
<1>4. v \in [T -> Int] /\ \A r \in T : v[r] >= 1 BY <1>3
<1>5. ExpectedDay(p, list) = Rounded(Median2(v)) BY DEF ExpectedDay, UsualDay
<1> HIDE DEF v, T
<1>6. Median2(v) \in Int /\ Median2(v) >= 2 * 1 BY <1>1, <1>2, <1>4, MedianAtLeast
<1> QED BY <1>5, <1>6 DEF Rounded

(* Of several payees of one median, the income is the first met: an id is  *)
(* of one payee.                                                           *)
LEMMA IncomeRecurs ==
  ASSUME AdviceInv, Recurring(Coming) # {} PROVE Income \in Recurring(Coming)
<1> DEFINE P == Recurring(Coming)
           m(p) == Median2(Ins(Of(p, Coming)))
           first(p) == Min({r.id : r \in Of(p, Coming)})
           R == {d \in P \X P : \/ m(d[1]) < m(d[2])
                                \/ m(d[1]) = m(d[2]) /\ first(d[1]) > first(d[2])}
<1>1. Coming \in SUBSET history BY DEF Coming
<1>2. ASSUME NEW p \in P
      PROVE  /\ m(p) \in Int /\ first(p) \in Nat
             /\ \E r \in history : r.payee = p /\ r.id = first(p)
  <2> DEFINE T == Of(p, Coming)
             v == Ins(T)
  <2>1. T \in SUBSET history /\ T # {} BY <1>1 DEF Recurring, Payees, Of
  <2>2. IsFiniteSet(T) /\ \A r \in T : r.in \in Nat /\ r.id \in Nat BY <2>1, RowsOfHistory
  <2>3. v \in [T -> Int] /\ \A r \in T : v[r] >= 0 BY <2>2 DEF Ins
  <2>4. m(p) \in Int
    <3> HIDE DEF v, T
    <3>1. Median2(v) \in Int BY <2>1, <2>2, <2>3, MedianAtLeast
    <3> QED BY <3>1 DEF v, T
  <2> DEFINE ids == {r.id : r \in T}
             id == [r \in T |-> r.id]
  <2>5. ids = ImageOf(id, T) BY DEF ImageOf
  <2>6. IsFiniteSet(ids)
    <3> HIDE DEF id, T, ids
    <3>1. IsFiniteSet(ImageOf(id, T)) BY <2>2, FiniteImage
    <3> QED BY <2>5, <3>1
  <2>7. ids # {} /\ ids \subseteq Int /\ ids \subseteq Nat BY <2>1, <2>2
  <2>8. Min(ids) \in ids
    <3> HIDE DEF ids
    <3> QED BY <2>6, <2>7, LeastIs
  <2>9. \A r \in T : r.payee = p BY DEF Of
  <2>10. first(p) = Min(ids) OBVIOUS
  <2> HIDE DEF first
  <2>11. \E r \in T : r.id = first(p) BY <2>8, <2>10
  <2> QED BY <2>1, <2>4, <2>7, <2>8, <2>9, <2>10, <2>11
<1>3. IsFiniteSet(P)
  <2> DEFINE f == [r \in Coming |-> r.payee]
  <2>1. P \subseteq ImageOf(f, Coming) BY DEF Recurring, Payees, ImageOf
  <2>2. IsFiniteSet(Coming) BY <1>1, RowsOfHistory
  <2> HIDE DEF f, P
  <2>3. IsFiniteSet(ImageOf(f, Coming)) BY <2>2, FiniteImage
  <2> QED BY <2>1, <2>3, FS_Subset
<1>4. \A p, q \in P : first(p) = first(q) => p = q
  <2> HIDE DEF P, m, first
  <2> QED BY <1>2 DEF AdviceInv
<1>5. \A p, q \in P : <<p, q>> \in R <=> (m(p) < m(q) \/ (m(p) = m(q) /\ first(p) > first(q)))
  <2> HIDE DEF P, m, first
  <2> QED OBVIOUS
<1> HIDE DEF R, P, m, first
<1>6. Orders(R, P) BY <1>2, <1>4, <1>5 DEF Orders
<1>7. PICK p \in P : \A q \in P : p = q \/ <<q, p>> \in R BY <1>3, <1>6, LastExists DEF P
<1>8. ASSUME NEW q \in P PROVE m(q) < m(p) \/ (m(q) = m(p) /\ first(p) <= first(q))
  <2>1. m(p) \in Int /\ m(q) \in Int /\ first(p) \in Nat /\ first(q) \in Nat BY <1>2
  <2>2. CASE p = q BY <2>1, <2>2
  <2>3. CASE <<q, p>> \in R
    <3>1. m(q) < m(p) \/ (m(q) = m(p) /\ first(q) > first(p)) BY <1>5, <2>3
    <3> QED BY <2>1, <3>1
  <2> QED BY <1>7, <2>2, <2>3
<1>9. Income = CHOOSE x \in P :
                 \A q \in P : m(q) < m(x) \/ (m(q) = m(x) /\ first(x) <= first(q))
  BY Zenon DEF Income, P, m, first
<1>10. Income \in P BY <1>8, <1>9
<1> QED BY <1>10 DEF P

----------------------------------------------------------------------------
(* When a charge is due.                                                   *)
LEMMA DueIs ==
  ASSUME NEW t \in Int, NEW m \in 1..(Final - 1), FallsIn(t, m), NEW d \in Int, d >= 1
  PROVE  /\ DueAfter(d, t) = IF DateAt(m, d) <= t THEN DateAt(m + 1, d) ELSE DateAt(m, d)
         /\ DueAfter(d, t) \in Int /\ DueAfter(d, t) > t
<1>1. m \in 1..Final /\ m + 1 \in 1..Final BY CalendarSteps
<1>2. MonthOf(t) = m /\ t \in (Before(m) + 1)..Before(m + 1) BY <1>1, MonthIs
<1>3. DueAfter(d, t) = IF DateAt(m, d) <= t THEN DateAt(m + 1, d) ELSE DateAt(m, d)
  BY <1>2 DEF DueAfter
<1>4. DateAt(m, d) \in Int BY <1>1, DateIs
<1>5. DateAt(m + 1, d) \in Int /\ DateAt(m + 1, d) \in (Before(m + 1) + 1)..Before((m + 1) + 1)
  BY <1>1, DateIs
<1>6. Before(m + 1) \in Nat BY <1>1, CalendarSteps
<1>7. DateAt(m + 1, d) > t BY <1>2, <1>5, <1>6
<1> QED BY <1>3, <1>4, <1>5, <1>7

(* The next income is due the first day after the balance that it is due:  *)
(* the month of the balance is not the last but one of the calendar, so    *)
(* that the month after it has a day of every number.                      *)
LEMMA IncomeIsNext == ASSUME AdviceInv PROVE PaydayIsNext
<1> SUFFICES ASSUME HasPayday
             PROVE  /\ Payday.daysRemaining >= 1
                    /\ Payday.next = Min({t \in (Payday.asOf + 1)..Before(Len(Lengths)) :
                          \E m \in DOMAIN Lengths : t = DateAt(m, ExpectedDay(Income, Coming))})
  BY DEF PaydayIsNext
<1> DEFINE day == ExpectedDay(Income, Coming)
           asOf == Latest.t
           next == DueAfter(day, asOf)
           month == MonthOf(asOf)
           days == {t \in (asOf + 1)..Before(Final) : \E m \in DOMAIN Lengths : t = DateAt(m, day)}
<1>1. Latest \in Movements BY LatestIsKnown DEF HasPayday, AdviceInv
<1>2. asOf \in Nat /\ month \in 1..(Final - 2) /\ FallsIn(asOf, month) BY <1>1, RowDay
<1>3. Final \in Nat /\ DOMAIN Lengths = 1..Final BY AdviceAssumption, CalendarSteps DEF Final
<1>4. day \in Int /\ day >= 1
  <2>1. Coming \in SUBSET history BY DEF Coming
  <2> QED BY <2>1, IncomeRecurs, DayIsExpected DEF HasPayday
<1>5. Payday.asOf = asOf /\ Payday.next = next /\ Payday.daysRemaining = Max({1, next - asOf})
  BY DEF Payday, NextIncome
<1> HIDE DEF day, asOf, month
<1>6. month \in 1..(Final - 1) /\ month \in 1..Final /\ month + 1 \in 1..Final /\ asOf \in Int
  BY <1>2, <1>3
<1>7. /\ next = IF DateAt(month, day) <= asOf THEN DateAt(month + 1, day) ELSE DateAt(month, day)
      /\ next \in Int /\ next > asOf
  BY <1>2, <1>4, <1>6, DueIs
<1>8. DateAt(month, day) <= Before(Final) /\ DateAt(month + 1, day) <= Before(Final)
  <2>1. /\ DateAt(month, day) \in (Before(month) + 1)..Before(month + 1)
        /\ DateAt(month + 1, day) \in (Before(month + 1) + 1)..Before((month + 1) + 1)
    BY <1>4, <1>6, DateIs
  <2>2. month \in 1..(Final + 1) /\ month + 1 \in 1..(Final + 1) /\ (month + 1) + 1 \in 1..(Final + 1)
        /\ Final \in 1..(Final + 1)
    BY <1>3, <1>6
  <2>3. Before(month + 1) <= Before(Final)
    BY <1>2, <1>3, <2>2, MonthsFollow
  <2>4. Before((month + 1) + 1) <= Before(Final)
    <3>1. month + 1 < Final BY <1>2, <1>3
    <3> QED BY <2>2, <3>1, MonthsFollow
  <2>5. {Before(month), Before(month + 1), Before((month + 1) + 1), Before(Final)} \subseteq Nat
    BY <2>2, CalendarSteps
  <2> QED BY <2>1, <2>3, <2>4, <2>5
<1>9. Before(Final) \in Nat
  <2>1. Final \in 1..(Final + 1) BY <1>3, <1>6
  <2> QED BY <2>1, CalendarSteps
<1> HIDE DEF next
<1>10. next \in days
  <2>1. next \in (asOf + 1)..Before(Final) BY <1>2, <1>7, <1>8, <1>9
  <2>2. \E m \in DOMAIN Lengths : next = DateAt(m, day) BY <1>3, <1>6, <1>7
  <2> QED BY <2>1, <2>2
<1>11. ASSUME NEW t \in days PROVE next <= t
  <2>1. t \in Int /\ t > asOf BY <1>2, <1>9
  <2>2. PICK m \in 1..Final : t = DateAt(m, day) BY <1>3
  <2>3. DateAt(month, day) \in Int /\ DateAt(month + 1, day) \in Int /\ DateAt(m, day) \in Int
    BY <1>4, <1>6, DateIs
  <2>4. DateAt(month, day) < DateAt(month + 1, day) BY <1>4, <1>6, DatesFollow
  <2>5. CASE m < month
    <3>1. t \in (Before(m) + 1)..Before(m + 1) BY <1>4, <2>2, DateIs
    <3>2. asOf \in (Before(month) + 1)..Before(month + 1) BY <1>2, <1>6, MonthIs
    <3>3. m \in 1..(Final + 1) /\ month \in 1..(Final + 1) /\ m + 1 \in 1..(Final + 1)
      BY <1>3, <1>6
    <3>4. Before(m + 1) <= Before(month) BY <2>5, <3>3, MonthsFollow
    <3>5. {Before(m), Before(month), Before(m + 1)} \subseteq Nat BY <3>3, CalendarSteps
    <3> QED BY <2>1, <3>1, <3>2, <3>4, <3>5
  <2>6. CASE m = month
    <3>1. t = DateAt(month, day) BY <2>2, <2>6
    <3>2. ~(DateAt(month, day) <= asOf) BY <1>2, <2>1, <2>3, <3>1
    <3> QED BY <1>7, <2>1, <3>1, <3>2
  <2>7. CASE m = month + 1 BY <1>7, <2>2, <2>3, <2>4, <2>7
  <2>8. CASE m > month + 1
    <3>1. DateAt(month + 1, day) < DateAt(m, day) BY <1>4, <1>6, <2>8, DatesFollow
    <3> QED BY <1>7, <2>2, <2>3, <2>4, <3>1
  <2> QED BY <1>6, <2>5, <2>6, <2>7, <2>8
<1>12. IsFiniteSet(days) /\ days \subseteq Int
  <2>1. IsFiniteSet((asOf + 1)..Before(Final)) BY <1>2, <1>9, FS_Interval
  <2> QED BY <1>2, <1>9, <2>1, FS_Subset
<1> HIDE DEF days
<1>13. Min(days) = next BY <1>10, <1>11, <1>12, LeastAmong
<1>14. Max({1, next - asOf}) >= 1
  <2>1. next - asOf \in Int BY <1>2, <1>7
  <2> QED BY <2>1, OfTwo
<1> QED BY <1>5, <1>13, <1>14 DEF days, day, asOf, Final

----------------------------------------------------------------------------
(* The days a rate is measured over, for both agents.                      *)
(* Charges that are read alike by both are grouped alike by both.          *)
LEMMA SameGroup ==
  ASSUME AdviceInv, SameReading, NEW r \in Going
  PROVE  OfNorm(r.norm) = Of(r.payee, Going)
<1>1. \A o \in history : o.in = 0 <=> o \in Going BY DEF SameReading, Going
<1>2. \A o \in Going : o.payee = r.payee <=> o.norm = r.norm BY DEF SameReading
<1>3. Going \subseteq history BY DEF Going
<1> QED BY <1>1, <1>2, <1>3 DEF OfNorm, Of

LEMMA OutsAtLeastOne ==
  ASSUME AdviceInv, NEW p \in Payees(Going) PROVE Median2(Outs(Of(p, Going))) > 0
<1> DEFINE T == Of(p, Going)
<1>1. T \in SUBSET history /\ T # {} /\ T \subseteq Going BY DEF Payees, Of, Going
<1>2. IsFiniteSet(T) /\ \A r \in T : r.out \in Nat BY <1>1, RowsOfHistory
<1>3. \A r \in T : r.out > 0 BY <1>1 DEF Going
<1>4. Outs(T) \in [T -> Int] /\ \A r \in T : Outs(T)[r] >= 1 BY <1>2, <1>3 DEF Outs
<1> HIDE DEF T
<1>5. Median2(Outs(T)) \in Int /\ Median2(Outs(T)) >= 2 * 1
  BY <1>1, <1>2, <1>4, MedianAtLeast
<1> QED BY <1>5 DEF T

LEMMA SameGroups ==
  ASSUME AdviceInv, SameReading
  PROVE  Regular = {Of(p, Going) : p \in Recurring(Going)}
<1>1. Going \subseteq history BY DEF Going
<1>2. ASSUME NEW g \in Regular PROVE \E p \in Recurring(Going) : g = Of(p, Going)
  <2>1. PICK n \in {r.norm : r \in history} \ {Blank} : g = OfNorm(n) BY DEF Regular
  <2>2. Cardinality(MonthsOf(g)) >= 2 BY DEF Regular
  <2>3. g # {}
    <3>1. ASSUME g = {} PROVE FALSE
      <4>1. MonthsOf(g) = {} BY <3>1 DEF MonthsOf
      <4>2. Cardinality(MonthsOf(g)) = 0 BY <4>1, FS_EmptySet
      <4> QED BY <2>2, <4>2
    <3> QED BY <3>1
  <2>4. PICK r \in history : r.in = 0 /\ r.norm = n BY <2>1, <2>3 DEF OfNorm
  <2>5. r \in Going BY <2>4 DEF SameReading, Going
  <2>6. r.payee # Blank BY <2>1, <2>4, <2>5 DEF SameReading
  <2>7. g = Of(r.payee, Going) BY <2>1, <2>4, <2>5, SameGroup
  <2>8. r.payee \in Payees(Going) BY <2>5, <2>6 DEF Payees
  <2> QED BY <2>2, <2>7, <2>8 DEF Recurring
<1>3. ASSUME NEW p \in Recurring(Going) PROVE Of(p, Going) \in Regular
  <2>1. p \in Payees(Going) /\ Cardinality(MonthsOf(Of(p, Going))) >= 2 BY DEF Recurring
  <2>2. PICK r \in Going : r.payee = p /\ p # Blank BY <2>1 DEF Payees
  <2>3. r.norm # Blank BY <2>2 DEF SameReading
  <2>4. Of(p, Going) = OfNorm(r.norm) BY <2>2, SameGroup
  <2>5. r.norm \in {o.norm : o \in history} \ {Blank} BY <1>1, <2>3
  <2>6. Median2(Outs(Of(p, Going))) > 0 BY <2>1, OutsAtLeastOne
  <2> QED BY <2>1, <2>4, <2>5, <2>6 DEF Regular
<1> QED BY <1>2, <1>3

(* A charge is of a group that recurs for the one if it is for the other.  *)
LEMMA SameRest ==
  ASSUME AdviceInv, SameReading, NEW r \in Going
  PROVE  OfNorm(r.norm) \in Regular <=> r.payee \in Recurring(Going)
<1>1. OfNorm(r.norm) = Of(r.payee, Going) BY SameGroup
<1>2. r \in Of(r.payee, Going) BY DEF Of
<1>3. ASSUME OfNorm(r.norm) \in Regular PROVE r.payee \in Recurring(Going)
  <2>1. PICK p \in Recurring(Going) : Of(r.payee, Going) = Of(p, Going)
    BY <1>1, <1>3, SameGroups
  <2>2. r.payee = p BY <1>2, <2>1 DEF Of
  <2> QED BY <2>2
<1>4. ASSUME r.payee \in Recurring(Going) PROVE OfNorm(r.norm) \in Regular
  BY <1>1, <1>4, SameGroups
<1> QED BY <1>3, <1>4

LEMMA SameRate ==
  ASSUME AdviceInv, SameReading, Known # {} PROVE Discretionary = Burn
<1> DEFINE asOf == Latest.t
           low == asOf - (Span - 1)
           some == {r.t : r \in {o \in history : o.t <= asOf}}
           all == {r.t : r \in history}
           first == Min(all)
           begin == Max({low, first})
           rest(from) == {r \in Going : r.t \in from..asOf /\ r.payee \notin Recurring(Going)}
<1>1. Latest \in history BY LatestIsKnown
<1>2. IsFiniteSet(history) /\ \A r \in history : r.t \in Nat BY RowsOfHistory
<1>3. asOf \in Nat /\ low \in Int /\ asOf \in all BY <1>1, <1>2, AdviceAssumption
<1>4. low <= asOf BY <1>3, AdviceAssumption
<1>5. IsFiniteSet(all)
  <2> DEFINE f == [r \in history |-> r.t]
  <2>1. all = ImageOf(f, history) BY DEF ImageOf
  <2> HIDE DEF all, f
  <2> QED BY <1>2, <2>1, FiniteImage
<1>6. all \subseteq Int /\ all # {} BY <1>2, <1>3
<1>7. some = {t \in all : t <= asOf} OBVIOUS
<1> HIDE DEF all, some, low, asOf
<1>8. first \in all /\ \A t \in all : first <= t BY <1>5, <1>6, LeastIs
<1>9. first <= asOf /\ first \in Int BY <1>3, <1>6, <1>8
<1>10. Min(some) = first
  <2>1. some \subseteq all /\ some \subseteq Int BY <1>6, <1>7
  <2>2. IsFiniteSet(some) BY <1>5, <2>1, FS_Subset
  <2>3. first \in some /\ \A t \in some : first <= t BY <1>7, <1>8, <1>9, <2>1
  <2> HIDE DEF first
  <2> QED BY <2>1, <2>2, <2>3, LeastAmong
<1> HIDE DEF first
<1>11. begin = IF low >= first THEN low ELSE first BY <1>3, <1>9, OfTwo
<1> HIDE DEF begin
<1>12. begin \in Int /\ begin <= asOf /\ begin >= low BY <1>3, <1>4, <1>9, <1>11
<1>13. rest(begin) = rest(low)
  <2>1. ASSUME NEW r \in Going PROVE r.t \in begin..asOf <=> r.t \in low..asOf
    <3>1. r.t \in Nat /\ r.t \in all BY <1>2 DEF Going, all
    <3>2. first <= r.t BY <1>8, <3>1
    <3> QED BY <1>3, <1>9, <1>11, <3>1, <3>2
  <2> QED BY <2>1
<1>14. Max({1, asOf - begin + 1}) = asOf - begin + 1
  <2> DEFINE n == asOf - begin + 1
  <2>1. n \in Int /\ n >= 1 BY <1>3, <1>12
  <2> HIDE DEF n
  <2>2. Max({1, n}) = IF 1 >= n THEN 1 ELSE n BY <2>1, OfTwo
  <2>3. Max({1, n}) = n BY <2>1, <2>2
  <2> QED BY <2>3 DEF n
<1>15. Burn = [total |-> MapThenSumSet(OutOf, rest(begin)), days |-> asOf - begin + 1]
  <2>1. {r \in Going : r.t \in begin..asOf /\ OfNorm(r.norm) \notin Regular} = rest(begin)
    BY SameRest
  <2> QED BY <2>1 DEF Burn, asOf, low, all, begin, first
<1>16. Discretionary = [total |-> MapThenSumSet(OutOf, rest(low)),
                        days |-> Max({1, asOf - Max({low, Min(some)}) + 1})]
  BY DEF Discretionary, asOf, low, some
<1>17. Discretionary = [total |-> MapThenSumSet(OutOf, rest(low)),
                        days |-> Max({1, asOf - begin + 1})]
  BY <1>10, <1>16 DEF begin
<1> HIDE DEF rest
<1> QED BY <1>13, <1>14, <1>15, <1>17

(* What a recurring charge usually takes, twice: by payee and by date.     *)
Usual(p) == Median2(Outs(Of(p, Going)))
ByPayee(due) == [p \in due |-> Usual(p)]
ByDate(dues) == [e \in dues |-> Median2(Outs(e[2]))]

LEMMA UsualIsInt ==
  ASSUME AdviceInv, NEW p \in Recurring(Going) PROVE Usual(p) \in Int
<1> DEFINE T == Of(p, Going)
<1>1. T \in SUBSET history /\ T # {} BY RowsOfList DEF Recurring, Payees, Of
<1>2. IsFiniteSet(T) /\ \A r \in T : r.out \in Nat BY <1>1, RowsOfHistory
<1>3. Outs(T) \in [T -> Int] /\ \A r \in T : Outs(T)[r] >= 0 BY <1>2 DEF Outs
<1> HIDE DEF T
<1>4. Median2(Outs(T)) \in Int BY <1>1, <1>2, <1>3, MedianAtLeast
<1> QED BY <1>4 DEF Usual, T

LEMMA ByPayeeIsSum ==
  ASSUME NEW due
  PROVE  MapThenSumSet(LAMBDA p : Median2(Outs(Of(p, Going))), due) = SumOf(ByPayee(due))
<1> DEFINE
  usual(i) == [T \in SUBSET due |->
                 IF T = {} THEN 0 ELSE Median2(Outs(Of(Chosen(T), Going))) + i[T \ {Chosen(T)}]]
  sums(i) == [T \in SUBSET due |->
                IF T = {} THEN 0 ELSE ByPayee(due)[Chosen(T)] + i[T \ {Chosen(T)}]]
  ofUsual == CHOOSE i : i = usual(i)
  ofSums == CHOOSE i : i = sums(i)
<1>1. MapThenSumSet(LAMBDA p : Median2(Outs(Of(p, Going))), due) = ofUsual[due]
  BY Zenon DEF MapThenSumSet, MapThenFoldSet, Chosen
<1>2. DOMAIN ByPayee(due) = due BY DEF ByPayee
<1>3. SumOf(ByPayee(due)) = ofSums[due] BY Zenon, <1>2 DEF SumOf, Chosen
<1>4. \A i : usual(i) = sums(i) BY AnyIn DEF ByPayee, Usual
<1>5. ofUsual = ofSums
  <2> HIDE DEF usual, sums
  <2> QED BY Zenon, <1>4
<1> QED BY <1>1, <1>3, <1>5

LEMMA ByDateIsSum ==
  ASSUME NEW dues
  PROVE  MapThenSumSet(LAMBDA e : Median2(Outs(e[2])), dues) = SumOf(ByDate(dues))
<1> DEFINE
  usual(i) == [T \in SUBSET dues |->
                 IF T = {} THEN 0
                 ELSE Median2(Outs(Chosen(T)[2])) + i[T \ {Chosen(T)}]]
  sums(i) == [T \in SUBSET dues |->
                IF T = {} THEN 0 ELSE ByDate(dues)[Chosen(T)] + i[T \ {Chosen(T)}]]
  ofUsual == CHOOSE i : i = usual(i)
  ofSums == CHOOSE i : i = sums(i)
<1>1. MapThenSumSet(LAMBDA e : Median2(Outs(e[2])), dues) = ofUsual[dues]
  BY Zenon DEF MapThenSumSet, MapThenFoldSet, Chosen
<1>2. DOMAIN ByDate(dues) = dues BY DEF ByDate
<1>3. SumOf(ByDate(dues)) = ofSums[dues] BY Zenon, <1>2 DEF SumOf, Chosen
<1>4. \A i : usual(i) = sums(i) BY AnyIn DEF ByDate
<1>5. ofUsual = ofSums
  <2> HIDE DEF usual, sums
  <2> QED BY Zenon, <1>4
<1> QED BY <1>1, <1>3, <1>5

(* A charge is due once before the next income: the income comes in the    *)
(* month of the balance or in the next, and in the next it comes before    *)
(* what was due in the month of the balance is due again.                  *)
Fits(p, month, next) == \A m \in month..MonthOf(next) : ExpectedDay(p, Going) <= Lengths[m]
DueOn(p) == DueAfter(ExpectedDay(p, Going), Latest.t)

LEMMA DueOnce ==
  ASSUME AdviceInv, HasPayday, NEW p \in Recurring(Going),
         Fits(p, MonthOf(Latest.t), NextIncome),
         NextIncome <= Latest.t + Horizon
  PROVE  /\ DueOn(p) \in Int /\ DueOn(p) > Latest.t
         /\ DueOn(p) < NextIncome =>
              /\ DueOn(p) \in (Latest.t + 1)..(Latest.t + Horizon)
              /\ DayOf(DueOn(p)) = ExpectedDay(p, Going)
         /\ \A t \in (Latest.t + 1)..(Latest.t + Horizon) :
              t < NextIncome /\ DayOf(t) = ExpectedDay(p, Going) => t = DueOn(p)
<1> DEFINE day == ExpectedDay(Income, Coming)
           asOf == Latest.t
           month == MonthOf(asOf)
           d == ExpectedDay(p, Going)
           next == NextIncome
           due == DueOn(p)
<1>1. Latest \in Movements BY LatestIsKnown DEF HasPayday, AdviceInv
<1>2. /\ asOf \in Nat /\ month \in 1..(Final - 2) /\ FallsIn(asOf, month)
      /\ asOf + Horizon <= Before(Final + 1) /\ Horizon \in Nat
  BY <1>1, RowDay, AdviceAssumption
<1>3. Final \in Nat BY CalendarSteps
<1>4. day \in Int /\ day >= 1 /\ d \in Int /\ d >= 1
  <2>1. Coming \in SUBSET history /\ Going \in SUBSET history BY DEF Coming, Going
  <2> QED BY <2>1, IncomeRecurs, DayIsExpected DEF HasPayday
<1>a. next = DueAfter(day, asOf) /\ due = DueAfter(d, asOf) BY DEF NextIncome, DueOn
<1>b. \A m \in month..MonthOf(next) : d <= Lengths[m] BY DEF Fits
<1>c. next <= asOf + Horizon OBVIOUS
<1> HIDE DEF day, asOf, month, d, next, due
<1>6. month \in 1..(Final - 1) /\ month \in 1..Final /\ month + 1 \in 1..Final /\ asOf \in Int
      /\ month < month + 1
  BY <1>2, <1>3
<1>7. /\ next = IF DateAt(month, day) <= asOf THEN DateAt(month + 1, day) ELSE DateAt(month, day)
      /\ next \in Int /\ next > asOf
  BY <1>a, <1>2, <1>4, <1>6, DueIs
<1>8. /\ due = IF DateAt(month, d) <= asOf THEN DateAt(month + 1, d) ELSE DateAt(month, d)
      /\ due \in Int /\ due > asOf
  BY <1>a, <1>2, <1>4, <1>6, DueIs
<1>9. /\ DateAt(month, day) \in Int /\ MonthOf(DateAt(month, day)) = month
      /\ DateAt(month + 1, day) \in Int /\ MonthOf(DateAt(month + 1, day)) = month + 1
  BY <1>4, <1>6, DateIs
<1>10. /\ DateAt(month, d) \in Int /\ MonthOf(DateAt(month, d)) = month
       /\ DateAt(month + 1, d) \in Int /\ MonthOf(DateAt(month + 1, d)) = month + 1
  BY <1>4, <1>6, DateIs
<1>11. MonthOf(next) = month \/ MonthOf(next) = month + 1 BY <1>7, <1>9
<1>12. d <= Lengths[month] BY <1>b, <1>6, <1>11
<1>13. due < next => due \in (asOf + 1)..(asOf + Horizon) /\ DayOf(due) = d
  <2> SUFFICES ASSUME due < next
               PROVE  due \in (asOf + 1)..(asOf + Horizon) /\ DayOf(due) = d
    OBVIOUS
  <2>1. due \in (asOf + 1)..(asOf + Horizon) BY <1>2, <1>7, <1>8, <1>c
  <2>2. CASE due = DateAt(month, d)
    <3>1. DayOf(DateAt(month, d)) = d BY <1>4, <1>6, <1>12, DateIs
    <3> QED BY <2>1, <2>2, <3>1
  <2>3. CASE due = DateAt(month + 1, d) /\ MonthOf(next) = month + 1
    <3>1. d <= Lengths[month + 1] BY <1>b, <1>6, <2>3
    <3>2. DayOf(DateAt(month + 1, d)) = d BY <1>4, <1>6, <3>1, DateIs
    <3> QED BY <2>1, <2>3, <3>2
  <2>4. CASE due = DateAt(month + 1, d) /\ MonthOf(next) = month
    <3>1. next = DateAt(month, day) BY <1>6, <1>7, <1>9, <2>4
    <3>2. DateAt(month, day) < DateAt(month + 1, d) BY <1>4, <1>6, DatesFollow
    <3> QED BY <1>8, <1>9, <1>10, <2>4, <3>1, <3>2
  <2> QED BY <1>8, <1>11, <2>2, <2>3, <2>4
<1>14. ASSUME NEW t \in (asOf + 1)..(asOf + Horizon), t < next, DayOf(t) = d PROVE t = due
  <2> DEFINE k == MonthOf(t)
  <2>1. t \in Int /\ t > asOf /\ t \in 1..Before(Final + 1)
    <3>1. Before(Final + 1) \in Nat
      <4>1. Final + 1 \in 1..(Final + 1) BY <1>3
      <4> QED BY <4>1, CalendarSteps
    <3> QED BY <1>2, <3>1
  <2>2. k \in 1..Final /\ FallsIn(t, k)
    <3>1. Final \in 0..Final BY <1>3
    <3> QED BY <2>1, <3>1, DayHasMonth
  <2>3. t = Before(k) + d /\ d <= Lengths[k] /\ t = DateAt(k, d) /\ Before(k) \in Nat
    <3>1. t - Before(k) = d BY <1>14 DEF DayOf
    <3>2. Before(k) \in Nat /\ Lengths[k] \in Nat BY <2>2, CalendarSteps
    <3>3. d <= Lengths[k] BY <2>2, <3>1, <3>2 DEF FallsIn
    <3>4. DateAt(k, d) = Before(k) + (IF d <= Lengths[k] THEN d ELSE Lengths[k])
      BY <1>4, <2>2, DateIs
    <3> QED BY <2>1, <3>1, <3>2, <3>3, <3>4, <1>4
  <2>4. t \in (Before(k) + 1)..Before(k + 1) BY <2>1, <2>2, MonthIs
  <2>5. asOf \in (Before(month) + 1)..Before(month + 1) BY <1>2, <1>6, MonthIs
  <2> HIDE DEF k
  <2>6. k \in 1..(Final + 1) /\ month \in 1..(Final + 1) /\ k + 1 \in 1..(Final + 1)
        /\ month + 1 \in 1..(Final + 1) /\ (month + 1) + 1 \in 1..(Final + 1)
    BY <1>3, <1>6, <2>2
  <2>7. {Before(k), Before(month), Before(k + 1), Before(month + 1), Before((month + 1) + 1)}
          \subseteq Nat
    BY <2>6, CalendarSteps
  <2>8. ~(k < month)
    <3>1. k < month => Before(k + 1) <= Before(month) BY <2>6, MonthsFollow
    <3> QED BY <2>1, <2>4, <2>5, <2>7, <3>1
  <2>9. CASE k = month
    <3>1. t = DateAt(month, d) BY <2>3, <2>9
    <3>2. ~(DateAt(month, d) <= asOf) BY <1>2, <2>1, <3>1
    <3> QED BY <1>8, <3>1, <3>2
  <2>10. CASE k = month + 1
    <3>1. t = DateAt(month + 1, d) BY <2>3, <2>10
    <3>2. CASE DateAt(month, d) <= asOf BY <1>8, <3>1, <3>2
    <3>3. CASE ~(DateAt(month, d) <= asOf)
      <4> DEFINE low == IF day <= Lengths[month] THEN day ELSE Lengths[month]
                 high == IF day <= Lengths[month + 1] THEN day ELSE Lengths[month + 1]
      <4>1. /\ DateAt(month, day) = Before(month) + low
            /\ DateAt(month + 1, day) = Before(month + 1) + high
        BY <1>4, <1>6, DateIs
      <4>2. DateAt(month, d) = Before(month) + d
        <5>1. DateAt(month, d) = Before(month) + (IF d <= Lengths[month] THEN d ELSE Lengths[month])
          BY <1>4, <1>6, DateIs
        <5> QED BY <1>12, <5>1
      <4>3. Lengths[month] \in Nat /\ Lengths[month + 1] \in Nat BY <1>6, CalendarSteps
      <4>4. low \in Int /\ high \in Int /\ low <= day /\ high <= day
            /\ (low < d => low = day)
        BY <1>4, <1>12, <4>3
      <4> HIDE DEF low, high
      <4>5. t = Before(month + 1) + d BY <2>3, <2>10
      <4>6. CASE DateAt(month, day) <= asOf
        <5>1. next = Before(month + 1) + high BY <1>7, <4>1, <4>6
        <5>2. d < high BY <1>14, <4>4, <4>5, <5>1, <2>7, <1>4
        <5>3. Before(month) + low <= asOf /\ Before(month) + d > asOf
          BY <1>2, <1>4, <2>7, <3>3, <4>1, <4>2, <4>6
        <5>4. low < d BY <1>2, <1>4, <2>7, <4>4, <5>3
        <5> QED BY <1>4, <4>4, <5>2, <5>4
      <4>7. CASE ~(DateAt(month, day) <= asOf)
        <5>1. next = DateAt(month, day) BY <1>7, <4>7
        <5>2. DateAt(month, day) < DateAt(month + 1, d) BY <1>4, <1>6, DatesFollow
        <5> QED BY <1>9, <1>10, <1>14, <2>1, <3>1, <5>1, <5>2
      <4> QED BY <4>6, <4>7
    <3> QED BY <3>2, <3>3
  <2>11. CASE k > month + 1
    <3>1. DateAt(month, day) < DateAt(k, d) /\ DateAt(month + 1, day) < DateAt(k, d)
      <4>1. month < k /\ month + 1 < k BY <1>6, <2>2, <2>11
      <4> QED BY <1>4, <1>6, <2>2, <4>1, DatesFollow
    <3>2. next < t BY <1>7, <2>3, <3>1
    <3> QED BY <1>7, <1>14, <2>1, <3>2
  <2> QED BY <1>6, <2>2, <2>8, <2>9, <2>10, <2>11
<1> QED BY <1>8, <1>13, <1>14 DEF asOf, d, next, due

LEMMA CommittedIsForecast ==
  ASSUME AdviceInv, SameReading, HasPayday,
         \A p \in Recurring(Going) : Fits(p, MonthOf(Latest.t), NextIncome),
         NextIncome <= Latest.t + Horizon
  PROVE  Committed2 = ForecastOut2(NextIncome)
<1> DEFINE next == NextIncome
           due == {p \in Recurring(Going) : DueOn(p) < next}
           dues == {e \in Events : e[1] < next}
           f == [p \in due |-> <<DueOn(p), Of(p, Going)>>]
<1>1. Committed2 = SumOf(ByPayee(due))
  <2>1. Committed2 = MapThenSumSet(LAMBDA p : Median2(Outs(Of(p, Going))), due)
    BY DEF Committed2, DueOn
  <2> QED BY <2>1, ByPayeeIsSum
<1>2. ForecastOut2(next) = SumOf(ByDate(dues))
  <2>1. ForecastOut2(next) = MapThenSumSet(LAMBDA e : Median2(Outs(e[2])), dues)
    BY DEF ForecastOut2
  <2> QED BY <2>1, ByDateIsSum
<1>3. ASSUME NEW p \in due PROVE f[p] \in dues
  <2> DEFINE g == Of(p, Going)
             e == <<DueOn(p), g>>
  <2>1. p \in Recurring(Going) /\ DueOn(p) < next OBVIOUS
  <2>2. DueOn(p) \in (Latest.t + 1)..(Latest.t + Horizon)
        /\ DayOf(DueOn(p)) = UsualDay(g)
    BY <2>1, DueOnce DEF ExpectedDay
  <2>3. g \in Regular BY <2>1, SameGroups
  <2> HIDE DEF g
  <2>4. e[1] = DueOn(p) /\ e[2] = g OBVIOUS
  <2>5. e \in ((Latest.t + 1)..(Latest.t + Horizon)) \X Regular BY <2>2, <2>3
  <2> HIDE DEF next, e
  <2>6. e \in Events BY <2>2, <2>4, <2>5 DEF Events
  <2>7. e \in dues BY <2>1, <2>4, <2>6
  <2> QED BY <2>7 DEF e, g
<1>4. ASSUME NEW e \in dues PROVE \E p \in due : e = f[p]
  <2>1. /\ e[1] \in (Latest.t + 1)..(Latest.t + Horizon) /\ e[2] \in Regular
        /\ e = <<e[1], e[2]>> /\ DayOf(e[1]) = UsualDay(e[2]) /\ e[1] < next
    BY DEF Events
  <2>2. PICK p \in Recurring(Going) : e[2] = Of(p, Going) BY <2>1, SameGroups
  <2>3. DayOf(e[1]) = ExpectedDay(p, Going) BY <2>1, <2>2 DEF ExpectedDay
  <2>4. e[1] = DueOn(p) BY <2>1, <2>3, DueOnce
  <2>5. p \in due BY <2>1, <2>4
  <2> QED BY <2>1, <2>2, <2>4, <2>5
<1>5. IsFiniteSet(due)
  <2> DEFINE payee == [r \in Going |-> r.payee]
  <2>1. Recurring(Going) \subseteq ImageOf(payee, Going) BY DEF Recurring, Payees, ImageOf
  <2>2. IsFiniteSet(Going)
    <3>1. Going \in SUBSET history BY DEF Going
    <3> QED BY <3>1, RowsOfHistory
  <2> HIDE DEF payee
  <2>3. IsFiniteSet(ImageOf(payee, Going)) BY <2>2, FiniteImage
  <2>4. due \subseteq ImageOf(payee, Going) BY <2>1
  <2> HIDE DEF due
  <2> QED BY <2>3, <2>4, FS_Subset
<1>6. ImageOf(f, due) = dues
  <2>1. \A p \in due : f[p] \in dues BY <1>3
  <2>2. \A e \in dues : \E p \in due : e = f[p]
    <3> HIDE DEF f, due, dues
    <3> QED BY <1>4
  <2> HIDE DEF f, due, dues
  <2> QED BY <2>1, <2>2 DEF ImageOf
<1>7. IsFiniteSet(dues)
  <2> HIDE DEF f, due, dues
  <2>1. IsFiniteSet(ImageOf(f, due)) BY <1>5, FiniteImage
  <2> QED BY <1>6, <2>1
<1>8. ByPayee(due) \in [due -> Int] BY UsualIsInt DEF ByPayee
<1>9. ByDate(dues) \in [dues -> Int]
  <2>1. ASSUME NEW e \in dues PROVE Median2(Outs(e[2])) \in Int
    <3>1. PICK p \in due : e = f[p] BY <1>4
    <3>2. e[2] = Of(p, Going) BY <3>1
    <3>3. Usual(p) \in Int BY UsualIsInt
    <3> QED BY <3>2, <3>3 DEF Usual
  <2> HIDE DEF dues
  <2> QED BY <2>1 DEF ByDate
<1>10. Renames(f, due, ByPayee(due), dues, ByDate(dues))
  <2>1. \A p \in due : f[p] = <<DueOn(p), Of(p, Going)>> /\ f[p] \in dues BY <1>3
  <2>2. f \in [due -> dues] BY <2>1
  <2>3. ASSUME NEW p \in due, NEW q \in due, f[p] = f[q] PROVE p = q
    <3>1. Of(p, Going) = Of(q, Going) BY <2>1, <2>3
    <3>2. p \in Payees(Going) BY DEF Recurring
    <3>3. PICK r \in Of(p, Going) : r.payee = p BY <3>2 DEF Payees, Of
    <3> QED BY <3>1, <3>3 DEF Of
  <2>4. \A p \in due : ByDate(dues)[f[p]] = ByPayee(due)[p]
    BY <2>1 DEF ByDate, ByPayee, Usual
  <2> QED BY <2>2, <2>3, <2>4 DEF Renames
<1> DEFINE h == ByPayee(due)
           i == ByDate(dues)
<1> HIDE DEF f, due, dues, h, i
<1>11. PICK g \in [SUBSET due -> Int] : Sums(due, h, g) /\ SumOf(h) = g[due]
  BY <1>5, <1>8, SumsExist DEF h
<1>12. PICK k \in [SUBSET dues -> Int] : Sums(dues, i, k) /\ SumOf(i) = k[dues]
  BY <1>7, <1>9, SumsExist DEF i
<1>13. Sums(due, h, g) /\ Sums(dues, i, k) /\ due \in SUBSET due BY <1>11, <1>12
<1>14. g[due] = k[ImageOf(f, due)]
  <2>1. Renames(f, due, h, dues, i) BY <1>10 DEF h, i
  <2> QED BY <1>5, <1>13, <2>1, SumRenamed
<1> QED BY <1>1, <1>2, <1>6, <1>11, <1>12, <1>14 DEF h, i

LEMMA SameForecast == ASSUME AdviceInv PROVE TwoForecastsAgree
<1> SUFFICES ASSUME HasPayday, SameReading
             PROVE  /\ \/ \E p \in Recurring(Going), m \in MonthOf(Latest.t)..MonthOf(NextIncome) :
                            ExpectedDay(p, Going) > Lengths[m]
                       \/ NextIncome > Latest.t + Horizon
                       \/ Committed2 = ForecastOut2(NextIncome)
                    /\ Discretionary = Burn
  BY DEF TwoForecastsAgree
<1>1. Discretionary = Burn BY SameRate DEF HasPayday
<1> DEFINE month == MonthOf(Latest.t)
           next == NextIncome
           short == \E p \in Recurring(Going), m \in month..MonthOf(next) :
                      ExpectedDay(p, Going) > Lengths[m]
<1>2. Latest \in Movements BY LatestIsKnown DEF HasPayday, AdviceInv
<1>3. /\ Latest.t \in Nat /\ month \in 1..(Final - 2) /\ FallsIn(Latest.t, month)
      /\ Horizon \in Nat /\ Final \in Nat
  BY <1>2, RowDay, CalendarSteps, AdviceAssumption
<1>4. next \in Int /\ MonthOf(next) \in 1..Final
  <2> DEFINE day == ExpectedDay(Income, Coming)
             asOf == Latest.t
  <2>1. day \in Int /\ day >= 1
    <3>1. Coming \in SUBSET history BY DEF Coming
    <3> QED BY <3>1, IncomeRecurs, DayIsExpected DEF HasPayday
  <2>2. next = DueAfter(day, asOf) BY DEF NextIncome
  <2> HIDE DEF day, next, month, asOf
  <2>3. month \in 1..(Final - 1) /\ month \in 1..Final /\ month + 1 \in 1..Final BY <1>3
  <2>4. FallsIn(asOf, month) /\ asOf \in Int BY <1>3 DEF asOf
  <2>5. /\ next \in Int
        /\ next = IF DateAt(month, day) <= asOf THEN DateAt(month + 1, day) ELSE DateAt(month, day)
    BY <2>1, <2>2, <2>3, <2>4, DueIs
  <2>6. MonthOf(DateAt(month, day)) = month /\ MonthOf(DateAt(month + 1, day)) = month + 1
    BY <2>1, <2>3, DateIs
  <2> QED BY <2>3, <2>5, <2>6
<1>5. ASSUME ~short, ~(next > Latest.t + Horizon) PROVE Committed2 = ForecastOut2(next)
  <2>1. next <= Latest.t + Horizon BY <1>3, <1>4, <1>5
  <2>2. ASSUME NEW p \in Recurring(Going) PROVE Fits(p, month, next)
    <3>1. ASSUME NEW m \in month..MonthOf(next) PROVE ExpectedDay(p, Going) <= Lengths[m]
      <4>1. Lengths[m] \in Nat
        <5>1. m \in 1..Final BY <1>3, <1>4
        <5> QED BY <5>1, CalendarSteps
      <4>2. ExpectedDay(p, Going) \in Int
        <5>1. Going \in SUBSET history BY DEF Going
        <5> QED BY <5>1, DayIsExpected
      <4>3. ~(ExpectedDay(p, Going) > Lengths[m]) BY <1>5
      <4> QED BY <4>1, <4>2, <4>3
    <3> QED BY <3>1 DEF Fits
  <2> QED BY <2>1, <2>2, CommittedIsForecast
<1> QED BY <1>1, <1>5

----------------------------------------------------------------------------
(* The transactions the advice is computed from.                           *)
LEMMA AdviceStarts == ASSUME AdviceInit PROVE AdviceInv
BY FS_EmptySet DEF AdviceInit, AdviceInv

LEMMA AdviceSteps == ASSUME AdviceInv, [AdviceNext]_history PROVE AdviceInv'
<1>1. ASSUME NEW r \in Movements, Record(r) PROVE AdviceInv'
  <2>1. history' = history \cup {r} /\ \A o \in history : o.id # r.id BY <1>1 DEF Record
  <2>2. IsFiniteSet(history') BY <2>1, FS_AddElement DEF AdviceInv
  <2> QED BY <2>1, <2>2 DEF AdviceInv
<1>2. ASSUME NEW r \in Movements, Forget(r) PROVE AdviceInv'
  <2>1. history' \subseteq history BY <1>2 DEF Forget
  <2>2. IsFiniteSet(history') BY <2>1, FS_Subset DEF AdviceInv
  <2> QED BY <2>1, <2>2 DEF AdviceInv
<1>3. CASE UNCHANGED history BY <1>3 DEF AdviceInv
<1> QED BY <1>1, <1>2, <1>3 DEF AdviceNext

(* The transactions the advice is computed from are finitely many and no   *)
(* two have one id (S.tx, and nextId of fe/src/app.ts).                    *)
THEOREM AdviceTypeCorrect == AdviceSpec => []AdviceInv
<1>1. AdviceInit => AdviceInv BY AdviceStarts
<1>2. AdviceInv /\ [AdviceNext]_history => AdviceInv' BY AdviceSteps
<1> QED BY <1>1, <1>2, PTL DEF AdviceSpec

(* The next income is the first day after the balance that it is due, so   *)
(* there is always a day to spread the money over (paydayAgent).           *)
THEOREM PaydayCorrect == AdviceSpec => []PaydayIsNext
<1>1. AdviceInv => PaydayIsNext BY IncomeIsNext
<1> QED BY <1>1, AdviceTypeCorrect, PTL

(* What paydayAgent calls committed is what the forecast takes off before  *)
(* the next income, and both measure the rest over the same days: for      *)
(* every calendar, horizon and history whose charges the two read alike.   *)
THEOREM ForecastsCorrect == AdviceSpec => []TwoForecastsAgree
<1>1. AdviceInv => TwoForecastsAgree BY SameForecast
<1> QED BY <1>1, AdviceTypeCorrect, PTL

(* A subscription that is a third dearer than it ever was is reported as   *)
(* unusual, and an unusual subscription as dearer (subscriptionAgent,      *)
(* anomalyAgent).                                                          *)
THEOREM RisesCorrect == AdviceSpec => []RisesAgree
<1>1. AdviceInv => RisesAgree BY SameRise
<1> QED BY <1>1, AdviceTypeCorrect, PTL

(* A household is asked one thing of a payee at most for its year, and one *)
(* of two days a charge was repeated on (savingsOpportunityAgent).         *)
THEOREM ReviewCorrect == AdviceSpec => []OneReview
<1>1. AdviceInv => OneReview BY OneThingAsked
<1> QED BY <1>1, AdviceTypeCorrect, PTL

(* A suggested budget would have been enough in three of four recent       *)
(* months, however many months, amounts and steps there are (budgetAgent,  *)
(* percentile75).                                                          *)
THEOREM BudgetCorrect == AdviceSpec => []BudgetIsEnough
<1>1. AdviceInv => BudgetIsEnough BY BudgetsSuffice
<1> QED BY <1>1, AdviceTypeCorrect, PTL

(* Of charges that look like one another, all but one might be claimed     *)
(* back, and none twice (duplicateAgent).                                  *)
THEOREM DuplicatesCorrect == AdviceSpec => []DuplicatesLeaveOne
<1>1. AdviceInv => DuplicatesLeaveOne BY OneIsLeft
<1> QED BY <1>1, AdviceTypeCorrect, PTL

(* The figures and the advice beside each other are as each is alone.      *)
THEOREM FiguresCorrect ==
  Spec => /\ [](BillIsNotSpending /\ PlanIsTotals /\ TableIsStatements) /\ ReloadKeepsMoney
          /\ [](PaydayIsNext /\ TwoForecastsAgree /\ RisesAgree)
          /\ [](OneReview /\ BudgetIsEnough /\ DuplicatesLeaveOne)
<1>1. Init => MoneyInit /\ AdviceInit BY DEF Init
<1>2. [Next]_<<tx, history, part>> => [MoneyNext]_tx /\ [AdviceNext]_history
  BY DEF Next, MoneyMove, AdviceMove
<1>3. Spec => MoneySpec /\ AdviceSpec BY <1>1, <1>2, PTL DEF Spec, MoneySpec, AdviceSpec
<1>4. MoneySpec => [](BillIsNotSpending /\ PlanIsTotals /\ TableIsStatements) /\ ReloadKeepsMoney
  BY BillsCorrect, PlanCorrect, TableCorrect, ReloadCorrect, PTL
<1>5. AdviceSpec => /\ [](PaydayIsNext /\ TwoForecastsAgree /\ RisesAgree)
                    /\ [](OneReview /\ BudgetIsEnough /\ DuplicatesLeaveOne)
  BY PaydayCorrect, ForecastsCorrect, RisesCorrect, ReviewCorrect, BudgetCorrect,
     DuplicatesCorrect, PTL
<1> QED BY <1>3, <1>4, <1>5, PTL

=============================================================================
