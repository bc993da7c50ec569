--------------------------- MODULE SettingsProofs ---------------------------
(***************************************************************************)
(* Proofs about Settings: the variables have their types, the open drawer  *)
(* is always the state in memory, and a reload takes no row from a rule.   *)
(* The three need each other: "other" is never deleted because the drawer  *)
(* names the category it deletes by the index it was drawn at, and the     *)
(* place of a new category exists because "other" is never deleted.        *)
(***************************************************************************)
EXTENDS Settings, FoldProofs

Good(list) == "other" \in ToSet(list)

SettingsInv ==
  /\ SettingsTypeOK
  /\ DrawerIsCurrent
  /\ Good(S.cats) /\ Good(defaults.cats)

----------------------------------------------------------------------------
(* Lists.                                                                  *)
LEMMA Members ==
  ASSUME NEW X, NEW list \in Seq(X)
  PROVE  /\ Len(list) \in Nat /\ DOMAIN list = 1..Len(list)
         /\ \A i \in DOMAIN list : list[i] \in X
         /\ ToSet(list) \in SUBSET X
BY DEF ToSet

LEMMA RemoveAtIs ==
  ASSUME NEW X, NEW list \in Seq(X), NEW i \in DOMAIN list
  PROVE  /\ RemoveAt(list, i) \in Seq(X)
         /\ \A j \in DOMAIN list : j # i => list[j] \in ToSet(RemoveAt(list, i))
<1> DEFINE n == Len(list)
           a == SubSeq(list, 1, i - 1)
           b == SubSeq(list, i + 1, n)
<1>1. n \in Nat /\ i \in 1..n /\ \A j \in 1..n : list[j] \in X BY Members
<1>2. /\ a \in Seq(X) /\ Len(a) = i - 1 /\ \A j \in 1..(i - 1) : a[j] = list[j]
  <2>1. \A j \in 1..(i - 1) : list[j] \in X BY <1>1
  <2>2. 1 \in Int /\ i - 1 \in Int BY <1>1
  <2>3. /\ a \in Seq(X) /\ Len(a) = IF 1 <= i - 1 THEN (i - 1) - 1 + 1 ELSE 0
        /\ \A j \in 1..((i - 1) - 1 + 1) : a[j] = list[1 + j - 1]
    BY <2>1, <2>2, SubSeqProperties
  <2> HIDE DEF a
  <2> QED BY <1>1, <2>3
<1>3. /\ b \in Seq(X) /\ Len(b) = n - i /\ \A j \in 1..(n - i) : b[j] = list[i + j]
  <2>1. \A j \in (i + 1)..n : list[j] \in X BY <1>1
  <2>2. i + 1 \in Int /\ n \in Int BY <1>1
  <2>3. /\ b \in Seq(X) /\ Len(b) = IF i + 1 <= n THEN n - (i + 1) + 1 ELSE 0
        /\ \A j \in 1..(n - (i + 1) + 1) : b[j] = list[(i + 1) + j - 1]
    BY <2>1, <2>2, SubSeqProperties
  <2> HIDE DEF b
  <2> QED BY <1>1, <2>3
<1>4. RemoveAt(list, i) = a \o b BY DEF RemoveAt
<1> HIDE DEF a, b, n
<1>5. /\ a \o b \in Seq(X) /\ Len(a \o b) = n - 1
      /\ \A j \in 1..(n - 1) : (a \o b)[j] = IF j <= i - 1 THEN a[j] ELSE b[j - (i - 1)]
  <2>1. /\ a \o b \in Seq(X) /\ Len(a \o b) = Len(a) + Len(b)
        /\ \A j \in 1..(Len(a) + Len(b)) :
             (a \o b)[j] = IF j <= Len(a) THEN a[j] ELSE b[j - Len(a)]
    BY <1>2, <1>3, ConcatProperties
  <2>2. Len(a) = i - 1 /\ Len(a) + Len(b) = n - 1 BY <1>1, <1>2, <1>3
  <2> QED BY <2>1, <2>2
<1>6. ASSUME NEW j \in 1..n, j # i PROVE list[j] \in ToSet(a \o b)
  <2>1. CASE j < i
    <3>1. j \in 1..(n - 1) /\ j <= i - 1 /\ j \in 1..(i - 1) BY <1>1, <2>1
    <3>2. (a \o b)[j] = list[j] BY <1>2, <1>5, <3>1
    <3>3. j \in DOMAIN (a \o b) BY <1>5, <3>1
    <3> QED BY <3>2, <3>3 DEF ToSet
  <2>2. CASE j > i
    <3>1. j - 1 \in 1..(n - 1) /\ ~(j - 1 <= i - 1) /\ j - i \in 1..(n - i) BY <1>1, <2>2
    <3>2. (j - 1) - (i - 1) = j - i /\ i + (j - i) = j BY <1>1, <2>2
    <3>3. (a \o b)[j - 1] = list[j] BY <1>3, <1>5, <3>1, <3>2
    <3>4. j - 1 \in DOMAIN (a \o b) BY <1>5, <3>1
    <3> QED BY <3>3, <3>4 DEF ToSet
  <2> QED BY <1>1, <1>6, <2>1, <2>2
<1>7. DOMAIN list = 1..n BY Members DEF n
<1> QED BY <1>4, <1>5, <1>6, <1>7

LEMMA InsertAtIs ==
  ASSUME NEW X, NEW list \in Seq(X), NEW i \in 1..(Len(list) + 1), NEW e \in X
  PROVE  /\ InsertAt(list, i, e) \in Seq(X)
         /\ \A j \in DOMAIN list : list[j] \in ToSet(InsertAt(list, i, e))
         /\ e \in ToSet(InsertAt(list, i, e))
<1> DEFINE n == Len(list)
           a == SubSeq(list, 1, i - 1)
           b == SubSeq(list, i, n)
           ae == a \o <<e>>
<1>1. n \in Nat /\ i \in Nat /\ 1 <= i /\ i <= n + 1 /\ \A j \in 1..n : list[j] \in X
  BY Members
<1>2. /\ a \in Seq(X) /\ Len(a) = i - 1 /\ \A j \in 1..(i - 1) : a[j] = list[j]
  <2>1. \A j \in 1..(i - 1) : list[j] \in X BY <1>1
  <2>2. 1 \in Int /\ i - 1 \in Int BY <1>1
  <2>3. /\ a \in Seq(X) /\ Len(a) = IF 1 <= i - 1 THEN (i - 1) - 1 + 1 ELSE 0
        /\ \A j \in 1..((i - 1) - 1 + 1) : a[j] = list[1 + j - 1]
    BY <2>1, <2>2, SubSeqProperties
  <2> HIDE DEF a
  <2> QED BY <1>1, <2>3
<1>3. /\ b \in Seq(X) /\ Len(b) = n - i + 1 /\ \A j \in 1..(n - i + 1) : b[j] = list[i + j - 1]
  <2>1. \A j \in i..n : list[j] \in X BY <1>1
  <2>2. i \in Int /\ n \in Int BY <1>1
  <2>3. /\ b \in Seq(X) /\ Len(b) = IF i <= n THEN n - i + 1 ELSE 0
        /\ \A j \in 1..(n - i + 1) : b[j] = list[i + j - 1]
    BY <2>1, <2>2, SubSeqProperties
  <2> HIDE DEF b
  <2> QED BY <1>1, <2>3
<1>4. InsertAt(list, i, e) = ae \o b BY DEF InsertAt
<1>5. /\ ae \in Seq(X) /\ Len(ae) = i /\ ae[i] = e
      /\ \A j \in 1..(i - 1) : ae[j] = list[j]
  <2>1. <<e>> \in Seq(X) /\ Len(<<e>>) = 1 /\ <<e>>[1] = e OBVIOUS
  <2> HIDE DEF a
  <2>2. /\ ae \in Seq(X) /\ Len(ae) = (i - 1) + 1
        /\ \A j \in 1..((i - 1) + 1) : ae[j] = IF j <= i - 1 THEN a[j] ELSE <<e>>[j - (i - 1)]
    BY <1>2, <2>1, ConcatProperties
  <2> HIDE DEF ae
  <2>3. (i - 1) + 1 = i /\ i - (i - 1) = 1 /\ ~(i <= i - 1) /\ i \in 1..i BY <1>1
  <2>4. ae[i] = e BY <2>1, <2>2, <2>3
  <2>5. ASSUME NEW j \in 1..(i - 1) PROVE ae[j] = list[j]
    <3>1. j \in 1..((i - 1) + 1) /\ j <= i - 1 BY <1>1
    <3> QED BY <1>2, <2>2, <3>1
  <2> QED BY <2>2, <2>3, <2>4, <2>5
<1> HIDE DEF a, b, n, ae
<1>6. /\ ae \o b \in Seq(X) /\ Len(ae \o b) = n + 1
      /\ \A j \in 1..(n + 1) : (ae \o b)[j] = IF j <= i THEN ae[j] ELSE b[j - i]
  <2>1. /\ ae \o b \in Seq(X) /\ Len(ae \o b) = Len(ae) + Len(b)
        /\ \A j \in 1..(Len(ae) + Len(b)) :
             (ae \o b)[j] = IF j <= Len(ae) THEN ae[j] ELSE b[j - Len(ae)]
    BY <1>3, <1>5, ConcatProperties
  <2>2. Len(ae) = i /\ Len(ae) + Len(b) = n + 1 BY <1>1, <1>3, <1>5
  <2> QED BY <2>1, <2>2
<1>7. DOMAIN (ae \o b) = 1..(n + 1) BY <1>1, <1>6
<1>8. e \in ToSet(ae \o b)
  <2>1. i \in 1..(n + 1) /\ i <= i BY <1>1
  <2> QED BY <1>5, <1>6, <1>7, <2>1 DEF ToSet
<1>9. ASSUME NEW j \in 1..n PROVE list[j] \in ToSet(ae \o b)
  <2>1. CASE j < i
    <3>1. j \in 1..(n + 1) /\ j <= i /\ j \in 1..(i - 1) BY <1>1, <2>1
    <3> QED BY <1>5, <1>6, <1>7, <3>1 DEF ToSet
  <2>2. CASE j >= i
    <3>1. j + 1 \in 1..(n + 1) /\ ~(j + 1 <= i) /\ (j + 1) - i \in 1..(n - i + 1)
      BY <1>1, <2>2
    <3>2. i + ((j + 1) - i) - 1 = j BY <1>1
    <3>3. (ae \o b)[j + 1] = list[j] BY <1>3, <1>6, <3>1, <3>2
    <3> QED BY <1>7, <3>1, <3>3 DEF ToSet
  <2> QED BY <1>1, <2>1, <2>2
<1>10. DOMAIN list = 1..n BY Members DEF n
<1> QED BY <1>4, <1>6, <1>8, <1>9, <1>10

----------------------------------------------------------------------------
(* The folds. Rules that are merged in come after those there were.        *)
Extended(rules) ==
  {list \in Seq(Rules) : /\ Len(rules) <= Len(list)
                         /\ \A i \in 1..Len(rules) : list[i] = rules[i]}

LEMMA WithRulesIs ==
  ASSUME NEW rules \in Seq(Rules), NEW given \in Seq(Rules)
  PROVE  WithRules(rules, given) \in Extended(rules)
<1> DEFINE n == Len(given)
           X == Extended(rules)
           Step(list, r) == IF HasRule(list, r) THEN list ELSE Append(list, r)
           f == [p \in (1..n) \X X |-> Step(p[2], given[p[1]])]
           Body(i) == [t \in SUBSET (1..n) |-> IF t = {} THEN rules
                         ELSE Step(i[t \ {Max(t)}], given[Max(t)])]
           iter == CHOOSE i : i = Body(i)
<1>1. n \in Nat /\ DOMAIN given = 1..n /\ \A k \in 1..n : given[k] \in Rules BY Members
<1>2. WithRules(rules, given) = iter[1..n]
  BY Zenon, <1>1 DEF WithRules, FoldLeft, MapThenFoldSet
<1>3. \A x \in X, k \in 1..n : Step(x, given[k]) \in X
  <2>1. ASSUME NEW x \in X, NEW r \in Rules PROVE Append(x, r) \in X
    <3>1. x \in Seq(Rules) /\ Len(rules) <= Len(x) /\ \A i \in 1..Len(rules) : x[i] = rules[i]
      BY DEF Extended
    <3>2. /\ Append(x, r) \in Seq(Rules) /\ Len(Append(x, r)) = Len(x) + 1
          /\ \A i \in 1..Len(x) : Append(x, r)[i] = x[i]
      BY <3>1, AppendProperties
    <3>3. Len(rules) \in Nat /\ Len(x) \in Nat BY <3>1, Members
    <3>4. \A i \in 1..Len(rules) : i \in 1..Len(x) BY <3>1, <3>3
    <3>5. \A i \in 1..Len(rules) : Append(x, r)[i] = rules[i] BY <3>1, <3>2, <3>4
    <3>6. Len(rules) <= Len(Append(x, r)) BY <3>1, <3>2, <3>3
    <3> QED BY <3>2, <3>5, <3>6 DEF Extended
  <2> QED BY <1>1, <2>1
<1>4. f \in [(1..n) \X X -> X] BY <1>3
<1>5. \A x \in X, k \in 1..n : f[<<k, x>>] = Step(x, given[k]) OBVIOUS
<1>6. rules \in X 
  BY Members DEF Extended
<1> HIDE DEF Step, X, f, n
<1>7. PICK g \in [SUBSET (1..n) -> X] : FoldTable(n, f, rules, g)
  BY <1>1, <1>4, <1>6, FoldExists
<1>8. g = Body(g)
  <2>1. ASSUME NEW t \in SUBSET (1..n)
        PROVE  g[t] = IF t = {} THEN rules ELSE Step(g[t \ {Max(t)}], given[Max(t)])
    <3>1. CASE t = {} BY <1>7, <3>1 DEF FoldTable
    <3>2. CASE t # {}
      <4>1. Max(t) \in 1..n BY <1>1, <3>2, MaxIn
      <4>2. g[t \ {Max(t)}] \in X OBVIOUS
      <4>3. g[t] = f[<<Max(t), g[t \ {Max(t)}]>>] BY <1>7, <3>2 DEF FoldTable
      <4> QED BY <1>5, <3>2, <4>1, <4>2, <4>3
    <3> QED BY <3>1, <3>2
  <2> QED BY <2>1
<1>9. iter = Body(iter)
  <2> HIDE DEF Body
  <2> QED BY Zenon, <1>8
<1> HIDE DEF iter
<1>10. Follows(n, X, f, rules, iter)
  <2>1. iter[{}] = rules BY <1>9
  <2>2. ASSUME NEW t \in SUBSET (1..n), t # {}, iter[t \ {Max(t)}] \in X
        PROVE  iter[t] = f[<<Max(t), iter[t \ {Max(t)}]>>]
    <3>1. Max(t) \in 1..n BY <1>1, <2>2, MaxIn
    <3>2. iter[t] = Step(iter[t \ {Max(t)}], given[Max(t)]) BY <1>9, <2>2
    <3> QED BY <1>5, <2>2, <3>1, <3>2
  <2> QED BY <2>1, <2>2 DEF Follows
<1>11. Chain(n, X, f, rules, iter[1..n]) BY <1>1, <1>4, <1>6, <1>10, FoldChain
<1>12. iter[1..n] \in X BY <1>1, <1>11 DEF Chain
<1> QED BY <1>2, <1>12 DEF X

LEMMA WithoutCatIs ==
  ASSUME NEW rules \in Seq(Rules), NEW c
  PROVE  WithoutCat(rules, c) \in Seq(Rules)
<1> DEFINE n == Len(rules)
           X == Seq(Rules)
           Step(list, r) == IF r.cat = c THEN list ELSE Append(list, r)
           f == [p \in (1..n) \X X |-> Step(p[2], rules[p[1]])]
           Body(i) == [t \in SUBSET (1..n) |-> IF t = {} THEN <<>>
                         ELSE Step(i[t \ {Max(t)}], rules[Max(t)])]
           iter == CHOOSE i : i = Body(i)
<1>1. n \in Nat /\ DOMAIN rules = 1..n /\ \A k \in 1..n : rules[k] \in Rules BY Members
<1>2. WithoutCat(rules, c) = iter[1..n]
  BY Zenon, <1>1 DEF WithoutCat, FoldLeft, MapThenFoldSet
<1>3. \A x \in X, k \in 1..n : Step(x, rules[k]) \in X
  BY <1>1, AppendProperties
<1>4. f \in [(1..n) \X X -> X] BY <1>3
<1>5. \A x \in X, k \in 1..n : f[<<k, x>>] = Step(x, rules[k]) OBVIOUS
<1>6. <<>> \in X OBVIOUS
<1> HIDE DEF Step, X, f, n
<1>7. PICK g \in [SUBSET (1..n) -> X] : FoldTable(n, f, <<>>, g)
  BY <1>1, <1>4, <1>6, FoldExists
<1>8. g = Body(g)
  <2>1. ASSUME NEW t \in SUBSET (1..n)
        PROVE  g[t] = IF t = {} THEN <<>> ELSE Step(g[t \ {Max(t)}], rules[Max(t)])
    <3>1. CASE t = {} BY <1>7, <3>1 DEF FoldTable
    <3>2. CASE t # {}
      <4>1. Max(t) \in 1..n BY <1>1, <3>2, MaxIn
      <4>2. g[t \ {Max(t)}] \in X OBVIOUS
      <4>3. g[t] = f[<<Max(t), g[t \ {Max(t)}]>>] BY <1>7, <3>2 DEF FoldTable
      <4> QED BY <1>5, <3>2, <4>1, <4>2, <4>3
    <3> QED BY <3>1, <3>2
  <2> QED BY <2>1
<1>9. iter = Body(iter)
  <2> HIDE DEF Body
  <2> QED BY Zenon, <1>8
<1> HIDE DEF iter
<1>10. Follows(n, X, f, <<>>, iter)
  <2>1. iter[{}] = <<>> BY <1>9
  <2>2. ASSUME NEW t \in SUBSET (1..n), t # {}, iter[t \ {Max(t)}] \in X
        PROVE  iter[t] = f[<<Max(t), iter[t \ {Max(t)}]>>]
    <3>1. Max(t) \in 1..n BY <1>1, <2>2, MaxIn
    <3>2. iter[t] = Step(iter[t \ {Max(t)}], rules[Max(t)]) BY <1>9, <2>2
    <3> QED BY <1>5, <2>2, <3>1, <3>2
  <2> QED BY <2>1, <2>2 DEF Follows
<1>11. Chain(n, X, f, <<>>, iter[1..n]) BY <1>1, <1>4, <1>6, <1>10, FoldChain
<1>12. iter[1..n] \in X BY <1>1, <1>11 DEF Chain
<1> QED BY <1>2, <1>12 DEF X

(* Every default category is there after a merge.                           *)
LEMMA WithCatsIs ==
  ASSUME NEW cats \in Seq(AllCats), NEW given \in Seq(AllCats)
  PROVE  /\ WithCats(cats, given) \in Seq(AllCats)
         /\ ToSet(given) \subseteq ToSet(WithCats(cats, given))
<1> DEFINE n == Len(given)
           X == Seq(AllCats)
           at == [i \in DOMAIN given |-> i]
           Place(list, i) == IF i <= Len(list) THEN i ELSE Len(list) + 1
           Step(list, i) == IF given[i] \in ToSet(list) THEN list
                            ELSE InsertAt(list, Place(list, i), given[i])
           f == [p \in (1..n) \X X |-> Step(p[2], at[p[1]])]
           Body(i) == [t \in SUBSET (1..n) |-> IF t = {} THEN cats
                         ELSE Step(i[t \ {Max(t)}], at[Max(t)])]
           iter == CHOOSE i : i = Body(i)
<1>1. /\ n \in Nat /\ DOMAIN given = 1..n /\ DOMAIN at = 1..n
      /\ \A k \in 1..n : given[k] \in AllCats /\ at[k] = k
  BY Members
<1>2. WithCats(cats, given) = iter[1..n]
  BY Zenon, <1>1 DEF WithCats, FoldLeft, MapThenFoldSet
<1>a. ASSUME NEW x \in X, NEW k \in 1..n
      PROVE  /\ Step(x, k) \in X /\ given[k] \in ToSet(Step(x, k))
             /\ ToSet(x) \subseteq ToSet(Step(x, k))
  <2>1. CASE given[k] \in ToSet(x) BY <2>1
  <2>2. CASE given[k] \notin ToSet(x)
    <3>1. Place(x, k) \in 1..(Len(x) + 1)
      <4>1. Len(x) \in Nat BY Members
      <4> QED BY <1>1, <4>1
    <3> DEFINE y == InsertAt(x, Place(x, k), given[k])
    <3> HIDE DEF Place
    <3>2. /\ y \in Seq(AllCats) /\ given[k] \in ToSet(y)
          /\ \A j \in DOMAIN x : x[j] \in ToSet(y)
      BY <1>1, <3>1, InsertAtIs
    <3>3. Step(x, k) = y BY <2>2
    <3> HIDE DEF y
    <3>4. ToSet(x) \subseteq ToSet(y) BY <3>2 DEF ToSet
    <3> QED BY <3>2, <3>3, <3>4
  <2> QED BY <2>1, <2>2
<1>3. \A x \in X, k \in 1..n : Step(x, at[k]) \in X BY <1>1, <1>a
<1>4. f \in [(1..n) \X X -> X] BY <1>3
<1>5. \A x \in X, k \in 1..n : f[<<k, x>>] = Step(x, at[k]) OBVIOUS
<1>6. cats \in X OBVIOUS
<1> HIDE DEF Step, X, f, n
<1>7. PICK g \in [SUBSET (1..n) -> X] : FoldTable(n, f, cats, g)
  BY <1>1, <1>4, <1>6, FoldExists
<1>8. g = Body(g)
  <2>1. ASSUME NEW t \in SUBSET (1..n)
        PROVE  g[t] = IF t = {} THEN cats ELSE Step(g[t \ {Max(t)}], at[Max(t)])
    <3>1. CASE t = {} BY <1>7, <3>1 DEF FoldTable
    <3>2. CASE t # {}
      <4>1. Max(t) \in 1..n BY <1>1, <3>2, MaxIn
      <4>2. g[t \ {Max(t)}] \in X OBVIOUS
      <4>3. g[t] = f[<<Max(t), g[t \ {Max(t)}]>>] BY <1>7, <3>2 DEF FoldTable
      <4> QED BY <1>5, <3>2, <4>1, <4>2, <4>3
    <3> QED BY <3>1, <3>2
  <2> QED BY <2>1
<1>9. iter = Body(iter)
  <2> HIDE DEF Body
  <2> QED BY Zenon, <1>8
<1> HIDE DEF iter
<1>10. Follows(n, X, f, cats, iter)
  <2>1. iter[{}] = cats BY <1>9
  <2>2. ASSUME NEW t \in SUBSET (1..n), t # {}, iter[t \ {Max(t)}] \in X
        PROVE  iter[t] = f[<<Max(t), iter[t \ {Max(t)}]>>]
    <3>1. Max(t) \in 1..n BY <1>1, <2>2, MaxIn
    <3>2. iter[t] = Step(iter[t \ {Max(t)}], at[Max(t)]) BY <1>9, <2>2
    <3> QED BY <1>5, <2>2, <3>1, <3>2
  <2> QED BY <2>1, <2>2 DEF Follows
<1>11. Chain(n, X, f, cats, iter[1..n]) BY <1>1, <1>4, <1>6, <1>10, FoldChain
<1>12. PICK c \in [0..n -> X] : /\ c[0] = cats /\ c[n] = iter[1..n]
                              /\ \A k \in 1..n : c[k] = f[<<k, c[k - 1]>>]
  BY <1>11 DEF Chain
<1> DEFINE P == {k \in 0..n : \A j \in 1..k : given[j] \in ToSet(c[k])}
<1>13. 0 \in P BY <1>1
<1>14. ASSUME NEW k \in 1..n, k - 1 \in P PROVE k \in P
  <2>1. k - 1 \in 0..n /\ k \in 0..n BY <1>1
  <2>2. c[k - 1] \in X BY <2>1
  <2>3. c[k] = Step(c[k - 1], k) BY <1>1, <1>5, <1>12, <2>2
  <2>4. given[k] \in ToSet(c[k]) /\ ToSet(c[k - 1]) \subseteq ToSet(c[k])
    BY <1>a, <2>2, <2>3
  <2>5. ASSUME NEW j \in 1..k PROVE given[j] \in ToSet(c[k])
    <3>1. CASE j = k BY <2>4, <3>1
    <3>2. CASE j # k
      <4>1. j \in 1..(k - 1) BY <3>2
      <4> QED BY <1>14, <2>4, <4>1
    <3> QED BY <3>1, <3>2
  <2> QED BY <2>1, <2>5
<1>15. n \in P
  <2> HIDE DEF P, at, Place
  <2>1. n \in Nat BY <1>1
  <2>2. \A k \in 0..n : k \in P BY <2>1, <1>13, <1>14, Induction
  <2> QED BY <2>1, <2>2
<1>16. iter[1..n] \in X /\ \A j \in 1..n : given[j] \in ToSet(iter[1..n])
  BY <1>1, <1>12, <1>15
<1>17. ToSet(given) \subseteq ToSet(iter[1..n]) BY <1>1, <1>16 DEF ToSet
<1> QED BY <1>2, <1>16, <1>17 DEF X

----------------------------------------------------------------------------
(* States and drawers.                                                     *)
IdSet    == ToSet(RuleIdsOf(DefaultRules)) \cup RuleIds
Defaults == [rules : Seq(Rules), cats : Seq(AllCats)]
DrawnOnes == [open : {TRUE}, rules : Seq(IdSet), cats : Seq(AllCats), form : SUBSET AllCats]
Drawers  == DrawnOnes \cup {ClosedDrawer}
Current(d, s) == d.open => d.rules = RuleIdsOf(s.rules) /\ d.cats = s.cats

LEMMA StateIs ==
  ASSUME NEW s \in States
  PROVE  /\ s.rules \in Seq(Rules) /\ s.cats \in Seq(AllCats)
         /\ s.chosen \in AllCats \cup {None} /\ s.budgets \in SUBSET AllCats
         /\ s.goals \in 0..(GoalLimit + 1)
BY DEF States

LEMMA OtherIsCat == "other" \in AllCats
BY SettingsAssumption DEF AllCats

LEMMA RuleIn ==
  ASSUME NEW id \in IdSet, NEW match \in Texts \cup {"", Long}, NEW cat \in AllCats
  PROVE  Rule(id, match, cat) \in Rules
BY DEF Rule, Rules, IdSet

LEMMA RuleParts ==
  ASSUME NEW r \in Rules
  PROVE  /\ r.id \in IdSet
         /\ \A text \in Texts \cup {Long} : [r EXCEPT !.match = text] \in Rules
         /\ \A c \in AllCats : [r EXCEPT !.cat = c] \in Rules
BY DEF Rules, IdSet

LEMMA IdsAre ==
  ASSUME NEW list \in Seq(Rules)
  PROVE  RuleIdsOf(list) \in Seq(IdSet)
<1>1. Len(list) \in Nat /\ DOMAIN list = 1..Len(list) /\ \A i \in DOMAIN list : list[i] \in Rules
  BY Members
<1>2. \A i \in 1..Len(list) : list[i].id \in IdSet BY <1>1, RuleParts
<1>3. RuleIdsOf(list) \in [1..Len(list) -> IdSet] BY <1>1, <1>2 DEF RuleIdsOf
<1> QED BY <1>1, <1>3

(* A drawer that was just drawn is current.                                *)
LEMMA DrawnIs ==
  ASSUME NEW s \in States, NEW form \in SUBSET AllCats
  PROVE  Drawn(s, form) \in Drawers /\ Current(Drawn(s, form), s)
BY StateIs, IdsAre DEF Drawn, Drawers, DrawnOnes, Current

LEMMA ClosedIs == ASSUME NEW s PROVE ClosedDrawer \in Drawers /\ Current(ClosedDrawer, s)
BY DEF ClosedDrawer, Drawers, Current

LEMMA OpenParts ==
  ASSUME NEW d \in Drawers, d.open
  PROVE  /\ d.rules \in Seq(IdSet) /\ d.cats \in Seq(AllCats) /\ d.form \in SUBSET AllCats
<1>1. ClosedDrawer.open = FALSE BY DEF ClosedDrawer
<1>2. d \in DrawnOnes BY <1>1 DEF Drawers
<1> QED BY <1>2 DEF DrawnOnes

LEMMA InvIs ==
  SettingsInv <=>
    /\ S \in States /\ saved \in States \cup {None}
    /\ shared \in {"arrays", "objects", "nothing"} /\ defaults \in Defaults
    /\ drawer \in Drawers /\ Current(drawer, S)
    /\ Good(S.cats) /\ Good(defaults.cats)
BY DEF SettingsInv, SettingsTypeOK, DrawerIsCurrent, Defaults, Drawers, DrawnOnes, Current, IdSet

LEMMA RedrawIs ==
  ASSUME SettingsInv, NEW s \in States, Redraw(s)
  PROVE  drawer' \in Drawers /\ Current(drawer', s)
<1>1. drawer \in Drawers BY InvIs
<1>2. CASE drawer.open
  <2>1. drawer.form \in SUBSET AllCats BY <1>1, <1>2, OpenParts
  <2>2. drawer' = Drawn(s, drawer.form) BY <1>2 DEF Redraw
  <2> QED BY <2>1, <2>2, DrawnIs
<1>3. CASE ~drawer.open
  <2>1. drawer' = drawer BY <1>3 DEF Redraw
  <2>2. drawer' \in Drawers BY <1>1, <2>1
  <2>3. Current(drawer', s) BY <1>3, <2>1 DEF Current
  <2> QED BY <2>2, <2>3
<1> QED BY <1>2, <1>3

(* The drawer stays right when neither ids nor categories change.          *)
LEMMA SameDrawer ==
  ASSUME SettingsInv, NEW s \in States, s.cats = S.cats,
         RuleIdsOf(s.rules) = RuleIdsOf(S.rules), UNCHANGED drawer
  PROVE  drawer' \in Drawers /\ Current(drawer', s)
BY InvIs DEF Current

LEMMA InPlaceIs ==
  ASSUME SettingsInv, NEW s \in States, Good(s.cats), InPlace(s.rules, s.cats)
  PROVE  /\ defaults' \in Defaults /\ Good(defaults'.cats)
         /\ shared' \in {"arrays", "objects", "nothing"}
<1>1. defaults \in Defaults /\ Good(defaults.cats) /\ shared \in {"arrays", "objects", "nothing"}
  BY InvIs
<1>2. s.rules \in Seq(Rules) /\ s.cats \in Seq(AllCats) BY StateIs
<1>3. [rules |-> s.rules, cats |-> s.cats] \in Defaults
      /\ [defaults EXCEPT !.cats = s.cats] \in Defaults
      /\ [defaults EXCEPT !.cats = s.cats].cats = s.cats
  BY <1>1, <1>2 DEF Defaults
<1> QED BY <1>1, <1>3 DEF InPlace

LEMMA SaveStep ==
  ASSUME NEW s \in States, Good(s.cats), Save(s),
         defaults' \in Defaults, Good(defaults'.cats),
         shared' \in {"arrays", "objects", "nothing"},
         drawer' \in Drawers, Current(drawer', s)
  PROVE  SettingsInv'
<1>1. S' = s /\ saved' = s BY DEF Save
<1>2. /\ S' \in States /\ saved' \in States \cup {None}
      /\ shared' \in {"arrays", "objects", "nothing"} /\ defaults' \in Defaults
      /\ drawer' \in Drawers /\ (drawer'.open => drawer'.rules = RuleIdsOf(S'.rules)
                                                  /\ drawer'.cats = S'.cats)
      /\ Good(S'.cats) /\ Good(defaults'.cats)
  BY <1>1 DEF Current
<1> QED BY <1>2 DEF SettingsInv, SettingsTypeOK, DrawerIsCurrent, Defaults, Drawers, DrawnOnes, IdSet

----------------------------------------------------------------------------
(* The actions, one by one.                                                *)
LEMMA EditRuleStep ==
  ASSUME SettingsInv, NEW i \in DOMAIN S.rules, NEW r \in Rules,
         r.id = S.rules[i].id, EditRule(i, r)
  PROVE  SettingsInv'
<1> DEFINE rules == [S.rules EXCEPT ![i] = r]
           s == [S EXCEPT !.rules = rules]
<1>1. /\ S \in States /\ Good(S.cats) /\ defaults \in Defaults /\ Good(defaults.cats)
      /\ shared \in {"arrays", "objects", "nothing"}
  BY InvIs
<1>2. S.rules \in Seq(Rules) BY <1>1, StateIs
<1>3. rules \in Seq(Rules) /\ RuleIdsOf(rules) = RuleIdsOf(S.rules)
  <2>1. rules \in Seq(Rules) BY <1>2
  <2>2. DOMAIN rules = DOMAIN S.rules OBVIOUS
  <2>3. \A j \in DOMAIN S.rules : rules[j].id = S.rules[j].id OBVIOUS
  <2> HIDE DEF rules
  <2> QED BY <2>1, <2>2, <2>3 DEF RuleIdsOf
<1>4. s \in States /\ s.cats = S.cats /\ s.rules = rules
  <2> HIDE DEF rules
  <2> QED BY <1>1, <1>3 DEF States
<1>5. EditedRules(defaults.rules, r) \in Seq(Rules)
  <2>1. defaults.rules \in Seq(Rules) BY <1>1 DEF Defaults
  <2>2. /\ Len(defaults.rules) \in Nat /\ DOMAIN defaults.rules = 1..Len(defaults.rules)
        /\ \A j \in DOMAIN defaults.rules : defaults.rules[j] \in Rules
    BY <2>1, Members
  <2>3. EditedRules(defaults.rules, r) \in [1..Len(defaults.rules) -> Rules]
    BY <2>2 DEF EditedRules
  <2> QED BY <2>2, <2>3
<1>6. /\ Save(s) /\ UNCHANGED <<shared, drawer>>
      /\ defaults' = IF shared = "nothing" THEN defaults
                     ELSE [defaults EXCEPT !.rules = EditedRules(defaults.rules, r)]
  BY DEF EditRule
<1>7. defaults' \in Defaults /\ defaults'.cats = defaults.cats BY <1>1, <1>5, <1>6 DEF Defaults
<1> HIDE DEF rules, s
<1>8. drawer' \in Drawers /\ Current(drawer', s) BY <1>3, <1>4, <1>6, SameDrawer
<1> QED BY <1>1, <1>4, <1>6, <1>7, <1>8, SaveStep

LEMMA RuleMatchStep ==
  ASSUME SettingsInv, NEW i \in DOMAIN S.rules, NEW text \in Texts \cup {Long},
         RuleMatch(i, text)
  PROVE  SettingsInv'
<1> DEFINE r == [S.rules[i] EXCEPT !.match = text]
<1>1. S.rules \in Seq(Rules) BY InvIs, StateIs
<1>2. S.rules[i] \in Rules BY <1>1, Members
<1>3. r \in Rules /\ r.id = S.rules[i].id
  <2>1. r \in Rules BY <1>2, RuleParts
  <2>2. r.id = S.rules[i].id BY <1>2 DEF Rules
  <2> QED BY <2>1, <2>2
<1>4. EditRule(i, r) BY DEF RuleMatch
<1> HIDE DEF r
<1> QED BY <1>3, <1>4, EditRuleStep

LEMMA RuleCatStep ==
  ASSUME SettingsInv, NEW i \in DOMAIN S.rules, NEW c \in Wanted, RuleCat(i, c)
  PROVE  SettingsInv'
<1> DEFINE r == [S.rules[i] EXCEPT !.cat = c]
<1>1. S.rules \in Seq(Rules) BY InvIs, StateIs
<1>2. S.rules[i] \in Rules /\ c \in AllCats BY <1>1, Members, SettingsAssumption
<1>3. r \in Rules /\ r.id = S.rules[i].id
  <2>1. r \in Rules BY <1>2, RuleParts
  <2>2. r.id = S.rules[i].id BY <1>2 DEF Rules
  <2> QED BY <2>1, <2>2
<1>4. EditRule(i, r) BY DEF RuleCat
<1> HIDE DEF r
<1> QED BY <1>3, <1>4, EditRuleStep

(* A handler that changes lists in place and draws the drawer again.       *)
LEMMA RedrawnStep ==
  ASSUME SettingsInv, NEW s \in States, Good(s.cats), Save(s), Redraw(s),
         InPlace(s.rules, s.cats)
  PROVE  SettingsInv'
<1>1. /\ defaults' \in Defaults /\ Good(defaults'.cats)
      /\ shared' \in {"arrays", "objects", "nothing"}
  BY InPlaceIs
<1>2. drawer' \in Drawers /\ Current(drawer', s) BY RedrawIs
<1> QED BY <1>1, <1>2, SaveStep

LEMMA DeleteRuleStep ==
  ASSUME SettingsInv, NEW i \in DOMAIN S.rules, DeleteRule(i)
  PROVE  SettingsInv'
<1> DEFINE rules == RemoveAt(S.rules, i)
           s == [S EXCEPT !.rules = rules]
<1>1. S \in States /\ Good(S.cats) BY InvIs
<1>2. rules \in Seq(Rules) BY <1>1, StateIs, RemoveAtIs
<1>3. s \in States /\ s.cats = S.cats
  <2> HIDE DEF rules
  <2> QED BY <1>1, <1>2 DEF States
<1>4. Save(s) /\ Redraw(s) /\ InPlace(s.rules, s.cats) BY Zenon DEF DeleteRule
<1> HIDE DEF s
<1> QED BY <1>1, <1>3, <1>4, RedrawnStep

(* The category the row names is the one that is removed, and is not the   *)
(* one every household needs.                                              *)
LEMMA DeleteCatStep ==
  ASSUME SettingsInv, NEW i \in DOMAIN S.cats, DeleteCat(i)
  PROVE  SettingsInv'
<1> DEFINE c == drawer.cats[i]
           cats == RemoveAt(S.cats, i)
           rules == WithoutCat(S.rules, c)
           s == [S EXCEPT !.chosen = IF S.chosen = c THEN None ELSE S.chosen, !.rules = rules,
                          !.budgets = S.budgets \ {c}, !.cats = cats]
<1>1. /\ S \in States /\ Good(S.cats) /\ defaults \in Defaults /\ Good(defaults.cats)
      /\ Current(drawer, S) /\ shared \in {"arrays", "objects", "nothing"}
  BY InvIs
<1>2. /\ drawer.open /\ c \notin {"other", "income"} /\ Save(s) /\ Redraw(s)
      /\ IF shared = "nothing" THEN UNCHANGED <<defaults, shared>>
         ELSE shared' = "objects" /\ defaults' = [defaults EXCEPT !.cats = s.cats]
  BY Zenon DEF DeleteCat
<1>3. S.cats[i] # "other" BY <1>1, <1>2 DEF Current
<1>4. S.cats \in Seq(AllCats) /\ S.rules \in Seq(Rules) BY <1>1, StateIs
<1>5. cats \in Seq(AllCats) /\ \A j \in DOMAIN S.cats : j # i => S.cats[j] \in ToSet(cats)
  BY <1>4, RemoveAtIs
<1>6. Good(cats)
  <2>1. PICK j \in DOMAIN S.cats : S.cats[j] = "other" BY <1>1 DEF Good, ToSet
  <2> HIDE DEF cats
  <2> QED BY <1>3, <1>5, <2>1 DEF Good
<1>7. rules \in Seq(Rules) BY <1>4, WithoutCatIs
<1> HIDE DEF c, cats, rules
<1>8. s \in States /\ s.cats = cats BY <1>1, <1>5, <1>7 DEF States
<1>9. [defaults EXCEPT !.cats = cats] \in Defaults /\ [defaults EXCEPT !.cats = cats].cats = cats
  BY <1>1, <1>5 DEF Defaults
<1> HIDE DEF s
<1>10. /\ defaults' \in Defaults /\ Good(defaults'.cats)
       /\ shared' \in {"arrays", "objects", "nothing"}
  BY <1>1, <1>2, <1>6, <1>8, <1>9
<1>11. drawer' \in Drawers /\ Current(drawer', s) BY <1>2, <1>8, RedrawIs
<1> QED BY <1>2, <1>6, <1>8, <1>10, <1>11, SaveStep

LEMMA FirstCat ==
  ASSUME NEW s \in States, Good(s.cats)
  PROVE  /\ s.cats[1] \in AllCats /\ Len(s.cats) \in 1..(Len(s.cats) + 1)
<1>1. s.cats \in Seq(AllCats) BY StateIs
<1>2. /\ Len(s.cats) \in Nat /\ DOMAIN s.cats = 1..Len(s.cats)
      /\ \A i \in DOMAIN s.cats : s.cats[i] \in AllCats
  BY <1>1, Members
<1>3. PICK i \in DOMAIN s.cats : TRUE BY DEF Good, ToSet
<1> QED BY <1>2, <1>3

(* A rule in front of the others.                                          *)
LEMMA RuleFirst ==
  ASSUME NEW s \in States, NEW r \in Rules
  PROVE  /\ [s EXCEPT !.rules = <<r>> \o s.rules] \in States
         /\ [s EXCEPT !.rules = <<r>> \o s.rules].cats = s.cats
<1>1. s.rules \in Seq(Rules) BY StateIs
<1>2. <<r>> \in Seq(Rules) OBVIOUS
<1> DEFINE rules == <<r>> \o s.rules
<1>3. rules \in Seq(Rules) BY <1>1, <1>2, ConcatProperties
<1>4. [s EXCEPT !.rules = rules] \in States /\ [s EXCEPT !.rules = rules].cats = s.cats
  <2> HIDE DEF rules
  <2> QED BY <1>3 DEF States
<1> QED BY <1>4

LEMMA AddRuleStep ==
  ASSUME SettingsInv, NEW id \in RuleIds, AddRule(id)
  PROVE  SettingsInv'
<1> DEFINE r == Rule(id, "", S.cats[1])
           s == [S EXCEPT !.rules = <<r>> \o S.rules]
<1>1. S \in States /\ Good(S.cats) BY InvIs
<1>2. r \in Rules BY <1>1, FirstCat, RuleIn DEF IdSet
<1>3. Save(s) /\ Redraw(s) /\ InPlace(s.rules, s.cats) BY Zenon DEF AddRule
<1> HIDE DEF r
<1>4. s \in States /\ s.cats = S.cats BY <1>1, <1>2, RuleFirst
<1> HIDE DEF s
<1> QED BY <1>1, <1>3, <1>4, RedrawnStep

LEMMA AddCatStep ==
  ASSUME SettingsInv, NEW id \in CatIds, AddCat(id)
  PROVE  SettingsInv'
<1> DEFINE cats == InsertAt(S.cats, Len(S.cats), id)
           s == [S EXCEPT !.cats = cats]
<1>1. S \in States /\ Good(S.cats) BY InvIs
<1>2. S.cats \in Seq(AllCats) /\ id \in AllCats BY <1>1, StateIs DEF AllCats
<1>3. cats \in Seq(AllCats) /\ \A j \in DOMAIN S.cats : S.cats[j] \in ToSet(cats)
  BY <1>1, <1>2, FirstCat, InsertAtIs
<1>4. Save(s) /\ Redraw(s) /\ InPlace(s.rules, s.cats) BY Zenon DEF AddCat
<1> HIDE DEF cats
<1>5. Good(cats) BY <1>1, <1>3 DEF Good, ToSet
<1>6. s \in States /\ s.cats = cats BY <1>1, <1>3 DEF States
<1> HIDE DEF s
<1> QED BY <1>4, <1>5, <1>6, RedrawnStep

(* Handlers that change neither a rule nor the list of categories.         *)
SameLists(s) == s \in States /\ s.rules = S.rules /\ s.cats = S.cats

LEMMA SameListsStep ==
  ASSUME SettingsInv, NEW s, SameLists(s), Save(s), UNCHANGED <<defaults, shared>>,
         drawer' = drawer \/ drawer' = ClosedDrawer
  PROVE  SettingsInv'
<1>1. /\ s \in States /\ Good(s.cats) /\ defaults' \in Defaults /\ Good(defaults'.cats)
      /\ shared' \in {"arrays", "objects", "nothing"}
  BY InvIs DEF SameLists
<1>2. CASE drawer' = drawer
  <2>1. drawer' \in Drawers /\ Current(drawer', s) BY <1>1, <1>2, SameDrawer DEF SameLists
  <2> QED BY <1>1, <2>1, SaveStep
<1>3. CASE drawer' = ClosedDrawer
  <2>1. drawer' \in Drawers /\ Current(drawer', s) BY <1>3, ClosedIs
  <2> QED BY <1>1, <2>1, SaveStep
<1> QED BY <1>2, <1>3

LEMMA SameParts ==
  ASSUME SettingsInv
  PROVE  /\ \A c \in AllCats : SameLists([S EXCEPT !.chosen = c])
         /\ \A b \in SUBSET AllCats : SameLists([S EXCEPT !.budgets = b])
         /\ \A g \in 0..(GoalLimit + 1) : SameLists([S EXCEPT !.goals = g])
<1>1. S \in States BY InvIs
<1> QED BY <1>1 DEF States, SameLists

LEMMA BudgetStep ==
  ASSUME SettingsInv, NEW c \in Wanted, Budget(c)
  PROVE  SettingsInv'
<1>1. PICK given \in BOOLEAN :
        Save([S EXCEPT !.budgets = IF given THEN S.budgets \cup {c} ELSE S.budgets \ {c}])
  BY DEF Budget
<1> DEFINE b == IF given THEN S.budgets \cup {c} ELSE S.budgets \ {c}
<1>2. c \in AllCats /\ S.budgets \in SUBSET AllCats
  BY InvIs, StateIs, SettingsAssumption
<1>3. b \in SUBSET AllCats BY <1>2
<1>4. UNCHANGED <<defaults, shared, drawer>> BY DEF Budget
<1> HIDE DEF b
<1>5. SameLists([S EXCEPT !.budgets = b]) BY <1>3, SameParts
<1>6. Save([S EXCEPT !.budgets = b]) BY <1>1 DEF b
<1> QED BY <1>4, <1>5, <1>6, SameListsStep

LEMMA ApproveBudgetStep ==
  ASSUME SettingsInv, NEW c \in Wanted, ApproveBudget(c)
  PROVE  SettingsInv'
<1> DEFINE b == S.budgets \cup {c}
<1>1. c \in AllCats /\ S.budgets \in SUBSET AllCats
  BY InvIs, StateIs, SettingsAssumption
<1>2. b \in SUBSET AllCats BY <1>1
<1>3. Save([S EXCEPT !.budgets = b]) /\ UNCHANGED <<defaults, shared, drawer>>
  BY DEF ApproveBudget
<1> HIDE DEF b
<1>4. SameLists([S EXCEPT !.budgets = b]) BY <1>2, SameParts
<1> QED BY <1>3, <1>4, SameListsStep

LEMMA ChooseStep ==
  ASSUME SettingsInv, NEW c \in Wanted, Manual(c) \/ Choose(c)
  PROVE  SettingsInv'
<1>1. c \in AllCats BY SettingsAssumption
<1>2. SameLists([S EXCEPT !.chosen = c]) BY <1>1, SameParts
<1>3. /\ Save([S EXCEPT !.chosen = c]) /\ UNCHANGED <<defaults, shared>>
      /\ drawer' = drawer \/ drawer' = ClosedDrawer
  BY DEF Manual, Choose
<1> QED BY <1>2, <1>3, SameListsStep

LEMMA GoalsStep == ASSUME SettingsInv, Goals PROVE SettingsInv'
<1>1. S.goals \in 0..(GoalLimit + 1) BY InvIs, StateIs
<1>2. PICK g \in 0..(GoalLimit + 1) : Save([S EXCEPT !.goals = g])
  <2>1. CASE S.goals <= GoalLimit /\ Save([S EXCEPT !.goals = S.goals + 1])
    <3>1. S.goals + 1 \in 0..(GoalLimit + 1) BY <1>1, <2>1, SettingsAssumption
    <3> QED BY <2>1, <3>1
  <2>2. CASE S.goals > 0 /\ Save([S EXCEPT !.goals = S.goals - 1])
    <3>1. S.goals - 1 \in 0..(GoalLimit + 1) BY <1>1, <2>2, SettingsAssumption
    <3> QED BY <2>2, <3>1
  <2> QED BY <2>1, <2>2 DEF Goals
<1>3. SameLists([S EXCEPT !.goals = g]) BY SameParts
<1>4. UNCHANGED <<defaults, shared, drawer>> BY DEF Goals
<1> QED BY <1>2, <1>3, <1>4, SameListsStep

LEMMA ApproveRuleStep ==
  ASSUME SettingsInv, NEW id \in RuleIds, NEW text \in Texts, ApproveRule(id, text)
  PROVE  SettingsInv'
<1> DEFINE r == Rule(id, text, S.chosen)
           s == [S EXCEPT !.rules = <<r>> \o S.rules]
<1>1. S \in States /\ Good(S.cats) BY InvIs
<1>2. S.chosen \in AllCats BY <1>1, StateIs DEF ApproveRule
<1>3. r \in Rules BY <1>2, RuleIn DEF IdSet
<1>4. ~drawer.open /\ Save(s) /\ InPlace(s.rules, s.cats) /\ UNCHANGED drawer
  BY Zenon DEF ApproveRule
<1> HIDE DEF r
<1>5. s \in States /\ s.cats = S.cats BY <1>1, <1>3, RuleFirst
<1> HIDE DEF s
<1>6. drawer' \in Drawers /\ Current(drawer', s) BY <1>4, InvIs DEF Current
<1>7. /\ defaults' \in Defaults /\ Good(defaults'.cats)
      /\ shared' \in {"arrays", "objects", "nothing"}
  BY <1>1, <1>4, <1>5, InPlaceIs
<1> QED BY <1>1, <1>4, <1>5, <1>6, <1>7, SaveStep

LEMMA OpenDrawerStep == ASSUME SettingsInv, OpenDrawer \/ CloseDrawer PROVE SettingsInv'
<1>1. S \in States BY InvIs
<1>2. S.cats \in Seq(AllCats) BY <1>1, StateIs
<1>3. ToSet(S.cats) \in SUBSET AllCats BY <1>2, Members
<1>4. UNCHANGED <<S, saved, defaults, shared>> BY DEF OpenDrawer, CloseDrawer
<1>5. drawer' \in Drawers /\ Current(drawer', S)
  <2>1. CASE drawer' = ClosedDrawer BY <2>1, ClosedIs
  <2>2. CASE drawer' = Drawn(S, ToSet(S.cats)) BY <1>1, <1>3, <2>2, DrawnIs
  <2> QED BY <2>1, <2>2 DEF OpenDrawer, CloseDrawer
<1> QED BY <1>4, <1>5 DEF SettingsInv, SettingsTypeOK, DrawerIsCurrent, Drawers, DrawnOnes,
           Current, IdSet

(* A state that was read and completed.                                    *)
LEMMA Completed ==
  ASSUME NEW s \in States, NEW d \in Defaults, Good(d.cats), NEW t,
         t = [s EXCEPT !.rules = WithRules(s.rules, d.rules), !.cats = WithCats(s.cats, d.cats)]
  PROVE  t \in States /\ Good(t.cats) /\ t.rules \in Extended(s.rules)
<1> DEFINE rules == WithRules(s.rules, d.rules)
           cats == WithCats(s.cats, d.cats)
<1>1. s.rules \in Seq(Rules) /\ s.cats \in Seq(AllCats) BY StateIs
<1>2. d.rules \in Seq(Rules) /\ d.cats \in Seq(AllCats) BY DEF Defaults
<1>3. rules \in Extended(s.rules) BY <1>1, <1>2, WithRulesIs
<1>4. cats \in Seq(AllCats) /\ ToSet(d.cats) \subseteq ToSet(cats) BY <1>1, <1>2, WithCatsIs
<1>5. t = [s EXCEPT !.rules = rules, !.cats = cats] OBVIOUS
<1> HIDE DEF rules, cats
<1>6. rules \in Seq(Rules) BY <1>3 DEF Extended
<1>7. t \in States /\ t.rules = rules /\ t.cats = cats BY <1>4, <1>5, <1>6 DEF States
<1> QED BY <1>3, <1>4, <1>7 DEF Good

LEMMA RestoreStep ==
  ASSUME SettingsInv, NEW b \in Backups, Restore(b)
  PROVE  SettingsInv'
<1> DEFINE s == Decode(b)
<1>1. b \in States BY SettingsAssumption
<1>2. defaults \in Defaults /\ Good(defaults.cats) BY InvIs
<1>3. s = [b EXCEPT !.rules = WithRules(b.rules, defaults.rules),
                    !.cats = WithCats(b.cats, defaults.cats)]
  BY DEF Decode
<1>4. Save(s) /\ Redraw(s) /\ shared' = "nothing" /\ UNCHANGED defaults
  BY Zenon DEF Restore
<1> HIDE DEF s
<1>5. s \in States /\ Good(s.cats) BY <1>1, <1>2, <1>3, Completed
<1>6. drawer' \in Drawers /\ Current(drawer', s) BY <1>4, <1>5, RedrawIs
<1> QED BY <1>2, <1>4, <1>5, <1>6, SaveStep

Fresh == [rules |-> DefaultRules, cats |-> DefaultCats]

LEMMA StartIs ==
  /\ Start \in States /\ Start.cats = DefaultCats /\ Good(DefaultCats)
  /\ Fresh \in Defaults /\ Fresh.rules = DefaultRules /\ Fresh.cats = DefaultCats
<1>1. 0 \in 0..(GoalLimit + 1) BY SettingsAssumption
<1> QED BY <1>1, SettingsAssumption DEF Start, States, Good, Fresh, Defaults

(* What a reload that found a state makes of it.                           *)
Loaded == [saved EXCEPT !.rules = WithRules(saved.rules, DefaultRules),
                        !.cats  = WithCats(saved.cats, DefaultCats)]

LEMMA LoadedIs ==
  ASSUME saved \in States
  PROVE  Loaded \in States /\ Good(Loaded.cats) /\ Loaded.rules \in Extended(saved.rules)
<1>1. Loaded = [saved EXCEPT !.rules = WithRules(saved.rules, Fresh.rules),
                             !.cats  = WithCats(saved.cats, Fresh.cats)]
  BY StartIs DEF Loaded
<1>2. Fresh \in Defaults /\ Good(Fresh.cats) BY StartIs
<1> QED BY <1>1, <1>2, Completed

LEMMA ReloadCases ==
  ASSUME Reload
  PROVE  /\ defaults' = Fresh /\ drawer' = ClosedDrawer
         /\ \/ S' = Start /\ shared' = "arrays" /\ UNCHANGED saved
            \/ saved # None /\ shared' = "nothing" /\ Save(Loaded)
BY DEF Reload, Fresh, Loaded

LEMMA ReloadStep == ASSUME SettingsInv, Reload PROVE SettingsInv'
<1>1. defaults' = Fresh /\ drawer' = ClosedDrawer BY ReloadCases
<1>2. defaults' \in Defaults /\ Good(defaults'.cats) BY <1>1, StartIs
<1>3. saved \in States \cup {None} BY InvIs
<1>4. CASE S' = Start /\ shared' = "arrays" /\ UNCHANGED saved
  <2>1. drawer' \in Drawers /\ Current(drawer', S') BY <1>1, ClosedIs
  <2>2. S' \in States /\ Good(S'.cats) BY <1>4, StartIs
  <2> QED BY <1>2, <1>3, <1>4, <2>1, <2>2 DEF SettingsInv, SettingsTypeOK, DrawerIsCurrent,
             Defaults, Drawers, DrawnOnes, Current, IdSet
<1>5. CASE saved # None /\ shared' = "nothing" /\ Save(Loaded)
  <2>1. Loaded \in States /\ Good(Loaded.cats) BY <1>3, <1>5, LoadedIs
  <2>2. drawer' \in Drawers /\ Current(drawer', Loaded) BY <1>1, ClosedIs
  <2> QED BY <1>2, <1>5, <2>1, <2>2, SaveStep
<1> QED BY <1>4, <1>5, ReloadCases

----------------------------------------------------------------------------
LEMMA InvHolds == SettingsSpec => []SettingsInv
<1>1. SettingsInit => SettingsInv
  <2> SUFFICES ASSUME SettingsInit PROVE SettingsInv OBVIOUS
  <2>1. /\ S = Start /\ saved = None /\ shared = "arrays" /\ defaults = Fresh
        /\ drawer = ClosedDrawer
    BY DEF SettingsInit, Fresh
  <2>2. drawer \in Drawers /\ Current(drawer, S) BY <2>1, ClosedIs
  <2> QED BY <2>1, <2>2, StartIs, InvIs
<1>2. SettingsInv /\ [SettingsNext]_settingsVars => SettingsInv'
  <2> SUFFICES ASSUME SettingsInv, [SettingsNext]_settingsVars PROVE SettingsInv' OBVIOUS
  <2>1. CASE UNCHANGED settingsVars
    BY <2>1 DEF settingsVars, SettingsInv, SettingsTypeOK, DrawerIsCurrent
  <2>2. ASSUME NEW i \in DOMAIN S.rules,
               \/ DeleteRule(i)
               \/ \E text \in Texts \cup {Long} : RuleMatch(i, text)
               \/ \E c \in Wanted : RuleCat(i, c)
        PROVE  SettingsInv'
    BY <2>2, DeleteRuleStep, RuleMatchStep, RuleCatStep
  <2>3. CASE InDrawer
    BY <2>2, <2>3, DeleteCatStep, AddRuleStep, AddCatStep, BudgetStep, ChooseStep,
       OpenDrawerStep DEF InDrawer
  <2>4. CASE OpenDrawer \/ Goals \/ Reload
    BY <2>4, OpenDrawerStep, GoalsStep, ReloadStep
  <2>5. ASSUME NEW c \in Wanted, Choose(c) \/ ApproveBudget(c) PROVE SettingsInv'
    BY <2>5, ChooseStep, ApproveBudgetStep
  <2>6. ASSUME NEW id \in RuleIds, NEW text \in Texts, ApproveRule(id, text)
        PROVE  SettingsInv'
    BY <2>6, ApproveRuleStep
  <2>7. ASSUME NEW b \in Backups, Restore(b) PROVE SettingsInv'
    BY <2>7, RestoreStep
  <2> QED BY <2>1, <2>3, <2>4, <2>5, <2>6, <2>7 DEF SettingsNext
<1> QED BY <1>1, <1>2, PTL DEF SettingsSpec

(* The state in memory, the one in storage, the defaults and the drawer    *)
(* keep their types: no handler asks for a position a list does not have,  *)
(* and every household keeps the category "other" (app.ts, deleteCategory).*)
THEOREM SettingsTypeCorrect == SettingsSpec => []SettingsTypeOK
<1>1. SettingsInv => SettingsTypeOK BY DEF SettingsInv
<1> QED BY <1>1, InvHolds, PTL

(* The i-th row of an open drawer is of the i-th rule and of the i-th      *)
(* category of the state in memory (app.ts, renderDrawer).                 *)
THEOREM DrawerCorrect == SettingsSpec => []DrawerIsCurrent
<1>1. SettingsInv => DrawerIsCurrent BY DEF SettingsInv
<1> QED BY <1>1, InvHolds, PTL

LEMMA LeastOf ==
  ASSUME NEW T \in SUBSET Nat, T # {}
  PROVE  \E i \in T : \A j \in T : i <= j
<1> DEFINE Less == {p \in Nat \X Nat : p[1] < p[2]}
<1>1. IsWellFoundedOn(Less, Nat) BY Zenon, NatLessThanWellFounded DEF OpToRel
<1>2. PICK i \in T : \A j \in T : <<j, i>> \notin Less
  <2> HIDE DEF Less
  <2> QED BY <1>1, WFMin
<1>3. ASSUME NEW j \in T PROVE i <= j
  <2>1. <<j, i>> \in Nat \X Nat /\ ~(j < i) BY <1>2
  <2> QED BY <2>1
<1> QED BY <1>3

(* A longer list files a text under the rule the shorter one did.          *)
LEMMA SameCategory ==
  ASSUME NEW rules \in Seq(Rules), NEW list \in Extended(rules), NEW text,
         Matching(rules, text) # {}
  PROVE  Category(list, text) = Category(rules, text)
<1> DEFINE T == Matching(rules, text)
           U == Matching(list, text)
<1>1. list \in Seq(Rules) /\ Len(rules) <= Len(list)
      /\ \A i \in 1..Len(rules) : list[i] = rules[i]
  BY DEF Extended
<1>2. /\ Len(rules) \in Nat /\ Len(list) \in Nat
      /\ DOMAIN rules = 1..Len(rules) /\ DOMAIN list = 1..Len(list)
  BY <1>1, Members
<1>3. T \subseteq 1..Len(rules) /\ T \subseteq U /\ U \subseteq 1..Len(list)
      /\ \A i \in U : i \in 1..Len(rules) => i \in T
  BY <1>1, <1>2 DEF Matching
<1> HIDE DEF T, U
<1>4. T \in SUBSET Nat BY <1>2, <1>3
<1>5. PICK i \in T : \A j \in T : i <= j BY <1>4, LeastOf DEF T
<1>6. i \in Nat /\ i <= Len(rules) /\ i \in U BY <1>2, <1>3
<1>7. \A j \in U : i <= j
  <2>1. ASSUME NEW j \in U PROVE i <= j
    <3>1. j \in Nat /\ 1 <= j BY <1>2, <1>3
    <3>2. CASE j <= Len(rules)
      <4>1. j \in T BY <1>2, <1>3, <3>1, <3>2
      <4> QED BY <1>5, <4>1
    <3>3. CASE ~(j <= Len(rules)) BY <1>2, <1>6, <3>1, <3>3
    <3> QED BY <3>2, <3>3
  <2> QED BY <2>1
<1>8. ASSUME NEW k \in T, \A j \in T : k <= j PROVE k = i
  <2>1. k \in Nat BY <1>4
  <2> QED BY <1>5, <1>6, <1>8, <2>1
<1>9. ASSUME NEW k \in U, \A j \in U : k <= j PROVE k = i
  <2>1. k \in Nat BY <1>2, <1>3
  <2> QED BY <1>6, <1>7, <1>9, <2>1
<1>10. (CHOOSE k \in T : \A j \in T : k <= j) = i BY <1>5, <1>8
<1>11. (CHOOSE k \in U : \A j \in U : k <= j) = i BY <1>6, <1>7, <1>9
<1>12. Category(rules, text) = rules[i].cat
  BY Zenon, <1>10 DEF Category, T
<1>13. Category(list, text) = list[i].cat
  <2>1. U # {} BY <1>6
  <2> QED BY Zenon, <1>11, <2>1 DEF Category, U
<1> QED BY <1>1, <1>3, <1>12, <1>13

(* A reload puts the default rules behind those of the household: a text a *)
(* rule matched keeps the category that rule gave it                       *)
(* (AppStateCodec.decode, RuleBasedTransactionCategorizer).                *)
THEOREM ReloadCorrect == SettingsSpec => ReloadKeepsCategories
<1> DEFINE Kept == \A text \in Texts :
             Matching(saved.rules, text) # {} =>
               Category(S'.rules, text) = Category(saved.rules, text)
<1>1. ASSUME SettingsInv, Reload, saved' = S' PROVE Kept
  <2>1. saved \in States \cup {None} BY <1>1, InvIs
  <2>2. CASE S' = Start /\ UNCHANGED saved
    <3>1. S' = saved BY <1>1, <2>2
    <3> QED BY <3>1
  <2>3. CASE saved # None /\ Save(Loaded)
    <3>1. saved \in States BY <2>1, <2>3
    <3>2. saved.rules \in Seq(Rules) /\ Loaded.rules \in Extended(saved.rules)
      BY <3>1, StateIs, LoadedIs
    <3>3. S' = Loaded BY <2>3 DEF Save
    <3> QED BY <3>2, <3>3, SameCategory
  <2> QED BY <1>1, <2>2, <2>3, ReloadCases
<1>2. SettingsInv /\ [SettingsNext]_settingsVars
        => [Reload /\ saved' = S' => Kept]_settingsVars
  BY <1>1
<1> QED BY <1>2, InvHolds, PTL DEF SettingsSpec, ReloadKeepsCategories

=============================================================================
