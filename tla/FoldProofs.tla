----------------------------- MODULE FoldProofs -----------------------------
(***************************************************************************)
(* What the proofs about the components need of the library: induction up  *)
(* to a number, that FoldLeft and FlattenSeq go through a sequence from    *)
(* its first element to its last, and that the copies in a bag and the     *)
(* sums of a set may be counted in any order, by parts and under other     *)
(* names. The library defines a fold by recursion over a set of positions  *)
(* or members; here the positions are 1..n, the function that is folded is *)
(* a function of a position and a value, and the values stay in a set X.   *)
(***************************************************************************)
EXTENDS Naturals, SequencesExt, Bags, FiniteSetTheorems, SequenceTheorems, WellFoundedInduction,
        TLAPS

(* Induction up to n, for membership in a set.                             *)
LEMMA Induction ==
  ASSUME NEW n \in Nat, NEW P, 0 \in P,
         \A k \in 1..n : k - 1 \in P => k \in P
  PROVE  \A k \in 0..n : k \in P
<1> DEFINE Off == {k \in 0..n : k \notin P}
           Less == {p \in Nat \X Nat : p[1] < p[2]}
<1>1. SUFFICES ASSUME Off # {} PROVE FALSE OBVIOUS
<1>2. IsWellFoundedOn(Less, Nat) BY Zenon, NatLessThanWellFounded DEF OpToRel
<1>3. Off \subseteq Nat OBVIOUS
<1>4. PICK k \in Off : \A j \in Off : <<j, k>> \notin Less
  <2> HIDE DEF Off, Less
  <2> QED BY <1>1, <1>2, <1>3, WFMin
<1>5. k \in 1..n /\ k - 1 \in Nat BY SMT
<1>6. k - 1 \notin P BY <1>5
<1>7. k - 1 \in Off /\ <<k - 1, k>> \in Nat \X Nat /\ k - 1 < k BY <1>5, <1>6
<1>8. <<k - 1, k>> \in Less BY <1>7
<1> QED BY <1>4, <1>7, <1>8

LEMMA MaxOf ==
  ASSUME NEW m \in Nat, NEW t \in SUBSET (1..m), m \in t
  PROVE  Max(t) = m
<1>1. \A y \in t : m >= y OBVIOUS
<1>2. \A x \in t : (\A y \in t : x >= y) => x = m BY <1>1
<1>3. Max(t) \in t /\ \A y \in t : Max(t) >= y BY <1>1 DEF Max
<1> QED BY <1>2, <1>3

LEMMA MaxIn ==
  ASSUME NEW n \in Nat, NEW t \in SUBSET (1..n), t # {}
  PROVE  Max(t) \in t
<1> DEFINE P == {k \in 0..n : \A u \in SUBSET (1..k) : u # {} => Max(u) \in u}
<1>1. 0 \in P
  <2>1. \A u \in SUBSET (1..0) : u = {} OBVIOUS
  <2>2. \A u \in SUBSET (1..0) : u # {} => Max(u) \in u BY <2>1
  <2> QED BY <2>2
<1>2. ASSUME NEW k \in 1..n, k - 1 \in P PROVE k \in P
  <2>1. ASSUME NEW u \in SUBSET (1..k), u # {} PROVE Max(u) \in u
    <3>1. CASE k \in u BY <3>1, MaxOf
    <3>2. CASE k \notin u
      <4>1. u \in SUBSET (1..(k - 1)) BY <3>2
      <4> QED BY <1>2, <2>1, <4>1
    <3> QED BY <3>1, <3>2
  <2> QED BY <2>1
<1>3. n \in P
  <2> HIDE DEF P
  <2> QED BY <1>1, <1>2, Induction
<1> QED BY <1>3

(* A fold of f from base: its value on every set of positions.             *)
FoldTable(n, f, base, g) ==
  \A t \in SUBSET (1..n) :
    g[t] = IF t = {} THEN base ELSE f[<<Max(t), g[t \ {Max(t)}]>>]

LEMMA FoldExists ==
  ASSUME NEW n \in Nat, NEW X, NEW base \in X, NEW f \in [(1..n) \X X -> X]
  PROVE  \E g \in [SUBSET (1..n) -> X] : FoldTable(n, f, base, g)
<1> DEFINE P == {k \in 0..n : \E g \in [SUBSET (1..k) -> X] : FoldTable(k, f, base, g)}
<1>1. 0 \in P
  <2> DEFINE g == [t \in SUBSET (1..0) |-> base]
  <2>1. g \in [SUBSET (1..0) -> X] OBVIOUS
  <2>2. \A t \in SUBSET (1..0) : t = {} OBVIOUS
  <2>3. FoldTable(0, f, base, g) BY <2>2 DEF FoldTable
  <2> QED BY <2>1, <2>3
<1>2. ASSUME NEW k \in 1..n, k - 1 \in P PROVE k \in P
  <2>1. PICK h \in [SUBSET (1..(k - 1)) -> X] : FoldTable(k - 1, f, base, h)
    BY <1>2
  <2> DEFINE g == [t \in SUBSET (1..k) |->
                     IF k \in t THEN f[<<k, h[t \ {k}]>>] ELSE h[t]]
  <2>2. \A t \in SUBSET (1..k) : t \ {k} \in SUBSET (1..(k - 1)) OBVIOUS
  <2>3. g \in [SUBSET (1..k) -> X]
    <3>1. ASSUME NEW t \in SUBSET (1..k) PROVE g[t] \in X
      <4>1. CASE k \in t
        <5>1. h[t \ {k}] \in X BY <2>2
        <5> QED BY <4>1, <5>1
      <4>2. CASE k \notin t
        <5>1. t \in SUBSET (1..(k - 1)) BY <2>2, <4>2
        <5> QED BY <4>2, <5>1
      <4> QED BY <4>1, <4>2
    <3> QED BY <3>1
  <2>4. ASSUME NEW t \in SUBSET (1..k)
        PROVE  g[t] = IF t = {} THEN base ELSE f[<<Max(t), g[t \ {Max(t)}]>>]
    <3>1. CASE k \in t
      <4>1. Max(t) = k BY <3>1, MaxOf
      <4>2. g[t \ {k}] = h[t \ {k}] BY <2>2
      <4> QED BY <3>1, <4>1, <4>2
    <3>2. CASE k \notin t
      <4>1. t \in SUBSET (1..(k - 1)) BY <2>2, <3>2
      <4>2. h[t] = IF t = {} THEN base ELSE f[<<Max(t), h[t \ {Max(t)}]>>]
        BY <2>1, <4>1 DEF FoldTable
      <4>3. g[t] = h[t] BY <3>2
      <4>4. t \ {Max(t)} \in SUBSET (1..k) /\ k \notin t \ {Max(t)} BY <3>2
      <4>5. g[t \ {Max(t)}] = h[t \ {Max(t)}] BY <4>4
      <4> QED BY <4>2, <4>3, <4>5
    <3> QED BY <3>1, <3>2
  <2>5. FoldTable(k, f, base, g) 
    <3> HIDE DEF g
    <3> QED BY <2>4 DEF FoldTable
  <2>6. \E j \in [SUBSET (1..k) -> X] : FoldTable(k, f, base, j)
    <3> HIDE DEF g
    <3> QED BY <2>3, <2>5
  <2> QED BY <2>6
<1>3. n \in P
  <2> HIDE DEF P
  <2> QED BY <1>1, <1>2, Induction
<1> QED BY <1>3

Follows(n, X, f, base, iter) ==
  /\ iter[{}] = base
  /\ \A t \in SUBSET (1..n) : t # {} /\ iter[t \ {Max(t)}] \in X =>
       iter[t] = f[<<Max(t), iter[t \ {Max(t)}]>>]
Chain(n, X, f, base, last) ==
  \E c \in [0..n -> X] : /\ c[0] = base /\ c[n] = last
                         /\ \A k \in 1..n : c[k] = f[<<k, c[k - 1]>>]

(* What FoldLeft chooses goes through the positions in order.              *)
LEMMA FoldChain ==
  ASSUME NEW n \in Nat, NEW X, NEW base \in X, NEW f \in [(1..n) \X X -> X],
         NEW iter, Follows(n, X, f, base, iter)
  PROVE  Chain(n, X, f, base, iter[1..n])
<1> USE DEF Follows
<1> DEFINE c == [k \in 0..n |-> iter[1..k]]
           P == {k \in 0..n : iter[1..k] \in X}
<1>1. 1..0 = {} OBVIOUS
<1>2. 0 \in P BY <1>1
<1>3. ASSUME NEW k \in 1..n
      PROVE  /\ 1..k \in SUBSET (1..n) /\ 1..k # {}
             /\ Max(1..k) = k /\ (1..k) \ {Max(1..k)} = 1..(k - 1)
  <2>1. 1..k \in SUBSET (1..n) /\ k \in 1..k OBVIOUS
  <2>2. Max(1..k) = k BY <2>1, MaxOf
  <2>3. (1..k) \ {k} = 1..(k - 1) OBVIOUS
  <2> QED BY <2>1, <2>2, <2>3
<1>4. ASSUME NEW k \in 1..n, k - 1 \in P
      PROVE  iter[1..k] = f[<<k, iter[1..(k - 1)]>>]
  BY <1>3, <1>4
<1>5. ASSUME NEW k \in 1..n, k - 1 \in P PROVE k \in P
  <2>1. <<k, iter[1..(k - 1)]>> \in (1..n) \X X BY <1>5
  <2> QED BY <1>4, <1>5, <2>1
<1>6. \A k \in 0..n : k \in P
  <2> HIDE DEF P
  <2> QED BY <1>2, <1>5, Induction
<1>7. c \in [0..n -> X] BY <1>6
<1>8. c[0] = base /\ c[n] = iter[1..n] BY <1>1
<1>9. ASSUME NEW k \in 1..n PROVE c[k] = f[<<k, c[k - 1]>>]
  <2>1. k - 1 \in P /\ k - 1 \in 0..n /\ k \in 0..n BY <1>6
  <2> QED BY <1>4, <2>1
<1>10. \E d \in [0..n -> X] : /\ d[0] = base /\ d[n] = iter[1..n]
                              /\ \A k \in 1..n : d[k] = f[<<k, d[k - 1]>>]
  <2> HIDE DEF c, P
  <2> QED BY <1>7, <1>8, <1>9
<1> QED BY <1>10 DEF Chain

(* What FlattenSeq chooses, step by step.                                  *)
Joined(n, parts, whole) ==
  \A i \in 1..n : whole[i] = IF i = 1 THEN parts[i] ELSE whole[i - 1] \o parts[i]

LEMMA JoinedExists ==
  ASSUME NEW n \in Nat, NEW X, NEW parts \in [1..n -> Seq(X)]
  PROVE  \E whole \in [1..n -> Seq(X)] : Joined(n, parts, whole)
<1> DEFINE P == {k \in 0..n : \E whole \in [1..k -> Seq(X)] : Joined(k, parts, whole)}
<1>1. 0 \in P
  <2> DEFINE whole == [i \in 1..0 |-> <<>>]
  <2>1. whole \in [1..0 -> Seq(X)] /\ Joined(0, parts, whole) BY DEF Joined
  <2> HIDE DEF whole
  <2>2. \E w \in [1..0 -> Seq(X)] : Joined(0, parts, w) BY <2>1
  <2>3. 0 \in 0..n OBVIOUS
  <2> QED BY ONLY <2>2, <2>3 DEF P
<1>2. ASSUME NEW k \in 1..n, k - 1 \in P PROVE k \in P
  <2>1. PICK less \in [1..(k - 1) -> Seq(X)] : Joined(k - 1, parts, less) BY <1>2
  <2> DEFINE add == IF k = 1 THEN parts[k] ELSE less[k - 1] \o parts[k]
             whole == [i \in 1..k |-> IF i = k THEN add ELSE less[i]]
  <2>2. add \in Seq(X)
    <3>1. parts[k] \in Seq(X) OBVIOUS
    <3>2. CASE k = 1 BY <3>1, <3>2
    <3>3. CASE k # 1
      <4>1. less[k - 1] \in Seq(X) BY <3>3
      <4>2. less[k - 1] \o parts[k] \in Seq(X) BY <3>1, <4>1, ConcatProperties
      <4> QED BY <3>3, <4>2
    <3> QED BY <3>2, <3>3
  <2> HIDE DEF add
  <2>3. whole \in [1..k -> Seq(X)]
    <3>1. ASSUME NEW i \in 1..k PROVE whole[i] \in Seq(X)
      <4>1. CASE i = k BY <2>2, <4>1
      <4>2. CASE i # k
        <5>1. i \in 1..(k - 1) BY <4>2
        <5> QED BY <4>2, <5>1
      <4> QED BY <4>1, <4>2
    <3> QED BY <3>1
  <2>4. ASSUME NEW i \in 1..k
        PROVE  whole[i] = IF i = 1 THEN parts[i] ELSE whole[i - 1] \o parts[i]
    <3>1. CASE i = k
      <4>1. k # 1 => whole[k - 1] = less[k - 1] OBVIOUS
      <4>2. whole[k] = add OBVIOUS
      <4> QED BY <3>1, <4>1, <4>2 DEF add
    <3>2. CASE i # k
      <4>1. i \in 1..(k - 1) BY <3>2
      <4>2. less[i] = IF i = 1 THEN parts[i] ELSE less[i - 1] \o parts[i]
        BY <2>1, <4>1 DEF Joined
      <4>3. i # 1 => whole[i - 1] = less[i - 1] BY <3>2, <4>1
      <4>4. whole[i] = less[i] BY <3>2
      <4> QED BY <4>2, <4>3, <4>4
    <3> QED BY <3>1, <3>2
  <2> HIDE DEF whole
  <2>5. Joined(k, parts, whole) BY <2>4 DEF Joined
  <2> QED BY <2>3, <2>5
<1>3. n \in P
  <2>1. n \in Nat OBVIOUS
  <2> HIDE DEF P
  <2>2. \A k \in 0..n : k \in P BY ONLY <1>1, <1>2, <2>1, Induction
  <2> QED BY <2>1, <2>2
<1> QED BY <1>3

LEMMA FlattenJoins ==
  ASSUME NEW n \in Nat \ {0}, NEW X, NEW parts \in [1..n -> Seq(X)]
  PROVE  \E whole : Joined(n, parts, whole) /\ FlattenSeq(parts) = whole[n]
<1> DEFINE Body(w) == [i \in 1..Len(parts) |->
                         IF i = 1 THEN parts[i] ELSE w[i - 1] \o parts[i]]
           flatten == CHOOSE w : w = Body(w)
<1>1. Len(parts) = n OBVIOUS
<1>2. FlattenSeq(parts) = flatten[n]
  <2>1. Len(parts) # 0 BY <1>1
  <2>2. FlattenSeq(parts) = flatten[Len(parts)] BY Zenon, <2>1 DEF FlattenSeq
  <2> QED BY <1>1, <2>2
<1>3. PICK whole \in [1..n -> Seq(X)] : Joined(n, parts, whole) BY JoinedExists
<1>4. whole = Body(whole) BY <1>1, <1>3 DEF Joined
<1>5. flatten = Body(flatten)
  <2> HIDE DEF Body
  <2> QED BY Zenon, <1>4
<1> HIDE DEF flatten
<1>6. Joined(n, parts, flatten) BY <1>1, <1>5 DEF Joined
<1> QED BY <1>2, <1>6

(* The same from the empty sequence, of any number of parts.               *)
Joins(m, parts, w) == w[0] = <<>> /\ \A k \in 1..m : w[k] = w[k - 1] \o parts[k]

LEMMA FlattenFromNone ==
  ASSUME NEW m \in Nat, NEW X, NEW parts \in [1..m -> Seq(X)]
  PROVE  \E w : /\ \A k \in 0..m : w[k] \in Seq(X)
                /\ Joins(m, parts, w) /\ FlattenSeq(parts) = w[m]
<1>1. CASE m = 0
  <2> DEFINE w == [k \in 0..m |-> <<>>]
  <2>1. parts = <<>>
    <3>1. parts \in [1..0 -> Seq(X)] BY <1>1
    <3> QED BY <3>1
  <2>2. FlattenSeq(<<>>) = <<>>
    <3>1. Len(<<>>) = 0 OBVIOUS
    <3> QED BY <3>1, Zenon DEF FlattenSeq
  <2>3. FlattenSeq(parts) = w[m] BY <2>1, <2>2
  <2>4. \A k \in 0..m : w[k] \in Seq(X) BY EmptySeq
  <2>5. Joins(m, parts, w) BY <1>1 DEF Joins
  <2> HIDE DEF w
  <2> QED BY <2>3, <2>4, <2>5
<1>2. CASE m # 0
  <2>1. PICK whole : Joined(m, parts, whole) /\ FlattenSeq(parts) = whole[m]
    BY <1>2, FlattenJoins
  <2> DEFINE w == [k \in 0..m |-> IF k = 0 THEN <<>> ELSE whole[k]]
             Steps(k) == w[k] = w[k - 1] \o parts[k]
             P == {k \in 0..m : w[k] \in Seq(X) /\ (k > 0 => Steps(k))}
  <2>2. 0 \in P BY EmptySeq
  <2>3. ASSUME NEW k \in 1..m, k - 1 \in P PROVE k \in P
    <3>1. parts[k] \in Seq(X) OBVIOUS
    <3>2. Steps(k)
      <4>1. whole[k] = IF k = 1 THEN parts[k] ELSE whole[k - 1] \o parts[k]
        BY <2>1 DEF Joined
      <4>2. CASE k = 1
        <5>1. <<>> \o parts[k] = parts[k] BY <3>1, ConcatEmptySeq
        <5>2. w[k] = parts[k] /\ w[k - 1] = <<>> BY <4>1, <4>2
        <5> HIDE DEF w
        <5> QED BY Zenon, <5>1, <5>2
      <4>3. CASE k # 1
        <5>1. w[k] = whole[k] /\ w[k - 1] = whole[k - 1] BY <4>3
        <5> HIDE DEF w
        <5> QED BY Zenon, <4>1, <4>3, <5>1
      <4> QED BY <4>2, <4>3
    <3>3. w[k - 1] \in Seq(X) BY <2>3
    <3> HIDE DEF w
    <3>4. w[k] \in Seq(X) BY <3>1, <3>2, <3>3, ConcatProperties
    <3> HIDE DEF Steps
    <3> QED BY <3>2, <3>4
  <2>4. \A k \in 0..m : k \in P
    <3> HIDE DEF P
    <3> QED BY <2>2, <2>3, Induction
  <2>5. w[0] = <<>> OBVIOUS
  <2>6. FlattenSeq(parts) = w[m] BY <1>2, <2>1
  <2> HIDE DEF w
  <2>7. \A k \in 0..m : w[k] \in Seq(X) BY <2>4
  <2>8. \A k \in 1..m : w[k] = w[k - 1] \o parts[k]
    <3> SUFFICES ASSUME NEW k \in 1..m PROVE Steps(k) OBVIOUS
    <3>1. k \in 0..m /\ k > 0 OBVIOUS
    <3> HIDE DEF Steps
    <3> QED BY <2>4, <3>1
  <2>9. Joins(m, parts, w) BY <2>5, <2>8 DEF Joins
  <2> QED BY <2>6, <2>7, <2>9
<1> QED BY <1>1, <1>2

(* What the whole has is what its parts have.                              *)
Elements(s) == {s[k] : k \in 1..Len(s)}

LEMMA MembersOfTwo ==
  ASSUME NEW X, NEW a \in Seq(X), NEW b \in Seq(X)
  PROVE  Elements(a \o b) = Elements(a) \cup Elements(b)
<1>1. Len(a) \in Nat /\ Len(b) \in Nat /\ Len(a \o b) = Len(a) + Len(b)
      /\ \A i \in 1..(Len(a) + Len(b)) :
           (a \o b)[i] = IF i <= Len(a) THEN a[i] ELSE b[i - Len(a)]
  BY ConcatProperties, LenProperties
<1>2. ASSUME NEW x \in Elements(a \o b) PROVE x \in Elements(a) \cup Elements(b)
  <2>1. PICK i \in 1..(Len(a) + Len(b)) : x = (a \o b)[i] BY <1>1 DEF Elements
  <2>2. CASE i <= Len(a)
    <3>1. i \in 1..Len(a) /\ x = a[i] BY <1>1, <2>1, <2>2
    <3> QED BY <3>1 DEF Elements
  <2>3. CASE ~(i <= Len(a))
    <3>1. i - Len(a) \in 1..Len(b) /\ x = b[i - Len(a)] BY <1>1, <2>1, <2>3
    <3> QED BY <3>1 DEF Elements
  <2> QED BY <2>2, <2>3
<1>3. ASSUME NEW x \in Elements(a) PROVE x \in Elements(a \o b)
  <2>1. PICK i \in 1..Len(a) : x = a[i] BY DEF Elements
  <2>2. i \in 1..Len(a \o b) /\ x = (a \o b)[i] BY <1>1, <2>1
  <2> QED BY <2>2 DEF Elements
<1>4. ASSUME NEW x \in Elements(b) PROVE x \in Elements(a \o b)
  <2>1. PICK i \in 1..Len(b) : x = b[i] BY DEF Elements
  <2>2. i + Len(a) \in 1..Len(a \o b) /\ x = (a \o b)[i + Len(a)] BY <1>1, <2>1
  <2> QED BY <2>2 DEF Elements
<1> QED BY <1>2, <1>3, <1>4

LEMMA FlattenMembers ==
  ASSUME NEW m \in Nat, NEW X, NEW parts \in [1..m -> Seq(X)]
  PROVE  /\ FlattenSeq(parts) \in Seq(X)
         /\ Elements(FlattenSeq(parts)) = UNION {Elements(parts[i]) : i \in 1..m}
<1>1. PICK w : /\ \A k \in 0..m : w[k] \in Seq(X)
               /\ Joins(m, parts, w) /\ FlattenSeq(parts) = w[m]
  BY FlattenFromNone
<1> DEFINE Upto(k) == UNION {Elements(parts[i]) : i \in 1..k}
           Has(k) == Elements(w[k]) = Upto(k)
           P == {k \in 0..m : Has(k)}
<1>2. 0 \in P
  <2>1. Elements(w[0]) = {}
    <3>1. w[0] = <<>> BY <1>1 DEF Joins
    <3>2. Len(w[0]) = 0 BY <3>1
    <3> QED BY <3>2 DEF Elements
  <2>2. Upto(0) = {} OBVIOUS
  <2> QED BY <2>1, <2>2
<1>3. ASSUME NEW k \in 1..m, k - 1 \in P PROVE k \in P
  <2>1. w[k] = w[k - 1] \o parts[k] BY <1>1 DEF Joins
  <2>2. w[k - 1] \in Seq(X) /\ parts[k] \in Seq(X) BY <1>1
  <2>3. Elements(w[k - 1] \o parts[k]) = Elements(w[k - 1]) \cup Elements(parts[k])
    BY <2>2, MembersOfTwo
  <2>4. Upto(k) = Upto(k - 1) \cup Elements(parts[k])
    <3>1. 1..k = (1..(k - 1)) \cup {k} OBVIOUS
    <3> QED BY <3>1
  <2>5. Has(k - 1)
    <3> HIDE DEF Has
    <3> QED BY <1>3
  <2> HIDE DEF Upto
  <2>6. Has(k) BY Zenon, <2>1, <2>3, <2>4, <2>5
  <2> HIDE DEF Has
  <2> QED BY <2>6
<1>4. Has(m)
  <2> HIDE DEF Has
  <2>1. \A k \in 0..m : k \in P
    <3> HIDE DEF P
    <3> QED BY <1>2, <1>3, Induction
  <2> QED BY <2>1
<1>5. FlattenSeq(parts) \in Seq(X) BY <1>1
<1> HIDE DEF Upto
<1>6. Elements(FlattenSeq(parts)) = Upto(m) BY <1>1, <1>4
<1> QED BY <1>5, <1>6 DEF Upto

LEMMA FlattenOne == ASSUME NEW X, NEW x \in Seq(X) PROVE FlattenSeq(<<x>>) = x
<1> DEFINE parts == <<x>>
<1>1. parts \in [1..1 -> Seq(X)] /\ parts[1] = x OBVIOUS
<1> HIDE DEF parts
<1>2. PICK w : Joins(1, parts, w) /\ FlattenSeq(parts) = w[1] BY <1>1, FlattenFromNone
<1>3. w[1] = w[0] \o x /\ w[0] = <<>>
  <2>1. w[0] = <<>> /\ \A k \in 1..1 : w[k] = w[k - 1] \o parts[k] BY <1>2, Zenon DEF Joins
  <2>2. 1 \in 1..1 /\ 1 - 1 = 0 OBVIOUS
  <2> QED BY <1>1, <2>1, <2>2, Zenon
<1>4. <<>> \o x = x BY ConcatEmptySeq
<1>5. FlattenSeq(parts) = x BY Zenon, <1>2, <1>3, <1>4
<1> QED BY <1>5 DEF parts

LEMMA FlattenTwo ==
  ASSUME NEW X, NEW x \in Seq(X), NEW y \in Seq(X)
  PROVE  FlattenSeq(<<x, y>>) = x \o y
<1> DEFINE parts == <<x, y>>
<1>1. parts \in [1..2 -> Seq(X)] /\ parts[1] = x /\ parts[2] = y OBVIOUS
<1> HIDE DEF parts
<1>2. PICK w : Joins(2, parts, w) /\ FlattenSeq(parts) = w[2] BY <1>1, FlattenFromNone
<1>3. w[0] = <<>> /\ w[1] = w[0] \o x /\ w[2] = w[1] \o y
  <2>1. w[0] = <<>> /\ \A k \in 1..2 : w[k] = w[k - 1] \o parts[k] BY <1>2, Zenon DEF Joins
  <2>2. 1 \in 1..2 /\ 1 - 1 = 0 /\ 2 \in 1..2 /\ 2 - 1 = 1 OBVIOUS
  <2> QED BY <1>1, <2>1, <2>2, Zenon
<1>4. <<>> \o x = x BY ConcatEmptySeq
<1>5. FlattenSeq(parts) = x \o y BY Zenon, <1>2, <1>3, <1>4
<1> QED BY <1>5 DEF parts

(* Min and Max are a CHOOSE: that a finite set has a greatest member is    *)
(* shown by taking the least of the sets of members above a member.        *)
Orders(R, T) ==
  /\ \A x, y, z \in T : <<x, y>> \in R /\ <<y, z>> \in R => <<x, z>> \in R
  /\ \A x \in T : <<x, x>> \notin R
  /\ \A x, y \in T : x = y \/ <<x, y>> \in R \/ <<y, x>> \in R

LEMMA LastExists ==
  ASSUME NEW T, IsFiniteSet(T), T # {}, NEW R, Orders(R, T)
  PROVE  \E x \in T : \A y \in T : x = y \/ <<y, x>> \in R
<1> DEFINE Above(x) == {y \in T : <<x, y>> \in R}
           Cuts == {U \in SUBSET T : \E x \in T : U = Above(x)}
<1>1. IsWellFoundedOn(StrictSubsetOrdering(T), SUBSET T)
  BY FS_StrictSubsetOrderingWellFounded, FS_FiniteSubsetsOfFinite
<1>2. Cuts \subseteq SUBSET T /\ Cuts # {}
  <2>1. PICK x \in T : TRUE OBVIOUS
  <2>2. Above(x) \in SUBSET T OBVIOUS
  <2>3. Above(x) \in Cuts BY <2>2
  <2> QED BY <2>3
<1>3. PICK U \in Cuts : \A V \in Cuts : ~(<<V, U>> \in StrictSubsetOrdering(T))
  <2> HIDE DEF Cuts
  <2> QED BY <1>1, <1>2, WFMin
<1>4. PICK x \in T : U = Above(x) OBVIOUS
<1>5. ASSUME NEW y \in T, x # y, <<y, x>> \notin R PROVE FALSE
  <2>1. <<x, y>> \in R BY <1>5 DEF Orders
  <2>2. Above(y) \in SUBSET T OBVIOUS
  <2>3. Above(y) \in Cuts BY <2>2
  <2>4. Above(y) \subseteq U
    <3>1. ASSUME NEW z \in T, <<y, z>> \in R PROVE <<x, z>> \in R
      BY <2>1, <3>1 DEF Orders
    <3> QED BY <1>4, <3>1
  <2>5. y \in U /\ y \notin Above(y) BY <1>4, <2>1 DEF Orders
  <2>6. <<Above(y), U>> \in (SUBSET T) \X (SUBSET T) BY <2>2
  <2>7. <<Above(y), U>> \in StrictSubsetOrdering(T)
    <3> DEFINE pair == <<Above(y), U>>
    <3>1. pair[1] = Above(y) /\ pair[2] = U OBVIOUS
    <3>2. pair[1] \subseteq pair[2] /\ pair[1] # pair[2] BY <2>4, <2>5, <3>1
    <3> HIDE DEF pair, Above, Cuts
    <3>3. pair \in StrictSubsetOrdering(T)
      <4>1. pair \in (SUBSET T) \X (SUBSET T) BY <2>6 DEF pair
      <4> QED BY <3>2, <4>1 DEF StrictSubsetOrdering
    <3> QED BY <3>3 DEF pair
  <2> QED BY <1>3, <2>3, <2>7
<1> QED BY <1>5

LEMMA GreatestIs ==
  ASSUME NEW T, IsFiniteSet(T), T \subseteq Int, T # {}
  PROVE  Max(T) \in T /\ \A y \in T : Max(T) >= y
<1> DEFINE R == {p \in T \X T : p[1] < p[2]}
<1>1. Orders(R, T) BY DEF Orders
<1>2. PICK x \in T : \A y \in T : x = y \/ <<y, x>> \in R
  <2> HIDE DEF R
  <2> QED BY <1>1, LastExists
<1>3. \A y \in T : x >= y
  <2>1. ASSUME NEW y \in T PROVE x >= y
    <3>1. x = y \/ y < x BY <1>2
    <3>2. x \in Int /\ y \in Int OBVIOUS
    <3> QED BY <3>1, <3>2
  <2> QED BY <2>1
<1> QED BY <1>3 DEF Max

LEMMA LeastIs ==
  ASSUME NEW T, IsFiniteSet(T), T \subseteq Int, T # {}
  PROVE  Min(T) \in T /\ \A y \in T : Min(T) <= y
<1> DEFINE R == {p \in T \X T : p[1] > p[2]}
<1>1. Orders(R, T) BY DEF Orders
<1>2. PICK x \in T : \A y \in T : x = y \/ <<y, x>> \in R
  <2> HIDE DEF R
  <2> QED BY <1>1, LastExists
<1>3. \A y \in T : x <= y
  <2>1. ASSUME NEW y \in T PROVE x <= y
    <3>1. x = y \/ y > x BY <1>2
    <3>2. x \in Int /\ y \in Int OBVIOUS
    <3> QED BY <3>1, <3>2
  <2> QED BY <2>1
<1> QED BY <1>3 DEF Min

LEMMA LeastAmong ==
  ASSUME NEW T, IsFiniteSet(T), T \subseteq Int, NEW x \in T, \A y \in T : x <= y
  PROVE  Min(T) = x
<1>1. Min(T) \in T /\ Min(T) <= x BY LeastIs
<1>2. x <= Min(T) /\ Min(T) \in Int /\ x \in Int BY <1>1
<1> HIDE DEF Min
<1> QED BY <1>1, <1>2

LEMMA OfTwo ==
  ASSUME NEW x \in Int, NEW y \in Int
  PROVE  /\ Max({x, y}) = IF x >= y THEN x ELSE y
         /\ Min({x, y}) = IF x <= y THEN x ELSE y
<1> DEFINE both == {x, y}
<1>1. IsFiniteSet(both)
  <2>1. IsFiniteSet({x} \cup {y}) BY FS_Singleton, FS_AddElement
  <2>2. {x} \cup {y} = both OBVIOUS
  <2> QED BY <2>1, <2>2
<1>2. both \subseteq Int /\ both # {} /\ x \in both /\ y \in both
      /\ \A z \in both : z = x \/ z = y
  OBVIOUS
<1> HIDE DEF both
<1>3. Max(both) \in both /\ Max(both) >= x /\ Max(both) >= y BY <1>1, <1>2, GreatestIs
<1>4. Min(both) \in both /\ Min(both) <= x /\ Min(both) <= y BY <1>1, <1>2, LeastIs
<1>5. Max(both) = x \/ Max(both) = y BY <1>2, <1>3
<1>6. Min(both) = x \/ Min(both) = y BY <1>2, <1>4
<1>7. Max(both) = IF x >= y THEN x ELSE y BY <1>3, <1>5
<1>8. Min(both) = IF x <= y THEN x ELSE y BY <1>4, <1>6
<1> QED BY <1>7, <1>8 DEF both

----------------------------------------------------------------------------
(* Sums.                                                                   *)
Chosen(T) == CHOOSE e \in T : TRUE

SumOf(h) ==
  LET part[T \in SUBSET DOMAIN h] ==
        LET e == CHOOSE x \in T : TRUE
        IN IF T = {} THEN 0 ELSE h[e] + part[T \ {e}]
  IN part[DOMAIN h]

SumTable(D, h, g) ==
  \A T \in SUBSET D : g[T] = IF T = {} THEN 0 ELSE h[Chosen(T)] + g[T \ {Chosen(T)}]

LEMMA CardinalityOfBag == ASSUME NEW B PROVE BagCardinality(B) = SumOf(B)
BY Zenon DEF BagCardinality, SumOf

LEMMA AnyIn == ASSUME NEW T, T # {} PROVE Chosen(T) \in T
BY DEF Chosen

LEMMA SmallerSet ==
  ASSUME NEW D, IsFiniteSet(D), NEW T \in SUBSET D, NEW x \in T
  PROVE  /\ T \ {x} \in SUBSET D /\ Cardinality(T) \in 1..Cardinality(D)
         /\ Cardinality(T \ {x}) = Cardinality(T) - 1
<1>1. IsFiniteSet(T) /\ Cardinality(T) <= Cardinality(D) /\ Cardinality(D) \in Nat
  BY FS_Subset, FS_CardinalityType
<1>2. Cardinality(T) \in Nat /\ Cardinality(T) # 0
  BY <1>1, FS_CardinalityType, FS_EmptySet
<1>3. Cardinality(T \ {x}) = Cardinality(T) - 1 BY <1>1, FS_RemoveElement
<1> QED BY <1>1, <1>2, <1>3

LEMMA SumExists ==
  ASSUME NEW D, IsFiniteSet(D), NEW h \in [D -> Int]
  PROVE  \E g \in [SUBSET D -> Int] : SumTable(D, h, g)
<1> DEFINE n == Cardinality(D)
           Small(k) == {T \in SUBSET D : Cardinality(T) <= k}
           Part(k, g) == \A T \in Small(k) :
                           g[T] = IF T = {} THEN 0 ELSE h[Chosen(T)] + g[T \ {Chosen(T)}]
           P == {k \in 0..n : \E g \in [SUBSET D -> Int] : Part(k, g)}
<1>1. n \in Nat BY FS_CardinalityType
<1>2. 0 \in P
  <2> DEFINE g == [T \in SUBSET D |-> 0]
  <2>1. \A T \in Small(0) : T = {}
    <3>1. ASSUME NEW T \in Small(0), T # {} PROVE FALSE
      <4>1. PICK x \in T : TRUE BY <3>1
      <4>2. T \in SUBSET D /\ Cardinality(T) <= 0 OBVIOUS
      <4>3. Cardinality(T) \in 1..Cardinality(D) BY <4>1, <4>2, SmallerSet
      <4> QED BY <4>2, <4>3, <1>1
    <3> QED BY <3>1
  <2>2. g \in [SUBSET D -> Int] /\ Part(0, g) BY <2>1
  <2>3. \E j \in [SUBSET D -> Int] : Part(0, j)
    <3> HIDE DEF g, Part
    <3> QED BY <2>2
  <2> HIDE DEF Part
  <2> QED BY <2>3, <1>1
<1>3. ASSUME NEW k \in 1..n, k - 1 \in P PROVE k \in P
  <2>1. PICK j \in [SUBSET D -> Int] : Part(k - 1, j) BY <1>3
  <2> DEFINE g == [T \in SUBSET D |->
                     IF T = {} THEN 0 ELSE h[Chosen(T)] + j[T \ {Chosen(T)}]]
  <2>2. g \in [SUBSET D -> Int]
    <3>1. ASSUME NEW T \in SUBSET D, T # {} PROVE h[Chosen(T)] + j[T \ {Chosen(T)}] \in Int
      <4>1. Chosen(T) \in D /\ T \ {Chosen(T)} \in SUBSET D BY <3>1, AnyIn
      <4>2. h[Chosen(T)] \in Int /\ j[T \ {Chosen(T)}] \in Int BY <4>1
      <4> QED BY <4>2
    <3> QED BY <3>1
  <2>3. ASSUME NEW T \in Small(k), T # {}
        PROVE  g[T] = h[Chosen(T)] + g[T \ {Chosen(T)}]
    <3> DEFINE U == T \ {Chosen(T)}
    <3>1. Chosen(T) \in T /\ T \in SUBSET D /\ Cardinality(T) <= k BY <2>3, AnyIn
    <3>2. U \in SUBSET D /\ Cardinality(U) = Cardinality(T) - 1 /\ Cardinality(T) \in 1..n
      BY <3>1, SmallerSet
    <3>3. Cardinality(U) <= k - 1 BY <3>1, <3>2, <1>1
    <3>4. U \in Small(k - 1) BY <3>2, <3>3
    <3> HIDE DEF U, Small
    <3>5. j[U] = IF U = {} THEN 0 ELSE h[Chosen(U)] + j[U \ {Chosen(U)}] BY <2>1, <3>4
    <3>6. g[U] = j[U] BY <3>2, <3>5
    <3>7. g[T] = h[Chosen(T)] + j[U] BY <2>3, <3>1 DEF U
    <3> QED BY <3>6, <3>7 DEF U
  <2>4. Part(k, g)
    <3>1. \A T \in Small(k) : T = {} => g[T] = 0 OBVIOUS
    <3> HIDE DEF g
    <3> QED BY <2>3, <3>1
  <2>5. \E i \in [SUBSET D -> Int] : Part(k, i)
    <3> HIDE DEF g, Part
    <3> QED BY <2>2, <2>4
  <2>6. k \in 0..n BY <1>1
  <2> HIDE DEF Part, n, g
  <2> QED BY <2>5, <2>6
<1>4. n \in P
  <2> HIDE DEF P, n
  <2> QED BY <1>1, <1>2, <1>3, Induction
<1>5. PICK g \in [SUBSET D -> Int] : Part(n, g) BY <1>4
<1>6. SUBSET D = Small(n) BY FS_Subset
<1>7. SumTable(D, h, g) BY <1>5, <1>6 DEF SumTable
<1> QED BY <1>7

LEMMA SumIs ==
  ASSUME NEW D, IsFiniteSet(D), NEW h \in [D -> Int]
  PROVE  \E g \in [SUBSET D -> Int] : SumTable(D, h, g) /\ SumOf(h) = g[D]
<1> DEFINE Body(i) == [T \in SUBSET D |->
                         IF T = {} THEN 0 ELSE h[Chosen(T)] + i[T \ {Chosen(T)}]]
           part == CHOOSE i : i = Body(i)
<1>1. DOMAIN h = D OBVIOUS
<1>2. SumOf(h) = part[D] BY Zenon, <1>1 DEF SumOf, Chosen
<1>3. PICK g \in [SUBSET D -> Int] : SumTable(D, h, g) BY SumExists
<1>4. g = Body(g) BY <1>3 DEF SumTable
<1>5. part = Body(part)
  <2> HIDE DEF Body
  <2> QED BY Zenon, <1>4
<1> DEFINE n == Cardinality(D)
           P == {k \in 0..n : \A T \in SUBSET D : Cardinality(T) <= k => part[T] = g[T]}
<1>6. n \in Nat BY FS_CardinalityType
<1>7. \A T \in SUBSET D : part[T] = IF T = {} THEN 0 ELSE h[Chosen(T)] + part[T \ {Chosen(T)}]
  <2> HIDE DEF part
  <2> QED BY <1>5
<1>8. \A T \in SUBSET D : g[T] = IF T = {} THEN 0 ELSE h[Chosen(T)] + g[T \ {Chosen(T)}]
  BY <1>3 DEF SumTable
<1> HIDE DEF part, Body, n
<1>9. 0 \in P
  <2>1. ASSUME NEW T \in SUBSET D, Cardinality(T) <= 0 PROVE part[T] = g[T]
    <3>1. CASE T = {} BY <1>7, <1>8, <3>1
    <3>2. CASE T # {}
      <4>1. Cardinality(T) \in 1..n BY <3>2, SmallerSet DEF n
      <4> QED BY <2>1, <4>1, <1>6
    <3> QED BY <3>1, <3>2
  <2> QED BY <2>1, <1>6
<1>10. ASSUME NEW k \in 1..n, k - 1 \in P PROVE k \in P
  <2>1. ASSUME NEW T \in SUBSET D, Cardinality(T) <= k PROVE part[T] = g[T]
    <3>1. CASE T = {} BY <1>7, <1>8, <3>1
    <3>2. CASE T # {}
      <4> DEFINE U == T \ {Chosen(T)}
      <4>1. Chosen(T) \in T BY <3>2, AnyIn
      <4>2. U \in SUBSET D /\ Cardinality(U) = Cardinality(T) - 1 /\ Cardinality(T) \in 1..n
        BY <4>1, SmallerSet DEF n
      <4>3. Cardinality(U) <= k - 1 BY <2>1, <4>2, <1>6
      <4>4. part[U] = g[U] BY <1>10, <4>2, <4>3
      <4> QED BY <1>7, <1>8, <3>2, <4>4
    <3> QED BY <3>1, <3>2
  <2> QED BY <2>1, <1>6
<1>11. n \in P
  <2> HIDE DEF P
  <2> QED BY <1>6, <1>9, <1>10, Induction
<1>12. part[D] = g[D] BY <1>11, <1>6 DEF n
<1> QED BY <1>2, <1>3, <1>12

AnyOrder(D, h, g) ==
  \A T \in SUBSET D, x \in D : x \in T => g[T] = h[x] + g[T \ {x}]

(* The members of a set may be added up in any order.                      *)
LEMMA SumAnyOrder ==
  ASSUME NEW D, IsFiniteSet(D), NEW h \in [D -> Int], NEW g \in [SUBSET D -> Int],
         SumTable(D, h, g)
  PROVE  AnyOrder(D, h, g)
<1> DEFINE n == Cardinality(D)
           P == {k \in 0..n : \A T \in SUBSET D, x \in D : Cardinality(T) <= k /\ x \in T =>
                                g[T] = h[x] + g[T \ {x}]}
<1>1. n \in Nat BY FS_CardinalityType
<1>2. \A T \in SUBSET D : g[T] = IF T = {} THEN 0 ELSE h[Chosen(T)] + g[T \ {Chosen(T)}]
  BY DEF SumTable
<1> HIDE DEF n
<1>3. 0 \in P
  <2>1. ASSUME NEW T \in SUBSET D, NEW x \in D, Cardinality(T) <= 0, x \in T PROVE FALSE
    <3>1. Cardinality(T) \in 1..n BY <2>1, SmallerSet DEF n
    <3> QED BY <2>1, <3>1, <1>1
  <2> QED BY <2>1, <1>1
<1>4. ASSUME NEW k \in 1..n, k - 1 \in P PROVE k \in P
  <2>1. ASSUME NEW T \in SUBSET D, NEW x \in D, Cardinality(T) <= k, x \in T
        PROVE  g[T] = h[x] + g[T \ {x}]
    <3> DEFINE e == Chosen(T)
               U == T \ {e}
               V == T \ {x}
    <3>1. e \in T BY <2>1, AnyIn
    <3>2. g[T] = h[e] + g[U] BY <1>2, <2>1
    <3> HIDE DEF e
    <3>3. CASE x = e BY <3>2, <3>3
    <3>4. CASE x # e
      <4>1. /\ U \in SUBSET D /\ Cardinality(U) = Cardinality(T) - 1
            /\ Cardinality(T) \in 1..n
        BY <3>1, SmallerSet DEF n
      <4>2. /\ V \in SUBSET D /\ Cardinality(V) = Cardinality(T) - 1
        BY <2>1, SmallerSet DEF n
      <4>3. Cardinality(U) <= k - 1 /\ Cardinality(V) <= k - 1
        BY <2>1, <4>1, <4>2, <1>1
      <4>4. x \in U /\ e \in V /\ e \in D BY <2>1, <3>1, <3>4
      <4>5. g[U] = h[x] + g[U \ {x}] BY <1>4, <4>1, <4>3, <4>4
      <4>6. g[V] = h[e] + g[V \ {e}] BY <1>4, <4>2, <4>3, <4>4
      <4>7. U \ {x} = V \ {e} OBVIOUS
      <4>8. U \ {x} \in SUBSET D BY <4>1
      <4> HIDE DEF U, V
      <4>9. g[U \ {x}] \in Int /\ h[x] \in Int /\ h[e] \in Int BY <4>4, <4>8
      <4>10. g[T] = h[e] + (h[x] + g[U \ {x}]) BY <3>2, <4>5
      <4>11. g[V] = h[e] + g[U \ {x}] BY <4>6, <4>7
      <4>12. g[T] = h[x] + g[V] BY <4>9, <4>10, <4>11
      <4> QED BY <4>12 DEF V
    <3> QED BY <3>3, <3>4
  <2> QED BY <2>1, <1>1
<1>5. n \in P
  <2> HIDE DEF P
  <2> QED BY <1>1, <1>3, <1>4, Induction
<1>6. \A T \in SUBSET D : Cardinality(T) <= n BY FS_Subset DEF n
<1> QED BY <1>5, <1>6 DEF AnyOrder

(* The sums of the parts of D, added up in any order.                      *)
Sums(D, h, g) == g[{}] = 0 /\ AnyOrder(D, h, g)

LEMMA SumsExist ==
  ASSUME NEW D, IsFiniteSet(D), NEW h \in [D -> Int]
  PROVE  \E g \in [SUBSET D -> Int] : Sums(D, h, g) /\ SumOf(h) = g[D]
<1>1. PICK g \in [SUBSET D -> Int] : SumTable(D, h, g) /\ SumOf(h) = g[D] BY SumIs
<1>2. AnyOrder(D, h, g) BY <1>1, SumAnyOrder
<1>3. g[{}] = 0 BY <1>1 DEF SumTable
<1> QED BY <1>1, <1>2, <1>3 DEF Sums

(* A sum is the same under other names: f gives each member its own.       *)
Renames(f, D, h, E, i) ==
  /\ f \in [D -> E]
  /\ \A x, y \in D : f[x] = f[y] => x = y
  /\ \A x \in D : i[f[x]] = h[x]

ImageOf(f, T) == {f[x] : x \in T}

LEMMA FiniteImage ==
  ASSUME NEW D, IsFiniteSet(D), NEW f PROVE IsFiniteSet(ImageOf(f, D))
<1> DEFINE g == [x \in D |-> f[x]]
<1>1. g \in Surjection(D, ImageOf(f, D)) BY DEF Surjection, ImageOf
<1> HIDE DEF g
<1> QED BY <1>1, FS_Surjection

LEMMA SumRenamed ==
  ASSUME NEW D, IsFiniteSet(D), NEW h, NEW g, Sums(D, h, g),
         NEW E, NEW i, NEW k, Sums(E, i, k), NEW f, Renames(f, D, h, E, i),
         NEW T \in SUBSET D
  PROVE  g[T] = k[ImageOf(f, T)]
<1> DEFINE n == Cardinality(D)
           P == {c \in 0..n : \A U \in SUBSET D : Cardinality(U) <= c => g[U] = k[ImageOf(f, U)]}
<1>1. n \in Nat BY FS_CardinalityType
<1>2. g[{}] = k[ImageOf(f, {})]
  <2>1. ImageOf(f, {}) = {} BY DEF ImageOf
  <2> QED BY <2>1 DEF Sums
<1> HIDE DEF n
<1>3. 0 \in P
  <2>1. ASSUME NEW U \in SUBSET D, Cardinality(U) <= 0, U # {} PROVE FALSE
    <3>1. PICK x \in U : TRUE BY <2>1
    <3>2. Cardinality(U) \in 1..n BY SmallerSet, <3>1 DEF n
    <3> QED BY <2>1, <3>2, <1>1
  <2>2. \A U \in SUBSET D : Cardinality(U) <= 0 => g[U] = k[ImageOf(f, U)] BY <2>1, <1>2
  <2> QED BY <2>2, <1>1
<1>4. ASSUME NEW c \in 1..n, c - 1 \in P PROVE c \in P
  <2>1. ASSUME NEW U \in SUBSET D, Cardinality(U) <= c, U # {} PROVE g[U] = k[ImageOf(f, U)]
    <3>1. PICK x \in U : TRUE BY <2>1
    <3> DEFINE V == U \ {x}
    <3>2. V \in SUBSET D /\ Cardinality(V) = Cardinality(U) - 1 /\ Cardinality(U) \in 1..n
      BY <3>1, SmallerSet DEF n
    <3>3. Cardinality(V) <= c - 1 BY <2>1, <3>2, <1>1
    <3>4. g[V] = k[ImageOf(f, V)] BY <1>4, <3>2, <3>3
    <3>5. g[U] = h[x] + g[V] BY <3>1 DEF Sums, AnyOrder
    <3>6. ImageOf(f, U) \in SUBSET E /\ f[x] \in E /\ f[x] \in ImageOf(f, U) BY <3>1 DEF Renames, ImageOf
    <3>7. ImageOf(f, V) = ImageOf(f, U) \ {f[x]}
      <4>1. ASSUME NEW y \in V PROVE f[y] # f[x]
        <5>1. y \in D /\ x \in D /\ y # x BY <3>1
        <5> QED BY <5>1 DEF Renames
      <4> QED BY <4>1 DEF ImageOf
    <3> DEFINE W == ImageOf(f, U)
               e == f[x]
    <3> HIDE DEF V, W, e
    <3>a. W \in SUBSET E /\ e \in E /\ e \in W BY <3>6 DEF W, e
    <3>b. k[W] = i[e] + k[W \ {e}] BY <3>a DEF Sums, AnyOrder
    <3>8. k[ImageOf(f, U)] = i[f[x]] + k[ImageOf(f, V)] BY <3>b, <3>7 DEF W, e
    <3>9. i[f[x]] = h[x] BY <3>1 DEF Renames
    <3> QED BY <3>4, <3>5, <3>8, <3>9
  <2>2. \A U \in SUBSET D : Cardinality(U) <= c => g[U] = k[ImageOf(f, U)] BY <2>1, <1>2
  <2> QED BY <2>2, <1>1
<1>5. n \in P
  <2> HIDE DEF P
  <2> QED BY <1>1, <1>3, <1>4, Induction
<1>6. Cardinality(T) <= n BY FS_Subset DEF n
<1> QED BY <1>5, <1>6

(* The sum of a part is one of the sums of the whole.                      *)
LEMMA SumOfPart ==
  ASSUME NEW D, IsFiniteSet(D), NEW h \in [D -> Int],
         NEW g, Sums(D, h, g), NEW T \in SUBSET D
  PROVE  SumOf([x \in T |-> h[x]]) = g[T]
<1> DEFINE i == [x \in T |-> h[x]]
           f == [x \in T |-> x]
<1>1. IsFiniteSet(T) /\ i \in [T -> Int] BY FS_Subset
<1>2. Renames(f, T, i, D, h) BY DEF Renames
<1>3. ImageOf(f, T) = T BY DEF ImageOf
<1> HIDE DEF i, f
<1>4. PICK j \in [SUBSET T -> Int] : Sums(T, i, j) /\ SumOf(i) = j[T] BY <1>1, SumsExist
<1>5. T \in SUBSET T OBVIOUS
<1>6. j[T] = g[ImageOf(f, T)] BY <1>1, <1>2, <1>4, <1>5, SumRenamed
<1> QED BY <1>3, <1>4, <1>6 DEF i

(* Two parts that share nothing.                                           *)
Additive(D, g) == \A S, T \in SUBSET D : S \cap T = {} => g[S \cup T] = g[S] + g[T]

LEMMA SumsAdd ==
  ASSUME NEW D, IsFiniteSet(D), NEW h \in [D -> Int],
         NEW g \in [SUBSET D -> Int], Sums(D, h, g)
  PROVE  Additive(D, g)
<1> SUFFICES ASSUME NEW S \in SUBSET D, NEW T \in SUBSET D, S \cap T = {}
             PROVE  g[S \cup T] = g[S] + g[T]
  BY DEF Additive
<1> DEFINE n == Cardinality(D)
           Fine(U) == g[S \cup U] = g[S] + g[U]
           P == {c \in 0..n : \A U \in SUBSET T : Cardinality(U) <= c => Fine(U)}
<1>1. n \in Nat BY FS_CardinalityType
<1>2. Fine({})
  <2>1. S \cup {} = S /\ g[S] \in Int OBVIOUS
  <2> QED BY <2>1 DEF Sums
<1> HIDE DEF n
<1>3. 0 \in P
  <2>1. ASSUME NEW U \in SUBSET T, Cardinality(U) <= 0, U # {} PROVE FALSE
    <3>1. PICK x \in U : TRUE BY <2>1
    <3>2. Cardinality(U) \in 1..n BY SmallerSet, <3>1 DEF n
    <3> QED BY <2>1, <3>2, <1>1
  <2> HIDE DEF Fine
  <2>2. \A U \in SUBSET T : Cardinality(U) <= 0 => Fine(U) BY <2>1, <1>2
  <2> QED BY <2>2, <1>1
<1>4. ASSUME NEW c \in 1..n, c - 1 \in P PROVE c \in P
  <2>1. ASSUME NEW U \in SUBSET T, Cardinality(U) <= c, U # {} PROVE Fine(U)
    <3>1. PICK x \in U : TRUE BY <2>1
    <3> DEFINE V == U \ {x}
               both == S \cup U
    <3>a. U \in SUBSET D /\ x \in D BY <3>1
    <3>2. V \in SUBSET T /\ Cardinality(V) = Cardinality(U) - 1 /\ Cardinality(U) \in 1..n
      BY <3>1, <3>a, SmallerSet DEF n
    <3>3. Cardinality(V) <= c - 1 BY <2>1, <3>2, <1>1
    <3>4. Fine(V) BY <1>4, <3>2, <3>3
    <3>5. g[U] = h[x] + g[V] BY <3>1, <3>a DEF Sums, AnyOrder
    <3>6. both \in SUBSET D /\ x \in both /\ both \ {x} = S \cup V BY <3>1
    <3>7. g[both] = h[x] + g[S \cup V]
      <4> HIDE DEF both, V
      <4> QED BY <3>a, <3>6 DEF Sums, AnyOrder
    <3>8. g[S] \in Int /\ g[V] \in Int /\ h[x] \in Int BY <3>a
    <3> HIDE DEF V
    <3> QED BY <3>4, <3>5, <3>7, <3>8
  <2> HIDE DEF Fine
  <2>2. \A U \in SUBSET T : Cardinality(U) <= c => Fine(U) BY <2>1, <1>2
  <2> QED BY <2>2, <1>1
<1>5. n \in P
  <2> HIDE DEF P
  <2> QED BY <1>1, <1>3, <1>4, Induction
<1>6. Cardinality(T) <= n BY FS_Subset DEF n
<1> HIDE DEF Fine
<1>7. Fine(T) BY <1>5, <1>6
<1> QED BY <1>7 DEF Fine

(* What is added up of members that count nothing or more.                 *)
LEMMA SumsAreNat ==
  ASSUME NEW D, IsFiniteSet(D), NEW h \in [D -> Nat], NEW g \in [SUBSET D -> Int],
         Sums(D, h, g), NEW T \in SUBSET D
  PROVE  g[T] \in Nat
<1> DEFINE n == Cardinality(D)
           P == {c \in 0..n : \A U \in SUBSET D : Cardinality(U) <= c => g[U] \in Nat}
<1>1. n \in Nat BY FS_CardinalityType
<1>2. g[{}] \in Nat BY DEF Sums
<1> HIDE DEF n
<1>3. 0 \in P
  <2>1. ASSUME NEW U \in SUBSET D, Cardinality(U) <= 0, U # {} PROVE FALSE
    <3>1. PICK x \in U : TRUE BY <2>1
    <3>2. Cardinality(U) \in 1..n BY SmallerSet, <3>1 DEF n
    <3> QED BY <2>1, <3>2, <1>1
  <2>2. \A U \in SUBSET D : Cardinality(U) <= 0 => g[U] \in Nat BY <2>1, <1>2
  <2> QED BY <2>2, <1>1
<1>4. ASSUME NEW c \in 1..n, c - 1 \in P PROVE c \in P
  <2>1. ASSUME NEW U \in SUBSET D, Cardinality(U) <= c, U # {} PROVE g[U] \in Nat
    <3>1. PICK x \in U : TRUE BY <2>1
    <3> DEFINE V == U \ {x}
    <3>2. V \in SUBSET D /\ Cardinality(V) = Cardinality(U) - 1 /\ Cardinality(U) \in 1..n
      BY <3>1, SmallerSet DEF n
    <3>3. Cardinality(V) <= c - 1 BY <2>1, <3>2, <1>1
    <3>4. g[V] \in Nat BY <1>4, <3>2, <3>3
    <3>5. x \in D /\ h[x] \in Nat BY <3>1
    <3>6. g[U] = h[x] + g[V] BY <3>1, <3>5 DEF Sums, AnyOrder
    <3> QED BY <3>4, <3>5, <3>6
  <2>2. \A U \in SUBSET D : Cardinality(U) <= c => g[U] \in Nat BY <2>1, <1>2
  <2> QED BY <2>2, <1>1
<1>5. n \in P
  <2> HIDE DEF P
  <2> QED BY <1>1, <1>3, <1>4, Induction
<1>6. Cardinality(T) <= n BY FS_Subset DEF n
<1> QED BY <1>5, <1>6

LEMMA NaturalSums ==
  ASSUME NEW D, IsFiniteSet(D), NEW h \in [D -> Nat]
  PROVE  \E g \in [SUBSET D -> Nat] : Sums(D, h, g) /\ SumOf(h) = g[D]
<1>1. h \in [D -> Int] OBVIOUS
<1>2. PICK g \in [SUBSET D -> Int] : Sums(D, h, g) /\ SumOf(h) = g[D] BY <1>1, SumsExist
<1>3. \A T \in SUBSET D : g[T] \in Nat BY <1>2, SumsAreNat
<1>4. g \in [SUBSET D -> Nat] BY <1>3
<1> QED BY <1>2, <1>4

LEMMA SumNat ==
  ASSUME NEW D, IsFiniteSet(D), NEW h \in [D -> Nat] PROVE SumOf(h) \in Nat
<1>1. PICK g \in [SUBSET D -> Nat] : Sums(D, h, g) /\ SumOf(h) = g[D] BY NaturalSums
<1> QED BY <1>1

LEMMA SumAtLeast ==
  ASSUME NEW D, IsFiniteSet(D), NEW h \in [D -> Nat], NEW x \in D
  PROVE  h[x] <= SumOf(h)
<1>1. PICK g \in [SUBSET D -> Nat] : Sums(D, h, g) /\ SumOf(h) = g[D] BY NaturalSums
<1>2. g[D] = h[x] + g[D \ {x}] BY <1>1 DEF Sums, AnyOrder
<1>3. g[D \ {x}] \in Nat /\ h[x] \in Nat OBVIOUS
<1> QED BY <1>1, <1>2, <1>3

LEMMA SumAtLeastTwo ==
  ASSUME NEW D, IsFiniteSet(D), NEW h \in [D -> Nat], NEW x \in D, NEW y \in D, x # y
  PROVE  h[x] + h[y] <= SumOf(h)
<1>1. PICK g \in [SUBSET D -> Nat] : Sums(D, h, g) /\ SumOf(h) = g[D] BY NaturalSums
<1>2. g[D] = h[x] + g[D \ {x}] BY <1>1 DEF Sums, AnyOrder
<1>3. D \ {x} \in SUBSET D /\ y \in D \ {x} OBVIOUS
<1>4. g[D \ {x}] = h[y] + g[(D \ {x}) \ {y}] BY <1>3, <1>1 DEF Sums, AnyOrder
<1>5. g[(D \ {x}) \ {y}] \in Nat /\ h[x] \in Nat /\ h[y] \in Nat OBVIOUS
<1> QED BY <1>1, <1>2, <1>4, <1>5

(* Members that count nothing add nothing.                                 *)
LEMMA SumOfZeros ==
  ASSUME NEW D, IsFiniteSet(D), NEW h \in [D -> Nat], NEW g \in [SUBSET D -> Nat],
         Sums(D, h, g), NEW T \in SUBSET D, \A x \in T : h[x] = 0
  PROVE  g[T] = 0
<1> DEFINE n == Cardinality(D)
           P == {k \in 0..n : \A U \in SUBSET T : Cardinality(U) <= k => g[U] = 0}
<1>1. n \in Nat BY FS_CardinalityType
<1>2. g[{}] = 0 BY DEF Sums
<1>a. AnyOrder(D, h, g) BY DEF Sums
<1> HIDE DEF n
<1>3. 0 \in P
  <2>1. ASSUME NEW U \in SUBSET T, Cardinality(U) <= 0, U # {} PROVE FALSE
    <3>1. PICK x \in U : TRUE BY <2>1
    <3>2. Cardinality(U) \in 1..n BY SmallerSet, <3>1 DEF n
    <3> QED BY <2>1, <3>2, <1>1
  <2>2. \A U \in SUBSET T : Cardinality(U) <= 0 => g[U] = 0 BY <2>1, <1>2
  <2> QED BY <2>2, <1>1
<1>4. ASSUME NEW k \in 1..n, k - 1 \in P PROVE k \in P
  <2>1. ASSUME NEW U \in SUBSET T, Cardinality(U) <= k, U # {} PROVE g[U] = 0
    <3>1. PICK x \in U : TRUE BY <2>1
    <3> DEFINE V == U \ {x}
    <3>2. U \in SUBSET D /\ x \in D OBVIOUS
    <3>3. V \in SUBSET T /\ Cardinality(V) = Cardinality(U) - 1 /\ Cardinality(U) \in 1..n
      BY <3>1, <3>2, SmallerSet DEF n
    <3>4. Cardinality(V) <= k - 1 BY <2>1, <3>3, <1>1
    <3>5. g[V] = 0 BY <1>4, <3>3, <3>4
    <3>6. g[U] = h[x] + g[V] BY <3>1, <3>2 DEF Sums, AnyOrder
    <3>7. h[x] = 0 OBVIOUS
    <3> QED BY <3>5, <3>6, <3>7
  <2>2. \A U \in SUBSET T : Cardinality(U) <= k => g[U] = 0 BY <2>1, <1>2
  <2> QED BY <2>2, <1>1
<1>5. n \in P
  <2> HIDE DEF P
  <2> QED BY <1>1, <1>3, <1>4, Induction
<1>6. Cardinality(T) <= n BY FS_Subset DEF n
<1> QED BY <1>5, <1>6

LEMMA SumOfOne ==
  ASSUME NEW D, IsFiniteSet(D), NEW h \in [D -> Nat], NEW x \in D,
         \A y \in D : y # x => h[y] = 0
  PROVE  SumOf(h) = h[x]
<1>1. PICK g \in [SUBSET D -> Nat] : Sums(D, h, g) /\ SumOf(h) = g[D] BY NaturalSums
<1>2. g[D] = h[x] + g[D \ {x}] BY <1>1 DEF Sums, AnyOrder
<1>3. D \ {x} \in SUBSET D /\ \A y \in D \ {x} : h[y] = 0 OBVIOUS
<1>4. g[D \ {x}] = 0 BY <1>1, <1>3, SumOfZeros
<1>5. h[x] \in Nat OBVIOUS
<1> QED BY <1>1, <1>2, <1>4, <1>5

LEMMA SumOfNone ==
  ASSUME NEW h, DOMAIN h = {}, h \in [{} -> Nat] PROVE SumOf(h) = 0
<1>1. IsFiniteSet({}) BY FS_EmptySet
<1>2. PICK g \in [SUBSET {} -> Nat] : Sums({}, h, g) /\ SumOf(h) = g[{}] BY <1>1, NaturalSums
<1> QED BY <1>2 DEF Sums
=============================================================================
