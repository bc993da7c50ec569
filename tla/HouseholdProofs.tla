-------------------------- MODULE HouseholdProofs --------------------------
(***************************************************************************)
(* Theorems about Household for any charges, references, reports, syncs,   *)
(* backups, entered rows and number of imports under way.                  *)
(*                                                                         *)
(* The inductive invariant follows what the id of a row says: which charge *)
(* it is of and on which side its money is (Telling). An import remembers  *)
(* ids of income only, so what it removes later is income, whatever the    *)
(* household did meanwhile; and an id of the bank is never made by the     *)
(* page, so only a sync can bring a second copy, which Merge does not.     *)
(***************************************************************************)
EXTENDS Household, FoldProofs

BankIds == {BankId(c) : c \in Charges}
TxIds   == {TxId(c, ref, s) : c \in Charges, ref \in Refs, s \in Sides}

(* The side of each transaction of the bank, and the ids of income.        *)
BankSide == CHOOSE sideOf \in [Charges -> Sides] :
              \A r \in BackupRows \cup BatchRows : Telling(sideOf, r)
Told(r)  == Telling(BankSide, r)
InIds    == {NoId} \cup {BankId(c) : c \in {d \in Charges : BankSide[d] = "in"}}
              \cup {TxId(c, ref, "in") : c \in Charges, ref \in Refs}

RowBags == UNION {[T -> Nat \ {0}] : T \in SUBSET Rows}
Once(B) == \A r, q \in DOMAIN B : r.id = q.id /\ r.id \in BankIds => r = q /\ B[r] = 1
GoodBags == {B \in RowBags : Once(B) /\ \A r \in DOMAIN B : Told(r)}

LEMMA Sided ==
  /\ BankSide \in [Charges -> Sides]
  /\ \A r \in BackupRows \cup BatchRows : Told(r)
<1>1. \E sideOf \in [Charges -> Sides] :
        \A r \in BackupRows \cup BatchRows : Telling(sideOf, r)
  BY HouseholdAssumption
<1> QED BY <1>1 DEF BankSide, Told

LEMMA IdKinds ==
  /\ Ids = TxIds \cup BankIds /\ TxIds \cap BankIds = {} /\ NoId \notin Ids
  /\ InIds \subseteq Ids \cup {NoId}
  /\ \A c, d \in Charges : BankId(c) = BankId(d) => c = d
<1>1. \A c, d \in Charges, ref \in Refs, s \in Sides : TxId(c, ref, s) # BankId(d)
  BY DEF TxId, BankId
<1>2. Ids = TxIds \cup BankIds /\ NoId \notin Ids
  BY HouseholdAssumption DEF Ids, TxIds, BankIds
<1>3. TxIds \cap BankIds = {} BY <1>1 DEF TxIds, BankIds
<1>4. InIds \subseteq Ids \cup {NoId}
  <2>1. "in" \in Sides BY DEF Sides
  <2>2. {BankId(c) : c \in {d \in Charges : BankSide[d] = "in"}} \subseteq BankIds
    BY DEF BankIds
  <2>3. {TxId(c, ref, "in") : c \in Charges, ref \in Refs} \subseteq TxIds
    BY <2>1 DEF TxIds
  <2> QED BY <1>2, <2>2, <2>3 DEF InIds
<1>5. \A c, d \in Charges : BankId(c) = BankId(d) => c = d BY DEF BankId
<1> QED BY <1>2, <1>3, <1>4, <1>5

(* The id of a row of income is an id of income, and no other row has one. *)
LEMMA IncomeIds ==
  ASSUME NEW r \in Rows, Told(r)
  PROVE  /\ r.side = "in" => r.id \in InIds
         /\ r.id \in InIds \ {NoId} => r.side = "in"
<1>1. r.charge \in Charges /\ r.side \in Sides BY DEF Rows
<1>2. CASE r.id = NoId BY <1>2 DEF InIds
<1>3. CASE r.id = BankId(r.charge) /\ r.side = BankSide[r.charge]
  <2>1. ASSUME r.side = "in" PROVE r.id \in InIds
    <3>1. r.charge \in {d \in Charges : BankSide[d] = "in"} BY <1>1, <1>3, <2>1
    <3>2. r.id \in {BankId(c) : c \in {d \in Charges : BankSide[d] = "in"}}
      BY <1>3, <3>1
    <3> QED BY <3>2 DEF InIds
  <2>2. ASSUME r.id \in InIds \ {NoId} PROVE r.side = "in"
    <3>1. r.id \in BankIds BY <1>1, <1>3 DEF BankIds
    <3>2. r.id \notin TxIds BY <3>1, IdKinds
    <3>3. PICK c \in Charges : r.id = BankId(c) /\ BankSide[c] = "in"
      BY <2>2, <3>2 DEF InIds, TxIds, Sides
    <3>4. c = r.charge BY <1>1, <1>3, <3>3, IdKinds
    <3> QED BY <1>3, <3>3, <3>4
  <2> QED BY <2>1, <2>2
<1>4. CASE \E ref \in Refs : r.id = TxId(r.charge, ref, r.side)
  <2>1. PICK ref \in Refs : r.id = TxId(r.charge, ref, r.side) BY <1>4
  <2>2. r.side = "in" => r.id \in InIds BY <1>1, <2>1 DEF InIds
  <2>3. ASSUME r.id \in InIds \ {NoId} PROVE r.side = "in"
    <3>1. r.id \in TxIds BY <1>1, <2>1 DEF TxIds
    <3>2. r.id \notin BankIds BY <3>1, IdKinds
    <3>3. PICK c \in Charges, ref2 \in Refs : r.id = TxId(c, ref2, "in")
      BY <2>3, <3>2 DEF InIds, BankIds
    <3> QED BY <2>1, <3>3 DEF TxId
  <2> QED BY <2>2, <2>3
<1> QED BY <1>2, <1>3, <1>4 DEF Told, Telling

----------------------------------------------------------------------------
(* Bags of rows.                                                           *)

LEMMA RowBag ==
  ASSUME NEW B
  PROVE  B \in RowBags <=> IsABag(B) /\ BagToSet(B) \subseteq Rows
<1>1. ASSUME B \in RowBags PROVE IsABag(B) /\ BagToSet(B) \subseteq Rows
  <2>1. PICK T \in SUBSET Rows : B \in [T -> Nat \ {0}] BY <1>1 DEF RowBags
  <2>2. DOMAIN B = T BY <2>1
  <2>3. B \in [DOMAIN B -> {n \in Nat : n > 0}] BY <2>1, <2>2
  <2> QED BY <2>2, <2>3 DEF IsABag, BagToSet
<1>2. ASSUME IsABag(B), BagToSet(B) \subseteq Rows PROVE B \in RowBags
  <2>1. B \in [DOMAIN B -> {n \in Nat : n > 0}] /\ DOMAIN B \in SUBSET Rows
    BY <1>2 DEF IsABag, BagToSet
  <2>2. B \in [DOMAIN B -> Nat \ {0}] BY <2>1
  <2> QED BY <2>1, <2>2 DEF RowBags
<1> QED BY <1>1, <1>2

LEMMA RowBagParts ==
  ASSUME NEW B \in RowBags
  PROVE  /\ DOMAIN B \subseteq Rows /\ IsFiniteSet(DOMAIN B)
         /\ B \in [DOMAIN B -> Nat \ {0}] /\ B \in [DOMAIN B -> Nat]
<1>1. PICK T \in SUBSET Rows : B \in [T -> Nat \ {0}] BY DEF RowBags
<1>2. IsFiniteSet(Rows) BY HouseholdAssumption
<1>3. IsFiniteSet(T) BY <1>1, <1>2, FS_Subset
<1> QED BY <1>1, <1>3

(* A bag of which every member is made anew by h.                          *)
Image(h, B) == [e \in {h[d] : d \in DOMAIN B} |->
                  SumOf([d \in DOMAIN B |-> IF h[d] = e THEN B[d] ELSE 0])]

LEMMA ImageBag ==
  ASSUME NEW B \in RowBags, NEW h \in [DOMAIN B -> Rows]
  PROVE  /\ Image(h, B) \in RowBags
         /\ DOMAIN Image(h, B) = {h[d] : d \in DOMAIN B}
<1> DEFINE D == DOMAIN B
           part(e) == [d \in D |-> IF h[d] = e THEN B[d] ELSE 0]
<1>1. IsFiniteSet(D) /\ B \in [D -> Nat \ {0}] BY RowBagParts
<1>2. ASSUME NEW e \in {h[d] : d \in D} PROVE SumOf(part(e)) \in Nat \ {0}
  <2>1. part(e) \in [D -> Nat] BY <1>1
  <2>2. PICK d \in D : e = h[d] OBVIOUS
  <2>3. part(e)[d] = B[d] BY <2>2
  <2> HIDE DEF part
  <2>4. SumOf(part(e)) \in Nat BY <1>1, <2>1, SumNat
  <2>5. part(e)[d] <= SumOf(part(e)) BY <1>1, <2>1, SumAtLeast
  <2>6. B[d] \in Nat \ {0} BY <1>1
  <2> QED BY <2>3, <2>4, <2>5, <2>6
<1>3. {h[d] : d \in D} \in SUBSET Rows OBVIOUS
<1>4. Image(h, B) = [e \in {h[d] : d \in D} |-> SumOf(part(e))] BY DEF Image
<1> HIDE DEF part, D
<1>5. Image(h, B) \in [{h[d] : d \in D} -> Nat \ {0}] BY <1>2, <1>4
<1>6. Image(h, B) \in RowBags BY <1>3, <1>5 DEF RowBags
<1>7. DOMAIN Image(h, B) = {h[d] : d \in D} BY <1>5
<1> QED BY <1>6, <1>7 DEF D

LEMMA ImageOnce ==
  ASSUME NEW B \in RowBags, NEW h \in [DOMAIN B -> Rows], Once(B),
         \A d \in DOMAIN B : h[d].id \in BankIds => h[d].id = d.id
  PROVE  Once(Image(h, B))
<1> DEFINE D == DOMAIN B
           part(e) == [d \in D |-> IF h[d] = e THEN B[d] ELSE 0]
<1>1. IsFiniteSet(D) /\ B \in [D -> Nat] BY RowBagParts
<1>2. DOMAIN Image(h, B) = {h[d] : d \in D} BY ImageBag
<1>3. ASSUME NEW r \in {h[d] : d \in D}, NEW q \in {h[d] : d \in D},
             r.id = q.id, r.id \in BankIds
      PROVE  r = q /\ Image(h, B)[r] = 1
  <2>1. PICK x \in D : r = h[x] OBVIOUS
  <2>2. PICK y \in D : q = h[y] OBVIOUS
  <2>3. x.id = r.id /\ y.id = q.id BY <1>3, <2>1, <2>2
  <2>4. x = y /\ B[x] = 1 BY <1>3, <2>3 DEF Once
  <2>5. ASSUME NEW z \in D, z # x PROVE h[z] # r
    <3>1. SUFFICES ASSUME h[z] = r PROVE FALSE OBVIOUS
    <3>2. z.id = r.id BY <1>3, <3>1
    <3>3. z = x BY <1>3, <2>3, <3>2 DEF Once
    <3> QED BY <2>5, <3>3
  <2>6. part(r) \in [D -> Nat] BY <1>1
  <2>7. part(r)[x] = 1 /\ \A z \in D : z # x => part(r)[z] = 0 BY <2>1, <2>4, <2>5
  <2>8. Image(h, B)[r] = SumOf(part(r)) BY <1>3 DEF Image
  <2> HIDE DEF part
  <2>9. SumOf(part(r)) = part(r)[x] BY <1>1, <2>6, <2>7, SumOfOne
  <2> QED BY <2>1, <2>2, <2>4, <2>7, <2>8, <2>9
<1> QED BY <1>2, <1>3 DEF Once

LEMMA ImageSame ==
  ASSUME NEW B \in RowBags, NEW h \in [DOMAIN B -> Rows], \A d \in DOMAIN B : h[d] = d
  PROVE  Image(h, B) = B
<1> DEFINE D == DOMAIN B
           part(e) == [d \in D |-> IF h[d] = e THEN B[d] ELSE 0]
<1>1. IsFiniteSet(D) /\ B \in [D -> Nat] BY RowBagParts
<1>2. ASSUME NEW e \in D PROVE SumOf(part(e)) = B[e]
  <2>1. part(e) \in [D -> Nat] /\ part(e)[e] = B[e] BY <1>1
  <2>2. \A z \in D : z # e => part(e)[z] = 0 OBVIOUS
  <2> HIDE DEF part
  <2>3. SumOf(part(e)) = part(e)[e] BY <1>1, <2>1, <2>2, SumOfOne
  <2> QED BY <2>1, <2>3
<1>3. {h[d] : d \in D} = D OBVIOUS
<1>4. Image(h, B) = [e \in D |-> SumOf(part(e))] BY <1>3 DEF Image
<1> HIDE DEF part
<1> QED BY <1>1, <1>2, <1>4

(* BankIdsOnce counts copies; Once says which rows there are.              *)
LEMMA OnceIsOneOfEach ==
  ASSUME NEW B \in RowBags PROVE OneOfEach(B) <=> Once(B)
<1> DEFINE of(c) == [r \in {x \in DOMAIN B : x.id = BankId(c)} |-> B[r]]
           D(c) == {x \in DOMAIN B : x.id = BankId(c)}
<1>1. OneOfEach(B) <=> \A c \in Charges : SumOf(of(c)) <= 1
  BY CardinalityOfBag DEF OneOfEach, BagToSet
<1>2. ASSUME NEW c \in Charges
      PROVE  /\ IsFiniteSet(D(c)) /\ of(c) \in [D(c) -> Nat]
             /\ \A x \in D(c) : of(c)[x] = B[x] /\ B[x] \in Nat \ {0}
  <2>1. IsFiniteSet(D(c)) BY RowBagParts, FS_Subset
  <2> QED BY <2>1, RowBagParts
<1>3. ASSUME OneOfEach(B), NEW r \in DOMAIN B, NEW q \in DOMAIN B,
             r.id = q.id, r.id \in BankIds
      PROVE  r = q /\ B[r] = 1
  <2>1. PICK c \in Charges : r.id = BankId(c) BY <1>3 DEF BankIds
  <2>2. r \in D(c) /\ q \in D(c) BY <1>3, <2>1
  <2>3. SumOf(of(c)) <= 1 BY <1>1, <1>3
  <2>4. of(c)[r] = B[r] /\ of(c)[q] = B[q] /\ B[r] \in Nat \ {0} /\ B[q] \in Nat \ {0}
    BY <1>2, <2>2
  <2>5. IsFiniteSet(D(c)) /\ of(c) \in [D(c) -> Nat] BY <1>2
  <2> HIDE DEF of, D
  <2>6. SumOf(of(c)) \in Nat BY <2>5, SumNat
  <2>7. of(c)[r] <= SumOf(of(c)) BY <2>2, <2>5, SumAtLeast
  <2>8. r # q => of(c)[r] + of(c)[q] <= SumOf(of(c)) BY <2>2, <2>5, SumAtLeastTwo
  <2> QED BY <2>3, <2>4, <2>6, <2>7, <2>8
<1>4. ASSUME Once(B), NEW c \in Charges PROVE SumOf(of(c)) <= 1
  <2>1. IsFiniteSet(D(c)) /\ of(c) \in [D(c) -> Nat] BY <1>2
  <2>2. CASE D(c) = {}
    <3>1. DOMAIN of(c) = {} /\ of(c) \in [{} -> Nat] BY <2>2
    <3> HIDE DEF of
    <3>2. SumOf(of(c)) = 0 BY <3>1, SumOfNone
    <3> QED BY <3>2
  <2>3. CASE D(c) # {}
    <3>1. PICK x \in D(c) : TRUE BY <2>3
    <3>2. BankId(c) \in BankIds BY DEF BankIds
    <3>3. B[x] = 1 /\ \A y \in D(c) : y = x BY <1>4, <3>2 DEF Once
    <3>4. of(c)[x] = 1 /\ \A y \in D(c) : y # x => of(c)[y] = 0 BY <3>3
    <3> HIDE DEF of, D
    <3>5. SumOf(of(c)) = of(c)[x] BY <2>1, <3>4, SumOfOne
    <3> QED BY <3>4, <3>5
  <2> QED BY <2>2, <2>3
<1>5. OneOfEach(B) => Once(B) BY <1>3 DEF Once
<1>6. Once(B) => OneOfEach(B) BY <1>1, <1>4
<1> QED BY <1>5, <1>6

----------------------------------------------------------------------------
(* What the handlers do to a bag of rows.                                  *)

LEMMA GoodImage ==
  ASSUME NEW B \in GoodBags, NEW h \in [DOMAIN B -> Rows],
         \A d \in DOMAIN B : Told(h[d]) /\ (h[d].id \in BankIds => h[d].id = d.id)
  PROVE  Image(h, B) \in GoodBags
<1>1. B \in RowBags /\ Once(B) BY DEF GoodBags
<1>2. Image(h, B) \in RowBags /\ DOMAIN Image(h, B) = {h[d] : d \in DOMAIN B}
  BY <1>1, ImageBag
<1>3. Once(Image(h, B)) BY <1>1, ImageOnce
<1> QED BY <1>2, <1>3 DEF GoodBags

LEMMA KeptRow ==
  ASSUME NEW r \in Rows
  PROVE  /\ Kept(r) \in Rows /\ Kept(Kept(r)) = Kept(r) /\ Kept(r).id = r.id
         /\ Told(r) => Told(Kept(r))
<1>1. NoRef \in Refs BY HouseholdAssumption
<1>2. Kept(r) \in Rows /\ Kept(Kept(r)) = Kept(r) BY <1>1 DEF Kept, Rows
<1>3. Kept(r).id = r.id /\ Kept(r).charge = r.charge /\ Kept(r).side = r.side
  BY DEF Kept, Rows
<1> QED BY <1>2, <1>3 DEF Told, Telling

LEMMA BagOfKept ==
  ASSUME NEW B \in RowBags
  PROVE  BagOfAll(Kept, B) = Image([d \in DOMAIN B |-> Kept(d)], B)
<1> DEFINE h == [d \in DOMAIN B |-> Kept(d)]
<1>1. BagOfAll(Kept, B) = [e \in {Kept(d) : d \in DOMAIN B} |->
                             SumOf([d \in DOMAIN B |-> IF Kept(d) = e THEN B[d] ELSE 0])]
  BY Zenon DEF BagOfAll, BagToSet, SumOf
<1>2. {Kept(d) : d \in DOMAIN B} = {h[d] : d \in DOMAIN B} OBVIOUS
<1>3. \A e : [d \in DOMAIN B |-> IF Kept(d) = e THEN B[d] ELSE 0]
              = [d \in DOMAIN B |-> IF h[d] = e THEN B[d] ELSE 0]
  OBVIOUS
<1> QED BY Zenon, <1>1, <1>2, <1>3 DEF Image

(* What localStorage keeps of a household, and that it keeps all of it.    *)
LEMMA SnapshotGood ==
  ASSUME NEW B \in GoodBags
  PROVE  /\ BagOfAll(Kept, B) \in GoodBags
         /\ \A r \in DOMAIN BagOfAll(Kept, B) : Kept(r) = r
<1> DEFINE h == [d \in DOMAIN B |-> Kept(d)]
<1>1. B \in RowBags /\ DOMAIN B \subseteq Rows BY RowBagParts DEF GoodBags
<1>2. BagOfAll(Kept, B) = Image(h, B) BY <1>1, BagOfKept
<1>3. h \in [DOMAIN B -> Rows] BY <1>1, KeptRow
<1>4. \A d \in DOMAIN B : Told(h[d]) /\ h[d].id = d.id /\ Kept(h[d]) = h[d]
  BY <1>1, KeptRow DEF GoodBags
<1> HIDE DEF h
<1>5. Image(h, B) \in GoodBags BY <1>3, <1>4, GoodImage
<1>6. DOMAIN Image(h, B) = {h[d] : d \in DOMAIN B} BY <1>1, <1>3, ImageBag
<1> QED BY <1>2, <1>4, <1>5, <1>6

LEMMA SnapshotSame ==
  ASSUME NEW B \in GoodBags, \A r \in DOMAIN B : Kept(r) = r
  PROVE  BagOfAll(Kept, B) = B
<1> DEFINE h == [d \in DOMAIN B |-> Kept(d)]
<1>1. B \in RowBags /\ DOMAIN B \subseteq Rows BY RowBagParts DEF GoodBags
<1>2. BagOfAll(Kept, B) = Image(h, B) BY <1>1, BagOfKept
<1>3. h \in [DOMAIN B -> Rows] /\ \A d \in DOMAIN B : h[d] = d BY <1>1
<1> HIDE DEF h
<1> QED BY <1>1, <1>2, <1>3, ImageSame

(* A row on its other side is a row, with an id of its own.                *)
LEMMA SidedRow ==
  ASSUME NEW r \in Rows, NEW s \in Sides
  PROVE  /\ WithSide(r, s) \in Rows /\ Told(WithSide(r, s))
         /\ WithSide(r, s).id \in TxIds
<1>1. r.charge \in Charges /\ r.ref \in Refs BY DEF Rows
<1>2. TxId(r.charge, r.ref, s) \in TxIds BY <1>1 DEF TxIds
<1>3. WithSide(r, s) \in Rows BY <1>2, IdKinds DEF WithSide, Rows
<1>4. /\ WithSide(r, s).id = TxId(r.charge, r.ref, s)
      /\ WithSide(r, s).charge = r.charge /\ WithSide(r, s).side = s
  BY DEF WithSide, Rows
<1> QED BY <1>1, <1>2, <1>3, <1>4 DEF Told, Telling

LEMMA FlippedRow ==
  ASSUME NEW r \in Rows
  PROVE  /\ Flipped(r) \in Rows /\ Told(Flipped(r)) /\ Flipped(r).id \in TxIds
         /\ AsOutgoing(r) \in Rows /\ Told(AsOutgoing(r)) /\ AsOutgoing(r).id \in TxIds
<1>1. r.side \in Sides BY DEF Rows
<1>2. \E s \in Sides : Flipped(r) = WithSide(r, s) BY <1>1 DEF Flipped, Sides
<1>3. \E s \in Sides : AsOutgoing(r) = WithSide(r, s) BY <1>1 DEF AsOutgoing, Sides
<1> QED BY <1>2, <1>3, SidedRow

Turned(x, r) == IF x.id = r.id THEN Flipped(r) ELSE x
FlippedBag(B, r) == LET turned(x) == IF x.id = r.id THEN Flipped(r) ELSE x
                    IN BagOfAll(turned, B)

LEMMA FlipGood ==
  ASSUME NEW B \in GoodBags, NEW r \in Rows PROVE FlippedBag(B, r) \in GoodBags
<1> DEFINE h == [d \in DOMAIN B |-> Turned(d, r)]
<1>1. B \in RowBags /\ DOMAIN B \subseteq Rows BY RowBagParts DEF GoodBags
<1>2. FlippedBag(B, r) = [e \in {Turned(d, r) : d \in DOMAIN B} |->
                           SumOf([d \in DOMAIN B |-> IF Turned(d, r) = e THEN B[d] ELSE 0])]
  BY Zenon DEF FlippedBag, Turned, BagOfAll, BagToSet, SumOf
<1>3. {Turned(d, r) : d \in DOMAIN B} = {h[d] : d \in DOMAIN B} OBVIOUS
<1>4. \A e : [d \in DOMAIN B |-> IF Turned(d, r) = e THEN B[d] ELSE 0]
              = [d \in DOMAIN B |-> IF h[d] = e THEN B[d] ELSE 0]
  OBVIOUS
<1>5. FlippedBag(B, r) = Image(h, B) BY Zenon, <1>2, <1>3, <1>4 DEF Image
<1>6. \A d \in DOMAIN B : /\ Turned(d, r) \in Rows /\ Told(Turned(d, r))
                          /\ Turned(d, r).id \in BankIds => Turned(d, r).id = d.id
  BY <1>1, FlippedRow, IdKinds DEF GoodBags, Turned
<1>7. /\ h \in [DOMAIN B -> Rows]
      /\ \A d \in DOMAIN B : Told(h[d]) /\ (h[d].id \in BankIds => h[d].id = d.id)
  BY <1>6
<1> HIDE DEF h
<1> QED BY <1>5, <1>7, GoodImage

Fixed(x, wrong) == IF x.id \in wrong THEN AsOutgoing(x) ELSE x
FixedBag(B, wrong) == LET fixed(x) == IF x.id \in wrong THEN AsOutgoing(x) ELSE x
                      IN BagOfAll(fixed, B)

LEMMA RepairGood ==
  ASSUME NEW B \in GoodBags, NEW wrong PROVE FixedBag(B, wrong) \in GoodBags
<1> DEFINE h == [d \in DOMAIN B |-> Fixed(d, wrong)]
<1>1. B \in RowBags /\ DOMAIN B \subseteq Rows BY RowBagParts DEF GoodBags
<1>2. FixedBag(B, wrong) = [e \in {Fixed(d, wrong) : d \in DOMAIN B} |->
                        SumOf([d \in DOMAIN B |-> IF Fixed(d, wrong) = e THEN B[d] ELSE 0])]
  BY Zenon DEF FixedBag, Fixed, BagOfAll, BagToSet, SumOf
<1>3. {Fixed(d, wrong) : d \in DOMAIN B} = {h[d] : d \in DOMAIN B} OBVIOUS
<1>4. \A e : [d \in DOMAIN B |-> IF Fixed(d, wrong) = e THEN B[d] ELSE 0]
              = [d \in DOMAIN B |-> IF h[d] = e THEN B[d] ELSE 0]
  OBVIOUS
<1>5. FixedBag(B, wrong) = Image(h, B) BY Zenon, <1>2, <1>3, <1>4 DEF Image
<1>6. \A d \in DOMAIN B : /\ Fixed(d, wrong) \in Rows /\ Told(Fixed(d, wrong))
                          /\ Fixed(d, wrong).id \in BankIds => Fixed(d, wrong).id = d.id
  BY <1>1, FlippedRow, IdKinds DEF GoodBags, Fixed
<1>7. /\ h \in [DOMAIN B -> Rows]
      /\ \A d \in DOMAIN B : Told(h[d]) /\ (h[d].id \in BankIds => h[d].id = d.id)
  BY <1>6
<1> HIDE DEF h
<1> QED BY <1>5, <1>7, GoodImage

LEMMA PlusGood ==
  ASSUME NEW B \in GoodBags, NEW r \in Rows, Told(r),
         r.id \in BankIds => r.id \notin IdsOf(B)
  PROVE  /\ Plus(B, r) \in GoodBags
         /\ \A x \in DOMAIN B : x \in DOMAIN Plus(B, r) /\ B[x] <= Plus(B, r)[x]
<1> DEFINE C == Plus(B, r)
<1>1. B \in RowBags /\ Once(B) /\ \A x \in DOMAIN B : Told(x) BY DEF GoodBags
<1>2. DOMAIN B \subseteq Rows /\ B \in [DOMAIN B -> Nat \ {0}] BY <1>1, RowBagParts
<1>3. C = [x \in DOMAIN B \cup {r} |-> (IF x \in DOMAIN B THEN B[x] ELSE 0)
                                       + (IF x \in {r} THEN 1 ELSE 0)]
  BY DEF Plus, (+), SetToBag
<1> HIDE DEF C
<1>4. DOMAIN C = DOMAIN B \cup {r} /\ DOMAIN C \in SUBSET Rows BY <1>2, <1>3
<1>5. \A x \in DOMAIN C : C[x] \in Nat \ {0} BY <1>2, <1>3
<1>6. C \in [DOMAIN C -> Nat \ {0}] BY <1>3, <1>4, <1>5
<1>7. C \in RowBags BY <1>4, <1>6 DEF RowBags
<1>8. ASSUME NEW x \in DOMAIN C, NEW y \in DOMAIN C, x.id = y.id, x.id \in BankIds
      PROVE  x = y /\ C[x] = 1
  <2>1. CASE x \in DOMAIN B /\ y \in DOMAIN B
    <3>1. x = y /\ B[x] = 1 BY <1>1, <1>8, <2>1 DEF Once
    <3>2. x.id \in IdsOf(B) BY <2>1 DEF IdsOf, BagToSet
    <3>3. x # r BY <1>8, <3>2
    <3> QED BY <1>3, <1>4, <2>1, <3>1, <3>3
  <2>2. CASE x \notin DOMAIN B \/ y \notin DOMAIN B
    <3>1. r.id = x.id /\ r.id \in BankIds BY <1>4, <1>8, <2>2
    <3>2. \A z \in DOMAIN B : z.id # r.id BY <3>1 DEF IdsOf, BagToSet
    <3>3. x = r /\ y = r /\ r \notin DOMAIN B BY <1>4, <1>8, <3>1, <3>2
    <3> QED BY <1>3, <3>3
  <2> QED BY <2>1, <2>2
<1>9. C \in GoodBags BY <1>1, <1>4, <1>7, <1>8 DEF GoodBags, Once
<1>10. \A x \in DOMAIN B : x \in DOMAIN C /\ B[x] <= C[x] BY <1>2, <1>3, <1>4
<1> QED BY <1>9, <1>10 DEF C

LEMMA WithoutGood ==
  ASSUME NEW B \in GoodBags, NEW ids
  PROVE  /\ Without(B, ids) \in GoodBags
         /\ DOMAIN Without(B, ids) = {x \in DOMAIN B : x.id \notin ids}
         /\ \A x \in DOMAIN B : x.id \notin ids => Without(B, ids)[x] = B[x]
<1> DEFINE T == {x \in DOMAIN B : x.id \notin ids}
<1>1. B \in RowBags /\ Once(B) /\ \A x \in DOMAIN B : Told(x) BY DEF GoodBags
<1>2. DOMAIN B \subseteq Rows /\ B \in [DOMAIN B -> Nat \ {0}] BY <1>1, RowBagParts
<1>3. Without(B, ids) = [x \in T |-> B[x]] BY DEF Without, BagToSet
<1>4. T \in SUBSET Rows /\ Without(B, ids) \in [T -> Nat \ {0}] BY <1>2, <1>3
<1>5. Without(B, ids) \in RowBags BY <1>4 DEF RowBags
<1>6. Once(Without(B, ids)) BY <1>1, <1>3 DEF Once
<1> QED BY <1>1, <1>3, <1>5, <1>6 DEF GoodBags

LEMMA EmptyGood == EmptyBag \in GoodBags /\ DOMAIN EmptyBag = {}
<1>1. EmptyBag = [x \in {} |-> 1] BY DEF EmptyBag, SetToBag
<1>2. EmptyBag \in [{} -> Nat \ {0}] /\ {} \in SUBSET Rows BY <1>1
<1>3. EmptyBag \in RowBags /\ DOMAIN EmptyBag = {} BY <1>2 DEF RowBags
<1> QED BY <1>3 DEF GoodBags, Once

LEMMA EnteredTold ==
  ASSUME NEW r \in EnteredRows
  PROVE  r \in Rows /\ Told(r) /\ r.id \in TxIds /\ r.id \notin BankIds /\ r.id \in Ids
<1>1. r \in Rows /\ r.id = TxId(r.charge, r.ref, r.side) BY DEF EnteredRows
<1>2. r.charge \in Charges /\ r.ref \in Refs /\ r.side \in Sides BY <1>1 DEF Rows
<1>3. r.id \in TxIds BY <1>1, <1>2 DEF TxIds
<1> QED BY <1>1, <1>2, <1>3, IdKinds DEF Told, Telling

(* The rows of a sync, one after another.                                  *)
LEMMA MergeGood ==
  ASSUME NEW B \in GoodBags, NEW r \in Rows, Told(r) PROVE Merge(B, r) \in GoodBags
<1>1. CASE r.id # NoId /\ r.id \in IdsOf(B) BY <1>1 DEF Merge
<1>2. CASE ~(r.id # NoId /\ r.id \in IdsOf(B))
  <2>1. r.id \in BankIds => r.id \notin IdsOf(B) BY <1>2, IdKinds
  <2>2. Plus(B, r) \in GoodBags BY <2>1, PlusGood
  <2> QED BY <1>2, <2>2 DEF Merge
<1> QED BY <1>1, <1>2

LEMMA SyncGood ==
  ASSUME NEW B \in GoodBags, NEW batch \in Batches
  PROVE  FoldLeft(Merge, B, batch) \in GoodBags
<1> DEFINE n == Len(batch)
           f == [p \in (1..n) \X GoodBags |-> Merge(p[2], batch[p[1]])]
           Body(i) == [t \in SUBSET (1..n) |-> IF t = {} THEN B
                         ELSE Merge(i[t \ {Max(t)}], batch[Max(t)])]
           iter == CHOOSE i : i = Body(i)
<1>1. batch \in Seq(SyncedRows) BY HouseholdAssumption
<1>2. n \in Nat /\ DOMAIN batch = 1..n /\ \A k \in 1..n : batch[k] \in SyncedRows BY <1>1
<1>3. FoldLeft(Merge, B, batch) = iter[1..n]
  BY Zenon, <1>2 DEF FoldLeft, MapThenFoldSet
<1>4. \A k \in 1..n : batch[k] \in Rows /\ Told(batch[k])
  <2>1. \A k \in 1..n : batch[k] \in ToSet(batch) BY <1>2 DEF ToSet
  <2>2. \A k \in 1..n : batch[k] \in BatchRows BY <2>1 DEF BatchRows
  <2> QED BY <1>2, <2>2, Sided DEF SyncedRows
<1>5. f \in [(1..n) \X GoodBags -> GoodBags] BY <1>4, MergeGood
<1>6. \A x \in GoodBags, k \in 1..n : f[<<k, x>>] = Merge(x, batch[k]) OBVIOUS
<1> HIDE DEF f, n
<1>7. PICK g \in [SUBSET (1..n) -> GoodBags] : FoldTable(n, f, B, g)
  BY <1>2, <1>5, FoldExists
<1>8. g = Body(g)
  <2>1. ASSUME NEW t \in SUBSET (1..n)
        PROVE  g[t] = IF t = {} THEN B ELSE Merge(g[t \ {Max(t)}], batch[Max(t)])
    <3>1. CASE t = {} BY <1>7, <3>1 DEF FoldTable
    <3>2. CASE t # {}
      <4>1. Max(t) \in 1..n BY <1>2, <3>2, MaxIn
      <4>2. g[t \ {Max(t)}] \in GoodBags OBVIOUS
      <4>3. g[t] = f[<<Max(t), g[t \ {Max(t)}]>>] BY <1>7, <3>2 DEF FoldTable
      <4> QED BY <1>6, <3>2, <4>1, <4>2, <4>3
    <3> QED BY <3>1, <3>2
  <2> QED BY <2>1
<1>9. iter = Body(iter)
  <2> HIDE DEF Body
  <2> QED BY Zenon, <1>8
<1> HIDE DEF iter
<1>10. Follows(n, GoodBags, f, B, iter)
  <2>1. iter[{}] = B BY <1>9
  <2>2. ASSUME NEW t \in SUBSET (1..n), t # {}, iter[t \ {Max(t)}] \in GoodBags
        PROVE  iter[t] = f[<<Max(t), iter[t \ {Max(t)}]>>]
    <3>1. Max(t) \in 1..n BY <1>2, <2>2, MaxIn
    <3>2. iter[t] = Merge(iter[t \ {Max(t)}], batch[Max(t)]) BY <1>9, <2>2
    <3> QED BY <1>6, <2>2, <3>1, <3>2
  <2> QED BY <2>1, <2>2 DEF Follows
<1>11. Chain(n, GoodBags, f, B, iter[1..n]) BY <1>2, <1>5, <1>10, FoldChain
<1>12. iter[1..n] \in GoodBags BY <1>2, <1>11 DEF Chain
<1> QED BY <1>3, <1>12

----------------------------------------------------------------------------
(* What the reading of a file does to the rows there were, B0.             *)

(* What an import remembers: for a charge, an id of income of that charge. *)
Partial == UNION {[T -> InIds] : T \in SUBSET Charges}
Own(m)  == \A c \in DOMAIN m : m[c] = NoId \/ OfCharge(m[c], c)
Remembered == {m \in Partial : Own(m)}
Spent(B, r) == r \in DOMAIN B /\ r.side = "out" /\ r.id # NoId
Keeps(B0, B) == \A r \in DOMAIN B0 : Spent(B0, r) => r \in DOMAIN B /\ B0[r] <= B[r]
Loops == [rows : GoodBags, chosen : SUBSET Ids, have : SUBSET (Ids \cup {NoId}),
          misread : Remembered]
LoopsFrom(B0) == {s \in Loops : Keeps(B0, s.rows)}

LEMMA KeepsOn ==
  ASSUME NEW B0 \in GoodBags, NEW B \in GoodBags, NEW C \in GoodBags, Keeps(B0, B),
         \A r \in DOMAIN B : Spent(B, r) => r \in DOMAIN C /\ B[r] <= C[r]
  PROVE  Keeps(B0, C)
<1>1. ASSUME NEW r \in DOMAIN B0, Spent(B0, r) PROVE r \in DOMAIN C /\ B0[r] <= C[r]
  <2>1. r \in DOMAIN B /\ B0[r] <= B[r] BY <1>1 DEF Keeps
  <2>2. r \in DOMAIN C /\ B[r] <= C[r] BY <1>1, <2>1 DEF Spent
  <2>3. B0[r] \in Nat /\ B[r] \in Nat /\ C[r] \in Nat
    BY <2>1, <2>2, RowBagParts DEF GoodBags
  <2> QED BY <2>1, <2>2, <2>3
<1> QED BY <1>1 DEF Keeps

(* Rows that leave have ids of income.                                     *)
LEMMA DroppedGood ==
  ASSUME NEW B0 \in GoodBags, NEW s \in LoopsFrom(B0), NEW ids \in SUBSET InIds, NEW charges
  PROVE  Dropped(s, ids, charges) \in LoopsFrom(B0)
<1> DEFINE C == Without(s.rows, ids)
           m == Restrict(s.misread, DOMAIN s.misread \ charges)
<1>1. s \in Loops /\ Keeps(B0, s.rows) BY DEF LoopsFrom
<1>2. s.rows \in GoodBags /\ s.misread \in Remembered BY <1>1 DEF Loops
<1>3. /\ C \in GoodBags /\ DOMAIN C = {x \in DOMAIN s.rows : x.id \notin ids}
      /\ \A x \in DOMAIN s.rows : x.id \notin ids => C[x] = s.rows[x]
  <2> DEFINE B == s.rows
  <2>1. B \in GoodBags BY <1>2
  <2> HIDE DEF B
  <2>2. /\ Without(B, ids) \in GoodBags
        /\ DOMAIN Without(B, ids) = {x \in DOMAIN B : x.id \notin ids}
        /\ \A x \in DOMAIN B : x.id \notin ids => Without(B, ids)[x] = B[x]
    BY <2>1, WithoutGood
  <2> QED BY <2>2 DEF B
<1>4. m \in Remembered
  <2>1. PICK T \in SUBSET Charges : s.misread \in [T -> InIds]
    BY <1>2 DEF Remembered, Partial
  <2>2. m \in [T \ charges -> InIds] BY <2>1 DEF Restrict
  <2>3. \A c \in DOMAIN m : c \in DOMAIN s.misread /\ m[c] = s.misread[c] BY DEF Restrict
  <2>4. m \in Partial BY <2>2 DEF Partial
  <2>5. Own(m) BY <1>2, <2>3 DEF Remembered, Own
  <2> QED BY <2>4, <2>5 DEF Remembered
<1>5. ASSUME NEW r \in DOMAIN s.rows, Spent(s.rows, r)
      PROVE  r \in DOMAIN C /\ s.rows[r] <= C[r]
  <2>1. r \in Rows /\ Told(r) BY <1>2, RowBagParts DEF GoodBags
  <2>2. r.id \notin ids BY <1>5, <2>1, IncomeIds DEF Spent
  <2>3. r \in DOMAIN C /\ C[r] = s.rows[r] BY <1>3, <2>2
  <2>4. s.rows[r] \in Nat BY <1>2, RowBagParts DEF GoodBags
  <2> QED BY <2>3, <2>4
<1>6. Keeps(B0, C) BY <1>1, <1>2, <1>3, <1>5, KeepsOn
<1>7. Dropped(s, ids, charges) = [s EXCEPT !.rows = C, !.have = @ \ ids, !.misread = m]
  BY DEF Dropped
<1> HIDE DEF C, m
<1>8. Dropped(s, ids, charges) \in Loops /\ Dropped(s, ids, charges).rows = C
  BY <1>1, <1>3, <1>4, <1>7 DEF Loops
<1> QED BY <1>6, <1>8 DEF LoopsFrom

Incomes == {r \in Rows : r.side = "in" /\ Told(r)}

LEMMA MisreadIncome ==
  ASSUME NEW B \in GoodBags PROVE Misread(B) \subseteq Incomes
BY RowBagParts DEF GoodBags, Misread, Incomes, BagToSet

LEMMA ChosenOn ==
  ASSUME NEW B0, NEW s \in LoopsFrom(B0), NEW chosen \in SUBSET Ids
  PROVE  [s EXCEPT !.chosen = chosen] \in LoopsFrom(B0)
<1>1. s \in Loops /\ Keeps(B0, s.rows) BY DEF LoopsFrom
<1>2. [s EXCEPT !.chosen = chosen] \in Loops BY <1>1 DEF Loops
<1>3. [s EXCEPT !.chosen = chosen].rows = s.rows BY <1>1 DEF Loops
<1> QED BY <1>1, <1>2, <1>3 DEF LoopsFrom

LEMMA WaiveGood ==
  ASSUME NEW B0 \in GoodBags, NEW s \in LoopsFrom(B0), NEW file, NEW old \in SUBSET Incomes
  PROVE  Waive(s, file, old) \in LoopsFrom(B0)
<1> DEFINE waived == {r \in old : \E n \in DOMAIN file : /\ Correction(file, n, r.id)
                                                        /\ file[n].row = Nothing}
           ids == {r.id : r \in waived}
           d == Dropped(s, ids, {r.charge : r \in waived})
<1>1. ids \subseteq InIds BY IncomeIds DEF Incomes
<1>2. d \in LoopsFrom(B0) BY <1>1, DroppedGood
<1>3. Waive(s, file, old) = [d EXCEPT !.chosen = @ \ ids] BY DEF Waive
<1> HIDE DEF d, ids
<1>4. d.chosen \ ids \in SUBSET Ids BY <1>2 DEF LoopsFrom, Loops
<1> QED BY <1>2, <1>3, <1>4, ChosenOn

LEMMA SupersedeGood ==
  ASSUME NEW B0 \in GoodBags, NEW s \in LoopsFrom(B0), NEW file, NEW old \in SUBSET Incomes,
         NEW r \in EnteredRows, NEW spared
  PROVE  Supersede(s, file, spared, old, r) \in LoopsFrom(B0)
<1> DEFINE olds == {x \in old : \E n \in DOMAIN file :
                      /\ Correction(file, n, x.id)
                      /\ file[n].row # Nothing /\ file[n].row.id = r.id}
           ids == {x.id : x \in olds}
           d == Dropped(s, ids, {x.charge : x \in olds})
           given == ids \cap s.chosen
           kept == /\ given # {}
                   /\ r.id \notin ids \/ (r.id \in spared /\ given # {r.id})
           chosen == IF kept THEN (d.chosen \ ids) \cup {r.id} ELSE d.chosen \ ids
<1>1. ids \subseteq InIds BY IncomeIds DEF Incomes
<1>2. d \in LoopsFrom(B0) BY <1>1, DroppedGood
<1>3. Supersede(s, file, spared, old, r) = [d EXCEPT !.chosen = chosen] BY DEF Supersede
<1> HIDE DEF d, ids, kept
<1>4. chosen \in SUBSET Ids BY <1>2, EnteredTold DEF LoopsFrom, Loops
<1> HIDE DEF chosen
<1> QED BY <1>2, <1>3, <1>4, ChosenOn

LEMMA CorrectGood ==
  ASSUME NEW B0 \in GoodBags, NEW s \in LoopsFrom(B0), NEW r \in EnteredRows
  PROVE  Correct(s, r) \in LoopsFrom(B0)
<1>1. CASE ~(r.by = "card" /\ r.side = "out" /\ r.charge \in DOMAIN s.misread)
  BY <1>1 DEF Correct
<1>2. CASE r.by = "card" /\ r.side = "out" /\ r.charge \in DOMAIN s.misread
  <2> DEFINE old == s.misread[r.charge]
             d == Dropped(s, {old}, {r.charge})
             chosen == Moved(d.chosen, old, r.id)
  <2>1. old \in InIds
    <3>1. s.misread \in Partial BY DEF LoopsFrom, Loops, Remembered
    <3>2. PICK T \in SUBSET Charges : s.misread \in [T -> InIds] BY <3>1 DEF Partial
    <3> QED BY <1>2, <3>2
  <2>2. d \in LoopsFrom(B0) BY <2>1, DroppedGood
  <2>3. Correct(s, r) = [d EXCEPT !.chosen = chosen] BY <1>2 DEF Correct
  <2> HIDE DEF d, old
  <2>4. chosen \in SUBSET Ids BY <2>2, EnteredTold DEF LoopsFrom, Loops, Moved
  <2> HIDE DEF chosen
  <2> QED BY <2>2, <2>3, <2>4, ChosenOn
<1> QED BY <1>1, <1>2

LEMMA AddGood ==
  ASSUME NEW B0 \in GoodBags, NEW s \in LoopsFrom(B0), NEW r \in EnteredRows
  PROVE  Add(s, r) \in LoopsFrom(B0)
<1>1. CASE r.id \in s.have BY <1>1 DEF Add
<1>2. CASE r.id \notin s.have
  <2> DEFINE c == Correct(s, r)
             C == Plus(c.rows, r)
  <2>1. c \in LoopsFrom(B0) BY CorrectGood
  <2>2. Add(s, r) = [c EXCEPT !.rows = C, !.have = @ \cup {r.id}] BY <1>2 DEF Add
  <2> HIDE DEF c
  <2>3. c \in Loops /\ Keeps(B0, c.rows) /\ c.rows \in GoodBags
    BY <2>1 DEF LoopsFrom, Loops
  <2>4. r \in Rows /\ Told(r) /\ r.id \notin BankIds /\ r.id \in Ids BY EnteredTold
  <2>5. C \in GoodBags /\ \A x \in DOMAIN c.rows : x \in DOMAIN C /\ c.rows[x] <= C[x]
    BY <2>3, <2>4, PlusGood
  <2>6. Keeps(B0, C) BY <2>3, <2>5, KeepsOn
  <2> HIDE DEF C
  <2>7. Add(s, r) \in Loops /\ Add(s, r).rows = C BY <2>2, <2>3, <2>4, <2>5 DEF Loops
  <2> QED BY <2>6, <2>7 DEF LoopsFrom
<1> QED BY <1>1, <1>2

Line(file, spared, old, s, l) ==
  IF l.row = Nothing THEN s ELSE Add(Supersede(s, file, spared, old, l.row), l.row)
Lines(file, spared, old, s) ==
  LET line(t, l) == IF l.row = Nothing THEN t
                    ELSE Add(Supersede(t, file, spared, old, l.row), l.row)
  IN FoldLeft(line, s, file)

LEMMA FileLines ==
  ASSUME NEW file \in Files
  PROVE  /\ Len(file) \in Nat /\ DOMAIN file = 1..Len(file)
         /\ \A k \in 1..Len(file) : file[k].row \in EnteredRows \cup {Nothing}
<1> DEFINE L == [was : Ids \cup {NoId}, row : EnteredRows \cup {Nothing}]
<1>1. file \in Seq(L) BY HouseholdAssumption
<1>2. \A l \in L : l.row \in EnteredRows \cup {Nothing} OBVIOUS
<1> HIDE DEF L
<1>3. Len(file) \in Nat /\ DOMAIN file = 1..Len(file) BY <1>1
<1>4. \A k \in 1..Len(file) : file[k] \in L BY <1>1, <1>3
<1> QED BY <1>2, <1>3, <1>4

(* What every line leaves alone, the lines of a file leave alone.          *)
LEMMA LinesStay ==
  ASSUME NEW X, NEW s \in X, NEW file \in Files, NEW old, NEW spared,
         \A x \in X, k \in 1..Len(file) : Line(file, spared, old, x, file[k]) \in X
  PROVE  Lines(file, spared, old, s) \in X
<1> DEFINE n == Len(file)
           f == [p \in (1..n) \X X |-> Line(file, spared, old, p[2], file[p[1]])]
           Body(i) == [t \in SUBSET (1..n) |-> IF t = {} THEN s
                         ELSE Line(file, spared, old, i[t \ {Max(t)}], file[Max(t)])]
           iter == CHOOSE i : i = Body(i)
<1>1. n \in Nat /\ DOMAIN file = 1..n BY FileLines
<1>2. Lines(file, spared, old, s) = iter[1..n]
  BY Zenon, <1>1 DEF Lines, Line, FoldLeft, MapThenFoldSet
<1>3. f \in [(1..n) \X X -> X] OBVIOUS
<1>4. \A x \in X, k \in 1..n : f[<<k, x>>] = Line(file, spared, old, x, file[k]) OBVIOUS
<1> HIDE DEF f, n
<1>5. PICK g \in [SUBSET (1..n) -> X] : FoldTable(n, f, s, g)
  BY <1>1, <1>3, FoldExists
<1>6. g = Body(g)
  <2>1. ASSUME NEW t \in SUBSET (1..n)
        PROVE  g[t] = IF t = {} THEN s
                      ELSE Line(file, spared, old, g[t \ {Max(t)}], file[Max(t)])
    <3>1. CASE t = {} BY <1>5, <3>1 DEF FoldTable
    <3>2. CASE t # {}
      <4>1. Max(t) \in 1..n BY <1>1, <3>2, MaxIn
      <4>2. g[t \ {Max(t)}] \in X OBVIOUS
      <4>3. g[t] = f[<<Max(t), g[t \ {Max(t)}]>>] BY <1>5, <3>2 DEF FoldTable
      <4> QED BY <1>4, <3>2, <4>1, <4>2, <4>3
    <3> QED BY <3>1, <3>2
  <2> QED BY <2>1
<1>7. iter = Body(iter)
  <2> HIDE DEF Body
  <2> QED BY Zenon, <1>6
<1> HIDE DEF iter
<1>8. Follows(n, X, f, s, iter)
  <2>1. iter[{}] = s BY <1>7
  <2>2. ASSUME NEW t \in SUBSET (1..n), t # {}, iter[t \ {Max(t)}] \in X
        PROVE  iter[t] = f[<<Max(t), iter[t \ {Max(t)}]>>]
    <3>1. Max(t) \in 1..n BY <1>1, <2>2, MaxIn
    <3>2. iter[t] = Line(file, spared, old, iter[t \ {Max(t)}], file[Max(t)])
      BY <1>7, <2>2
    <3> QED BY <1>4, <2>2, <3>1, <3>2
  <2> QED BY <2>1, <2>2 DEF Follows
<1>9. Chain(n, X, f, s, iter[1..n]) BY <1>1, <1>3, <1>8, FoldChain
<1>10. iter[1..n] \in X BY <1>1, <1>9 DEF Chain
<1> QED BY <1>2, <1>10

LEMMA LineGood ==
  ASSUME NEW B0 \in GoodBags, NEW s \in LoopsFrom(B0), NEW file \in Files,
         NEW old \in SUBSET Incomes, NEW spared, NEW k \in 1..Len(file)
  PROVE  Line(file, spared, old, s, file[k]) \in LoopsFrom(B0)
BY FileLines, SupersedeGood, AddGood DEF Line

LEMMA LinesGood ==
  ASSUME NEW B0 \in GoodBags, NEW s \in LoopsFrom(B0), NEW file \in Files,
         NEW old \in SUBSET Incomes, NEW spared
  PROVE  Lines(file, spared, old, s) \in LoopsFrom(B0)
<1> DEFINE X == LoopsFrom(B0)
<1>1. s \in X OBVIOUS
<1>2. \A x \in X, k \in 1..Len(file) : Line(file, spared, old, x, file[k]) \in X
  BY LineGood
<1> HIDE DEF X
<1>3. Lines(file, spared, old, s) \in X BY <1>1, <1>2, LinesStay
<1> QED BY <1>3 DEF X

LEMMA FileGood ==
  ASSUME NEW B0 \in GoodBags, NEW s \in LoopsFrom(B0), NEW file \in Files, NEW spared
  PROVE  ReadFile(s, file, spared) \in LoopsFrom(B0)
<1> DEFINE old == Misread(s.rows)
<1>1. s.rows \in GoodBags BY DEF LoopsFrom, Loops
<1>2. old \in SUBSET Incomes BY <1>1, MisreadIncome
<1>3. ReadFile(s, file, spared)
        = IF \A n \in DOMAIN file : file[n].row = Nothing THEN s
          ELSE Lines(file, spared, old, Waive(s, file, old))
  BY Zenon DEF ReadFile, Lines
<1> HIDE DEF old
<1>4. Waive(s, file, old) \in LoopsFrom(B0) BY <1>2, WaiveGood
<1>5. Lines(file, spared, old, Waive(s, file, old)) \in LoopsFrom(B0)
  BY <1>2, <1>4, LinesGood
<1> QED BY <1>3, <1>5

----------------------------------------------------------------------------
(* Where the categories go when a file is read. E has the ids of the old   *)
(* readings there were before it.                                          *)

Gone(f, id)   == \E n \in DOMAIN f : Correction(f, n, id) /\ f[n].row = Nothing
HasHeir(f, id, ids) == \E r \in Heirs(f, id) : r.id \in ids
Settles(f, E, C0, C) == \A id \in C0 \ C : Gone(f, id) \/ HasHeir(f, id, C \cup E)
Takes(f, E, C, D) == C \ D \subseteq E /\ \A id \in C \ D : HasHeir(f, id, D \cup E)
Within(m, m0) == \A c \in DOMAIN m : c \in DOMAIN m0 /\ m[c] = m0[c]

(* An heir that loses its category is an old reading itself.               *)
LEMMA SettlesOn ==
  ASSUME NEW f, NEW E, NEW C0, NEW C, NEW D, Settles(f, E, C0, C), Takes(f, E, C, D)
  PROVE  Settles(f, E, C0, D)
<1>1. ASSUME NEW id \in C0 \ D, ~Gone(f, id) PROVE HasHeir(f, id, D \cup E)
  <2>1. CASE id \in C BY <1>1, <2>1 DEF Takes
  <2>2. CASE id \notin C
    <3>1. PICK r \in Heirs(f, id) : r.id \in C \cup E
      BY <1>1, <2>2 DEF Settles, HasHeir
    <3>2. r.id \in D \cup E BY <3>1 DEF Takes
    <3> QED BY <3>2 DEF HasHeir
  <2> QED BY <2>1, <2>2
<1> QED BY <1>1 DEF Settles

LEMMA DroppedParts ==
  ASSUME NEW B0, NEW s \in LoopsFrom(B0), NEW ids, NEW charges, NEW chosen
  PROVE  /\ [Dropped(s, ids, charges) EXCEPT !.chosen = chosen].chosen = chosen
         /\ Within([Dropped(s, ids, charges) EXCEPT !.chosen = chosen].misread, s.misread)
         /\ Dropped(s, ids, charges).chosen = s.chosen
<1>1. s \in Loops BY DEF LoopsFrom
<1>2. /\ Dropped(s, ids, charges).chosen = s.chosen
      /\ [Dropped(s, ids, charges) EXCEPT !.chosen = chosen].chosen = chosen
      /\ [Dropped(s, ids, charges) EXCEPT !.chosen = chosen].misread
           = Restrict(s.misread, DOMAIN s.misread \ charges)
  BY <1>1 DEF Dropped, Loops
<1>3. Within(Restrict(s.misread, DOMAIN s.misread \ charges), s.misread)
  BY DEF Restrict, Within
<1> QED BY <1>2, <1>3

LEMMA WaiveSettles ==
  ASSUME NEW B0, NEW s \in LoopsFrom(B0), NEW file, NEW old, NEW E
  PROVE  /\ Settles(file, E, s.chosen, Waive(s, file, old).chosen)
         /\ Within(Waive(s, file, old).misread, s.misread)
<1> DEFINE waived == {r \in old : \E n \in DOMAIN file : /\ Correction(file, n, r.id)
                                                        /\ file[n].row = Nothing}
           ids == {r.id : r \in waived}
           charges == {r.charge : r \in waived}
           d == Dropped(s, ids, charges)
<1>1. \A id \in ids : Gone(file, id) BY DEF Gone
<1>2. Waive(s, file, old) = [d EXCEPT !.chosen = d.chosen \ ids] BY DEF Waive
<1> HIDE DEF ids, charges
<1>3. d.chosen = s.chosen BY DroppedParts
<1>4. /\ Waive(s, file, old).chosen = s.chosen \ ids
      /\ Within(Waive(s, file, old).misread, s.misread)
  BY <1>2, <1>3, DroppedParts
<1> QED BY <1>1, <1>4 DEF Settles

LEMMA SupersedeTakes ==
  ASSUME NEW B0, NEW s \in LoopsFrom(B0), NEW file \in Files, NEW old, NEW spared,
         NEW r, NEW E, \A x \in old : x.id \in E
  PROVE  /\ Takes(file, E, s.chosen, Supersede(s, file, spared, old, r).chosen)
         /\ Within(Supersede(s, file, spared, old, r).misread, s.misread)
<1> DEFINE olds == {x \in old : \E n \in DOMAIN file :
                      /\ Correction(file, n, x.id)
                      /\ file[n].row # Nothing /\ file[n].row.id = r.id}
           ids == {x.id : x \in olds}
           charges == {x.charge : x \in olds}
           d == Dropped(s, ids, charges)
           given == ids \cap s.chosen
           kept == /\ given # {}
                   /\ r.id \notin ids \/ (r.id \in spared /\ given # {r.id})
           chosen == IF kept THEN (d.chosen \ ids) \cup {r.id} ELSE d.chosen \ ids
           t == Supersede(s, file, spared, old, r)
<1>1. ids \subseteq E OBVIOUS
<1>2. ASSUME NEW id \in ids
      PROVE  \E h \in Heirs(file, id) : h.id = r.id
    <2>1. PICK n \in DOMAIN file : /\ Correction(file, n, id)
                                   /\ file[n].row # Nothing /\ file[n].row.id = r.id
      OBVIOUS
    <2>2. file[n].was = id BY <2>1 DEF Correction
    <2>3. file[n].row \in Heirs(file, id) BY <2>1, <2>2 DEF Heirs
    <2> QED BY <2>1, <2>3
<1>3. t = [d EXCEPT !.chosen = chosen] BY DEF Supersede
<1> HIDE DEF ids, charges
<1>4. d.chosen = s.chosen BY DroppedParts
<1>5. t.chosen = chosen /\ Within(t.misread, s.misread) BY <1>3, DroppedParts
<1>6. s.chosen \ chosen \subseteq ids BY <1>4
<1>7. ASSUME NEW id \in s.chosen \ chosen PROVE r.id \in chosen \cup E
  <2>1. id \in given BY <1>6
  <2>2. CASE kept BY <2>2
  <2>3. CASE ~kept BY <1>1, <2>1, <2>3
  <2> QED BY <2>2, <2>3
<1> HIDE DEF chosen, d, t
<1>8. \A id \in s.chosen \ chosen : HasHeir(file, id, chosen \cup E)
  BY <1>2, <1>6, <1>7 DEF HasHeir
<1> QED BY <1>1, <1>5, <1>6, <1>8 DEF t, Takes

LEMMA CorrectTakes ==
  ASSUME NEW B0, NEW s \in LoopsFrom(B0), NEW file \in Files, NEW k \in DOMAIN file,
         file[k].row # Nothing, NEW E, \A c \in DOMAIN s.misread : s.misread[c] \in E
  PROVE  /\ Takes(file, E, s.chosen, Correct(s, file[k].row).chosen)
         /\ Within(Correct(s, file[k].row).misread, s.misread)
<1> DEFINE r == file[k].row
<1>1. CASE ~(r.by = "card" /\ r.side = "out" /\ r.charge \in DOMAIN s.misread)
  <2>1. Correct(s, r) = s BY <1>1 DEF Correct
  <2> QED BY <2>1 DEF Takes, Within
<1>2. CASE r.by = "card" /\ r.side = "out" /\ r.charge \in DOMAIN s.misread
  <2> DEFINE old == s.misread[r.charge]
             d == Dropped(s, {old}, {r.charge})
             chosen == Moved(d.chosen, old, r.id)
             t == Correct(s, r)
  <2>1. t = [d EXCEPT !.chosen = chosen] BY <1>2 DEF Correct
  <2>2. d.chosen = s.chosen BY DroppedParts
  <2>3. t.chosen = chosen /\ Within(t.misread, s.misread) BY <2>1, DroppedParts
  <2>4. s.chosen \subseteq Ids /\ s.misread \in Remembered BY DEF LoopsFrom, Loops
  <2>5. old = NoId \/ OfCharge(old, r.charge) BY <1>2, <2>4 DEF Remembered, Own
  <2>6. old \in E BY <1>2
  <2>7. ASSUME NEW id \in s.chosen \ chosen
        PROVE  id = old /\ HasHeir(file, id, chosen \cup E)
    <3>1. id = old /\ chosen = (s.chosen \cup {r.id}) \ {old} BY <2>2 DEF Moved
    <3>2. OfCharge(id, r.charge) BY <2>4, <2>5, <3>1, IdKinds
    <3>3. r \in Heirs(file, id) BY <3>2 DEF Heirs
    <3>4. r.id \in chosen \cup E BY <2>6, <3>1
    <3> QED BY <3>1, <3>3, <3>4 DEF HasHeir
  <2> HIDE DEF chosen, t, old
  <2> QED BY <2>3, <2>6, <2>7 DEF t, Takes
<1> QED BY <1>1, <1>2

LEMMA AddTakes ==
  ASSUME NEW B0 \in GoodBags, NEW s \in LoopsFrom(B0), NEW file \in Files,
         NEW k \in DOMAIN file, file[k].row # Nothing,
         NEW E, \A c \in DOMAIN s.misread : s.misread[c] \in E
  PROVE  /\ Takes(file, E, s.chosen, Add(s, file[k].row).chosen)
         /\ Within(Add(s, file[k].row).misread, s.misread)
<1> DEFINE r == file[k].row
<1>1. CASE r.id \in s.have
  <2>1. Add(s, r) = s BY <1>1 DEF Add
  <2> QED BY <2>1 DEF Takes, Within
<1>2. CASE r.id \notin s.have
  <2> DEFINE c == Correct(s, r)
             t == [c EXCEPT !.rows = Plus(@, r), !.have = @ \cup {r.id}]
  <2>1. Add(s, r) = t BY <1>2 DEF Add
  <2>2. /\ Takes(file, E, s.chosen, c.chosen)
        /\ Within(c.misread, s.misread)
    BY CorrectTakes
  <2>3. r \in EnteredRows BY FileLines
  <2>4. c \in Loops BY <2>3, CorrectGood DEF LoopsFrom
  <2> HIDE DEF c
  <2>5. t.chosen = c.chosen /\ t.misread = c.misread BY <2>4 DEF Loops
  <2> QED BY <2>1, <2>2, <2>5
<1> QED BY <1>1, <1>2

(* From one line to the next.                                              *)
Settled(B0, f, E, C0) ==
  {s \in LoopsFrom(B0) : /\ Settles(f, E, C0, s.chosen)
                         /\ \A c \in DOMAIN s.misread : s.misread[c] \in E}

LEMMA LineSettles ==
  ASSUME NEW B0 \in GoodBags, NEW file \in Files, NEW E, NEW C0,
         NEW old \in SUBSET Incomes, \A x \in old : x.id \in E, NEW spared,
         NEW s \in Settled(B0, file, E, C0), NEW k \in 1..Len(file)
  PROVE  Line(file, spared, old, s, file[k]) \in Settled(B0, file, E, C0)
<1> DEFINE r == file[k].row
           t == Supersede(s, file, spared, old, r)
           u == Add(t, r)
<1>1. /\ s \in LoopsFrom(B0) /\ Settles(file, E, C0, s.chosen)
      /\ \A c \in DOMAIN s.misread : s.misread[c] \in E
  BY DEF Settled
<1>2. CASE r = Nothing BY <1>2 DEF Line
<1>3. CASE r # Nothing
  <2>1. r \in EnteredRows /\ k \in DOMAIN file BY <1>3, FileLines
  <2>2. t \in LoopsFrom(B0) BY <1>1, <2>1, SupersedeGood
  <2>3. Takes(file, E, s.chosen, t.chosen) /\ Within(t.misread, s.misread)
    BY <1>1, SupersedeTakes
  <2>4. Settles(file, E, C0, t.chosen) BY <1>1, <2>3, SettlesOn
  <2>5. \A c \in DOMAIN t.misread : t.misread[c] \in E BY <1>1, <2>3 DEF Within
  <2> HIDE DEF t
  <2>6. u \in LoopsFrom(B0) BY <2>1, <2>2, AddGood
  <2>7. Takes(file, E, t.chosen, u.chosen) /\ Within(u.misread, t.misread)
    BY <1>3, <2>1, <2>2, <2>5, AddTakes
  <2>8. Settles(file, E, C0, u.chosen) BY <2>4, <2>7, SettlesOn
  <2>9. \A c \in DOMAIN u.misread : u.misread[c] \in E BY <2>5, <2>7 DEF Within
  <2>10. Line(file, spared, old, s, file[k]) = u BY <1>3 DEF Line, t
  <2> HIDE DEF u
  <2> QED BY <2>6, <2>8, <2>9, <2>10 DEF Settled
<1> QED BY <1>1, <1>2, <1>3

LEMMA FileSettles ==
  ASSUME NEW B0 \in GoodBags, NEW s \in LoopsFrom(B0), NEW file \in Files, NEW spared,
         NEW E, \A x \in Misread(s.rows) : x.id \in E,
         \A c \in DOMAIN s.misread : s.misread[c] \in E
  PROVE  Settles(file, E, s.chosen, ReadFile(s, file, spared).chosen)
<1> DEFINE old == Misread(s.rows)
           w == Waive(s, file, old)
           X == Settled(B0, file, E, s.chosen)
<1>1. s.rows \in GoodBags BY DEF LoopsFrom, Loops
<1>2. old \in SUBSET Incomes BY <1>1, MisreadIncome
<1>3. ReadFile(s, file, spared)
        = IF \A n \in DOMAIN file : file[n].row = Nothing THEN s
          ELSE Lines(file, spared, old, w)
  BY Zenon DEF ReadFile, Lines
<1>4. \A x \in old : x.id \in E OBVIOUS
<1> HIDE DEF old
<1>5. w \in LoopsFrom(B0) BY <1>2, WaiveGood
<1>6. Settles(file, E, s.chosen, w.chosen) /\ Within(w.misread, s.misread)
  BY WaiveSettles
<1>7. w \in X BY <1>5, <1>6 DEF Settled, Within
<1>8. \A x \in X, k \in 1..Len(file) : Line(file, spared, old, x, file[k]) \in X
  BY <1>2, <1>4, LineSettles
<1> HIDE DEF X, w
<1>9. Lines(file, spared, old, w) \in X BY <1>7, <1>8, LinesStay
<1>10. Settles(file, E, s.chosen, Lines(file, spared, old, w).chosen) BY <1>9 DEF X, Settled
<1>11. Settles(file, E, s.chosen, s.chosen) BY DEF Settles
<1> QED BY <1>3, <1>10, <1>11

----------------------------------------------------------------------------
(* The inductive invariant.                                                *)

ImportRecords == [left : 0..MaxFiles, have : SUBSET (Ids \cup {NoId}), misread : Remembered]
ImportsOK == import \in [Imports -> ImportRecords]

HouseholdInv ==
  /\ tx \in GoodBags /\ overrides \in SUBSET Ids
  /\ drawn \in SUBSET Rows /\ \A r \in drawn : Told(r)
  /\ saved \in [tx : GoodBags, overrides : SUBSET Ids]
  /\ \A r \in DOMAIN saved.tx : Kept(r) = r
  /\ ImportsOK

LEMMA NoImportOK == NoImport \in ImportRecords
<1>1. <<>> \in [{} -> InIds] OBVIOUS
<1>2. <<>> \in Remembered BY <1>1 DEF Remembered, Partial, Own
<1>3. 0 \in 0..MaxFiles BY HouseholdAssumption
<1> QED BY <1>2, <1>3 DEF NoImport, ImportRecords

LEMMA SnapshotOf ==
  ASSUME NEW B \in GoodBags, NEW chosen \in SUBSET Ids
  PROVE  /\ Snapshot(B, chosen) \in [tx : GoodBags, overrides : SUBSET Ids]
         /\ \A r \in DOMAIN Snapshot(B, chosen).tx : Kept(r) = r
<1>1. Snapshot(B, chosen) = [tx |-> BagOfAll(Kept, B), overrides |-> chosen]
  BY Zenon DEF Snapshot
<1> DEFINE C == BagOfAll(Kept, B)
<1>2. C \in GoodBags /\ \A r \in DOMAIN C : Kept(r) = r BY Zenon, SnapshotGood
<1> HIDE DEF C
<1>3. [tx |-> C, overrides |-> chosen] \in [tx : GoodBags, overrides : SUBSET Ids]
  BY <1>2
<1>4. [tx |-> C, overrides |-> chosen].tx = C OBVIOUS
<1>5. Snapshot(B, chosen) = [tx |-> C, overrides |-> chosen] BY <1>1 DEF C
<1> QED BY <1>2, <1>3, <1>4, <1>5

LEMMA SaveStep ==
  ASSUME NEW B \in GoodBags, NEW chosen \in SUBSET Ids, SaveAndRender(B, chosen), ImportsOK'
  PROVE  HouseholdInv'
<1>1. tx' = B /\ overrides' = chosen /\ drawn' = DOMAIN B BY DEF SaveAndRender, BagToSet
<1>2. saved' = Snapshot(B, chosen) BY DEF SaveAndRender
<1>3. /\ saved' \in [tx : GoodBags, overrides : SUBSET Ids]
      /\ \A r \in DOMAIN saved'.tx : Kept(r) = r
  BY <1>2, SnapshotOf
<1>4. B \in RowBags /\ (\A r \in DOMAIN B : Told(r)) BY DEF GoodBags
<1>5. DOMAIN B \in SUBSET Rows BY <1>4, RowBagParts
<1> QED BY <1>1, <1>3, <1>4, <1>5 DEF HouseholdInv

LEMMA HouseholdInit == Init => HouseholdInv
<1> SUFFICES ASSUME Init PROVE HouseholdInv OBVIOUS
<1>1. tx = EmptyBag /\ overrides = {} /\ drawn = {} /\ saved = Snapshot(EmptyBag, {})
  BY DEF Init
<1>2. EmptyBag \in GoodBags BY EmptyGood
<1>3. /\ saved \in [tx : GoodBags, overrides : SUBSET Ids]
      /\ \A r \in DOMAIN saved.tx : Kept(r) = r
  BY <1>1, <1>2, SnapshotOf
<1>4. ImportsOK BY NoImportOK DEF Init, ImportsOK
<1> QED BY <1>1, <1>2, <1>3, <1>4 DEF HouseholdInv

(* A row of the screen gets a category, or changes sides.                  *)
LEMMA CategoryStep ==
  ASSUME HouseholdInv, NEW r \in drawn, SetCategory(r) PROVE HouseholdInv'
<1> DEFINE chosen == IF r.id = NoId THEN overrides ELSE overrides \cup {r.id}
<1>1. SaveAndRender(tx, chosen) /\ import' = import BY DEF SetCategory
<1>2. r \in Rows BY DEF HouseholdInv
<1>3. r.id \in Ids \cup {NoId} BY <1>2 DEF Rows
<1>4. chosen \in SUBSET Ids BY <1>3 DEF HouseholdInv
<1>5. tx \in GoodBags /\ ImportsOK' BY <1>1 DEF HouseholdInv, ImportsOK
<1> HIDE DEF chosen
<1> QED BY <1>1, <1>4, <1>5, SaveStep

LEMMA FlipStep ==
  ASSUME HouseholdInv, NEW r \in drawn, Flip(r) PROVE HouseholdInv'
<1> DEFINE chosen == Moved(overrides, r.id, Flipped(r).id)
<1>1. SaveAndRender(FlippedBag(tx, r), chosen) /\ import' = import
  BY Zenon DEF Flip, FlippedBag
<1>2. r \in Rows /\ tx \in GoodBags BY DEF HouseholdInv
<1>3. Flipped(r).id \in Ids BY <1>2, FlippedRow, IdKinds
<1>4. chosen \in SUBSET Ids BY <1>3 DEF HouseholdInv, Moved
<1>5. FlippedBag(tx, r) \in GoodBags BY <1>2, FlipGood
<1>6. ImportsOK' BY <1>1 DEF HouseholdInv, ImportsOK
<1> HIDE DEF chosen
<1> QED BY <1>1, <1>4, <1>5, <1>6, SaveStep

LEMMA RepairStep == ASSUME HouseholdInv, Repair PROVE HouseholdInv'
<1> DEFINE wrong  == {r.id : r \in Misread(tx)}
           suspects == {x \in BagToSet(tx) : x.id \in wrong \cap overrides}
           chosen == (overrides \ wrong) \cup {AsOutgoing(r).id : r \in suspects}
<1>1. SaveAndRender(FixedBag(tx, wrong), chosen) /\ import' = import
  BY Zenon DEF Repair, FixedBag
<1>2. tx \in GoodBags /\ DOMAIN tx \subseteq Rows BY RowBagParts DEF HouseholdInv, GoodBags
<1>3. \A r \in suspects : AsOutgoing(r).id \in Ids
  BY <1>2, FlippedRow, IdKinds DEF BagToSet
<1>4. chosen \in SUBSET Ids BY <1>3 DEF HouseholdInv
<1>5. FixedBag(tx, wrong) \in GoodBags BY <1>2, RepairGood
<1>6. ImportsOK' BY <1>1 DEF HouseholdInv, ImportsOK
<1> HIDE DEF chosen, wrong
<1> QED BY <1>1, <1>4, <1>5, <1>6, SaveStep

LEMMA ManualStep == ASSUME HouseholdInv, NEW r \in Hands, Manual(r) PROVE HouseholdInv'
<1>1. SaveAndRender(Plus(tx, r), overrides \cup {r.id}) /\ import' = import BY DEF Manual
<1>2. r \in EnteredRows BY HouseholdAssumption
<1>3. r \in Rows /\ Told(r) /\ r.id \notin BankIds /\ r.id \in Ids BY <1>2, EnteredTold
<1>4. tx \in GoodBags /\ overrides \cup {r.id} \in SUBSET Ids BY <1>3 DEF HouseholdInv
<1>5. Plus(tx, r) \in GoodBags BY <1>3, <1>4, PlusGood
<1>6. ImportsOK' BY <1>1 DEF HouseholdInv, ImportsOK
<1> QED BY <1>1, <1>4, <1>5, <1>6, SaveStep

LEMMA RestoreStep == ASSUME HouseholdInv, NEW b \in Backups, Restore(b) PROVE HouseholdInv'
<1>1. SaveAndRender(b.tx, b.overrides) /\ import' = import BY DEF Restore
<1>2. IsABag(b.tx) /\ BagToSet(b.tx) \subseteq Rows /\ OneOfEach(b.tx) /\ b.overrides \in SUBSET Ids
  BY HouseholdAssumption
<1>3. b.tx \in RowBags BY <1>2, RowBag
<1>4. Once(b.tx) BY <1>2, <1>3, OnceIsOneOfEach
<1>5. \A r \in DOMAIN b.tx : Told(r)
  <2>1. \A r \in DOMAIN b.tx : r \in BackupRows BY DEF BackupRows, BagToSet
  <2> QED BY <2>1, Sided
<1>6. b.tx \in GoodBags BY <1>3, <1>4, <1>5 DEF GoodBags
<1>7. ImportsOK' BY <1>1 DEF HouseholdInv, ImportsOK
<1> QED BY <1>1, <1>2, <1>6, <1>7, SaveStep

LEMMA RemoveStep ==
  ASSUME HouseholdInv, NEW r \in drawn, RemoveExpense(r) PROVE HouseholdInv'
<1>1. SaveAndRender(Without(tx, {r.id}), overrides \ {r.id}) /\ import' = import
  BY DEF RemoveExpense
<1>2. tx \in GoodBags /\ overrides \ {r.id} \in SUBSET Ids BY DEF HouseholdInv
<1>3. Without(tx, {r.id}) \in GoodBags BY <1>2, WithoutGood
<1>4. ImportsOK' BY <1>1 DEF HouseholdInv, ImportsOK
<1> QED BY <1>1, <1>2, <1>3, <1>4, SaveStep

LEMMA DropStep ==
  ASSUME HouseholdInv, NEW ids, DropCategory(ids) PROVE HouseholdInv'
<1>1. SaveAndRender(tx, overrides \ ids) /\ import' = import BY DEF DropCategory
<1>2. tx \in GoodBags /\ overrides \ ids \in SUBSET Ids BY DEF HouseholdInv
<1>3. ImportsOK' BY <1>1 DEF HouseholdInv, ImportsOK
<1> QED BY <1>1, <1>2, <1>3, SaveStep

LEMMA WipeStep == ASSUME HouseholdInv, Wipe PROVE HouseholdInv'
<1>1. SaveAndRender(EmptyBag, {}) /\ import' = import BY DEF Wipe
<1>2. EmptyBag \in GoodBags /\ {} \in SUBSET Ids BY EmptyGood
<1>3. ImportsOK' BY <1>1 DEF HouseholdInv, ImportsOK
<1> QED BY <1>1, <1>2, <1>3, SaveStep

LEMMA SyncStep == ASSUME HouseholdInv, NEW b \in Batches, SyncDone(b) PROVE HouseholdInv'
<1>1. SaveAndRender(FoldLeft(Merge, tx, b), overrides) /\ import' = import
  BY Zenon DEF SyncDone
<1>2. tx \in GoodBags /\ overrides \in SUBSET Ids BY DEF HouseholdInv
<1> DEFINE B == FoldLeft(Merge, tx, b)
<1>3. B \in GoodBags BY Zenon, <1>2, SyncGood
<1>4. ImportsOK' BY <1>1 DEF HouseholdInv, ImportsOK
<1>5. SaveAndRender(B, overrides) BY <1>1
<1> HIDE DEF B
<1> QED BY <1>2, <1>3, <1>4, <1>5, SaveStep

LEMMA ReloadStep == ASSUME HouseholdInv, Reload PROVE HouseholdInv'
<1>1. /\ tx' = saved.tx /\ overrides' = saved.overrides /\ drawn' = DOMAIN saved.tx
      /\ saved' = saved /\ import' = [i \in Imports |-> NoImport]
  BY DEF Reload, BagToSet
<1>2. saved.tx \in GoodBags /\ saved.overrides \in SUBSET Ids BY DEF HouseholdInv
<1>3. DOMAIN saved.tx \subseteq Rows /\ \A r \in DOMAIN saved.tx : Told(r)
  BY <1>2, RowBagParts DEF GoodBags
<1>4. ImportsOK' BY <1>1, NoImportOK DEF ImportsOK
<1> QED BY <1>1, <1>2, <1>3, <1>4 DEF HouseholdInv

LEMMA BeginStep ==
  ASSUME HouseholdInv, NEW i \in Imports, NEW n \in 1..MaxFiles, ImportBegin(i, n)
  PROVE  HouseholdInv'
<1> DEFINE suspect == {r \in BagToSet(tx) : r.by # "card" /\ r.side = "in" /\ r.bal = "null"}
<1>1. PICK m \in [{r.charge : r \in suspect} -> {r.id : r \in suspect}] :
        /\ \A c \in DOMAIN m : \E r \in suspect : r.charge = c /\ r.id = m[c]
        /\ import' = [import EXCEPT ![i] = [left |-> n, have |-> IdsOf(tx), misread |-> m]]
  BY DEF ImportBegin
<1>2. tx \in GoodBags /\ DOMAIN tx \subseteq Rows BY RowBagParts DEF HouseholdInv, GoodBags
<1>3. \A r \in suspect : r.charge \in Charges /\ r.id \in InIds
  <2>1. \A r \in suspect : r \in Rows /\ Told(r) /\ r.side = "in"
    BY <1>2 DEF GoodBags, BagToSet
  <2> QED BY <2>1, IncomeIds DEF Rows
<1>4. m \in Remembered
  <2>1. {r.charge : r \in suspect} \in SUBSET Charges BY <1>3
  <2>2. m \in [{r.charge : r \in suspect} -> InIds] BY <1>1, <1>3
  <2>3. ASSUME NEW c \in DOMAIN m PROVE m[c] = NoId \/ OfCharge(m[c], c)
    <3>1. PICK r \in suspect : r.charge = c /\ r.id = m[c] BY <1>1
    <3>2. r \in Rows /\ Told(r) BY <1>2 DEF GoodBags, BagToSet
    <3>3. r.side \in Sides BY <3>2 DEF Rows
    <3> QED BY <3>1, <3>2, <3>3 DEF Told, Telling, OfCharge
  <2>4. m \in Partial BY <2>1, <2>2 DEF Partial
  <2>5. Own(m) BY <2>3 DEF Own
  <2> QED BY <2>4, <2>5 DEF Remembered
<1>5. IdsOf(tx) \in SUBSET (Ids \cup {NoId}) BY <1>2 DEF IdsOf, BagToSet, Rows
<1>6. n \in 0..MaxFiles BY HouseholdAssumption
<1>7. [left |-> n, have |-> IdsOf(tx), misread |-> m] \in ImportRecords
  BY <1>4, <1>5, <1>6 DEF ImportRecords
<1>8. ImportsOK' BY <1>1, <1>7 DEF HouseholdInv, ImportsOK
<1>9. UNCHANGED <<tx, overrides, saved, drawn>> BY DEF ImportBegin
<1> QED BY <1>8, <1>9 DEF HouseholdInv

(* What a file made of the household is what is in memory after it.        *)
BeforeFile(i) == [rows |-> tx, chosen |-> overrides,
                  have |-> import[i].have, misread |-> import[i].misread]
AfterFile(i, f, spared) == ReadFile(BeforeFile(i), f, spared)

LEMMA FileRows ==
  ASSUME HouseholdInv, NEW i \in Imports, NEW f \in Files, NEW spared
  PROVE  BeforeFile(i) \in LoopsFrom(tx) /\ AfterFile(i, f, spared) \in LoopsFrom(tx)
<1> DEFINE s == BeforeFile(i)
<1>1. import[i] \in ImportRecords BY DEF HouseholdInv, ImportsOK
<1>2. import[i].have \in SUBSET (Ids \cup {NoId}) /\ import[i].misread \in Remembered
  BY <1>1 DEF ImportRecords
<1>3. tx \in GoodBags /\ overrides \in SUBSET Ids BY DEF HouseholdInv
<1>4. s \in Loops /\ s.rows = tx BY <1>2, <1>3 DEF Loops, BeforeFile
<1>5. Keeps(tx, tx)
  <2>1. \A r \in DOMAIN tx : tx[r] \in Nat BY <1>3, RowBagParts DEF GoodBags
  <2> QED BY <2>1 DEF Keeps
<1>6. s \in LoopsFrom(tx) BY <1>4, <1>5 DEF LoopsFrom
<1>7. AfterFile(i, f, spared) = ReadFile(s, f, spared) BY DEF AfterFile
<1> HIDE DEF s
<1>8. ReadFile(s, f, spared) \in LoopsFrom(tx) BY <1>3, <1>6, FileGood
<1> QED BY <1>6, <1>7, <1>8 DEF s

LEMMA FileReadStep ==
  ASSUME HouseholdInv, NEW i \in Imports, NEW f \in Files, NEW spared,
         FileRead(i, f, spared)
  PROVE  /\ HouseholdInv' /\ tx' = AfterFile(i, f, spared).rows
         /\ overrides' = AfterFile(i, f, spared).chosen
<1> DEFINE s == AfterFile(i, f, spared)
           last == import[i].left = 1
<1>1. /\ import[i].left > 0
      /\ import' = [import EXCEPT ![i] =
           IF last THEN NoImport
           ELSE [left |-> import[i].left - 1, have |-> s.have, misread |-> s.misread]]
      /\ \/ last /\ SaveAndRender(s.rows, s.chosen)
         \/ /\ ~last /\ tx' = s.rows /\ overrides' = s.chosen
            /\ UNCHANGED <<saved, drawn>>
  BY Zenon DEF FileRead, AfterFile, BeforeFile
<1>2. s \in LoopsFrom(tx) BY FileRows
<1> HIDE DEF s
<1>3. /\ s.rows \in GoodBags /\ s.chosen \in SUBSET Ids
      /\ s.have \in SUBSET (Ids \cup {NoId}) /\ s.misread \in Remembered
  BY <1>2 DEF LoopsFrom, Loops
<1>4. import[i] \in ImportRecords /\ import \in [Imports -> ImportRecords]
  BY DEF HouseholdInv, ImportsOK
<1>5. ImportsOK'
  <2>1. import[i].left \in 0..MaxFiles BY <1>4 DEF ImportRecords
  <2>2. import[i].left - 1 \in 0..MaxFiles BY <1>1, <2>1, HouseholdAssumption
  <2>3. [left |-> import[i].left - 1, have |-> s.have, misread |-> s.misread] \in ImportRecords
    BY <1>3, <2>2 DEF ImportRecords
  <2> QED BY <1>1, <1>4, <2>3, NoImportOK DEF ImportsOK
<1>6. CASE SaveAndRender(s.rows, s.chosen)
  <2>1. HouseholdInv' BY <1>3, <1>5, <1>6, SaveStep
  <2>2. tx' = s.rows /\ overrides' = s.chosen BY <1>6 DEF SaveAndRender
  <2> QED BY <2>1, <2>2 DEF s
<1>7. CASE tx' = s.rows /\ overrides' = s.chosen /\ UNCHANGED <<saved, drawn>>
  <2>1. HouseholdInv' BY <1>3, <1>5, <1>7 DEF HouseholdInv
  <2> QED BY <1>7, <2>1 DEF s
<1> QED BY <1>1, <1>6, <1>7

LEMMA HouseholdStep == HouseholdInv /\ [Next]_vars => HouseholdInv'
<1> SUFFICES ASSUME HouseholdInv, [Next]_vars PROVE HouseholdInv' OBVIOUS
<1>1. CASE Household
  <2>1. CASE \E r \in drawn : SetCategory(r) \/ Flip(r) \/ RemoveExpense(r)
    BY <2>1, CategoryStep, FlipStep, RemoveStep
  <2>6. CASE \E ids \in SUBSET overrides : DropCategory(ids) BY <2>6, DropStep
  <2>2. CASE \E r \in Hands : Manual(r) \/ QuickAdd(r) BY <2>2, ManualStep DEF QuickAdd
  <2>3. CASE Repair BY <2>3, RepairStep
  <2>4. CASE Wipe BY <2>4, WipeStep
  <2>5. CASE \E b \in Backups : Restore(b) BY <2>5, RestoreStep
  <2> QED BY <1>1, <2>1, <2>2, <2>3, <2>4, <2>5, <2>6 DEF Household
<1>2. CASE Import BY <1>2, BeginStep, FileReadStep DEF Import
<1>3. CASE Reload BY <1>3, ReloadStep
<1>4. CASE \E b \in Batches : SyncDone(b) BY <1>4, SyncStep
<1>5. CASE UNCHANGED vars BY <1>5 DEF vars, HouseholdInv, ImportsOK
<1> QED BY <1>1, <1>2, <1>3, <1>4, <1>5 DEF Next

LEMMA HouseholdInvariant == Spec => []HouseholdInv
<1> QED BY HouseholdInit, HouseholdStep, PTL DEF Spec

LEMMA InvTypes == HouseholdInv => TypeOK
<1> SUFFICES ASSUME HouseholdInv PROVE TypeOK OBVIOUS
<1>1. IsABag(tx) /\ BagToSet(tx) \subseteq Rows BY RowBag DEF HouseholdInv, GoodBags
<1>2. IsABag(saved.tx) /\ BagToSet(saved.tx) \subseteq Rows
  <2>1. saved.tx \in GoodBags BY DEF HouseholdInv
  <2> QED BY <2>1, RowBag DEF GoodBags
<1>3. saved.overrides \subseteq Ids BY DEF HouseholdInv
<1>4. ASSUME NEW i \in Imports
      PROVE  /\ import[i].left \in 0..MaxFiles
             /\ import[i].have \subseteq Ids \cup {NoId}
             /\ DOMAIN import[i].misread \subseteq Charges
             /\ \A c \in DOMAIN import[i].misread : import[i].misread[c] \in Ids \cup {NoId}
  <2>1. import[i] \in ImportRecords BY DEF HouseholdInv, ImportsOK
  <2>2. import[i].misread \in Remembered BY <2>1 DEF ImportRecords
  <2>3. PICK T \in SUBSET Charges : import[i].misread \in [T -> InIds]
    BY <2>2 DEF Remembered, Partial
  <2> QED BY <2>1, <2>3, IdKinds DEF ImportRecords
<1> QED BY <1>1, <1>2, <1>3, <1>4 DEF TypeOK, HouseholdInv

(* Every row is a row of the program, its bag has copies of it, and what   *)
(* an import remembers between two files is of charges and ids there are,  *)
(* however many files, syncs, flips, repairs and restores came between     *)
(* (app.ts: S.tx, S.overrides, the maps of handleFiles).                   *)
THEOREM TypeCorrect == Spec => []TypeOK
<1> QED BY HouseholdInvariant, InvTypes, PTL

(* An id of the bank is carried by one row at most: no sync adds a second  *)
(* one, in whatever order with imports, flips, repairs, removals and       *)
(* restores, and no other handler makes one (mergeSyncedTransactions).     *)
THEOREM BankIdsCorrect == Spec => []BankIdsOnce
<1>1. HouseholdInv => BankIdsOnce
  BY OnceIsOneOfEach DEF HouseholdInv, GoodBags, BankIdsOnce
<1> QED BY <1>1, HouseholdInvariant, PTL

(* Only an import that waits leaves what is drawn or saved behind what is  *)
(* in memory, and its last file catches up; what a reload finds is what    *)
(* saving it again would keep (app.ts, save and render).                   *)
THEOREM ShownCorrect == Spec => []ShownIsSaved
<1>1. Init => ShownIsSaved
  BY DEF Init, ShownIsSaved, EmptyBag, BagToSet, SetToBag
<1>2. HouseholdInv /\ ShownIsSaved /\ [Next]_vars => ShownIsSaved'
  <2> SUFFICES ASSUME HouseholdInv, ShownIsSaved, [Next]_vars PROVE ShownIsSaved' OBVIOUS
  <2> DEFINE Same == drawn' = BagToSet(tx') /\ saved' = Snapshot(tx', overrides')
  <2>1. ASSUME NEW B, NEW chosen, SaveAndRender(B, chosen) PROVE Same
    BY <2>1 DEF SaveAndRender
  <2>2. Same => ShownIsSaved' BY DEF ShownIsSaved
  <2>3. CASE Household
    <3>1. \E B, chosen : SaveAndRender(B, chosen)
      BY Zenon, <2>3 DEF Household, SetCategory, Flip, RemoveExpense, DropCategory, Manual,
                         QuickAdd, Repair, Wipe, Restore
    <3> QED BY <2>1, <2>2, <3>1
  <2>4. CASE \E b \in Batches : SyncDone(b)
    <3>1. \E B, chosen : SaveAndRender(B, chosen) BY Zenon, <2>4 DEF SyncDone
    <3> QED BY <2>1, <2>2, <3>1
  <2>5. CASE Reload
    <3>1. /\ tx' = saved.tx /\ overrides' = saved.overrides
          /\ drawn' = BagToSet(saved.tx) /\ saved' = saved
      BY <2>5 DEF Reload
    <3>2. saved.tx \in GoodBags /\ \A r \in DOMAIN saved.tx : Kept(r) = r BY DEF HouseholdInv
    <3>3. BagOfAll(Kept, saved.tx) = saved.tx BY Zenon, <3>2, SnapshotSame
    <3>4. Snapshot(saved.tx, saved.overrides)
            = [tx |-> BagOfAll(Kept, saved.tx), overrides |-> saved.overrides]
      BY Zenon DEF Snapshot
    <3>5. Snapshot(saved.tx, saved.overrides) = [tx |-> saved.tx, overrides |-> saved.overrides]
      BY Zenon, <3>3, <3>4
    <3>6. saved = [tx |-> saved.tx, overrides |-> saved.overrides] BY DEF HouseholdInv
    <3>7. saved' = Snapshot(tx', overrides') BY Zenon, <3>1, <3>5, <3>6
    <3> QED BY <2>2, <3>1, <3>7
  <2>6. ASSUME NEW i \in Imports, NEW n \in 1..MaxFiles, ImportBegin(i, n)
        PROVE  ShownIsSaved'
    <3>1. HouseholdInv' BY <2>6, BeginStep
    <3>2. import \in [Imports -> ImportRecords] BY DEF HouseholdInv, ImportsOK
    <3>3. import'[i].left = n BY <2>6, <3>2 DEF ImportBegin
    <3>4. n # 0 BY HouseholdAssumption
    <3> QED BY <3>3, <3>4 DEF ShownIsSaved
  <2>7. ASSUME NEW i \in Imports, NEW f \in Files, NEW spared, FileRead(i, f, spared)
        PROVE  ShownIsSaved'
    <3> DEFINE s == AfterFile(i, f, spared)
    <3>1. CASE SaveAndRender(s.rows, s.chosen) BY <2>1, <2>2, <3>1
    <3>2. CASE ~SaveAndRender(s.rows, s.chosen)
      <4>1. /\ import[i].left > 0 /\ import[i].left # 1
            /\ import' = [import EXCEPT ![i] =
                 [left |-> import[i].left - 1, have |-> s.have, misread |-> s.misread]]
        BY Zenon, <2>7, <3>2 DEF FileRead, AfterFile, BeforeFile
      <4>2. import \in [Imports -> ImportRecords] BY DEF HouseholdInv, ImportsOK
      <4>3. import[i].left \in Nat BY <4>2, HouseholdAssumption DEF ImportRecords
      <4> HIDE DEF s
      <4>4. import'[i].left = import[i].left - 1 BY <4>1, <4>2
      <4>5. import'[i].left # 0 BY <4>1, <4>3, <4>4
      <4> QED BY <4>5 DEF ShownIsSaved
    <3> QED BY <3>1, <3>2
  <2>8. CASE UNCHANGED vars BY <2>8 DEF vars, ShownIsSaved
  <2> QED BY <2>3, <2>4, <2>5, <2>6, <2>7, <2>8 DEF Next, Import
<1> QED BY <1>1, <1>2, HouseholdInvariant, PTL DEF Spec

(* An import never removes spending that has an id, although the rows it   *)
(* removes were picked before it waited and the household may have         *)
(* flipped, wiped, restored or synced them meanwhile (handleFiles).        *)
THEOREM SpendingCorrect == Spec => ImportKeepsSpending
<1> DEFINE Kind == \A i \in Imports, f \in Files : Reads(i, f) =>
                     \A r \in BagToSet(tx) : r.side = "out" /\ r.id # NoId =>
                       Copies(r, tx) <= Copies(r, tx')
<1>1. HouseholdInv => Kind
  <2> SUFFICES ASSUME HouseholdInv, NEW i \in Imports, NEW f \in Files, Reads(i, f),
                      NEW r \in BagToSet(tx), r.side = "out", r.id # NoId
               PROVE  Copies(r, tx) <= Copies(r, tx')
    OBVIOUS
  <2>0. PICK spared \in SUBSET SameIds(f) : FileRead(i, f, spared) BY DEF Reads
  <2>1. tx' = AfterFile(i, f, spared).rows BY <2>0, FileReadStep
  <2>2. AfterFile(i, f, spared) \in LoopsFrom(tx) BY FileRows
  <2>3. Keeps(tx, tx') BY <2>1, <2>2 DEF LoopsFrom
  <2>4. Spent(tx, r) BY DEF Spent, BagToSet
  <2>5. r \in DOMAIN tx' /\ tx[r] <= tx'[r] BY <2>3, <2>4 DEF Keeps, Spent
  <2> QED BY <2>5 DEF Copies, BagToSet
<1>2. HouseholdInv /\ [Next]_vars => [Kind]_vars BY <1>1
<1>3. Spec => [][Kind]_vars BY <1>2, HouseholdInvariant, PTL DEF Spec
<1> QED BY <1>3 DEF ImportKeepsSpending

(* "The category the customer chose belongs to the charge": a category an  *)
(* import takes from an id goes to a row that the file makes of the same   *)
(* line or charge, whatever the file says and whatever happened while the  *)
(* import waited, unless that row is an old reading itself or the purchase *)
(* was discounted to nothing (handleFiles).                                *)
THEOREM CategoriesCorrect == Spec => CategoryFollows
<1> DEFINE Kind == \A i \in Imports, f \in Files : Reads(i, f) =>
                     \A id \in overrides \ overrides' :
                       \/ \E n \in DOMAIN f : Correction(f, n, id) /\ f[n].row = Nothing
                       \/ \E r \in Heirs(f, id) : r.id \in overrides' \cup OldReadings(i)
<1>1. HouseholdInv => Kind
  <2> SUFFICES ASSUME HouseholdInv, NEW i \in Imports, NEW f \in Files, Reads(i, f),
                      NEW id \in overrides \ overrides'
               PROVE  Gone(f, id) \/ HasHeir(f, id, overrides' \cup OldReadings(i))
    BY DEF Gone, HasHeir
  <2> DEFINE s == BeforeFile(i)
             E == OldReadings(i)
  <2>1. PICK spared \in SUBSET SameIds(f) : FileRead(i, f, spared) BY DEF Reads
  <2>2. overrides' = ReadFile(s, f, spared).chosen BY <2>1, FileReadStep DEF AfterFile
  <2>3. s \in LoopsFrom(tx) /\ tx \in GoodBags BY FileRows DEF HouseholdInv
  <2>4. s.rows = tx /\ s.chosen = overrides /\ s.misread = import[i].misread
    BY DEF BeforeFile
  <2>5. \A x \in Misread(s.rows) : x.id \in E BY <2>4 DEF OldReadings
  <2>6. \A c \in DOMAIN s.misread : s.misread[c] \in E BY <2>4 DEF OldReadings, Range
  <2> HIDE DEF s, E
  <2>7. Settles(f, E, s.chosen, ReadFile(s, f, spared).chosen)
    BY <2>3, <2>5, <2>6, FileSettles
  <2>8. Settles(f, E, overrides, overrides') BY <2>2, <2>4, <2>7
  <2> QED BY <2>8 DEF Settles, E
<1>2. HouseholdInv /\ [Next]_vars => [Kind]_vars BY <1>1
<1>3. Spec => [][Kind]_vars BY <1>2, HouseholdInvariant, PTL DEF Spec
<1> QED BY <1>3 DEF CategoryFollows
=============================================================================
