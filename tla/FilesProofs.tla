---------------------------- MODULE FilesProofs -----------------------------
(***************************************************************************)
(* Theorems about the containers a report arrives in (Containers): for any *)
(* characters, cells and strings, and files of any length; and about what  *)
(* is read of its rows (Reports): for any headings, statements and reports *)
(* of any length.                                                          *)
(***************************************************************************)
EXTENDS MCFiles, FoldProofs

----------------------------------------------------------------------------
(* Shared strings: what is left of a string is what is not written yet, in *)
(* the width the reader takes it for, and what is read of it comes before. *)
Letters == (UNION {ToSet(s) : s \in Strings}) \cup {"?", ""}
StringReadings ==
  [sst : Seq(Seq(Letters)), out : Seq(Letters), open : BOOLEAN, left : Nat, skip : Nat,
   high : BOOLEAN, flag : BOOLEAN, behind : Nat, lost : BOOLEAN]
Unwritten == [chars : Seq(Letters), runs : Nat, wide : BOOLEAN, cuts : Nat, hollow : BOOLEAN]
Tokens ==
  [k : {"char", "run", "cut", "flag"}, wide : BOOLEAN, v : Letters]
    \cup [k : {"head"}, wide : BOOLEAN, v : Nat, runs : Nat]

StringsTypes ==
  strings \in StringReadings /\ written \in Seq(Seq(Letters)) /\ rest \in Unwritten

(* The reader stands where the writer does, as long as no empty block was  *)
(* before a string.                                                        *)
StringsFollow ==
  /\ StringsTypes /\ ~rest.hollow /\ ~strings.lost /\ strings.behind = rest.cuts
  /\ ~strings.flag /\ strings.left = Len(rest.chars) /\ strings.skip = rest.runs
  /\ strings.left > 0 => strings.high = rest.wide
  /\ strings.open <=> strings.left > 0 \/ strings.skip > 0
  /\ written = IF strings.open THEN Append(strings.sst, strings.out \o rest.chars)
               ELSE strings.sst
StringsLost == StringsTypes /\ rest.hollow /\ strings.lost
StringsInv  == StringsFollow \/ StringsLost

LEMMA StringIsLetters == ASSUME NEW s \in Strings PROVE s \in Seq(Letters)
<1>1. s \in Seq(ToSet(s)) BY ContainersAssumption
<1>2. ToSet(s) \subseteq Letters BY DEF Letters
<1> QED BY <1>1, <1>2, SeqMonotonic

LEMMA DoneIsReading ==
  ASSUME NEW a \in StringReadings
  PROVE  /\ Done(a) \in StringReadings
         /\ Done(a) = IF a.left = 0 /\ a.skip = 0 /\ a.open
                      THEN [a EXCEPT !.sst = Append(a.sst, a.out), !.open = FALSE] ELSE a
<1>1. a.sst \in Seq(Seq(Letters)) /\ a.out \in Seq(Letters) BY DEF StringReadings
<1>2. Append(a.sst, a.out) \in Seq(Seq(Letters)) BY <1>1, AppendProperties
<1>3. [a EXCEPT !.sst = Append(a.sst, a.out), !.open = FALSE] \in StringReadings
  BY <1>2 DEF StringReadings
<1> QED BY <1>3 DEF Done

LEMMA TokenIsRead ==
  ASSUME NEW a \in StringReadings, NEW t \in Tokens PROVE TakeToken(a, t) \in StringReadings
<1>1. /\ a.sst \in Seq(Seq(Letters)) /\ a.out \in Seq(Letters) /\ a.left \in Nat /\ a.skip \in Nat
      /\ a.high \in BOOLEAN /\ a.flag \in BOOLEAN /\ a.open \in BOOLEAN
      /\ a.behind \in Nat /\ a.lost \in BOOLEAN
  BY DEF StringReadings
<1>2. /\ t.k \in {"char", "run", "cut", "flag", "head"} /\ t.wide \in BOOLEAN
      /\ t.k = "char" => t.v \in Letters
      /\ t.k = "head" => t.v \in Nat /\ t.runs \in Nat
  BY DEF Tokens
<1>3. "?" \in Letters /\ <<>> \in Seq(Letters) BY DEF Letters
<1>10. CASE a.lost BY <1>10 DEF TakeToken
<1>4. CASE ~a.lost /\ t.k = "cut"
  <2> DEFINE v == a.left > 0
             n == IF Between(a) THEN a.behind + 1 ELSE a.behind
  <2>1. TakeToken(a, t) = [a EXCEPT !.flag = v, !.behind = n] BY <1>4 DEF TakeToken, PastCut
  <2>2. v \in BOOLEAN /\ n \in Nat BY <1>1
  <2> HIDE DEF v, n
  <2>3. [a EXCEPT !.flag = v, !.behind = n] \in StringReadings BY <2>2 DEF StringReadings
  <2> QED BY <2>1, <2>3
<1>5. CASE ~a.lost /\ t.k # "cut" /\ a.flag
  <2>1. TakeToken(a, t) = [a EXCEPT !.flag = FALSE, !.high = t.wide] BY <1>5 DEF TakeToken
  <2>2. [a EXCEPT !.flag = FALSE, !.high = t.wide] \in StringReadings BY <1>2 DEF StringReadings
  <2> QED BY <2>1, <2>2
<1>6. CASE ~a.lost /\ t.k # "cut" /\ ~a.flag /\ a.left > 0
  <2> DEFINE v == IF t.k = "char" /\ t.wide = a.high THEN t.v ELSE "?"
             b == [a EXCEPT !.left = a.left - 1, !.out = Append(a.out, v)]
  <2>1. TakeToken(a, t) = Done(b) BY <1>6 DEF TakeToken, Between
  <2>2. v \in Letters BY <1>2, <1>3
  <2> HIDE DEF v
  <2>3. Append(a.out, v) \in Seq(Letters) BY <1>1, <2>2, AppendProperties
  <2>4. a.left - 1 \in Nat BY <1>1, <1>6
  <2>5. b \in StringReadings BY <2>3, <2>4 DEF StringReadings
  <2> QED BY <2>1, <2>5, DoneIsReading
<1>7. CASE ~a.lost /\ t.k # "cut" /\ ~a.flag /\ a.left = 0 /\ a.skip > 0
  <2> DEFINE b == [a EXCEPT !.skip = a.skip - 1]
  <2>1. TakeToken(a, t) = Done(b) BY <1>7 DEF TakeToken, Between
  <2>2. a.skip - 1 \in Nat BY <1>1, <1>7
  <2>3. b \in StringReadings BY <2>2 DEF StringReadings
  <2> QED BY <2>1, <2>3, DoneIsReading
<1>8. CASE ~a.lost /\ t.k = "head" /\ ~a.flag /\ a.left = 0 /\ a.skip = 0
  <2> DEFINE b == [a EXCEPT !.open = TRUE, !.left = t.v, !.skip = t.runs, !.high = t.wide,
                            !.out = <<>>, !.behind = 0]
  <2>1. TakeToken(a, t) = Opened(a, t) BY <1>8 DEF TakeToken, Between
  <2>2. b \in StringReadings BY <1>2, <1>3, <1>8 DEF StringReadings
  <2>3. Done(b) \in StringReadings BY <2>2, DoneIsReading
  <2>4. [a EXCEPT !.lost = TRUE] \in StringReadings BY DEF StringReadings
  <2>5. Opened(a, t) \in {Done(b), [a EXCEPT !.lost = TRUE]} BY DEF Opened
  <2> QED BY <2>1, <2>3, <2>4, <2>5
<1>9. CASE ~a.lost /\ t.k \in {"char", "run", "flag"} /\ ~a.flag /\ a.left = 0 /\ a.skip = 0
  BY <1>9 DEF TakeToken, Between
<1> QED BY <1>1, <1>2, <1>4, <1>5, <1>6, <1>7, <1>8, <1>9, <1>10

Taken(s, list) == FoldLeft(TakeToken, s, list)
InTurn(n, s, list, c) ==
  /\ c[0] = s /\ c[n] = Taken(s, list)
  /\ \A k \in 1..n : c[k] = TakeToken(c[k - 1], list[k])

LEMMA TokensAreRead ==
  ASSUME NEW s \in StringReadings, NEW n \in Nat, NEW list \in [1..n -> Tokens]
  PROVE  \E c : InTurn(n, s, list, c)
<1> DEFINE X == StringReadings
           f == [p \in (1..n) \X X |-> TakeToken(p[2], list[p[1]])]
           Body(i) == [t \in SUBSET (1..n) |-> IF t = {} THEN s
                         ELSE TakeToken(i[t \ {Max(t)}], list[Max(t)])]
           iter == CHOOSE i : i = Body(i)
<1>1. DOMAIN list = 1..n OBVIOUS
<1>2. Taken(s, list) = iter[1..n]
  BY Zenon, <1>1 DEF Taken, FoldLeft, MapThenFoldSet
<1>3. f \in [(1..n) \X X -> X] BY TokenIsRead
<1>4. \A x \in X, k \in 1..n : f[<<k, x>>] = TakeToken(x, list[k]) OBVIOUS
<1> HIDE DEF f, X
<1>5. s \in X BY DEF X
<1>6. PICK g \in [SUBSET (1..n) -> X] : FoldTable(n, f, s, g) BY <1>3, <1>5, FoldExists
<1>7. g = Body(g)
  <2>1. ASSUME NEW t \in SUBSET (1..n)
        PROVE  g[t] = IF t = {} THEN s ELSE TakeToken(g[t \ {Max(t)}], list[Max(t)])
    <3>1. CASE t = {} BY <1>6, <3>1 DEF FoldTable
    <3>2. CASE t # {}
      <4>1. Max(t) \in 1..n BY <3>2, MaxIn
      <4>2. g[t \ {Max(t)}] \in X OBVIOUS
      <4>3. g[t] = f[<<Max(t), g[t \ {Max(t)}]>>] BY <1>6, <3>2 DEF FoldTable
      <4> QED BY <1>4, <3>2, <4>1, <4>2, <4>3
    <3> QED BY <3>1, <3>2
  <2> QED BY <2>1
<1>8. iter = Body(iter)
  <2> HIDE DEF Body
  <2> QED BY Zenon, <1>7
<1> HIDE DEF iter
<1>9. Follows(n, X, f, s, iter)
  <2>1. iter[{}] = s BY <1>8
  <2>2. ASSUME NEW t \in SUBSET (1..n), t # {}, iter[t \ {Max(t)}] \in X
        PROVE  iter[t] = f[<<Max(t), iter[t \ {Max(t)}]>>]
    <3>1. Max(t) \in 1..n BY <2>2, MaxIn
    <3>2. iter[t] = TakeToken(iter[t \ {Max(t)}], list[Max(t)]) BY <1>8, <2>2
    <3> QED BY <1>4, <2>2, <3>1, <3>2
  <2> QED BY <2>1, <2>2 DEF Follows
<1>10. Chain(n, X, f, s, iter[1..n]) BY <1>3, <1>5, <1>9, FoldChain
<1>11. PICK c \in [0..n -> X] : /\ c[0] = s /\ c[n] = iter[1..n]
                                /\ \A k \in 1..n : c[k] = f[<<k, c[k - 1]>>]
  BY <1>10 DEF Chain
<1>12. ASSUME NEW k \in 1..n PROVE c[k] = TakeToken(c[k - 1], list[k])
  <2>1. c[k - 1] \in X /\ c[k] = f[<<k, c[k - 1]>>] BY <1>11
  <2> QED BY <1>4, <2>1
<1> QED BY <1>2, <1>11, <1>12 DEF InTurn

LEMMA OneToken ==
  ASSUME NEW s \in StringReadings, NEW t \in Tokens
  PROVE  Taken(s, <<t>>) = TakeToken(s, t)
<1>1. <<t>> \in [1..1 -> Tokens] /\ <<t>>[1] = t OBVIOUS
<1> DEFINE list == <<t>>
<1> HIDE DEF list
<1>2. PICK c : InTurn(1, s, list, c) BY <1>1, TokensAreRead DEF list
<1>3. c[1] = TakeToken(c[0], list[1]) BY <1>2 DEF InTurn
<1> QED BY <1>1, <1>2, <1>3 DEF InTurn, list

LEMMA TwoTokens ==
  ASSUME NEW s \in StringReadings, NEW t \in Tokens, NEW u \in Tokens
  PROVE  Taken(s, <<t, u>>) = TakeToken(TakeToken(s, t), u)
<1> DEFINE list == <<t, u>>
<1>1. list \in [1..2 -> Tokens] /\ list[1] = t /\ list[2] = u OBVIOUS
<1> HIDE DEF list
<1>2. PICK c : InTurn(2, s, list, c) BY <1>1, TokensAreRead
<1>3. c[1] = TakeToken(c[0], list[1]) /\ c[2] = TakeToken(c[1], list[2]) BY <1>2 DEF InTurn
<1> QED BY <1>1, <1>2, <1>3 DEF InTurn, list

LEMMA StringsStart == ASSUME StringsInit PROVE StringsInv
<1>1. <<>> \in Seq(Letters) /\ <<>> \in Seq(Seq(Letters)) /\ Len(<<>>) = 0 BY EmptySeq
<1>2. strings \in StringReadings BY <1>1 DEF StringsInit, StringReadings
<1>3. rest \in Unwritten BY <1>1 DEF StringsInit, NoString, Unwritten
<1> QED BY <1>1, <1>2, <1>3 DEF StringsInit, StringsInv, StringsFollow, StringsTypes, NoString

LEMMA HeadKeeps ==
  ASSUME StringsFollow, NEW s \in Strings, NEW wide \in BOOLEAN, NEW runs \in 0..2,
         WriteHead(s, wide, runs)
  PROVE  StringsInv'
<1> DEFINE t == [k |-> "head", wide |-> wide, v |-> Len(s), runs |-> runs]
           b == [strings EXCEPT !.open = TRUE, !.left = Len(s), !.skip = runs, !.high = wide,
                                !.out = <<>>, !.behind = 0]
           c == [strings EXCEPT !.lost = TRUE]
<1>1. s \in Seq(Letters) /\ Len(s) \in Nat /\ runs \in Nat
  BY StringIsLetters, LenProperties
<1>2. t \in Tokens BY <1>1 DEF Tokens
<1>3. /\ strings \in StringReadings /\ written \in Seq(Seq(Letters))
      /\ ~strings.flag /\ strings.left = 0 /\ strings.skip = 0 /\ ~strings.open
      /\ written = strings.sst /\ ~strings.lost /\ strings.behind = rest.cuts
      /\ rest.cuts \in Nat /\ ~rest.hollow /\ Len(rest.chars) = 0
  BY EmptySeq DEF StringsFollow, StringsTypes, Unwritten, WriteHead
<1>4. strings' = TakeToken(strings, t) BY <1>2, <1>3, OneToken DEF WriteHead, Put, Taken
<1>5. TakeToken(strings, t) = IF rest.cuts > 1 THEN c ELSE Done(b)
  BY <1>3 DEF TakeToken, Opened, Between
<1>6. b \in StringReadings BY <1>1, <1>3, EmptySeq DEF StringReadings
<1>7. /\ b.sst = written /\ b.out = <<>> /\ b.open = TRUE /\ b.left = Len(s) /\ b.skip = runs
      /\ b.high = wide /\ b.flag = FALSE /\ b.behind = 0 /\ b.lost = FALSE
  BY <1>3 DEF StringReadings
<1>8. /\ rest' = [chars |-> s, runs |-> runs, wide |-> wide, cuts |-> 0,
                  hollow |-> rest.hollow \/ rest.cuts > 1]
      /\ written' = Append(written, s)
  BY DEF WriteHead
<1>9. written' \in Seq(Seq(Letters)) BY <1>1, <1>3, <1>8, AppendProperties
<1>10. /\ rest' \in Unwritten /\ rest'.chars = s /\ rest'.runs = runs /\ rest'.wide = wide
       /\ rest'.cuts = 0 /\ (rest'.hollow <=> rest.cuts > 1)
  <2> DEFINE two == rest.hollow \/ rest.cuts > 1
  <2>1. two \in BOOLEAN /\ two = (rest.cuts > 1) BY <1>3
  <2> HIDE DEF two
  <2>2. rest' = [chars |-> s, runs |-> runs, wide |-> wide, cuts |-> 0, hollow |-> two]
    BY <1>8 DEF two
  <2> QED BY <1>1, <2>1, <2>2 DEF Unwritten
<1>14. CASE rest.cuts > 1
  <2>1. strings' = c BY <1>4, <1>5, <1>14
  <2>2. c \in StringReadings /\ c.lost BY <1>3 DEF StringReadings
  <2> QED BY <1>9, <1>10, <1>14, <2>1, <2>2 DEF StringsInv, StringsLost, StringsTypes
<1> SUFFICES ASSUME ~(rest.cuts > 1) PROVE StringsFollow' BY <1>14 DEF StringsInv
<1> HIDE DEF b, t, c
<1>15. strings' = Done(b) BY <1>4, <1>5
<1>16. ~rest'.hollow BY <1>10
<1>11. strings' \in StringReadings BY <1>6, <1>15, DoneIsReading
<1>12. CASE Len(s) = 0 /\ runs = 0
  <2>1. strings' = [b EXCEPT !.sst = Append(b.sst, b.out), !.open = FALSE]
    BY <1>6, <1>7, <1>12, <1>15, DoneIsReading
  <2>2. s = <<>> BY <1>1, <1>12, EmptySeq
  <2>3. /\ strings'.sst = Append(written, <<>>) /\ strings'.open = FALSE /\ strings'.left = 0
        /\ strings'.skip = 0 /\ strings'.flag = FALSE /\ strings'.behind = 0
        /\ strings'.lost = FALSE
    BY <1>6, <1>7, <1>12, <2>1 DEF StringReadings
  <2>4. Len(rest'.chars) = 0 /\ written' = strings'.sst BY <1>8, <1>10, <1>12, <2>2, <2>3
  <2> QED BY <1>9, <1>10, <1>11, <1>12, <1>16, <2>3, <2>4 DEF StringsFollow, StringsTypes
<1>13. CASE ~(Len(s) = 0 /\ runs = 0)
  <2>1. strings' = b BY <1>6, <1>7, <1>13, <1>15, DoneIsReading
  <2>2. <<>> \o s = s BY <1>1, ConcatEmptySeq
  <2>3. /\ strings'.sst = written /\ strings'.out = <<>> /\ strings'.open = TRUE
        /\ strings'.left = Len(s) /\ strings'.skip = runs /\ strings'.high = wide
        /\ strings'.flag = FALSE /\ strings'.behind = 0 /\ strings'.lost = FALSE
    BY <1>7, <2>1
  <2>5. written' = Append(strings'.sst, strings'.out \o rest'.chars) BY <1>8, <1>10, <2>2, <2>3
  <2>6. strings'.left > 0 \/ strings'.skip > 0 BY <1>1, <1>13, <2>3
  <2> QED BY <1>9, <1>10, <1>11, <1>16, <2>3, <2>5, <2>6 DEF StringsFollow, StringsTypes
<1> QED BY <1>12, <1>13

LEMMA CharMoves ==
  ASSUME NEW S, NEW out \in Seq(S), NEW chars \in Seq(S), chars # <<>>
  PROVE  /\ Append(out, Head(chars)) \in Seq(S) /\ Head(chars) \in S /\ Tail(chars) \in Seq(S)
         /\ Len(Tail(chars)) = Len(chars) - 1 /\ Len(chars) \in Nat \ {0}
         /\ Append(out, Head(chars)) \o Tail(chars) = out \o chars
<1>1. Head(chars) \in S /\ Tail(chars) \in Seq(S) /\ Len(Tail(chars)) = Len(chars) - 1
      /\ \A i \in 1..Len(Tail(chars)) : Tail(chars)[i] = chars[i + 1]
  BY HeadTailProperties
<1>2. Len(chars) \in Nat \ {0} BY EmptySeq
<1>3. /\ Append(out, Head(chars)) \in Seq(S) /\ Len(Append(out, Head(chars))) = Len(out) + 1
      /\ \A i \in 1..Len(out) : Append(out, Head(chars))[i] = out[i]
      /\ Append(out, Head(chars))[Len(out) + 1] = Head(chars)
  BY <1>1, AppendProperties
<1> DEFINE more == Append(out, Head(chars))
           left == Tail(chars)
           one == more \o left
           two == out \o chars
<1>4. Head(chars) = chars[1] BY <1>2
<1> HIDE DEF more, left
<1>5. /\ one \in Seq(S) /\ Len(one) = Len(more) + Len(left)
      /\ \A i \in 1..(Len(more) + Len(left)) :
           one[i] = IF i <= Len(more) THEN more[i] ELSE left[i - Len(more)]
  BY <1>1, <1>3, ConcatProperties DEF more, left
<1>6. /\ two \in Seq(S) /\ Len(two) = Len(out) + Len(chars)
      /\ \A i \in 1..(Len(out) + Len(chars)) :
           two[i] = IF i <= Len(out) THEN out[i] ELSE chars[i - Len(out)]
  BY ConcatProperties
<1>7. Len(out) \in Nat /\ Len(more) = Len(out) + 1 /\ Len(left) = Len(chars) - 1
  BY <1>1, <1>3, LenProperties DEF more, left
<1> HIDE DEF one, two
<1>8. ASSUME NEW i \in 1..Len(two) PROVE one[i] = two[i]
  <2>1. i \in 1..(Len(out) + Len(chars)) /\ i \in 1..(Len(more) + Len(left)) BY <1>2, <1>6, <1>7
  <2>2. CASE i <= Len(out)
    <3>1. more[i] = out[i] /\ i <= Len(more) BY <1>3, <1>7, <2>2 DEF more
    <3> QED BY <1>5, <1>6, <2>1, <2>2, <3>1
  <2>3. CASE i = Len(out) + 1
    <3>1. more[i] = chars[1] BY <1>3, <1>4, <2>3 DEF more
    <3>2. two[i] = chars[1] BY <1>6, <1>7, <2>1, <2>3
    <3> QED BY <1>5, <1>7, <2>1, <2>3, <3>1, <3>2
  <2>4. CASE i > Len(out) + 1
    <3>1. i - Len(more) \in 1..Len(left) /\ (i - Len(more)) + 1 = i - Len(out)
      BY <1>2, <1>7, <2>1, <2>4
    <3>2. left[i - Len(more)] = chars[i - Len(out)] BY <1>1, <3>1 DEF left
    <3>3. one[i] = left[i - Len(more)] BY <1>5, <1>7, <2>1, <2>4
    <3>4. two[i] = chars[i - Len(out)] BY <1>6, <1>7, <2>1, <2>4
    <3> QED BY <3>2, <3>3, <3>4
  <2> QED BY <1>7, <2>1, <2>2, <2>3, <2>4
<1>9. Len(one) = Len(two) BY <1>2, <1>5, <1>6, <1>7
<1>10. one = two BY <1>5, <1>6, <1>8, <1>9, SeqEqual
<1> QED BY <1>1, <1>2, <1>3, <1>10 DEF one, two, more, left

LEMMA CharKeeps == ASSUME StringsFollow, WriteChar PROVE StringsFollow'
<1> DEFINE t == Token("char", rest.wide, Head(rest.chars))
           more == Append(strings.out, Head(rest.chars))
           b == [strings EXCEPT !.left = strings.left - 1, !.out = more]
<1>1. /\ strings \in StringReadings /\ strings.sst \in Seq(Seq(Letters))
      /\ strings.out \in Seq(Letters) /\ strings.skip \in Nat
      /\ rest \in Unwritten
      /\ rest.chars \in Seq(Letters) /\ rest.chars # <<>> /\ rest.wide \in BOOLEAN
  BY DEF StringsFollow, StringsTypes, StringReadings, Unwritten, WriteChar
<1>2. /\ more \in Seq(Letters) /\ Head(rest.chars) \in Letters /\ Tail(rest.chars) \in Seq(Letters)
      /\ Len(Tail(rest.chars)) = Len(rest.chars) - 1 /\ Len(rest.chars) \in Nat \ {0}
      /\ more \o Tail(rest.chars) = strings.out \o rest.chars
  <2> DEFINE out == strings.out
             chars == rest.chars
  <2>1. out \in Seq(Letters) /\ chars \in Seq(Letters) /\ chars # <<>> BY <1>1
  <2> HIDE DEF out, chars
  <2>2. /\ Append(out, Head(chars)) \in Seq(Letters)
        /\ Head(chars) \in Letters /\ Tail(chars) \in Seq(Letters)
        /\ Len(Tail(chars)) = Len(chars) - 1 /\ Len(chars) \in Nat \ {0}
        /\ Append(out, Head(chars)) \o Tail(chars) = out \o chars
    BY <2>1, CharMoves
  <2> QED BY Zenon, <2>2 DEF out, chars
<1>3. /\ strings.left = Len(rest.chars) /\ ~strings.flag /\ strings.high = rest.wide
      /\ strings.open = TRUE /\ strings.skip = rest.runs /\ ~strings.lost /\ ~rest.hollow
      /\ strings.behind = rest.cuts
      /\ written = Append(strings.sst, strings.out \o rest.chars)
      /\ written \in Seq(Seq(Letters))
  <2>1. strings.left = Len(rest.chars) /\ strings.left > 0 BY <1>2 DEF StringsFollow
  <2>2. strings.open = TRUE BY <2>1 DEF StringsFollow, StringsTypes, StringReadings
  <2> QED BY <2>1, <2>2 DEF StringsFollow, StringsTypes
<1>4. t \in Tokens BY <1>1, <1>2 DEF Tokens, Token
<1>5. strings' = TakeToken(strings, t) BY <1>1, <1>4, OneToken DEF WriteChar, Put, Taken
<1>6. TakeToken(strings, t) = Done(b) BY <1>2, <1>3 DEF TakeToken, Token, Between
<1> HIDE DEF more
<1>7. b \in StringReadings
  <2>1. strings.left - 1 \in Nat BY <1>2, <1>3
  <2> QED BY <1>1, <1>2, <2>1 DEF StringReadings
<1>8. /\ b.sst = strings.sst /\ b.out = more /\ b.open /\ b.left = Len(rest.chars) - 1
      /\ b.skip = rest.runs /\ b.high = rest.wide /\ ~b.flag /\ ~b.lost
      /\ b.behind = rest.cuts
  BY <1>1, <1>3 DEF StringReadings
<1>9. rest' = [rest EXCEPT !.chars = Tail(rest.chars)] /\ written' = written BY DEF WriteChar
<1>10. /\ rest' \in Unwritten
       /\ rest'.chars = Tail(rest.chars) /\ rest'.runs = rest.runs /\ rest'.wide = rest.wide
       /\ rest'.cuts = rest.cuts /\ rest'.hollow = rest.hollow
  BY <1>1, <1>2, <1>9 DEF Unwritten
<1> HIDE DEF b, t
<1>11. strings' \in StringReadings BY <1>5, <1>6, <1>7, DoneIsReading
<1>12. CASE b.left = 0 /\ b.skip = 0
  <2>1. strings' = [b EXCEPT !.sst = Append(b.sst, b.out), !.open = FALSE]
    BY <1>5, <1>6, <1>7, <1>8, <1>12, DoneIsReading
  <2>2. Tail(rest.chars) = <<>> BY <1>2, <1>8, <1>12, EmptySeq
  <2>3. more \o <<>> = more BY <1>2, ConcatEmptySeq
  <2>4. /\ strings'.sst = Append(strings.sst, more) /\ ~strings'.open /\ strings'.left = 0
        /\ strings'.skip = 0 /\ ~strings'.flag /\ ~strings'.lost
        /\ strings'.behind = rest.cuts
    BY <1>7, <1>8, <1>12, <2>1 DEF StringReadings
  <2>5. Len(rest'.chars) = 0 /\ rest'.runs = 0 BY <1>2, <1>8, <1>10, <1>12
  <2>6. written' = strings'.sst BY <1>2, <1>3, <1>9, <2>2, <2>3, <2>4
  <2>7. written' \in Seq(Seq(Letters)) BY <1>3, <1>9
  <2> QED BY <1>3, <1>10, <1>11, <2>4, <2>5, <2>6, <2>7 DEF StringsFollow, StringsTypes
<1>13. CASE ~(b.left = 0 /\ b.skip = 0)
  <2>1. strings' = b BY <1>5, <1>6, <1>7, <1>13, DoneIsReading
  <2>2. b.left \in Nat /\ b.skip \in Nat BY <1>7 DEF StringReadings
  <2>3. /\ strings'.sst = strings.sst /\ strings'.out = more /\ strings'.open = TRUE
        /\ strings'.left = Len(rest'.chars) /\ strings'.skip = rest'.runs
        /\ strings'.high = rest'.wide /\ strings'.flag = FALSE
        /\ strings'.lost = FALSE /\ strings'.behind = rest.cuts
    BY <1>2, <1>8, <1>10, <2>1
  <2>4. written' = Append(strings'.sst, strings'.out \o rest'.chars)
    BY <1>2, <1>3, <1>9, <1>10, <2>3
  <2>5. strings'.left > 0 \/ strings'.skip > 0 BY <1>13, <2>1, <2>2
  <2>6. written' \in Seq(Seq(Letters)) BY <1>3, <1>9
  <2> QED BY <1>3, <1>10, <1>11, <2>3, <2>4, <2>5, <2>6 DEF StringsFollow, StringsTypes
<1> QED BY <1>12, <1>13

LEMMA RunKeeps == ASSUME StringsFollow, WriteRun PROVE StringsFollow'
<1> DEFINE t == Token("run", FALSE, "")
           b == [strings EXCEPT !.skip = strings.skip - 1]
<1>1. /\ strings \in StringReadings /\ strings.sst \in Seq(Seq(Letters))
      /\ strings.out \in Seq(Letters) /\ strings.skip \in Nat
      /\ rest \in Unwritten
      /\ rest.chars = <<>> /\ rest.runs > 0 /\ rest.runs \in Nat
  BY DEF StringsFollow, StringsTypes, StringReadings, Unwritten, WriteRun
<1>2. /\ strings.left = 0 /\ ~strings.flag /\ strings.open /\ strings.skip = rest.runs
      /\ ~strings.lost /\ ~rest.hollow /\ strings.behind = rest.cuts
      /\ written = Append(strings.sst, strings.out \o rest.chars)
      /\ written \in Seq(Seq(Letters)) /\ Len(rest.chars) = 0
  BY <1>1, EmptySeq DEF StringsFollow, StringsTypes
<1>3. strings.out \o rest.chars = strings.out BY <1>1, ConcatEmptySeq
<1>4. t \in Tokens BY DEF Tokens, Token, Letters
<1>5. strings' = TakeToken(strings, t) BY <1>1, <1>4, OneToken DEF WriteRun, Put, Taken
<1>6. TakeToken(strings, t) = Done(b) BY <1>1, <1>2 DEF TakeToken, Token, Between
<1>7. b \in StringReadings
  <2>1. strings.skip - 1 \in Nat BY <1>1, <1>2
  <2> QED BY <1>1, <2>1 DEF StringReadings
<1>8. /\ b.sst = strings.sst /\ b.out = strings.out /\ b.open /\ b.left = 0
      /\ b.skip = rest.runs - 1 /\ ~b.flag /\ ~b.lost /\ b.behind = rest.cuts
  BY <1>1, <1>2 DEF StringReadings
<1>9. rest' = [rest EXCEPT !.runs = rest.runs - 1] /\ written' = written BY DEF WriteRun
<1>10. /\ rest' \in Unwritten
       /\ rest'.chars = rest.chars /\ rest'.runs = rest.runs - 1
       /\ rest'.cuts = rest.cuts /\ rest'.hollow = rest.hollow
  BY <1>1, <1>9 DEF Unwritten
<1> HIDE DEF b, t
<1>11. strings' \in StringReadings BY <1>5, <1>6, <1>7, DoneIsReading
<1>12. CASE b.skip = 0
  <2>1. strings' = [b EXCEPT !.sst = Append(b.sst, b.out), !.open = FALSE]
    BY <1>5, <1>6, <1>7, <1>8, <1>12, DoneIsReading
  <2>2. /\ strings'.sst = Append(strings.sst, strings.out) /\ ~strings'.open /\ strings'.left = 0
        /\ strings'.skip = 0 /\ ~strings'.flag /\ ~strings'.lost
        /\ strings'.behind = rest.cuts
    BY <1>7, <1>8, <1>12, <2>1 DEF StringReadings
  <2>3. Len(rest'.chars) = 0 /\ rest'.runs = 0 BY <1>2, <1>8, <1>10, <1>12
  <2>4. written' = strings'.sst BY <1>2, <1>3, <1>9, <2>2
  <2>5. written' \in Seq(Seq(Letters)) BY <1>2, <1>9
  <2>6. ~rest'.hollow /\ rest'.cuts = rest.cuts BY <1>2, <1>10
  <2>7. StringsTypes' BY <1>10, <1>11, <2>5 DEF StringsTypes
  <2>8. written' = IF strings'.open THEN Append(strings'.sst, strings'.out \o rest'.chars)
                   ELSE strings'.sst
    BY <2>2, <2>4
  <2>9. /\ strings'.left > 0 => strings'.high = rest'.wide
        /\ strings'.open <=> strings'.left > 0 \/ strings'.skip > 0
    BY <2>2
  <2>10. /\ strings'.behind = rest'.cuts /\ strings'.left = Len(rest'.chars)
         /\ strings'.skip = rest'.runs
    BY <2>2, <2>3, <2>6
  <2> QED BY Zenon, <2>2, <2>6, <2>7, <2>8, <2>9, <2>10 DEF StringsFollow
<1>13. CASE b.skip # 0
  <2>1. strings' = b BY <1>5, <1>6, <1>7, <1>13, DoneIsReading
  <2>2. b.skip \in Nat BY <1>7 DEF StringReadings
  <2>3. /\ strings'.sst = strings.sst /\ strings'.out = strings.out /\ strings'.open = TRUE
        /\ strings'.left = 0 /\ Len(rest'.chars) = 0 /\ strings'.skip = rest'.runs
        /\ strings'.flag = FALSE /\ strings'.lost = FALSE /\ strings'.behind = rest.cuts
        /\ strings'.lost = FALSE /\ strings'.behind = rest.cuts
    BY <1>2, <1>8, <1>10, <2>1
  <2>4. written' = Append(strings'.sst, strings'.out \o rest'.chars)
    BY <1>2, <1>9, <1>10, <2>3
  <2>5. strings'.skip > 0 BY <1>13, <2>1, <2>2
  <2>6. written' \in Seq(Seq(Letters)) BY <1>2, <1>9
  <2>7. ~rest'.hollow /\ rest'.cuts = rest.cuts BY <1>2, <1>10
  <2>8. StringsTypes' BY <1>10, <1>11, <2>6 DEF StringsTypes
  <2>9. written' = IF strings'.open THEN Append(strings'.sst, strings'.out \o rest'.chars)
                   ELSE strings'.sst
    BY <2>3, <2>4
  <2>10. /\ strings'.left > 0 => strings'.high = rest'.wide
         /\ strings'.open <=> strings'.left > 0 \/ strings'.skip > 0
    BY <2>3, <2>5
  <2>11. /\ strings'.behind = rest'.cuts /\ strings'.left = Len(rest'.chars)
         /\ ~strings'.flag /\ ~strings'.lost
    BY <2>3, <2>7
  <2> QED BY Zenon, <2>3, <2>7, <2>8, <2>9, <2>10, <2>11 DEF StringsFollow
<1> QED BY <1>12, <1>13

LEMMA CutKeeps ==
  ASSUME StringsFollow, NEW wide \in BOOLEAN, CutBlock(wide) PROVE StringsFollow'
<1> DEFINE t == Token("cut", FALSE, "")
           u == Token("flag", wide, "")
           n == IF Between(strings) THEN strings.behind + 1 ELSE strings.behind
<1>1. /\ strings \in StringReadings /\ strings.left = Len(rest.chars) /\ ~strings.flag
      /\ strings.left \in Nat /\ strings.skip = rest.runs /\ strings.behind = rest.cuts
      /\ rest.cuts \in Nat /\ ~strings.lost /\ ~rest.hollow /\ written' = written
      /\ rest \in Unwritten /\ rest.chars \in Seq(Letters)
  BY DEF StringsFollow, StringsTypes, StringReadings, Unwritten, CutBlock
<1>2. t \in Tokens /\ u \in Tokens BY DEF Tokens, Token, Letters
<1>3. TakeToken(strings, t) = [strings EXCEPT !.flag = strings.left > 0, !.behind = n]
  BY <1>1 DEF TakeToken, PastCut, Token
<1>4. CASE rest.chars # <<>>
  <2>1. strings.left > 0 /\ n = strings.behind
    <3>1. Len(rest.chars) \in Nat \ {0} BY <1>1, <1>4, EmptySeq
    <3> QED BY <1>1, <3>1 DEF Between
  <2> HIDE DEF n
  <2> DEFINE b == [strings EXCEPT !.flag = TRUE]
             c == [b EXCEPT !.flag = FALSE, !.high = wide]
  <2>2. TakeToken(strings, t) = b
    <3>1. [strings EXCEPT !.flag = TRUE, !.behind = strings.behind] = b
      BY <1>1 DEF StringReadings
    <3>2. (strings.left > 0) = TRUE BY <2>1
    <3> QED BY <1>3, <2>1, <3>1, <3>2
  <2>3. TakeToken(b, u) = c BY <1>1 DEF TakeToken, Token, StringReadings
  <2>4. strings' = TakeToken(TakeToken(strings, t), u)
    <3>1. Put(<<t, u>>) BY <1>4 DEF CutBlock
    <3> HIDE DEF t, u
    <3> QED BY <1>1, <1>2, <3>1, TwoTokens DEF Put, Taken
  <2>5. strings' = c BY <2>2, <2>3, <2>4
  <2>6. /\ c \in StringReadings /\ c.sst = strings.sst /\ c.out = strings.out
        /\ c.open = strings.open /\ c.left = strings.left /\ c.skip = strings.skip
        /\ c.high = wide /\ ~c.flag /\ ~c.lost /\ c.behind = rest.cuts
    BY <1>1 DEF StringReadings
  <2>7. rest' = [rest EXCEPT !.wide = wide] BY <1>4 DEF CutBlock
  <2>8. /\ rest' \in Unwritten /\ rest'.chars = rest.chars /\ rest'.runs = rest.runs
        /\ rest'.wide = wide /\ rest'.cuts = rest.cuts /\ rest'.hollow = rest.hollow
    BY <1>1, <2>7 DEF Unwritten
  <2> HIDE DEF c
  <2> QED BY <1>1, <2>5, <2>6, <2>8 DEF StringsFollow, StringsTypes
<1>5. CASE rest.chars = <<>>
  <2> DEFINE m == IF rest.runs = 0 THEN rest.cuts + 1 ELSE rest.cuts
             b == [strings EXCEPT !.behind = m]
  <2>1. strings.left = 0 /\ n = m BY <1>1, <1>5, EmptySeq DEF Between
  <2>2. m \in Nat BY <1>1
  <2> HIDE DEF n, m
  <2>3. TakeToken(strings, t) = b
    <3>1. ~(strings.left > 0) BY <2>1
    <3>2. strings.flag = (strings.left > 0) BY <1>1, <3>1 DEF StringReadings
    <3> QED BY <1>1, <1>3, <2>1, <3>2 DEF StringReadings
  <2>4. strings' = TakeToken(strings, t)
    <3>1. Put(<<t>>) BY <1>5 DEF CutBlock
    <3> HIDE DEF t
    <3> QED BY <1>1, <1>2, <3>1, OneToken DEF Put, Taken
  <2>5. /\ b \in StringReadings /\ b.sst = strings.sst /\ b.out = strings.out
        /\ b.open = strings.open /\ b.left = strings.left /\ b.skip = strings.skip
        /\ b.high = strings.high /\ ~b.flag /\ ~b.lost /\ b.behind = m
    BY <1>1, <2>2 DEF StringReadings
  <2>6. rest' = [rest EXCEPT !.cuts = m] BY <1>5 DEF CutBlock, m
  <2>7. /\ rest' \in Unwritten /\ rest'.chars = rest.chars /\ rest'.runs = rest.runs
        /\ rest'.wide = rest.wide /\ rest'.cuts = m /\ rest'.hollow = rest.hollow
    BY <1>1, <2>2, <2>6 DEF Unwritten
  <2>8. strings' = b BY <2>3, <2>4
  <2> HIDE DEF b
  <2> QED BY <1>1, <2>5, <2>7, <2>8 DEF StringsFollow, StringsTypes
<1> QED BY <1>4, <1>5

(* A reader that went past an empty block takes in nothing more.           *)
LEMMA LostTakesNothing ==
  ASSUME NEW a \in StringReadings, a.lost, NEW t PROVE TakeToken(a, t) = a
<1> QED BY DEF TakeToken

LEMMA LostStays == ASSUME StringsLost, StringsNext PROVE StringsLost'
<1>1. /\ strings \in StringReadings /\ strings.lost /\ rest \in Unwritten /\ rest.hollow
      /\ rest.chars \in Seq(Letters) /\ rest.runs \in Nat /\ rest.cuts \in Nat
      /\ written \in Seq(Seq(Letters))
  BY DEF StringsLost, StringsTypes, Unwritten
<1>2. ASSUME NEW t \in Tokens, Put(<<t>>) PROVE strings' = strings
  BY <1>1, <1>2, OneToken, LostTakesNothing DEF Put, Taken
<1>3. ASSUME NEW t \in Tokens, NEW u \in Tokens, Put(<<t, u>>) PROVE strings' = strings
  <2>1. TakeToken(strings, t) = strings /\ TakeToken(strings, u) = strings
    BY <1>1, LostTakesNothing
  <2>2. strings' = Taken(strings, <<t, u>>) BY <1>3 DEF Put, Taken
  <2>3. Taken(strings, <<t, u>>) = TakeToken(TakeToken(strings, t), u) BY <1>1, TwoTokens
  <2> QED BY <2>1, <2>2, <2>3
<1>4. ASSUME NEW s \in Strings, NEW wide \in BOOLEAN, NEW runs \in 0..2,
             WriteHead(s, wide, runs)
      PROVE  StringsLost'
  <2> DEFINE t == [k |-> "head", wide |-> wide, v |-> Len(s), runs |-> runs]
  <2>1. s \in Seq(Letters) /\ Len(s) \in Nat /\ runs \in Nat
    BY StringIsLetters, LenProperties
  <2>2. t \in Tokens BY <2>1 DEF Tokens
  <2>3. Put(<<t>>) BY <1>4 DEF WriteHead
  <2> HIDE DEF t
  <2>4. strings' = strings BY <1>2, <2>2, <2>3
  <2>5. rest' = [chars |-> s, runs |-> runs, wide |-> wide, cuts |-> 0, hollow |-> TRUE]
    BY <1>1, <1>4 DEF WriteHead
  <2>6. rest' \in Unwritten /\ rest'.hollow BY <2>1, <2>5 DEF Unwritten
  <2>7. written' = Append(written, s) BY <1>4 DEF WriteHead
  <2>8. written' \in Seq(Seq(Letters)) BY <1>1, <2>1, <2>7, AppendProperties
  <2> QED BY <1>1, <2>4, <2>6, <2>8 DEF StringsLost, StringsTypes
<1>5. CASE WriteChar
  <2> DEFINE t == Token("char", rest.wide, Head(rest.chars))
  <2>1. rest.chars # <<>> /\ Put(<<t>>) /\ written' = written
        /\ rest' = [rest EXCEPT !.chars = Tail(rest.chars)]
    BY <1>5 DEF WriteChar
  <2>2. Head(rest.chars) \in Letters /\ Tail(rest.chars) \in Seq(Letters)
    BY <1>1, <2>1, HeadTailProperties
  <2>3. t \in Tokens BY <1>1, <2>2 DEF Tokens, Token, Unwritten
  <2> HIDE DEF t
  <2>4. strings' = strings BY <1>2, <2>1, <2>3
  <2>5. rest' \in Unwritten /\ rest'.hollow BY <1>1, <2>1, <2>2 DEF Unwritten
  <2> QED BY <1>1, <2>1, <2>4, <2>5 DEF StringsLost, StringsTypes
<1>6. CASE WriteRun
  <2> DEFINE t == Token("run", FALSE, "")
  <2>1. rest.runs > 0 /\ Put(<<t>>) /\ written' = written
        /\ rest' = [rest EXCEPT !.runs = rest.runs - 1]
    BY <1>6 DEF WriteRun
  <2>2. t \in Tokens BY DEF Tokens, Token, Letters
  <2> HIDE DEF t
  <2>3. strings' = strings BY <1>2, <2>1, <2>2
  <2>4. rest.runs - 1 \in Nat BY <1>1, <2>1
  <2>5. rest' \in Unwritten /\ rest'.hollow BY <1>1, <2>1, <2>4 DEF Unwritten
  <2> QED BY <1>1, <2>1, <2>3, <2>5 DEF StringsLost, StringsTypes
<1>7. ASSUME NEW wide \in BOOLEAN, CutBlock(wide) PROVE StringsLost'
  <2> DEFINE t == Token("cut", FALSE, "")
             u == Token("flag", wide, "")
             m == IF rest.runs = 0 THEN rest.cuts + 1 ELSE rest.cuts
  <2>1. t \in Tokens /\ u \in Tokens BY DEF Tokens, Token, Letters
  <2>5. m \in Nat BY <1>1
  <2>2. /\ written' = written
        /\ Put(<<t, u>>) \/ Put(<<t>>)
        /\ rest' = [rest EXCEPT !.wide = wide] \/ rest' = [rest EXCEPT !.cuts = m]
    BY <1>7 DEF CutBlock
  <2> HIDE DEF t, u, m
  <2>3. strings' = strings BY <1>2, <1>3, <2>1, <2>2
  <2>4. /\ [rest EXCEPT !.wide = wide] \in Unwritten /\ [rest EXCEPT !.wide = wide].hollow
        /\ [rest EXCEPT !.cuts = m] \in Unwritten /\ [rest EXCEPT !.cuts = m].hollow
    BY <1>1, <2>5 DEF Unwritten
  <2>6. rest' \in Unwritten /\ rest'.hollow BY <2>2, <2>4
  <2>7. written' = written BY <2>2
  <2>8. written' \in Seq(Seq(Letters)) BY <1>1, <2>7
  <2>9. strings' \in StringReadings /\ strings'.lost BY <1>1, <2>3
  <2> QED BY <2>6, <2>8, <2>9 DEF StringsLost, StringsTypes
<1> QED BY <1>4, <1>5, <1>6, <1>7 DEF StringsNext

LEMMA StringsStep == ASSUME StringsInv, [StringsNext]_stringVars PROVE StringsInv'
<1>1. CASE UNCHANGED stringVars
  BY <1>1 DEF StringsInv, StringsFollow, StringsLost, StringsTypes, stringVars
<1>2. CASE StringsLost /\ StringsNext BY <1>2, LostStays DEF StringsInv
<1>3. CASE StringsFollow /\ StringsNext
  BY <1>3, HeadKeeps, CharKeeps, RunKeeps, CutKeeps DEF StringsNext, StringsInv
<1> QED BY <1>1, <1>2, <1>3 DEF StringsInv

(* What is read of the shared strings is letters, counts and flags, and    *)
(* what is left of a string is what is not written yet, unless the reader  *)
(* met an empty block before a string and is lost.                         *)
THEOREM StringsTypeCorrect == StringsSpec => []StringsInv
<1>1. StringsInit => StringsInv BY StringsStart
<1>2. StringsInv /\ [StringsNext]_stringVars => StringsInv' BY StringsStep
<1> QED BY <1>1, <1>2, PTL DEF StringsSpec

(* A shared string is read as it was written wherever its record is cut    *)
(* (readerOver, biffString): for any strings, cut any number of times in   *)
(* their characters and their formatting, and at most once between two,    *)
(* where the reader goes on by one block.                                  *)
THEOREM StringsCorrect == StringsSpec => []StringsSurvive
<1>1. StringsInv => StringsSurvive
  <2> SUFFICES ASSUME StringsInv, ~rest.hollow, rest.chars = <<>>, rest.runs = 0
               PROVE  strings.sst = written
    BY DEF StringsSurvive
  <2>1. StringsFollow BY DEF StringsInv, StringsLost
  <2>2. strings.left = 0 /\ strings.skip = 0 BY <2>1, EmptySeq DEF StringsFollow
  <2> QED BY <2>1, <2>2 DEF StringsFollow
<1> QED BY <1>1, StringsTypeCorrect, PTL

----------------------------------------------------------------------------
(* Separated cells: what parseCSV knows after the characters there are.    *)
Characters == Special \cup UNION {ToSet(c) : c \in Cells}

Read(rows, row, field, quoted) ==
  [rows |-> rows, row |-> row, field |-> field, quoted |-> quoted, skip |-> FALSE]
Nothing == Read(<<>>, <<>>, <<>>, FALSE)

(* A turn of the loop, given whether another quote follows.                *)
Turn(a, ch, twice) ==
  CASE a.skip -> [a EXCEPT !.skip = FALSE]
    [] ~a.skip /\ a.quoted /\ ch = "quote" /\ twice ->
         [a EXCEPT !.field = Append(@, ch), !.skip = TRUE]
    [] ~a.skip /\ a.quoted /\ ch = "quote" /\ ~twice -> [a EXCEPT !.quoted = FALSE]
    [] ~a.skip /\ a.quoted /\ ch # "quote" -> [a EXCEPT !.field = Append(@, ch)]
    [] ~a.skip /\ ~a.quoted ->
         CASE ch = "quote"       -> [a EXCEPT !.quoted = TRUE]
           [] ch \in Separators  -> PushField(a)
           [] ch = "LF"          -> PushRow(a)
           [] ch = "CR"          -> a
           [] ch \notin Special  -> [a EXCEPT !.field = Append(@, ch)]

LEMMA CharIsTurn ==
  ASSUME NEW s, NEW a, NEW i
  PROVE  Char(s, a, i) = Turn(a, s[i], i < Len(s) /\ s[i + 1] = "quote")
BY Zenon DEF Char, Turn

(* A turn that does not look ahead.                                        *)
Closes(a, ch) == ~a.skip /\ a.quoted /\ ch = "quote"

LEMMA TurnIsSame ==
  ASSUME NEW a, NEW ch, ~Closes(a, ch), NEW b, NEW c PROVE Turn(a, ch, b) = Turn(a, ch, c)
BY Zenon DEF Turn, Closes

(* The loop over the first n characters of s; and over all of s, where     *)
(* `firm` says that more may follow, a quote even.                         *)
Upto(s, n, g) ==
  g = [i \in 0..n |-> IF i = 0 THEN Nothing ELSE Char(s, g[i - 1], i)]
Firm(s, g) == Len(s) # 0 => ~Closes(g[Len(s) - 1], s[Len(s)])
Reaches(s, a) == \E g : Upto(s, Len(s), g) /\ g[Len(s)] = a
Rests(s, a)   == \E g : Upto(s, Len(s), g) /\ g[Len(s)] = a /\ Firm(s, g)

LEMMA LoopStarts ==
  ASSUME NEW s, NEW n \in Nat, NEW g, Upto(s, n, g)
  PROVE  g[0] = Nothing /\ \A i \in 1..n : g[i] = Char(s, g[i - 1], i)
<1>1. 0 \in 0..n /\ \A i \in 1..n : i \in 0..n /\ i # 0 OBVIOUS
<1> QED BY <1>1, Zenon DEF Upto

LEMMA ParsedIs ==
  ASSUME NEW S, NEW s \in Seq(S), NEW a, Reaches(s, a)
  PROVE  parseCSV(s) = IF a.field # <<>> \/ a.row # <<>> THEN PushRow(a).rows ELSE a.rows
<1> DEFINE n == Len(s)
           Body(h) == [i \in 0..Len(s) |->
                         IF i = 0 THEN [rows |-> <<>>, row |-> <<>>, field |-> <<>>,
                                        quoted |-> FALSE, skip |-> FALSE]
                         ELSE Char(s, h[i - 1], i)]
           loop == CHOOSE h : h = Body(h)
<1>1. PICK g : Upto(s, n, g) /\ g[n] = a BY DEF Reaches
<1>2. parseCSV(s) = IF loop[n].field # <<>> \/ loop[n].row # <<>> THEN PushRow(loop[n]).rows
                    ELSE loop[n].rows
  BY Zenon DEF parseCSV
<1>3. g = Body(g) BY Zenon, <1>1 DEF Upto, Nothing, Read
<1>4. loop = Body(loop)
  <2> HIDE DEF Body
  <2> QED BY Zenon, <1>3
<1>5. n \in Nat BY LenProperties
<1>6. Upto(s, n, loop) BY Zenon, <1>4 DEF Upto, Nothing, Read
<1> HIDE DEF loop, n
<1> DEFINE P == {k \in 0..n : loop[k] = g[k]}
<1>7. 0 \in P
  <2>1. Upto(s, n, g) BY <1>1
  <2>2. loop[0] = Nothing BY <1>5, <1>6, LoopStarts
  <2>3. g[0] = Nothing BY <1>5, <2>1, LoopStarts
  <2> QED BY <1>5, <2>2, <2>3
<1>8. ASSUME NEW k \in 1..n, k - 1 \in P PROVE k \in P
  <2>1. loop[k] = Char(s, loop[k - 1], k) /\ g[k] = Char(s, g[k - 1], k)
    BY <1>1, <1>5, <1>6, LoopStarts
  <2>2. loop[k - 1] = g[k - 1] BY <1>8
  <2> HIDE DEF P
  <2>3. loop[k] = g[k] BY <2>1, <2>2
  <2> QED BY <2>3, <1>5 DEF P
<1>9. n \in P
  <2> HIDE DEF P, Body
  <2>1. \A k \in 0..n : k \in P BY <1>5, <1>7, <1>8, Induction
  <2> QED BY <1>5, <2>1
<1>10. loop[n] = a BY <1>1, <1>9
<1> QED BY <1>2, <1>10

(* What is read of s is read of it when more follows.                      *)
LEMMA KeptReading ==
  ASSUME NEW S, NEW s \in Seq(S), NEW t \in Seq(S), Len(t) > Len(s),
         \A i \in 1..Len(s) : t[i] = s[i],
         NEW g, Upto(s, Len(s), g), Firm(s, g) \/ t[Len(s) + 1] # "quote"
  PROVE  Upto(t, Len(s), g)
<1> DEFINE n == Len(s)
<1>1. n \in Nat /\ Len(t) \in Nat BY LenProperties
<1>2. ASSUME NEW i \in 1..n PROVE Char(t, g[i - 1], i) = Char(s, g[i - 1], i)
  <2> DEFINE next(u) == i < Len(u) /\ u[i + 1] = "quote"
  <2>1. t[i] = s[i] OBVIOUS
  <2>2. Char(t, g[i - 1], i) = Turn(g[i - 1], s[i], next(t)) BY <2>1, CharIsTurn
  <2>3. Char(s, g[i - 1], i) = Turn(g[i - 1], s[i], next(s)) BY CharIsTurn
  <2>4. CASE i < n
    <3>1. i + 1 \in 1..n BY <1>1, <2>4
    <3>2. t[i + 1] = s[i + 1] BY <3>1
    <3>3. next(t) <=> next(s) BY <1>1, <2>4, <3>2
    <3>4. next(t) = next(s) BY <3>3
    <3> HIDE DEF next
    <3> QED BY <2>2, <2>3, <3>4
  <2>5. CASE i = n
    <3>1. CASE t[n + 1] # "quote"
      <4>1. ~next(t) /\ ~next(s) BY <1>1, <2>5, <3>1
      <4>2. next(t) = next(s) BY <4>1
      <4> HIDE DEF next
      <4> QED BY <2>2, <2>3, <4>2
    <3>2. CASE Firm(s, g)
      <4>1. ~Closes(g[i - 1], s[i]) BY <1>1, <2>5, <3>2 DEF Firm
      <4> HIDE DEF next
      <4> QED BY <2>2, <2>3, <4>1, TurnIsSame
    <3> QED BY <3>1, <3>2
  <2> QED BY <1>1, <2>4, <2>5
<1>3. g = [i \in 0..n |-> IF i = 0 THEN Nothing ELSE Char(s, g[i - 1], i)] BY DEF Upto
<1> HIDE DEF n
<1>4. ASSUME NEW i \in 0..n
      PROVE (IF i = 0 THEN Nothing ELSE Char(s, g[i - 1], i))
              = IF i = 0 THEN Nothing ELSE Char(t, g[i - 1], i)
  <2>1. i # 0 => i \in 1..n BY <1>1
  <2> QED BY <1>2, <2>1
<1>5. g = [i \in 0..n |-> IF i = 0 THEN Nothing ELSE Char(t, g[i - 1], i)]
  BY Zenon, <1>3, <1>4
<1> QED BY <1>5 DEF Upto, n

Further(t, n, g) ==
  [i \in 0..(n + 1) |-> IF i <= n THEN g[i] ELSE Char(t, g[n], n + 1)]
LEMMA FurtherReading ==
  ASSUME NEW t, NEW n \in Nat, NEW g, Upto(t, n, g)
  PROVE  /\ Upto(t, n + 1, Further(t, n, g))
         /\ Further(t, n, g)[n] = g[n]
         /\ Further(t, n, g)[n + 1] = Char(t, g[n], n + 1)
<1> DEFINE more == Further(t, n, g)
<1> USE DEF Further
<1>1. g[0] = Nothing /\ \A i \in 1..n : g[i] = Char(t, g[i - 1], i) BY LoopStarts
<1>2. more[n] = g[n] /\ more[n + 1] = Char(t, g[n], n + 1) OBVIOUS
<1>3. ASSUME NEW i \in 0..(n + 1)
      PROVE  more[i] = IF i = 0 THEN Nothing ELSE Char(t, more[i - 1], i)
  <2>1. CASE i = 0 BY <1>1, <2>1
  <2>2. CASE i \in 1..n
    <3>1. more[i] = g[i] /\ more[i - 1] = g[i - 1] BY <2>2
    <3> HIDE DEF more
    <3> QED BY <1>1, <2>2, <3>1
  <2>3. CASE i = n + 1
    <3>1. i - 1 = n BY <2>3
    <3> HIDE DEF more
    <3> QED BY <1>2, <2>3, <3>1
  <2> QED BY <2>1, <2>2, <2>3
<1>4. Upto(t, n + 1, more)
  <2>1. more = [i \in 0..(n + 1) |-> more[i]] OBVIOUS
  <2> HIDE DEF more
  <2>2. more = [i \in 0..(n + 1) |-> IF i = 0 THEN Nothing ELSE Char(t, more[i - 1], i)]
    BY Zenon, <1>3, <2>1
  <2> QED BY <2>2 DEF Upto
<1> QED BY <1>2, <1>4

(* One character more: all of it is read, and for good unless it is a      *)
(* quote inside quotes.                                                    *)
LEMMA ReadMore ==
  ASSUME NEW S, NEW s \in Seq(S), NEW ch \in S, NEW a,
         Rests(s, a) \/ (Reaches(s, a) /\ ch # "quote")
  PROVE  /\ Reaches(s \o <<ch>>, Turn(a, ch, FALSE))
         /\ ~Closes(a, ch) => Rests(s \o <<ch>>, Turn(a, ch, FALSE))
<1> DEFINE n == Len(s)
           t == s \o <<ch>>
<1>1. n \in Nat /\ t \in Seq(S) /\ Len(t) = n + 1 /\ (\A i \in 1..n : t[i] = s[i])
        /\ t[n + 1] = ch
  OBVIOUS
<1>2. PICK g : Upto(s, n, g) /\ g[n] = a /\ (Firm(s, g) \/ ch # "quote")
  BY DEF Rests, Reaches
<1> HIDE DEF t, n
<1>3. Upto(t, n, g)
  <2>1. Len(s) = n /\ Upto(s, Len(s), g) BY <1>2 DEF n
  <2>2. Len(t) > Len(s) /\ (\A i \in 1..Len(s) : t[i] = s[i])
          /\ (Firm(s, g) \/ t[Len(s) + 1] # "quote")
    BY <1>1, <1>2, <2>1
  <2>3. Upto(t, Len(s), g) BY <1>1, <2>1, <2>2, KeptReading
  <2> QED BY <2>1, <2>3
<1> DEFINE more == Further(t, n, g)
<1>4. Upto(t, n + 1, more) /\ more[n] = a /\ more[n + 1] = Char(t, a, n + 1)
  BY <1>1, <1>2, <1>3, FurtherReading
<1>5. Char(t, a, n + 1) = Turn(a, ch, FALSE)
  <2>1. (n + 1 < Len(t) /\ t[n + 1 + 1] = "quote") = FALSE BY <1>1
  <2> QED BY <1>1, <2>1, CharIsTurn
<1> HIDE DEF more
<1>6. Upto(t, Len(t), more) /\ more[Len(t)] = Turn(a, ch, FALSE) BY <1>1, <1>4, <1>5
<1>7. Len(t) - 1 = n /\ t[Len(t)] = ch BY <1>1
<1>8. ~Closes(a, ch) => Firm(t, more) BY <1>4, <1>7 DEF Firm
<1>9. Reaches(t, Turn(a, ch, FALSE)) BY <1>6 DEF Reaches
<1>10. ~Closes(a, ch) => Rests(t, Turn(a, ch, FALSE)) BY <1>6, <1>8 DEF Rests
<1> QED BY <1>9, <1>10 DEF t

LEMMA RestsReaches == ASSUME NEW s, NEW a, Rests(s, a) PROVE Reaches(s, a)
BY DEF Rests, Reaches

(* Two quotes inside quotes are one.                                       *)
LEMMA ReadTwo ==
  ASSUME NEW S, NEW s \in Seq(S), "quote" \in S, NEW rows, NEW row, NEW field,
         Rests(s, Read(rows, row, field, TRUE))
  PROVE  Rests(s \o <<"quote", "quote">>, Read(rows, row, Append(field, "quote"), TRUE))
<1> DEFINE n == Len(s)
           t == s \o <<"quote", "quote">>
           a == Read(rows, row, field, TRUE)
           b == [a EXCEPT !.field = Append(@, "quote"), !.skip = TRUE]
           c == Read(rows, row, Append(field, "quote"), TRUE)
<1>1. /\ n \in Nat /\ t \in Seq(S) /\ Len(t) = n + 2 /\ (\A i \in 1..n : t[i] = s[i])
      /\ t[n + 1] = "quote" /\ t[n + 2] = "quote"
  OBVIOUS
<1>2. PICK g : Upto(s, n, g) /\ g[n] = a /\ Firm(s, g) BY DEF Rests
<1>3. Turn(a, "quote", TRUE) = b BY DEF Turn, Read
<1>4. Turn(b, "quote", FALSE) = c BY DEF Turn, Read
<1>5. ~Closes(b, "quote") BY DEF Closes, Read
<1> HIDE DEF t, n, a, b, c
<1>6. Upto(t, n, g)
  <2>1. Len(s) = n /\ Upto(s, Len(s), g) BY <1>2 DEF n
  <2>2. Len(t) > Len(s) /\ (\A i \in 1..Len(s) : t[i] = s[i]) BY <1>1, <2>1
  <2>3. Upto(t, Len(s), g) BY <1>1, <1>2, <2>1, <2>2, KeptReading
  <2> QED BY <2>1, <2>3
<1> DEFINE one == Further(t, n, g)
           two == Further(t, n + 1, one)
<1>7. Upto(t, n + 1, one) /\ one[n + 1] = Char(t, a, n + 1) BY <1>1, <1>2, <1>6, FurtherReading
<1>8. Char(t, a, n + 1) = b
  <2>1. (n + 1 < Len(t) /\ t[n + 1 + 1] = "quote") = TRUE BY <1>1
  <2> QED BY <1>1, <1>3, <2>1, CharIsTurn
<1> HIDE DEF one
<1>9. Upto(t, n + 1 + 1, two) /\ two[n + 1] = b /\ two[n + 1 + 1] = Char(t, b, n + 1 + 1)
  BY <1>1, <1>7, <1>8, FurtherReading
<1>10. Char(t, b, n + 1 + 1) = c
  <2>1. (n + 1 + 1 < Len(t) /\ t[n + 1 + 1 + 1] = "quote") = FALSE BY <1>1
  <2>2. t[n + 1 + 1] = "quote" BY <1>1
  <2> QED BY <1>4, <2>1, <2>2, CharIsTurn
<1> HIDE DEF two
<1>11. n + 1 + 1 = Len(t) /\ Len(t) - 1 = n + 1 /\ t[Len(t)] = "quote" BY <1>1
<1>12. Firm(t, two) BY <1>5, <1>9, <1>11 DEF Firm
<1>13. Upto(t, Len(t), two) /\ two[Len(t)] = c BY <1>9, <1>10, <1>11
<1>14. Rests(t, c) BY <1>12, <1>13 DEF Rests
<1> QED BY <1>14 DEF t, c

(* What a character does to what is read, outside quotes and inside them.  *)
LEMMA OutsideQuotes ==
  ASSUME NEW rows, NEW row, NEW field, NEW ch
  PROVE  ~Closes(Read(rows, row, field, FALSE), ch)
BY DEF Closes, Read
LEMMA InsideQuotes ==
  ASSUME NEW rows, NEW row, NEW field, NEW ch, ch # "quote"
  PROVE  /\ ~Closes(Read(rows, row, field, TRUE), ch)
         /\ Turn(Read(rows, row, field, TRUE), ch, FALSE) = Read(rows, row, Append(field, ch), TRUE)
BY DEF Closes, Read, Turn
LEMMA LetterTurn ==
  ASSUME NEW rows, NEW row, NEW field, NEW ch, ch \notin Special
  PROVE  Turn(Read(rows, row, field, FALSE), ch, FALSE) = Read(rows, row, Append(field, ch), FALSE)
BY DEF Read, Turn, Special
LEMMA SeparatorTurn ==
  ASSUME NEW rows, NEW row, NEW field, NEW ch \in Separators
  PROVE  Turn(Read(rows, row, field, FALSE), ch, FALSE) = Read(rows, Append(row, field), <<>>, FALSE)
<1>1. ch # "quote" BY DEF Separators
<1> QED BY <1>1 DEF Read, Turn, Special, Separators, PushField
LEMMA LineFeedTurn ==
  ASSUME NEW rows, NEW row, NEW field
  PROVE  Turn(Read(rows, row, field, FALSE), "LF", FALSE)
           = Read(Append(rows, Append(row, field)), <<>>, <<>>, FALSE)
BY DEF Read, Turn, Special, Separators, PushField, PushRow
LEMMA ReturnTurn ==
  ASSUME NEW rows, NEW row, NEW field
  PROVE  Turn(Read(rows, row, field, FALSE), "CR", FALSE) = Read(rows, row, field, FALSE)
BY DEF Read, Turn, Special, Separators
LEMMA QuoteTurns ==
  ASSUME NEW rows, NEW row, NEW field
  PROVE  /\ Turn(Read(rows, row, field, FALSE), "quote", FALSE) = Read(rows, row, field, TRUE)
         /\ Turn(Read(rows, row, field, TRUE), "quote", FALSE) = Read(rows, row, field, FALSE)
BY DEF Read, Turn, Special, Separators

(* A cell without special characters is its field.                         *)
LEMMA PlainCell ==
  ASSUME NEW S, NEW s \in Seq(S), NEW cell \in Seq(S), ToSet(cell) \cap Special = {},
         NEW rows, NEW row, Rests(s, Read(rows, row, <<>>, FALSE))
  PROVE  Rests(s \o cell, Read(rows, row, cell, FALSE))
<1> DEFINE m == Len(cell)
           upto(k) == SubSeq(cell, 1, k)
           Fits(k) == Rests(s \o upto(k), Read(rows, row, upto(k), FALSE))
           P == {k \in 0..m : Fits(k)}
<1>1. m \in Nat BY LenProperties
<1>2. 0 \in P
  <2>1. upto(0) = <<>> BY SubSeqEmpty
  <2>2. s \o <<>> = s BY ConcatEmptySeq
  <2>3. Fits(0)
    <3> HIDE DEF upto
    <3> QED BY Zenon, <2>1, <2>2
  <2> HIDE DEF Fits
  <2> QED BY <1>1, <2>3
<1>3. ASSUME NEW k \in 1..m, k - 1 \in P PROVE k \in P
  <2> DEFINE before == upto(k - 1)
             ch == cell[k]
  <2>1. ch \in S /\ ch \notin Special
    <3>1. ch \in ToSet(cell) BY LenProperties DEF ToSet
    <3> QED BY <1>1, <3>1, ElementOfSeq
  <2>2. before \in Seq(S)
    <3>1. \A i \in 1..(k - 1) : cell[i] \in S BY <1>1, ElementOfSeq
    <3> QED BY <3>1, SubSeqProperties
  <2>3. upto(k) = before \o <<ch>> BY <1>1, SubSeqRecursiveSecond
  <2>4. Rests(s \o before, Read(rows, row, before, FALSE)) BY <1>3
  <2> HIDE DEF before, ch, upto, P
  <2>5. before \o <<ch>> = Append(before, ch) BY <2>1, <2>2, AppendIsConcat
  <2>6. (s \o before) \o <<ch>> = s \o (before \o <<ch>>)
    <3>1. <<ch>> \in Seq(S) BY <2>1
    <3> QED BY <2>2, <3>1, ConcatAssociative
  <2>7. Turn(Read(rows, row, before, FALSE), ch, FALSE) = Read(rows, row, upto(k), FALSE)
    <3>1. Turn(Read(rows, row, before, FALSE), ch, FALSE)
            = Read(rows, row, Append(before, ch), FALSE)
      BY <2>1, LetterTurn
    <3> QED BY Zenon, <2>3, <2>5, <3>1
  <2>8. ~Closes(Read(rows, row, before, FALSE), ch) BY OutsideQuotes
  <2>9. s \o before \in Seq(S) BY <2>2, ConcatProperties
  <2>10. Rests((s \o before) \o <<ch>>, Read(rows, row, upto(k), FALSE))
    BY <2>1, <2>4, <2>7, <2>8, <2>9, ReadMore
  <2>11. Fits(k) BY Zenon, <2>3, <2>6, <2>10
  <2> HIDE DEF Fits
  <2> QED BY <1>1, <2>11 DEF P
<1>4. \A k \in 0..m : k \in P
  <2> HIDE DEF P
  <2> QED BY <1>1, <1>2, <1>3, Induction
<1>5. upto(m) = cell BY SubSeqFull
<1>6. Fits(m)
  <2> HIDE DEF Fits
  <2>1. m \in 0..m BY <1>1
  <2> QED BY <1>4, <2>1
<1> HIDE DEF upto
<1> QED BY Zenon, <1>5, <1>6

(* A cell in quotes is the field between them.                             *)
EscapedParts(cell) ==
  [i \in DOMAIN cell |-> IF cell[i] = "quote" THEN <<"quote", "quote">> ELSE <<cell[i]>>]

LEMMA EscapedJoins ==
  ASSUME NEW S, "quote" \in S, NEW cell \in Seq(S)
  PROVE  \E w : /\ \A k \in 0..Len(cell) : w[k] \in Seq(S)
                /\ Joins(Len(cell), EscapedParts(cell), w)
                /\ w[Len(cell)] = Escaped(cell)
<1> DEFINE m == Len(cell)
           parts == EscapedParts(cell)
<1>1. m \in Nat /\ DOMAIN cell = 1..m BY LenProperties
<1>2. parts \in [1..m -> Seq(S)]
  <2>1. ASSUME NEW i \in 1..m PROVE parts[i] \in Seq(S)
    <3>1. cell[i] \in S BY ElementOfSeq
    <3>2. <<cell[i]>> \in Seq(S) /\ <<"quote", "quote">> \in Seq(S) BY <3>1
    <3> QED BY <1>1, <3>2 DEF EscapedParts
  <2> QED BY <1>1, <2>1 DEF EscapedParts
<1>3. Escaped(cell) = FlattenSeq(parts) BY Zenon DEF Escaped, EscapedParts
<1> HIDE DEF parts, m
<1>4. PICK w : /\ \A k \in 0..m : w[k] \in Seq(S)
               /\ Joins(m, parts, w) /\ FlattenSeq(parts) = w[m]
  BY <1>1, <1>2, FlattenFromNone
<1> QED BY <1>3, <1>4 DEF m, parts

LEMMA QuotedCell ==
  ASSUME NEW S, "quote" \in S, NEW s \in Seq(S), NEW cell \in Seq(S),
         NEW rows, NEW row, Reaches(s, Read(rows, row, <<>>, FALSE)),
         Rests(s, Read(rows, row, <<>>, FALSE))
  PROVE  Reaches(s \o (<<"quote">> \o Escaped(cell) \o <<"quote">>), Read(rows, row, cell, FALSE))
<1> DEFINE m == Len(cell)
           upto(k) == SubSeq(cell, 1, k)
           base == s \o <<"quote">>
<1>1. m \in Nat /\ <<"quote">> \in Seq(S) BY LenProperties
<1>2. base \in Seq(S) BY <1>1, ConcatProperties
<1>3. Rests(base, Read(rows, row, <<>>, TRUE))
  <2>1. Turn(Read(rows, row, <<>>, FALSE), "quote", FALSE) = Read(rows, row, <<>>, TRUE)
    BY QuoteTurns
  <2>2. ~Closes(Read(rows, row, <<>>, FALSE), "quote") BY OutsideQuotes
  <2>3. Rests(s \o <<"quote">>, Turn(Read(rows, row, <<>>, FALSE), "quote", FALSE))
    BY <2>2, ReadMore
  <2> QED BY Zenon, <2>1, <2>3
<1>4. \A x, y, z \in Seq(S) : (x \o y) \o z = x \o (y \o z) BY ConcatAssociative
<1>5. PICK w : /\ \A k \in 0..m : w[k] \in Seq(S)
               /\ Joins(m, EscapedParts(cell), w) /\ w[m] = Escaped(cell)
  BY EscapedJoins
<1> HIDE DEF base
<1> DEFINE Fits(k) == Rests(base \o w[k], Read(rows, row, upto(k), TRUE))
           P == {k \in 0..m : Fits(k)}
<1>6. 0 \in P
  <2>1. upto(0) = <<>> BY SubSeqEmpty
  <2>2. base \o <<>> = base BY <1>2, ConcatEmptySeq
  <2>3. w[0] = <<>> BY <1>5 DEF Joins
  <2>4. Fits(0)
    <3> HIDE DEF upto
    <3> QED BY Zenon, <1>3, <2>1, <2>2, <2>3
  <2> HIDE DEF Fits
  <2> QED BY <1>1, <2>4
<1>7. ASSUME NEW k \in 1..m, k - 1 \in P PROVE k \in P
  <2> DEFINE before == upto(k - 1)
             ch == cell[k]
             piece == EscapedParts(cell)[k]
  <2>1. ch \in S BY ElementOfSeq
  <2>2. before \in Seq(S)
    <3>1. \A i \in 1..(k - 1) : cell[i] \in S BY <1>1, ElementOfSeq
    <3> QED BY <3>1, SubSeqProperties
  <2>3. upto(k) = before \o <<ch>> BY <1>1, SubSeqRecursiveSecond
  <2>4. Rests(base \o w[k - 1], Read(rows, row, before, TRUE)) BY <1>7
  <2>5. piece = IF ch = "quote" THEN <<"quote", "quote">> ELSE <<ch>>
    <3>1. k \in DOMAIN cell BY LenProperties
    <3> QED BY <3>1 DEF EscapedParts
  <2>6. w[k] = w[k - 1] \o piece BY <1>5 DEF Joins
  <2>7. w[k - 1] \in Seq(S)
    <3>1. k - 1 \in 0..m BY <1>1
    <3> QED BY <1>5, <3>1
  <2> HIDE DEF before, ch, piece, upto, P
  <2>8. before \o <<ch>> = Append(before, ch) BY <2>1, <2>2, AppendIsConcat
  <2>9. piece \in Seq(S)
    <3>1. <<ch>> \in Seq(S) /\ <<"quote", "quote">> \in Seq(S) BY <2>1
    <3> QED BY <2>5, <3>1
  <2>10. (base \o w[k - 1]) \o piece = base \o w[k] 
    <3>1. (base \o w[k - 1]) \o piece = base \o (w[k - 1] \o piece)
      BY Zenon, <1>2, <1>4, <2>7, <2>9
    <3> QED BY Zenon, <2>6, <3>1
  <2>11. base \o w[k - 1] \in Seq(S) BY <1>2, <2>7, ConcatProperties
  <2>12. Rests((base \o w[k - 1]) \o piece, Read(rows, row, upto(k), TRUE))
    <3>1. CASE ch = "quote"
      <4>1. Rests((base \o w[k - 1]) \o <<"quote", "quote">>,
                  Read(rows, row, Append(before, "quote"), TRUE))
        BY <2>4, <2>11, ReadTwo
      <4>2. piece = <<"quote", "quote">> /\ upto(k) = Append(before, "quote")
        BY Zenon, <2>3, <2>5, <2>8, <3>1
      <4> QED BY Zenon, <4>1, <4>2
    <3>2. CASE ch # "quote"
      <4>1. /\ ~Closes(Read(rows, row, before, TRUE), ch)
            /\ Turn(Read(rows, row, before, TRUE), ch, FALSE)
                 = Read(rows, row, Append(before, ch), TRUE)
        BY <3>2, InsideQuotes
      <4>2. Rests((base \o w[k - 1]) \o <<ch>>, Turn(Read(rows, row, before, TRUE), ch, FALSE))
        BY <2>1, <2>4, <2>11, <4>1, ReadMore
      <4>3. piece = <<ch>> /\ upto(k) = Append(before, ch) BY Zenon, <2>3, <2>5, <2>8, <3>2
      <4> QED BY Zenon, <4>1, <4>2, <4>3
    <3> QED BY <3>1, <3>2
  <2>13. Fits(k) BY Zenon, <2>10, <2>12
  <2> HIDE DEF Fits
  <2> QED BY <1>1, <2>13 DEF P
<1>8. \A k \in 0..m : k \in P
  <2> HIDE DEF P
  <2> QED BY <1>1, <1>6, <1>7, Induction
<1>9. Fits(m)
  <2> HIDE DEF Fits
  <2>1. m \in 0..m BY <1>1
  <2> QED BY <1>8, <2>1
<1>10. upto(m) = cell BY SubSeqFull
<1>11. Escaped(cell) \in Seq(S)
  <2>1. m \in 0..m BY <1>1
  <2> QED BY <1>5, <2>1
<1> HIDE DEF upto
<1>12. Rests(base \o Escaped(cell), Read(rows, row, cell, TRUE)) BY Zenon, <1>5, <1>9, <1>10
<1>13. Reaches((base \o Escaped(cell)) \o <<"quote">>, Read(rows, row, cell, FALSE))
  <2>1. Turn(Read(rows, row, cell, TRUE), "quote", FALSE) = Read(rows, row, cell, FALSE)
    BY QuoteTurns
  <2>2. base \o Escaped(cell) \in Seq(S) BY <1>2, <1>11, ConcatProperties
  <2>3. Reaches((base \o Escaped(cell)) \o <<"quote">>,
                Turn(Read(rows, row, cell, TRUE), "quote", FALSE))
    BY <1>12, <2>2, ReadMore
  <2> QED BY Zenon, <2>1, <2>3
<1>14. (base \o Escaped(cell)) \o <<"quote">>
         = s \o ((<<"quote">> \o Escaped(cell)) \o <<"quote">>)
  <2>1. base \o Escaped(cell) = s \o (<<"quote">> \o Escaped(cell))
    BY <1>1, <1>11, ConcatAssociative DEF base
  <2>2. <<"quote">> \o Escaped(cell) \in Seq(S) BY <1>1, <1>11, ConcatProperties
  <2>3. (s \o (<<"quote">> \o Escaped(cell))) \o <<"quote">>
          = s \o ((<<"quote">> \o Escaped(cell)) \o <<"quote">>)
    BY <1>1, <2>2, ConcatAssociative
  <2> QED BY Zenon, <2>1, <2>3
<1> QED BY Zenon, <1>13, <1>14

(* A line end outside quotes ends the row, a separator the field.          *)
LEMMA LineEnds ==
  ASSUME NEW S, NEW s \in Seq(S), {"LF", "CR"} \subseteq S, NEW rows, NEW row, NEW field,
         NEW ends \in {<<"LF">>, <<"CR", "LF">>}, Reaches(s, Read(rows, row, field, FALSE))
  PROVE  /\ s \o ends \in Seq(S)
         /\ Rests(s \o ends, Read(Append(rows, Append(row, field)), <<>>, <<>>, FALSE))
<1> DEFINE a == Read(rows, row, field, FALSE)
           b == Read(Append(rows, Append(row, field)), <<>>, <<>>, FALSE)
<1>1. ASSUME NEW u \in Seq(S), Reaches(u, a) PROVE Rests(u \o <<"LF">>, b)
  <2>1. Turn(a, "LF", FALSE) = b BY LineFeedTurn
  <2>2. ~Closes(a, "LF") BY OutsideQuotes
  <2> HIDE DEF a, b
  <2>3. Rests(u \o <<"LF">>, Turn(a, "LF", FALSE)) BY <1>1, <2>2, ReadMore
  <2> QED BY Zenon, <2>1, <2>3
<1>2. <<"LF">> \in Seq(S) /\ <<"CR">> \in Seq(S) OBVIOUS
<1>3. Turn(a, "CR", FALSE) = a BY ReturnTurn
<1> HIDE DEF a, b
<1>4. CASE ends = <<"LF">>
  <2>1. s \o <<"LF">> \in Seq(S) BY <1>2, ConcatProperties
  <2>2. Rests(s \o <<"LF">>, b) BY <1>1 DEF a
  <2> QED BY Zenon, <1>4, <2>1, <2>2 DEF b
<1>5. CASE ends = <<"CR", "LF">>
  <2>1. s \o <<"CR">> \in Seq(S) BY <1>2, ConcatProperties
  <2>2. Reaches(s \o <<"CR">>, a)
    <3>1. Reaches(s \o <<"CR">>, Turn(a, "CR", FALSE)) BY ReadMore DEF a
    <3> QED BY Zenon, <1>3, <3>1
  <2>3. Rests((s \o <<"CR">>) \o <<"LF">>, b) BY <1>1, <2>1, <2>2
  <2>4. (s \o <<"CR">>) \o <<"LF">> = s \o ends
    <3>1. <<"CR">> \o <<"LF">> = <<"CR", "LF">>
      <4> DEFINE ends2 == <<"CR">> \o <<"LF">>
      <4>1. ends2 \in Seq(S) /\ Len(ends2) = 2 /\ ends2[1] = "CR" /\ ends2[2] = "LF"
        BY <1>2, ConcatProperties
      <4> HIDE DEF ends2
      <4>2. ends2 = <<"CR", "LF">> BY <4>1
      <4> QED BY <4>2 DEF ends2
    <3>2. (s \o <<"CR">>) \o <<"LF">> = s \o (<<"CR">> \o <<"LF">>) BY <1>2, ConcatAssociative
    <3> QED BY Zenon, <1>5, <3>1, <3>2
  <2>5. (s \o <<"CR">>) \o <<"LF">> \in Seq(S) BY <1>2, <2>1, ConcatProperties
  <2> QED BY Zenon, <2>3, <2>4, <2>5 DEF b
<1> QED BY <1>4, <1>5

(* Between two steps the last cell of a line is the field still read.      *)
CsvInv ==
  /\ text \in Seq(Characters) /\ grid \in Seq(Seq(Seq(Characters)))
  /\ line \in Seq(Seq(Characters))
  /\ sep \in Separators /\ newline \in {<<"LF">>, <<"CR", "LF">>}
  /\ line = <<>> => Rests(text, Read(grid, <<>>, <<>>, FALSE))
  /\ line # <<>> => Reaches(text, Read(grid, Front(line), Last(line), FALSE))

LEMMA CellIsCharacters == ASSUME NEW c \in Cells PROVE c \in Seq(Characters)
<1>1. c \in Seq(ToSet(c)) BY ContainersAssumption
<1>2. ToSet(c) \subseteq Characters BY DEF Characters
<1> QED BY <1>1, <1>2, SeqMonotonic

LEMMA CsvStarts == ASSUME CsvInit PROVE CsvInv
<1> DEFINE g == [i \in 0..Len(<<>>) |-> Nothing]
<1>1. Len(<<>>) = 0 OBVIOUS
<1>2. g = [i \in 0..0 |-> IF i = 0 THEN Nothing ELSE Char(<<>>, g[i - 1], i)] BY <1>1
<1>3. g[Len(<<>>)] = Nothing BY <1>1
<1> HIDE DEF g
<1>4. Upto(<<>>, Len(<<>>), g) BY <1>1, <1>2 DEF Upto
<1>5. Firm(<<>>, g) BY <1>1 DEF Firm
<1>6. Rests(<<>>, Nothing) BY <1>3, <1>4, <1>5 DEF Rests
<1>7. Rests(text, Read(grid, <<>>, <<>>, FALSE)) BY Zenon, <1>6 DEF CsvInit, Nothing
<1>8. text = <<>> /\ grid = <<>> /\ line = <<>> BY DEF CsvInit
<1>9. /\ text \in Seq(Characters) /\ grid \in Seq(Seq(Seq(Characters)))
      /\ line \in Seq(Seq(Characters))
  BY ONLY <1>8, EmptySeq
<1> QED BY <1>7, <1>8, <1>9 DEF CsvInv, CsvInit

LEMMA LastOfAppend ==
  ASSUME NEW S, NEW s \in Seq(S), NEW e \in S
  PROVE  Front(Append(s, e)) = s /\ Last(Append(s, e)) = e
<1> DEFINE t == Append(s, e)
<1>1. t \in Seq(S) /\ Len(t) = Len(s) + 1 /\ (\A i \in 1..Len(s) : t[i] = s[i])
        /\ t[Len(s) + 1] = e
  BY AppendProperties
<1>2. Len(s) \in Nat BY LenProperties
<1> HIDE DEF t
<1>3. Last(t) = e BY <1>1, <1>2 DEF Last
<1>4. Front(t) = s
  <2> DEFINE u == SubSeq(t, 1, Len(t) - 1)
  <2>1. \A i \in 1..(Len(t) - 1) : t[i] \in S BY <1>1, <1>2
  <2>2. u \in Seq(S) /\ Len(u) = Len(s) /\ (\A i \in 1..Len(s) : u[i] = t[i])
    <3>1. Len(t) - 1 = Len(s) /\ Len(s) \in Int BY <1>1, <1>2
    <3>2. /\ u \in Seq(S) /\ Len(u) = IF 1 <= Len(s) THEN Len(s) - 1 + 1 ELSE 0
          /\ \A i \in 1..(Len(s) - 1 + 1) : u[i] = t[1 + i - 1]
      BY <2>1, <3>1, SubSeqProperties
    <3> HIDE DEF u
    <3> QED BY <1>2, <3>2
  <2> HIDE DEF u
  <2>3. u = s BY <1>1, <2>2, SeqEqual
  <2> QED BY <2>3 DEF Front, u
<1> QED BY <1>3, <1>4 DEF t

LEMMA AppendOfLast ==
  ASSUME NEW S, NEW s \in Seq(S), s # <<>>
  PROVE  Front(s) \in Seq(S) /\ Last(s) \in S /\ Append(Front(s), Last(s)) = s
<1>1. PICK t \in Seq(S), e \in S : s = Append(t, e) BY SequenceEmptyOrAppend
<1>2. Front(s) = t /\ Last(s) = e BY <1>1, LastOfAppend
<1> QED BY <1>1, <1>2

LEMMA CellKeeps ==
  ASSUME CsvInv, NEW cell \in Cells, NEW quoted \in BOOLEAN, WriteCell(cell, quoted)
  PROVE  CsvInv'
<1> DEFINE C == Characters
           before == IF line = <<>> THEN <<>> ELSE <<sep>>
           s == text \o before
           there == IF quoted THEN <<"quote">> \o Escaped(cell) \o <<"quote">> ELSE cell
<1>1. /\ text \in Seq(C) /\ grid \in Seq(Seq(Seq(C))) /\ line \in Seq(Seq(C))
      /\ sep \in Separators /\ newline \in {<<"LF">>, <<"CR", "LF">>}
  BY DEF CsvInv
<1>2. text' = s \o there /\ line' = Append(line, cell) /\ grid' = grid /\ sep' = sep
        /\ newline' = newline /\ (quoted \/ ToSet(cell) \cap Special = {})
  BY Zenon DEF WriteCell
<1>3. cell \in Seq(C) BY CellIsCharacters
<1>4. sep \in C /\ "quote" \in C BY <1>1 DEF Characters, Special
<1>5. s \in Seq(C) /\ Rests(s, Read(grid, line, <<>>, FALSE))
  <2>1. CASE line = <<>>
    <3>1. text \o <<>> = text BY <1>1, ConcatEmptySeq
    <3>2. Rests(text, Read(grid, <<>>, <<>>, FALSE)) BY <2>1 DEF CsvInv
    <3> QED BY Zenon, <1>1, <2>1, <3>1, <3>2
  <2>2. CASE line # <<>>
    <3> DEFINE a == Read(grid, Front(line), Last(line), FALSE)
    <3>1. Reaches(text, a) BY <2>2 DEF CsvInv
    <3>2. Append(Front(line), Last(line)) = line BY <1>1, <2>2, AppendOfLast
    <3>3. ~Closes(a, sep) BY OutsideQuotes
    <3>4. Turn(a, sep, FALSE) = Read(grid, Append(Front(line), Last(line)), <<>>, FALSE)
      BY <1>1, SeparatorTurn
    <3>5. sep # "quote" BY <1>1 DEF Separators
    <3> HIDE DEF a
    <3>6. Rests(text \o <<sep>>, Turn(a, sep, FALSE)) BY <1>1, <1>4, <3>1, <3>3, <3>5, ReadMore
    <3>7. <<sep>> \in Seq(C) BY <1>4
    <3>8. text \o <<sep>> \in Seq(C) BY <1>1, <3>7, ConcatProperties
    <3> QED BY Zenon, <2>2, <3>2, <3>4, <3>6, <3>8
  <2> QED BY <2>1, <2>2
<1> HIDE DEF C, s
<1>6. text' \in Seq(C) /\ Reaches(text', Read(grid, line, cell, FALSE))
  <2>1. CASE ~quoted
    <3>1. ToSet(cell) \cap Special = {} /\ text' = s \o cell BY Zenon, <1>2, <2>1
    <3>2. Rests(s \o cell, Read(grid, line, cell, FALSE))
      BY <1>3, <1>5, <3>1, PlainCell
    <3>3. s \o cell \in Seq(C) BY <1>3, <1>5, ConcatProperties
    <3> QED BY <3>1, <3>2, <3>3, RestsReaches
  <2>2. CASE quoted
    <3>1. text' = s \o (<<"quote">> \o Escaped(cell) \o <<"quote">>) BY Zenon, <1>2, <2>2
    <3>2. Reaches(s, Read(grid, line, <<>>, FALSE)) BY <1>5, RestsReaches
    <3>3. Reaches(s \o (<<"quote">> \o Escaped(cell) \o <<"quote">>),
                  Read(grid, line, cell, FALSE))
      BY <1>3, <1>4, <1>5, <3>2, QuotedCell
    <3>4. Escaped(cell) \in Seq(C)
      <4>1. PICK w : /\ \A k \in 0..Len(cell) : w[k] \in Seq(C)
                     /\ w[Len(cell)] = Escaped(cell)
        BY <1>3, <1>4, EscapedJoins
      <4>2. Len(cell) \in 0..Len(cell)
        <5>1. Len(cell) \in Nat BY <1>3, LenProperties
        <5> QED BY <5>1
      <4> QED BY <4>1, <4>2
    <3>5. <<"quote">> \in Seq(C) BY <1>4
    <3>6. <<"quote">> \o Escaped(cell) \in Seq(C) BY <3>4, <3>5, ConcatProperties
    <3>7. (<<"quote">> \o Escaped(cell)) \o <<"quote">> \in Seq(C)
      BY <3>5, <3>6, ConcatProperties
    <3>8. s \o (<<"quote">> \o Escaped(cell) \o <<"quote">>) \in Seq(C)
      BY <1>5, <3>7, ConcatProperties
    <3> QED BY Zenon, <3>1, <3>3, <3>8
  <2> QED BY <2>1, <2>2
<1>7. Front(line') = line /\ Last(line') = cell BY <1>1, <1>2, <1>3, LastOfAppend
<1>8. line' \in Seq(Seq(C)) /\ line' # <<>>
  <2>1. line' \in Seq(Seq(C)) BY <1>1, <1>2, <1>3, AppendProperties
  <2>2. Len(line') = Len(line) + 1 /\ Len(line) \in Nat BY <1>1, <1>2, <1>3, AppendProperties
  <2>3. line' # <<>> BY <2>1, <2>2, EmptySeq
  <2> QED BY <2>1, <2>3
<1>9. Reaches(text', Read(grid', Front(line'), Last(line'), FALSE)) BY Zenon, <1>2, <1>6, <1>7
<1> QED BY <1>1, <1>2, <1>6, <1>8, <1>9 DEF CsvInv, C

LEMMA EndKeeps == ASSUME CsvInv, EndLine PROVE CsvInv'
<1> DEFINE C == Characters
<1>1. /\ text \in Seq(C) /\ grid \in Seq(Seq(Seq(C))) /\ line \in Seq(Seq(C))
      /\ sep \in Separators /\ newline \in {<<"LF">>, <<"CR", "LF">>}
  BY DEF CsvInv
<1>2. line # <<>> /\ grid' = Append(grid, line) /\ line' = <<>> /\ text' = text \o newline
        /\ sep' = sep /\ newline' = newline
  BY DEF EndLine
<1>3. {"LF", "CR"} \subseteq C BY DEF Characters, Special
<1>4. Reaches(text, Read(grid, Front(line), Last(line), FALSE)) BY <1>2 DEF CsvInv
<1>5. Append(Front(line), Last(line)) = line BY <1>1, <1>2, AppendOfLast
<1> HIDE DEF C
<1>6. /\ text \o newline \in Seq(C)
      /\ Rests(text \o newline, Read(Append(grid, Append(Front(line), Last(line))),
                                     <<>>, <<>>, FALSE))
  BY <1>1, <1>3, <1>4, LineEnds
<1>7. text' \in Seq(C) /\ Rests(text', Read(grid', <<>>, <<>>, FALSE)) BY Zenon, <1>2, <1>5, <1>6
<1>8. grid' \in Seq(Seq(Seq(C))) BY <1>1, <1>2, AppendProperties
<1>9. line' \in Seq(Seq(C)) BY <1>2, EmptySeq
<1> QED BY <1>1, <1>2, <1>7, <1>8, <1>9 DEF CsvInv, C

(* The loop of parseCSV stands, after what is written, in the cell that    *)
(* was written last: for any cells, and a text of any length.              *)
THEOREM CsvTypeCorrect == CsvSpec => []CsvInv
<1>1. CsvInit => CsvInv BY CsvStarts
<1>2. CsvInv /\ [CsvNext]_csvVars => CsvInv'
  <2> SUFFICES ASSUME CsvInv, [CsvNext]_csvVars PROVE CsvInv' OBVIOUS
  <2>1. CASE UNCHANGED csvVars
    <3>1. text' = text /\ grid' = grid /\ line' = line /\ sep' = sep /\ newline' = newline
      BY <2>1 DEF csvVars
    <3> QED BY Zenon, <3>1 DEF CsvInv
  <2> QED BY <2>1, CellKeeps, EndKeeps DEF CsvNext
<1> QED BY <1>1, <1>2, PTL DEF CsvSpec

(* Every cell of separated text is read in its row and column, with every  *)
(* character it was written with (parseCSV): for any cells, in quotes or   *)
(* not, and a text of any length.                                          *)
THEOREM CsvCorrect == CsvSpec => []CsvKeepsCells
<1>1. CsvInv => CsvKeepsCells
  <2> SUFFICES ASSUME CsvInv PROVE CsvKeepsCells OBVIOUS
  <2>1. text \in Seq(Characters) /\ line \in Seq(Seq(Characters)) BY DEF CsvInv
  <2>2. CASE line = <<>>
    <3> DEFINE a == Read(grid, <<>>, <<>>, FALSE)
    <3>1. Rests(text, a) BY <2>2 DEF CsvInv
    <3>2. a.field = <<>> /\ a.row = <<>> /\ a.rows = grid BY DEF Read
    <3> HIDE DEF a
    <3>3. parseCSV(text) = a.rows BY <2>1, <3>1, <3>2, RestsReaches, ParsedIs
    <3> QED BY <2>2, <3>2, <3>3 DEF CsvKeepsCells
  <2>3. CASE line # <<>>
    <3> DEFINE a == Read(grid, Front(line), Last(line), FALSE)
    <3>1. Reaches(text, a) BY <2>3 DEF CsvInv
    <3>2. /\ a.field = Last(line) /\ a.row = Front(line) /\ a.rows = grid
          /\ PushRow(a).rows = Append(grid, Append(Front(line), Last(line)))
      BY DEF Read, PushRow, PushField
    <3>3. Append(Front(line), Last(line)) = line BY <2>1, <2>3, AppendOfLast
    <3> HIDE DEF a
    <3>4. parseCSV(text) = IF a.field # <<>> \/ a.row # <<>> THEN PushRow(a).rows ELSE a.rows
      BY <2>1, <3>1, ParsedIs
    <3>5. CASE line = <<<<>>>>
      <4>1. Append(<<>>, <<>>) = <<<<>>>> OBVIOUS
      <4>2. <<>> \in Seq(Seq(Characters)) /\ <<>> \in Seq(Characters) BY EmptySeq
      <4>3. Front(line) = <<>> /\ Last(line) = <<>> BY <3>5, <4>1, <4>2, LastOfAppend
      <4>4. parseCSV(text) = grid BY Zenon, <3>2, <3>4, <4>3
      <4> QED BY <3>5, <4>4 DEF CsvKeepsCells, Hole
    <3>6. CASE line # <<<<>>>>
      <4>1. ~(Front(line) = <<>> /\ Last(line) = <<>>)
        <5> SUFFICES ASSUME Front(line) = <<>>, Last(line) = <<>> PROVE FALSE OBVIOUS
        <5>1. Append(<<>>, <<>>) = <<<<>>>> OBVIOUS
        <5> QED BY Zenon, <3>3, <3>6, <5>1
      <4>2. parseCSV(text) = Append(grid, line) BY Zenon, <3>2, <3>3, <3>4, <4>1
      <4> QED BY <2>3, <3>6, <4>2 DEF CsvKeepsCells, Hole
    <3> QED BY <3>5, <3>6
  <2> QED BY <2>2, <2>3
<1> QED BY <1>1, CsvTypeCorrect, PTL

----------------------------------------------------------------------------
(* A table: where the cells of a row stand, and what is read of them, go   *)
(* through the row together. Both are folds; what they choose is a table   *)
(* for every set of positions, as in FoldProofs.                           *)
Turned(stands, a, cell) == IF stands THEN Place(a, cell) ELSE TakeCell(a, cell)
Through(stands, n, base, list, i) ==
  i = [t \in SUBSET (1..n) |->
         IF t = {} THEN base ELSE Turned(stands, i[t \ {Max(t)}], list[Max(t)])]
Passes(stands, n, base, list, last) ==
  \E c : /\ c[0] = base /\ c[n] = last
         /\ \A k \in 1..n : c[k] = Turned(stands, c[k - 1], list[k])

LEMMA ThroughExists ==
  ASSUME NEW stands, NEW n \in Nat, NEW base, NEW list
  PROVE  \E i : Through(stands, n, base, list, i)
<1> DEFINE P == {k \in 0..n : \E i : Through(stands, k, base, list, i)}
<1>1. 0 \in P
  <2> DEFINE i == [t \in SUBSET (1..0) |-> base]
  <2>1. \A t \in SUBSET (1..0) : t = {} OBVIOUS
  <2>2. Through(stands, 0, base, list, i) BY <2>1 DEF Through
  <2>3. \E j : Through(stands, 0, base, list, j)
    <3> HIDE DEF i
    <3> QED BY <2>2
  <2>4. 0 \in 0..n OBVIOUS
  <2> QED BY ONLY <2>3, <2>4
<1>2. ASSUME NEW k \in 1..n, k - 1 \in P PROVE k \in P
  <2>1. PICK h : Through(stands, k - 1, base, list, h) BY <1>2
  <2> DEFINE i == [t \in SUBSET (1..k) |->
                     IF k \in t THEN Turned(stands, h[t \ {k}], list[k]) ELSE h[t]]
  <2>2. \A t \in SUBSET (1..k) : t \ {k} \in SUBSET (1..(k - 1)) OBVIOUS
  <2>3. ASSUME NEW t \in SUBSET (1..k)
        PROVE  i[t] = IF t = {} THEN base
                      ELSE Turned(stands, i[t \ {Max(t)}], list[Max(t)])
    <3>1. CASE k \in t
      <4>1. Max(t) = k BY <3>1, MaxOf
      <4>2. t \ {k} \in SUBSET (1..k) /\ k \notin t \ {k} OBVIOUS
      <4>3. i[t \ {k}] = h[t \ {k}] BY <4>2
      <4>4. i[t] = Turned(stands, h[t \ {k}], list[k]) BY <3>1
      <4>5. t # {} BY <3>1
      <4> HIDE DEF i
      <4> QED BY Zenon, <4>1, <4>3, <4>4, <4>5
    <3>2. CASE k \notin t
      <4>1. t \in SUBSET (1..(k - 1)) BY <2>2, <3>2
      <4>2. h[t] = IF t = {} THEN base ELSE Turned(stands, h[t \ {Max(t)}], list[Max(t)])
        BY Zenon, <2>1, <4>1 DEF Through
      <4>3. i[t] = h[t] BY <3>2
      <4>4. t \ {Max(t)} \in SUBSET (1..k) /\ k \notin t \ {Max(t)} BY <3>2
      <4>5. i[t \ {Max(t)}] = h[t \ {Max(t)}] BY <4>4
      <4> HIDE DEF i
      <4> QED BY Zenon, <4>2, <4>3, <4>5
    <3> QED BY <3>1, <3>2
  <2>4. i = [t \in SUBSET (1..k) |-> i[t]] OBVIOUS
  <2> HIDE DEF i
  <2>5. i = [t \in SUBSET (1..k) |->
               IF t = {} THEN base ELSE Turned(stands, i[t \ {Max(t)}], list[Max(t)])]
    BY Zenon, <2>3, <2>4
  <2>6. Through(stands, k, base, list, i) BY <2>5 DEF Through
  <2>7. k \in 0..n OBVIOUS
  <2>8. \E j : Through(stands, k, base, list, j) BY <2>6
  <2> QED BY ONLY <2>7, <2>8
<1>3. \A k \in 0..n : k \in P
  <2>1. n \in Nat OBVIOUS
  <2> HIDE DEF P
  <2> QED BY ONLY <1>1, <1>2, <2>1, Induction
<1>4. n \in 0..n OBVIOUS
<1> QED BY <1>3, <1>4

LEMMA ThroughPasses ==
  ASSUME NEW stands, NEW n \in Nat, NEW base, NEW list, NEW i,
         Through(stands, n, base, list, i)
  PROVE  Passes(stands, n, base, list, i[1..n])
<1> DEFINE c == [k \in 0..n |-> i[1..k]]
<1>1. 1..0 = {} OBVIOUS
<1>2. i[{}] = base
  <2>1. {} \in SUBSET (1..n) OBVIOUS
  <2> QED BY Zenon, <2>1 DEF Through
<1>3. c[0] = base
  <2>1. 0 \in 0..n OBVIOUS
  <2> QED BY Zenon, <1>1, <1>2, <2>1
<1>4. c[n] = i[1..n]
  <2>1. n \in 0..n OBVIOUS
  <2> QED BY Zenon, <2>1
<1>5. ASSUME NEW k \in 1..n PROVE c[k] = Turned(stands, c[k - 1], list[k])
  <2>1. 1..k \in SUBSET (1..n) /\ 1..k # {} /\ k \in 1..k OBVIOUS
  <2>2. Max(1..k) = k
    <3>1. k \in Nat /\ 1..k \in SUBSET (1..k) OBVIOUS
    <3> QED BY <2>1, <3>1, MaxOf
  <2>3. (1..k) \ {k} = 1..(k - 1) OBVIOUS
  <2>4. i[1..k] = Turned(stands, i[(1..k) \ {Max(1..k)}], list[Max(1..k)])
    BY Zenon, <2>1 DEF Through
  <2>5. i[1..k] = Turned(stands, i[1..(k - 1)], list[k]) BY Zenon, <2>2, <2>3, <2>4
  <2>6. k \in 0..n /\ k - 1 \in 0..n OBVIOUS
  <2> QED BY Zenon, <2>5, <2>6
<1> HIDE DEF c
<1> QED BY <1>3, <1>4, <1>5 DEF Passes

Standing(base, list) == FoldLeft(Place, base, list)
Reading(base, list)  == FoldLeft(TakeCell, base, list)

LEMMA CellsStand ==
  ASSUME NEW n \in Nat, NEW X, NEW list \in [1..n -> X], NEW base
  PROVE  Passes(TRUE, n, base, list, Standing(base, list))
<1> DEFINE Body(i) == [t \in SUBSET (1..n) |->
                         IF t = {} THEN base ELSE Place(i[t \ {Max(t)}], list[Max(t)])]
           iter == CHOOSE i : i = Body(i)
<1>1. DOMAIN list = 1..n OBVIOUS
<1>2. Standing(base, list) = iter[1..n]
  BY Zenon, <1>1 DEF Standing, FoldLeft, MapThenFoldSet
<1>3. ASSUME NEW i PROVE Through(TRUE, n, base, list, i) <=> i = Body(i)
  BY Zenon DEF Through, Turned
<1>4. PICK i : Through(TRUE, n, base, list, i) BY ThroughExists
<1>5. iter = Body(iter)
  <2>1. i = Body(i) BY Zenon, <1>3, <1>4
  <2> HIDE DEF Body
  <2> QED BY Zenon, <2>1
<1> HIDE DEF iter, Body
<1>6. Through(TRUE, n, base, list, iter) BY <1>3, <1>5
<1> QED BY Zenon, <1>2, <1>6, ThroughPasses

LEMMA CellsAreRead ==
  ASSUME NEW n \in Nat, NEW X, NEW list \in [1..n -> X], NEW base
  PROVE  Passes(FALSE, n, base, list, Reading(base, list))
<1> DEFINE Body(i) == [t \in SUBSET (1..n) |->
                         IF t = {} THEN base ELSE TakeCell(i[t \ {Max(t)}], list[Max(t)])]
           iter == CHOOSE i : i = Body(i)
<1>1. DOMAIN list = 1..n OBVIOUS
<1>2. Reading(base, list) = iter[1..n]
  BY Zenon, <1>1 DEF Reading, FoldLeft, MapThenFoldSet
<1>3. ASSUME NEW i PROVE Through(FALSE, n, base, list, i) <=> i = Body(i)
  BY Zenon DEF Through, Turned
<1>4. PICK i : Through(FALSE, n, base, list, i) BY ThroughExists
<1>5. iter = Body(iter)
  <2>1. i = Body(i) BY Zenon, <1>3, <1>4
  <2> HIDE DEF Body
  <2> QED BY Zenon, <2>1
<1> HIDE DEF iter, Body
<1>6. Through(FALSE, n, base, list, iter) BY <1>3, <1>5
<1> QED BY Zenon, <1>2, <1>6, ThroughPasses

(* What a row shows in a column, and what is carried into a row there,     *)
(* given the cells that stand.                                             *)
CellTexts == Seq(Nat)
Places == [row : Nat \ {0}, col : 1..Width, across : Nat \ {0}, down : Nat \ {0}, v : CellTexts]
Marks  == [v : CellTexts, across : Nat \ {0}, down : Nat \ {0}]
Shown(p, c) == IF p.col = c THEN p.v ELSE Hole
Lands(cells, r, c, v) ==
  /\ \A p \in cells : Covers(p, r, c) => v = Shown(p, c)
  /\ (\A p \in cells : ~Covers(p, r, c)) => v = Hole
Carries(cells, r, c, k) ==
  /\ \A p \in cells : Covers(p, r, c) => k.left = p.row + p.down - r /\ k.v = Shown(p, c)
  /\ (\A p \in cells : ~Covers(p, r, c)) => k.left = 0
Apart(cells) ==
  \A p, q \in cells : \A r, c \in Nat : Covers(p, r, c) /\ Covers(q, r, c) => p = q

TableInv ==
  /\ read \in Seq([1..Width -> CellTexts]) /\ ragged \in BOOLEAN
  /\ carried \in [1..Width -> [v : CellTexts, left : Nat]]
  /\ placed \subseteq Places /\ Apart(placed) /\ \A p \in placed : p.row <= Len(read)
  /\ ~ragged => \A c \in 1..Width :
       /\ Carries(placed, Len(read) + 1, c, carried[c])
       /\ \A r \in 1..Len(read) : Lands(placed, r, c, read[r][c])

(* In the middle of row r: the cells that stand, and what `b` has read.    *)
Along(r, column, cells, b) ==
  /\ column \in 1..(Width + 1) /\ b.column = column
  /\ cells \subseteq Places /\ placed \subseteq cells /\ Apart(cells)
  /\ \A p \in cells \ placed : p.row = r /\ p.col + p.across <= column
  /\ b.row \in [1..Width -> CellTexts] /\ b.carried \in [1..Width -> [v : CellTexts, left : Nat]]
  /\ \A c \in 1..(column - 1) :
       Lands(cells, r, c, b.row[c]) /\ Carries(cells, r + 1, c, b.carried[c])
  /\ \A c \in column..Width : b.row[c] = Hole /\ b.carried[c] = carried[c]

(* The column the next cell stands in.                                     *)
NextColumn(a) == Min((Free(Len(read) + 1) \cap a.column..Width) \cup {Max({a.column, Width + 1})})

LEMMA WidthIsNat == Width \in Nat BY ContainersAssumption

LEMMA CarriesWhereCovered ==
  ASSUME TableInv, ~ragged, NEW c \in 1..Width
  PROVE  /\ carried[c].left = 0 <=> c \in Free(Len(read) + 1)
         /\ carried[c].left \in Nat
<1> DEFINE r == Len(read) + 1
<1>1. Carries(placed, r, c, carried[c]) /\ placed \subseteq Places /\ Len(read) \in Nat
  BY LenProperties DEF TableInv
<1>2. carried[c].left \in Nat BY DEF TableInv
<1> HIDE DEF r
<1>3. r \in Nat BY <1>1 DEF r
<1>4. ASSUME NEW p \in placed, Covers(p, r, c) PROVE carried[c].left # 0
  <2>1. carried[c].left = p.row + p.down - r BY <1>1, <1>4 DEF Carries
  <2>2. r <= p.row + p.down - 1 /\ p.row \in Nat /\ p.down \in Nat BY <1>1, <1>4 DEF Covers, Places
  <2> QED BY <1>3, <2>1, <2>2
<1>5. ASSUME \A p \in placed : ~Covers(p, r, c) PROVE carried[c].left = 0
  BY <1>1, <1>5 DEF Carries
<1>6. c \in Free(r) <=> \A p \in placed : ~Covers(p, r, c) BY DEF Free
<1> QED BY <1>2, <1>4, <1>5, <1>6 DEF r

(* The reader fills up to the column the next cell stands in.              *)
LEMMA FillsUpTo ==
  ASSUME TableInv, ~ragged, NEW a, NEW b, Along(Len(read) + 1, a.column, a.cells, b)
  PROVE  /\ fillCarried(b).column = NextColumn(a)
         /\ NextColumn(a) \in a.column..(Width + 1)
         /\ NextColumn(a) <= Width => NextColumn(a) \in Free(Len(read) + 1)
         /\ \A c \in a.column..(NextColumn(a) - 1) : c \notin Free(Len(read) + 1)
<1> DEFINE r == Len(read) + 1
           low == a.column
           S == (Free(r) \cap low..Width) \cup {Width + 1}
<1>1. low \in 1..(Width + 1) /\ Width \in Nat /\ b.column = low BY WidthIsNat DEF Along
<1>2. Max({low, Width + 1}) = Width + 1
  <2> DEFINE T == {low, Width + 1}
  <2>1. IsFiniteSet(T)
    <3>1. IsFiniteSet(low..(Width + 1)) BY <1>1, FS_Interval
    <3>2. T \subseteq low..(Width + 1) BY <1>1
    <3> HIDE DEF T
    <3> QED BY <3>1, <3>2, FS_Subset
  <2>2. T \subseteq Int /\ T # {} BY <1>1
  <2>3. Max(T) \in T /\ \A y \in T : Max(T) >= y BY <2>1, <2>2, GreatestIs
  <2> HIDE DEF T
  <2>4. Max(T) = low \/ Max(T) = Width + 1 BY <2>3 DEF T
  <2>5. Max(T) >= Width + 1 BY <2>3 DEF T
  <2>6. Max(T) = Width + 1 BY <1>1, <2>4, <2>5
  <2> QED BY <2>6 DEF T
<1>3. NextColumn(a) = Min(S) BY Zenon, <1>2 DEF NextColumn
<1>4. S = {c \in b.column..(Width + 1) : c = Width + 1 \/ b.carried[c].left = 0}
  <2>1. ASSUME NEW c \in low..Width PROVE c \in Free(r) <=> b.carried[c].left = 0
    <3>1. c \in 1..Width BY <1>1
    <3>2. b.carried[c] = carried[c] BY <2>1 DEF Along
    <3> QED BY <3>1, <3>2, CarriesWhereCovered
  <2> HIDE DEF low, r
  <2>2. ASSUME NEW c \in S
        PROVE  c \in b.column..(Width + 1) /\ (c = Width + 1 \/ b.carried[c].left = 0)
    <3>1. CASE c = Width + 1 BY <1>1, <3>1
    <3>2. CASE c # Width + 1
      <4>1. c \in Free(r) /\ c \in low..Width BY <3>2
      <4>2. c \in low..(Width + 1) BY <1>1, <4>1
      <4> QED BY <1>1, <2>1, <4>1, <4>2
    <3> QED BY <3>1, <3>2
  <2>3. ASSUME NEW c \in b.column..(Width + 1), c = Width + 1 \/ b.carried[c].left = 0
        PROVE  c \in S
    <3>1. CASE c = Width + 1 BY <3>1
    <3>2. CASE c # Width + 1
      <4>1. c \in low..Width BY <1>1, <3>2
      <4> QED BY <2>1, <2>3, <3>2, <4>1
    <3> QED BY <3>1, <3>2
  <2> HIDE DEF S
  <2> QED BY <2>2, <2>3
<1>5. fillCarried(b).column = Min(S)
  <2>1. fillCarried(b).column
          = Min({c \in b.column..(Width + 1) : c = Width + 1 \/ b.carried[c].left = 0})
    BY Zenon DEF fillCarried
  <2> QED BY Zenon, <1>4, <2>1
<1>6. IsFiniteSet(S) /\ S \subseteq low..(Width + 1) /\ S # {}
  <2>1. S \subseteq low..(Width + 1) BY <1>1
  <2>2. IsFiniteSet(low..(Width + 1)) BY <1>1, FS_Interval
  <2>3. S # {} OBVIOUS
  <2> HIDE DEF S
  <2> QED BY <2>1, <2>2, <2>3, FS_Subset
<1>7. Min(S) \in S /\ \A c \in S : Min(S) <= c
  <2>1. S \subseteq Int BY <1>1, <1>6
  <2> QED BY <1>6, <2>1, LeastIs
<1> DEFINE at == Min(S)
<1> HIDE DEF at, low
<1>8. at \in low..(Width + 1) BY <1>6, <1>7 DEF at
<1>9. at <= Width => at \in Free(r) BY <1>1, <1>7, <1>8 DEF at
<1>10. \A c \in low..(at - 1) : c \notin Free(r)
  <2> SUFFICES ASSUME NEW c \in low..(at - 1), c \in Free(r) PROVE FALSE OBVIOUS
  <2>1. at \in Int /\ low \in Int BY <1>1, <1>8
  <2>2. c \in low..Width BY <1>1, <1>8, <2>1
  <2>3. c \in S BY <2>2
  <2>4. at <= c BY <1>7, <2>3 DEF at
  <2> QED BY <2>1, <2>4
<1>11. NextColumn(a) = at /\ fillCarried(b).column = at BY <1>3, <1>5 DEF at
<1> HIDE DEF r
<1>12. /\ fillCarried(b).column = NextColumn(a)
       /\ NextColumn(a) \in low..(Width + 1)
       /\ NextColumn(a) <= Width => NextColumn(a) \in Free(r)
       /\ \A c \in low..(NextColumn(a) - 1) : c \notin Free(r)
  BY ONLY <1>8, <1>9, <1>10, <1>11
<1> QED BY <1>12 DEF low, r

(* A cell above a place stands there in the row before, too.               *)
LEMMA CoversAbove ==
  ASSUME NEW p \in Places, NEW r \in Nat, NEW c, p.row <= r, Covers(p, r + 1, c)
  PROVE  Covers(p, r, c) /\ p.row + p.down - r > 1
BY DEF Covers, Places

LEMMA OnlyOneCovers ==
  ASSUME NEW cells, Apart(cells), NEW p \in cells, NEW q \in cells, NEW r \in Nat, NEW c \in Nat,
         Covers(p, r, c), Covers(q, r, c)
  PROVE  p = q
BY DEF Apart

(* New cells stand before the column that is reached.                      *)
LEMMA NewCoverBefore ==
  ASSUME TableInv, NEW r, NEW column, NEW cells, NEW b, Along(r, column, cells, b),
         NEW q \in cells, NEW y, NEW c \in Int, Covers(q, y, c), c >= column
  PROVE  q \in placed
<1>1. q \in Places /\ column \in Int BY WidthIsNat DEF Along
<1>2. c <= q.col + q.across - 1 /\ q.col \in Int /\ q.across \in Int
  BY <1>1, WidthIsNat DEF Covers, Places
<1> QED BY <1>1, <1>2 DEF Along

LEMMA Filled ==
  ASSUME TableInv, ~ragged, NEW a, NEW b, Along(Len(read) + 1, a.column, a.cells, b)
  PROVE  Along(Len(read) + 1, NextColumn(a), a.cells, fillCarried(b))
<1> DEFINE r == Len(read) + 1
           low == a.column
           cells == a.cells
           at == NextColumn(a)
           f == fillCarried(b)
<1>1. /\ f.column = at /\ at \in low..(Width + 1)
      /\ at <= Width => at \in Free(r)
      /\ \A c \in low..(at - 1) : c \notin Free(r)
  BY FillsUpTo
<1>2. /\ low \in 1..(Width + 1) /\ b.column = low
      /\ cells \subseteq Places /\ placed \subseteq cells /\ Apart(cells)
      /\ \A p \in cells \ placed : p.row = r /\ p.col + p.across <= low
      /\ b.row \in [1..Width -> CellTexts]
      /\ b.carried \in [1..Width -> [v : CellTexts, left : Nat]]
      /\ \A c \in 1..(low - 1) :
           Lands(cells, r, c, b.row[c]) /\ Carries(cells, r + 1, c, b.carried[c])
      /\ \A c \in low..Width : b.row[c] = Hole /\ b.carried[c] = carried[c]
  BY DEF Along
<1>3. Width \in Nat /\ r \in Nat /\ Len(read) \in Nat BY WidthIsNat, LenProperties DEF TableInv
<1>4. /\ f.row = [c \in 1..Width |-> IF c \in b.column..(f.column - 1) THEN b.carried[c].v
                                     ELSE b.row[c]]
      /\ f.carried = [c \in 1..Width |-> IF c \in b.column..(f.column - 1)
                                         THEN [b.carried[c] EXCEPT !.left = @ - 1]
                                         ELSE b.carried[c]]
  <2> DEFINE stop == Min({c \in b.column..(Width + 1) : c = Width + 1 \/ b.carried[c].left = 0})
  <2>1. f.column = stop BY DEF fillCarried
  <2>2. /\ f.row = [c \in 1..Width |-> IF c \in b.column..(stop - 1) THEN b.carried[c].v
                                       ELSE b.row[c]]
        /\ f.carried = [c \in 1..Width |-> IF c \in b.column..(stop - 1)
                                           THEN [b.carried[c] EXCEPT !.left = @ - 1]
                                           ELSE b.carried[c]]
    BY Zenon DEF fillCarried
  <2> HIDE DEF stop, f
  <2> QED BY Zenon, <2>1, <2>2
<1>5. /\ Apart(placed) /\ (\A p \in placed : p.row < r)
      /\ \A c \in 1..Width : Carries(placed, r, c, carried[c])
  <2>1. ASSUME NEW p \in placed PROVE p.row < r
    <3>1. p.row \in Nat /\ p.row <= Len(read) BY DEF TableInv, Places
    <3> QED BY <1>3, <3>1
  <2> QED BY <2>1 DEF TableInv
<1> HIDE DEF f, at, low, r, cells
<1>6. at \in Nat /\ low \in Nat \ {0} BY <1>1, <1>2, <1>3
<1>7. ASSUME NEW c \in 1..Width, c \notin low..(at - 1)
      PROVE  f.row[c] = b.row[c] /\ f.carried[c] = b.carried[c]
  BY <1>1, <1>2, <1>4, <1>7
<1>8. ASSUME NEW c \in low..(at - 1)
      PROVE  /\ c \in 1..Width /\ c \in low..Width
             /\ f.row[c] = carried[c].v
             /\ f.carried[c] = [carried[c] EXCEPT !.left = @ - 1]
  <2>1. c \in 1..Width /\ c \in low..Width BY <1>1, <1>3, <1>6
  <2>2. b.carried[c] = carried[c] BY <1>2, <2>1
  <2> QED BY <1>1, <1>2, <1>4, <2>1, <2>2
<1>9. ASSUME NEW c \in low..(at - 1)
      PROVE  \E p \in placed : Covers(p, r, c) /\ carried[c].left = p.row + p.down - r
                               /\ carried[c].left > 0 /\ carried[c].v = Shown(p, c)
  <2>1. c \in 1..Width BY <1>8
  <2>2. PICK p \in placed : Covers(p, r, c) BY <1>1, <2>1 DEF Free
  <2>3. carried[c].left = p.row + p.down - r /\ carried[c].v = Shown(p, c)
    BY <1>5, <2>1, <2>2 DEF Carries
  <2>4. p \in Places BY DEF TableInv
  <2>5. p.row + p.down - r > 0
    <3>1. r <= p.row + p.down - 1 /\ p.row \in Int /\ p.down \in Int
      BY <2>2, <2>4 DEF Covers, Places
    <3> QED BY <1>3, <3>1
  <2> QED BY <2>2, <2>3, <2>5
<1>10. ASSUME NEW c \in low..(at - 1)
       PROVE  /\ f.row[c] \in CellTexts
              /\ f.carried[c] \in [v : CellTexts, left : Nat]
              /\ f.carried[c].left = carried[c].left - 1 /\ f.carried[c].v = carried[c].v
  <2>1. c \in 1..Width /\ f.row[c] = carried[c].v
          /\ f.carried[c] = [carried[c] EXCEPT !.left = @ - 1]
    BY <1>8
  <2>2. carried[c] \in [v : CellTexts, left : Nat] BY <2>1 DEF TableInv
  <2>3. carried[c].left > 0 BY <1>9
  <2>4. carried[c].left - 1 \in Nat BY <2>2, <2>3
  <2> QED BY <2>1, <2>2, <2>4
<1>11. f.row \in [1..Width -> CellTexts]
  <2>1. ASSUME NEW c \in 1..Width PROVE f.row[c] \in CellTexts
    <3>1. CASE c \in low..(at - 1) BY <1>10, <3>1
    <3>2. CASE c \notin low..(at - 1) BY <1>2, <1>7, <3>2
    <3> QED BY <3>1, <3>2
  <2> QED BY <1>4, <2>1
<1>12. f.carried \in [1..Width -> [v : CellTexts, left : Nat]]
  <2>1. ASSUME NEW c \in 1..Width PROVE f.carried[c] \in [v : CellTexts, left : Nat]
    <3>1. CASE c \in low..(at - 1) BY <1>10, <3>1
    <3>2. CASE c \notin low..(at - 1) BY <1>2, <1>7, <3>2
    <3> QED BY <3>1, <3>2
  <2>2. DOMAIN f.carried = 1..Width BY <1>4
  <2>3. f.carried = [c \in 1..Width |-> f.carried[c]] BY <1>4
  <2> QED BY <2>1, <2>2, <2>3
<1>13. ASSUME NEW c \in 1..(at - 1)
       PROVE  Lands(cells, r, c, f.row[c]) /\ Carries(cells, r + 1, c, f.carried[c])
  <2>1. CASE c \notin low..(at - 1)
    <3>1. c \in 1..(low - 1) /\ c \in 1..Width BY <1>1, <1>2, <1>3, <1>6, <2>1
    <3>2. f.row[c] = b.row[c] /\ f.carried[c] = b.carried[c] BY <1>7, <2>1, <3>1
    <3> QED BY <1>2, <3>1, <3>2
  <2>2. CASE c \in low..(at - 1)
    <3>1. PICK p \in placed : Covers(p, r, c) /\ carried[c].left = p.row + p.down - r
                              /\ carried[c].left > 0 /\ carried[c].v = Shown(p, c)
      BY <1>9, <2>2
    <3>2. p \in cells /\ p \in Places BY <1>2
    <3>3. c \in Nat /\ r + 1 \in Nat /\ c >= low BY <1>3, <1>6, <2>2
    <3>4. ASSUME NEW q \in cells, Covers(q, r, c) PROVE q = p
      BY <1>2, <1>3, <3>1, <3>2, <3>3, <3>4, OnlyOneCovers
    <3>5. Lands(cells, r, c, f.row[c])
      <4>1. f.row[c] = Shown(p, c) BY <1>8, <2>2, <3>1
      <4> QED BY <3>1, <3>2, <3>4, <4>1 DEF Lands
    <3>6. f.carried[c].left = p.row + p.down - (r + 1) /\ f.carried[c].v = Shown(p, c)
      <4>1. p.row \in Int /\ p.down \in Int BY <3>2 DEF Places
      <4>2. f.carried[c].left = carried[c].left - 1 /\ f.carried[c].v = carried[c].v
        BY <1>10, <2>2
      <4>3. ASSUME NEW x \in Int, NEW y \in Int, NEW z \in Int, NEW l, NEW k,
                   l = x + y - z, k = l - 1
            PROVE  k = x + y - (z + 1)
        BY <4>3
      <4>4. f.carried[c].left = p.row + p.down - (r + 1)
        BY ONLY <1>3, <3>1, <4>1, <4>2, <4>3
      <4>5. f.carried[c].v = Shown(p, c) BY <3>1, <4>2
      <4> QED BY <4>4, <4>5
    <3>7. ASSUME NEW q \in cells, Covers(q, r + 1, c) PROVE q = p
      <4>1. q \in placed
        <5>1. Along(r, low, cells, b) BY DEF r, low, cells
        <5> QED BY <3>3, <3>7, <5>1, NewCoverBefore
      <4>2. q.row <= r /\ q \in Places
        <5>1. q \in Places /\ q.row < r BY <1>2, <1>5, <4>1
        <5>2. q.row \in Int BY <5>1 DEF Places
        <5> QED BY <1>3, <5>1, <5>2
      <4>3. Covers(q, r, c) BY <1>3, <3>7, <4>2, CoversAbove
      <4> QED BY <3>4, <4>3
    <3>8. ASSUME \A q \in cells : ~Covers(q, r + 1, c) PROVE f.carried[c].left = 0
      <4>1. ~Covers(p, r + 1, c) BY <3>2, <3>8
      <4>2. p.row + p.down - r = 1
        <5>1. p.row \in Nat /\ p.down \in Nat /\ p.row < r BY <1>5, <3>2 DEF Places
        <5>2. c \in p.col..(p.col + p.across - 1) BY <3>1 DEF Covers
        <5>3. r + 1 \notin p.row..(p.row + p.down - 1) BY <4>1, <5>2 DEF Covers
        <5>4. p.row + p.down - r > 0 BY <3>1
        <5> QED BY <1>3, <5>1, <5>3, <5>4
      <4> QED BY <1>10, <2>2, <3>1, <4>2
    <3>9. Carries(cells, r + 1, c, f.carried[c]) BY <3>6, <3>7, <3>8 DEF Carries
    <3> QED BY <3>5, <3>9
  <2> QED BY <2>1, <2>2
<1>14. ASSUME NEW c \in at..Width PROVE f.row[c] = Hole /\ f.carried[c] = carried[c]
  <2>1. c \in 1..Width /\ c \in low..Width /\ c \notin low..(at - 1) BY <1>1, <1>3, <1>6
  <2> QED BY <1>2, <1>7, <2>1
<1>15. \A p \in cells \ placed : p.row = r /\ p.col + p.across <= at
  <2> SUFFICES ASSUME NEW p \in cells \ placed PROVE p.row = r /\ p.col + p.across <= at
    OBVIOUS
  <2>1. p.row = r /\ p.col + p.across <= low BY <1>2
  <2>2. p.col \in Int /\ p.across \in Int BY <1>2, <1>3 DEF Places
  <2>3. low <= at BY <1>1, <1>6
  <2> QED BY <1>6, <2>1, <2>2, <2>3
<1>16. at \in 1..(Width + 1) BY <1>1, <1>3, <1>6
<1>17. Along(r, at, cells, f)
  BY <1>1, <1>2, <1>11, <1>12, <1>13, <1>14, <1>15, <1>16 DEF Along
<1> QED BY <1>17 DEF r, at, cells, f

(* A new cell that does not cover a place changes nothing there.           *)
LEMMA LandsStill ==
  ASSUME NEW cells, NEW new, NEW r, NEW c, NEW v, Lands(cells, r, c, v),
         \A p \in new : ~Covers(p, r, c)
  PROVE  Lands(cells \cup new, r, c, v)
BY DEF Lands
LEMMA CarriesStill ==
  ASSUME NEW cells, NEW new, NEW r, NEW c, NEW k, Carries(cells, r, c, k),
         \A p \in new : ~Covers(p, r, c)
  PROVE  Carries(cells \cup new, r, c, k)
BY DEF Carries

PlaceOf(r, column, cell) ==
  [row |-> r, col |-> column, across |-> cell.across, down |-> cell.down, v |-> cell.v]

LEMMA CellKeepsRow ==
  ASSUME TableInv, ~ragged, NEW a, NEW b, NEW cell \in Marks,
         Along(Len(read) + 1, a.column, a.cells, b), Place(a, cell).fits
  PROVE  Along(Len(read) + 1, Place(a, cell).column, Place(a, cell).cells, TakeCell(b, cell))
<1> DEFINE r == Len(read) + 1
           at == NextColumn(a)
           f == fillCarried(b)
           new == PlaceOf(r, at, cell)
           old == a.cells
           cells == old \cup {new}
           after == at + cell.across
           over == at..(at + cell.across - 1)
           t == TakeCell(b, cell)
<1>1. /\ Place(a, cell).column = after /\ Place(a, cell).cells = cells
      /\ over \subseteq Free(r)
  BY DEF Place, NextColumn, PlaceOf
<1>2. Along(r, at, old, f) BY Filled
<1>3. /\ at \in 1..(Width + 1) /\ f.column = at
      /\ old \subseteq Places /\ placed \subseteq old /\ Apart(old)
      /\ \A p \in old \ placed : p.row = r /\ p.col + p.across <= at
      /\ f.row \in [1..Width -> CellTexts]
      /\ f.carried \in [1..Width -> [v : CellTexts, left : Nat]]
      /\ \A c \in 1..(at - 1) :
           Lands(old, r, c, f.row[c]) /\ Carries(old, r + 1, c, f.carried[c])
      /\ \A c \in at..Width : f.row[c] = Hole /\ f.carried[c] = carried[c]
  BY <1>2 DEF Along
<1>4. Width \in Nat /\ r \in Nat \ {0} /\ Len(read) \in Nat
  BY WidthIsNat, LenProperties DEF TableInv
<1>5. cell.across \in Nat \ {0} /\ cell.down \in Nat \ {0} /\ cell.v \in CellTexts BY DEF Marks
<1>6. /\ t.row = [c \in 1..Width |-> IF c \in over THEN (IF c = at THEN cell.v ELSE Hole)
                                     ELSE f.row[c]]
      /\ t.carried = [c \in 1..Width |->
                        IF c \in over /\ cell.down > 1
                        THEN [v |-> IF c = at THEN cell.v ELSE Hole, left |-> cell.down - 1]
                        ELSE f.carried[c]]
      /\ t.column = after
  <2> HIDE DEF at
  <2> QED BY Zenon, <1>3 DEF TakeCell
<1>7. /\ (\A p \in placed : p.row < r) /\ Free(r) \subseteq 1..Width
      /\ \A c \in Free(r) : \A p \in placed : ~Covers(p, r, c)
  <2>1. ASSUME NEW p \in placed PROVE p.row < r
    <3>1. p.row \in Nat /\ p.row <= Len(read) BY DEF TableInv, Places
    <3> QED BY <1>4, <3>1
  <2> HIDE DEF r
  <2> QED BY <2>1 DEF Free
<1>8. ASSUME NEW c \in Free(r) PROVE carried[c].left = 0
  <2>1. c \in 1..Width BY <1>7
  <2> QED BY <2>1, CarriesWhereCovered
<1> HIDE DEF r, at, f, t
<1>9. at \in over /\ at \in 1..Width /\ after \in 1..(Width + 1) /\ over \subseteq 1..Width
  <2>1. at \in over BY <1>3, <1>4, <1>5
  <2>2. over \subseteq 1..Width BY <1>1, <1>7
  <2>3. at + cell.across - 1 \in over BY <1>3, <1>4, <1>5
  <2>4. at + cell.across - 1 \in 1..Width BY <2>2, <2>3
  <2>5. after \in 1..(Width + 1) BY <1>3, <1>4, <1>5, <2>4
  <2> HIDE DEF over, after
  <2> QED BY <2>1, <2>2, <2>5
<1>10. ASSUME NEW c \in over PROVE c \in Free(r) /\ c \in Int /\ c >= at /\ c \in at..Width
  <2>1. c \in Free(r)
    <3> HIDE DEF over
    <3> QED BY <1>1
  <2>2. c \in 1..Width BY <1>7, <2>1
  <2>3. c >= at BY <1>3, <1>4, <1>5
  <2> HIDE DEF over
  <2> QED BY <1>3, <1>4, <2>1, <2>2, <2>3
<1>11. new \in Places BY <1>4, <1>5, <1>9 DEF PlaceOf, Places
<1>12. ASSUME NEW y, NEW c
       PROVE Covers(new, y, c) <=> y \in r..(r + cell.down - 1) /\ c \in over
  BY DEF Covers, PlaceOf
<1>13. new.row = r /\ new.col = at /\ new.across = cell.across /\ new.v = cell.v
         /\ new.down = cell.down
  BY DEF PlaceOf
<1> HIDE DEF new
(* What covers a column of the new cell from row r on is the new cell.     *)
<1>14. ASSUME NEW q \in old, NEW y \in Nat, y >= r, NEW c \in over, Covers(q, y, c) PROVE FALSE
  <2>1. c >= at /\ c \in Int /\ c \in Free(r) BY <1>10
  <2>2. q \in placed BY <1>2, <1>14, <2>1, NewCoverBefore
  <2>3. q \in Places /\ q.row < r BY <1>3, <1>7, <2>2
  <2>4. Covers(q, r, c)
    <3>1. q.row \in Nat /\ q.down \in Nat BY <2>3 DEF Places
    <3> QED BY <1>4, <1>14, <2>3, <3>1 DEF Covers
  <2> QED BY <1>7, <2>1, <2>2, <2>4
<1>15. Apart(cells)
  <2> SUFFICES ASSUME NEW p \in cells, NEW q \in cells, NEW y \in Nat, NEW c \in Nat,
                      Covers(p, y, c), Covers(q, y, c)
               PROVE  p = q
    BY DEF Apart
  <2>1. CASE p \in old /\ q \in old BY <1>3, <2>1 DEF Apart
  <2>2. CASE p = new /\ q \in old
    <3>1. y >= r /\ c \in over BY <1>4, <1>5, <1>12, <2>2
    <3> QED BY <1>14, <2>2, <3>1
  <2>3. CASE p \in old /\ q = new
    <3>1. y >= r /\ c \in over BY <1>4, <1>5, <1>12, <2>3
    <3> QED BY <1>14, <2>3, <3>1
  <2> QED BY <2>1, <2>2, <2>3
<1>16. ASSUME NEW c \in 1..Width, c \notin over
       PROVE  t.row[c] = f.row[c] /\ t.carried[c] = f.carried[c]
  BY <1>6, <1>16
<1>17. ASSUME NEW c \in over
       PROVE  /\ t.row[c] = Shown(new, c) /\ t.row[c] \in CellTexts
              /\ cell.down > 1 => t.carried[c] = [v |-> Shown(new, c), left |-> cell.down - 1]
              /\ ~(cell.down > 1) => t.carried[c] = f.carried[c]
              /\ Shown(new, c) \in CellTexts
  <2>1. c \in 1..Width BY <1>9
  <2>2. Shown(new, c) = IF c = at THEN cell.v ELSE Hole
    BY <1>13 DEF Shown
  <2>3. Hole \in CellTexts BY EmptySeq DEF Hole, CellTexts
  <2>4. Shown(new, c) \in CellTexts BY <1>5, <2>2, <2>3
  <2> HIDE DEF over
  <2>5. t.row[c] = Shown(new, c) BY <1>6, <1>17, <2>1, <2>2
  <2>6. cell.down > 1 => t.carried[c] = [v |-> Shown(new, c), left |-> cell.down - 1]
    BY <1>6, <1>17, <2>1, <2>2
  <2>7. ~(cell.down > 1) => t.carried[c] = f.carried[c] BY <1>6, <1>17, <2>1
  <2> QED BY <2>4, <2>5, <2>6, <2>7
<1>18. t.row \in [1..Width -> CellTexts]
  <2>1. ASSUME NEW c \in 1..Width PROVE t.row[c] \in CellTexts
    <3>1. CASE c \in over BY <1>17, <3>1
    <3>2. CASE c \notin over BY <1>3, <1>16, <3>2
    <3> QED BY <3>1, <3>2
  <2>2. t.row = [c \in 1..Width |-> t.row[c]] BY <1>6
  <2> QED BY <2>1, <2>2
<1>19. t.carried \in [1..Width -> [v : CellTexts, left : Nat]]
  <2>1. ASSUME NEW c \in 1..Width PROVE t.carried[c] \in [v : CellTexts, left : Nat]
    <3>1. f.carried[c] \in [v : CellTexts, left : Nat] BY <1>3
    <3>2. CASE c \in over
      <4>1. CASE cell.down > 1
        <5>1. cell.down - 1 \in Nat BY <1>5, <4>1
        <5>2. t.carried[c] = [v |-> Shown(new, c), left |-> cell.down - 1]
                /\ Shown(new, c) \in CellTexts
          BY <1>17, <3>2, <4>1
        <5> QED BY <5>1, <5>2
      <4>2. CASE ~(cell.down > 1) BY <1>17, <3>1, <3>2, <4>2
      <4> QED BY <4>1, <4>2
    <3>3. CASE c \notin over BY <1>16, <3>1, <3>3
    <3> QED BY <3>2, <3>3
  <2>2. t.carried = [c \in 1..Width |-> t.carried[c]] BY <1>6
  <2> QED BY <2>1, <2>2
<1>20. ASSUME NEW c \in 1..(after - 1)
       PROVE  Lands(cells, r, c, t.row[c]) /\ Carries(cells, r + 1, c, t.carried[c])
  <2>1. CASE c \in over
    <3>1. Lands(cells, r, c, t.row[c])
      <4>1. \A q \in old : ~Covers(q, r, c) BY <1>4, <1>14, <2>1
      <4>2. Covers(new, r, c) BY <1>4, <1>5, <1>12, <2>1
      <4>3. t.row[c] = Shown(new, c) BY <1>17, <2>1
      <4> HIDE DEF over
      <4> QED BY <4>1, <4>2, <4>3 DEF Lands
    <3>2. \A q \in old : ~Covers(q, r + 1, c)
      <4>1. r + 1 \in Nat /\ r + 1 >= r BY <1>4
      <4> QED BY <1>14, <2>1, <4>1
    <3>3. CASE cell.down > 1
      <4>1. Covers(new, r + 1, c) BY <1>4, <1>5, <1>12, <2>1, <3>3
      <4>2. t.carried[c].left = new.row + new.down - (r + 1) /\ t.carried[c].v = Shown(new, c)
        <5>1. t.carried[c] = [v |-> Shown(new, c), left |-> cell.down - 1]
          BY <1>17, <2>1, <3>3
        <5>2. t.carried[c].left = cell.down - 1 /\ t.carried[c].v = Shown(new, c) BY <5>1
        <5>3. ASSUME NEW x \in Nat, NEW y \in Nat PROVE x - 1 = y + x - (y + 1) OBVIOUS
        <5>4. cell.down - 1 = r + cell.down - (r + 1) BY ONLY <1>4, <1>5, <5>3
        <5> QED BY <1>13, <5>2, <5>4
      <4> HIDE DEF over
      <4>3. Carries(cells, r + 1, c, t.carried[c]) BY <3>2, <4>1, <4>2 DEF Carries
      <4> QED BY <3>1, <4>3
    <3>4. CASE ~(cell.down > 1)
      <4>1. ~Covers(new, r + 1, c) BY <1>4, <1>5, <1>12, <3>4
      <4>2. t.carried[c].left = 0
        <5>1. c \in at..Width /\ c \in Free(r) BY <1>10, <2>1
        <5>2. f.carried[c] = carried[c] BY <1>3, <5>1
        <5>3. t.carried[c] = carried[c] BY <1>17, <2>1, <3>4, <5>2
        <5> QED BY <1>8, <5>1, <5>3
      <4> HIDE DEF over
      <4>3. Carries(cells, r + 1, c, t.carried[c]) BY <3>2, <4>1, <4>2 DEF Carries
      <4> QED BY <3>1, <4>3
    <3> QED BY <3>3, <3>4
  <2>2. CASE c \notin over
    <3>1. c \in 1..(at - 1) /\ c \in 1..Width BY <1>3, <1>4, <1>5, <1>9, <2>2
    <3>2. \A p \in {new} : ~Covers(p, r, c) /\ ~Covers(p, r + 1, c) BY <1>12, <2>2
    <3>3. t.row[c] = f.row[c] /\ t.carried[c] = f.carried[c] BY <1>16, <2>2, <3>1
    <3>4. Lands(old, r, c, f.row[c]) /\ Carries(old, r + 1, c, f.carried[c]) BY <1>3, <3>1
    <3>5. Lands(cells, r, c, f.row[c]) BY <3>2, <3>4, LandsStill
    <3>6. Carries(cells, r + 1, c, f.carried[c]) BY <3>2, <3>4, CarriesStill
    <3> QED BY <3>3, <3>5, <3>6
  <2> QED BY <2>1, <2>2
<1>21. ASSUME NEW c \in after..Width PROVE t.row[c] = Hole /\ t.carried[c] = carried[c]
  <2>1. c \in at..Width /\ c \in 1..Width /\ c \notin over BY <1>3, <1>4, <1>5, <1>9
  <2> QED BY <1>3, <1>16, <2>1
<1>22. \A p \in cells \ placed : p.row = r /\ p.col + p.across <= after
  <2> SUFFICES ASSUME NEW p \in cells \ placed PROVE p.row = r /\ p.col + p.across <= after
    OBVIOUS
  <2>1. CASE p = new
    <3>1. at \in Int /\ cell.across \in Int BY <1>3, <1>5
    <3> QED BY <1>13, <2>1, <3>1
  <2>2. CASE p # new
    <3>1. p \in old \ placed BY <2>2
    <3>2. p.row = r /\ p.col + p.across <= at BY <1>3, <3>1
    <3>3. p.col \in Int /\ p.across \in Int BY <1>3, <1>4, <3>1 DEF Places
    <3> QED BY <1>3, <1>5, <3>2, <3>3
  <2> QED BY <2>1, <2>2
<1>23. cells \subseteq Places /\ placed \subseteq cells BY <1>3, <1>11
<1> HIDE DEF cells, after, over
<1>24. Along(r, after, cells, t)
  BY <1>6, <1>9, <1>15, <1>18, <1>19, <1>20, <1>21, <1>22, <1>23 DEF Along
<1> QED BY <1>1, <1>24 DEF r, t

LEMMA TableStarts == ASSUME TableInit PROVE TableInv
<1>1. <<>> \in Seq([1..Width -> CellTexts]) /\ Len(<<>>) = 0 BY EmptySeq
<1>2. NoCarry \in [v : CellTexts, left : Nat] BY EmptySeq DEF NoCarry, Hole, CellTexts
<1>3. carried \in [1..Width -> [v : CellTexts, left : Nat]] BY <1>2 DEF TableInit
<1>4. placed = {} /\ read = <<>> /\ ragged = FALSE BY DEF TableInit
<1>5. \A c \in 1..Width : carried[c].left = 0 BY DEF TableInit, NoCarry
<1>6. read \in Seq([1..Width -> CellTexts]) /\ Len(read) = 0 BY <1>1, <1>4
<1>7. \A c \in 1..Width : Carries(placed, Len(read) + 1, c, carried[c])
  BY <1>4, <1>5 DEF Carries
<1>8. placed \subseteq Places /\ Apart(placed) /\ \A p \in placed : p.row <= Len(read)
  BY <1>4 DEF Apart
<1>9. \A y \in 1..Len(read), c \in 1..Width : Lands(placed, y, c, read[y][c]) BY <1>6
<1>10. ragged \in BOOLEAN BY <1>4
<1> QED BY <1>3, <1>6, <1>7, <1>8, <1>9, <1>10 DEF TableInv

(* A row before its first cell.                                            *)
Above    == [column |-> 1, fits |-> TRUE, cells |-> placed]
Unread   == [row |-> [c \in 1..Width |-> Hole], carried |-> carried, column |-> 1]

LEMMA RowStarts ==
  ASSUME TableInv, ~ragged PROVE Along(Len(read) + 1, Above.column, Above.cells, Unread)
<1>1. Above.column = 1 /\ Above.cells = placed BY DEF Above
<1>2. /\ Unread.column = 1 /\ Unread.carried = carried
      /\ Unread.row = [c \in 1..Width |-> Hole]
  BY DEF Unread
<1>3. Hole \in CellTexts BY EmptySeq DEF Hole, CellTexts
<1>4. Unread.row \in [1..Width -> CellTexts] /\ \A c \in 1..Width : Unread.row[c] = Hole
  BY <1>2, <1>3
<1>5. 1 \in 1..(Width + 1) BY WidthIsNat
<1> HIDE DEF Above, Unread
<1> QED BY <1>1, <1>2, <1>4, <1>5 DEF Along, TableInv

LEMMA RowIsRead ==
  ASSUME TableInv, ~ragged, NEW n \in Nat, NEW list \in [1..n -> Marks],
         Standing(Above, list).fits
  PROVE  LET a == Standing(Above, list)
             b == Reading(Unread, list)
         IN  Along(Len(read) + 1, NextColumn(a), a.cells, fillCarried(b))
<1> DEFINE r == Len(read) + 1
           a == Standing(Above, list)
           b == Reading(Unread, list)
<1>1. PICK c : /\ c[0] = Above /\ c[n] = a
               /\ \A k \in 1..n : c[k] = Turned(TRUE, c[k - 1], list[k])
  <2>1. Passes(TRUE, n, Above, list, a) BY CellsStand
  <2> HIDE DEF a
  <2> QED BY <2>1 DEF Passes
<1>2. PICK d : /\ d[0] = Unread /\ d[n] = b
               /\ \A k \in 1..n : d[k] = Turned(FALSE, d[k - 1], list[k])
  <2>1. Passes(FALSE, n, Unread, list, b) BY CellsAreRead
  <2> HIDE DEF b
  <2> QED BY <2>1 DEF Passes
<1> HIDE DEF a, b, r
<1> DEFINE Fits(k) == c[k].fits => Along(r, c[k].column, c[k].cells, d[k])
           P == {k \in 0..n : Fits(k)}
<1>3. 0 \in P
  <2>1. Along(r, Above.column, Above.cells, Unread) BY RowStarts DEF r
  <2>2. Fits(0) BY <1>1, <1>2, <2>1
  <2> HIDE DEF Fits
  <2> QED BY <2>2
<1>4. ASSUME NEW k \in 1..n, k - 1 \in P PROVE k \in P
  <2> DEFINE x == c[k - 1]
             y == d[k - 1]
             cell == list[k]
  <2>1. Fits(k - 1)
    <3> HIDE DEF Fits
    <3> QED BY <1>4
  <2>2. c[k] = Place(x, cell) /\ d[k] = TakeCell(y, cell) BY Zenon, <1>1, <1>2 DEF Turned
  <2>3. cell \in Marks OBVIOUS
  <2>4. x.fits => Along(r, x.column, x.cells, y) BY <2>1
  <2> HIDE DEF x, y, cell
  <2>5. Place(x, cell).fits => x.fits BY DEF Place
  <2>6. Place(x, cell).fits =>
          Along(r, Place(x, cell).column, Place(x, cell).cells, TakeCell(y, cell))
    BY <2>3, <2>4, <2>5, CellKeepsRow DEF r
  <2>7. Fits(k) BY Zenon, <2>2, <2>6
  <2> HIDE DEF Fits
  <2> QED BY <2>7
<1>5. Fits(n)
  <2>1. \A k \in 0..n : k \in P
    <3> HIDE DEF P
    <3> QED BY <1>3, <1>4, Induction
  <2>2. n \in 0..n OBVIOUS
  <2> HIDE DEF Fits
  <2> QED BY <2>1, <2>2
<1>6. a.fits BY DEF a
<1>7. Along(r, a.column, a.cells, b) BY Zenon, <1>1, <1>2, <1>5, <1>6
<1>8. Along(r, NextColumn(a), a.cells, fillCarried(b)) BY <1>7, Filled DEF r
<1> QED BY <1>8 DEF a, b, r

LEMMA RowKeeps ==
  ASSUME TableInv, NEW n \in Nat, NEW list \in [1..n -> Marks], TableRow(list)
  PROVE  TableInv'
<1> DEFINE r == Len(read) + 1
           a == Standing(Above, list)
           end == fillCarried(Reading(Unread, list))
           at == NextColumn(a)
           cells == a.cells
<1>1. /\ ~ragged /\ a.fits /\ placed' = cells /\ read' = Append(read, end.row)
      /\ carried' = end.carried
      /\ ragged' = (ragged \/ \E c \in end.column..Width : end.carried[c].left > 0)
  BY Zenon DEF TableRow, Standing, Reading, Above, Unread
<1>2. Along(r, at, cells, end) BY <1>1, RowIsRead
<1> HIDE DEF r, a, end, at, cells
<1>3. /\ at \in 1..(Width + 1) /\ end.column = at
      /\ cells \subseteq Places /\ placed \subseteq cells /\ Apart(cells)
      /\ \A p \in cells \ placed : p.row = r /\ p.col + p.across <= at
      /\ end.row \in [1..Width -> CellTexts]
      /\ end.carried \in [1..Width -> [v : CellTexts, left : Nat]]
      /\ \A c \in 1..(at - 1) :
           Lands(cells, r, c, end.row[c]) /\ Carries(cells, r + 1, c, end.carried[c])
      /\ \A c \in at..Width : end.row[c] = Hole /\ end.carried[c] = carried[c]
  BY <1>2 DEF Along
<1>4. read \in Seq([1..Width -> CellTexts]) /\ Len(read) \in Nat /\ Width \in Nat
  BY WidthIsNat, LenProperties DEF TableInv
<1>5. r = Len(read) + 1 /\ r \in Nat BY <1>4 DEF r
<1>6. /\ read' \in Seq([1..Width -> CellTexts]) /\ Len(read') = r /\ read'[r] = end.row
      /\ \A y \in 1..Len(read) : read'[y] = read[y]
  BY <1>1, <1>3, <1>4, <1>5, AppendProperties
<1>7. \A p \in placed' : p.row <= Len(read')
  <2> SUFFICES ASSUME NEW p \in cells PROVE p.row <= r BY <1>1, <1>6
  <2>1. CASE p \in placed
    <3>1. p.row <= Len(read) /\ p.row \in Nat BY <2>1 DEF TableInv, Places
    <3> QED BY <1>4, <1>5, <3>1
  <2>2. CASE p \notin placed BY <1>3, <1>5, <2>2
  <2> QED BY <2>1, <2>2
<1>8. ASSUME ~ragged', NEW c \in 1..Width
      PROVE  Lands(cells, r, c, end.row[c]) /\ Carries(cells, r + 1, c, end.carried[c])
  <2>1. CASE c < at
    <3>1. c \in 1..(at - 1) BY <1>3, <1>4, <2>1
    <3> QED BY <1>3, <3>1
  <2>2. CASE c >= at
    <3>1. c \in at..Width BY <1>3, <1>4, <2>2
    <3>2. end.row[c] = Hole /\ end.carried[c] = carried[c] BY <1>3, <3>1
    <3>3. carried[c].left \in Nat BY DEF TableInv
    <3>4. ~(end.carried[c].left > 0) BY <1>1, <1>3, <1>8, <3>1
    <3>5. carried[c].left = 0 BY <3>2, <3>3, <3>4
    <3>6. \A p \in placed : ~Covers(p, r, c)
      <4>1. c \in Free(r) BY <1>1, <3>5, CarriesWhereCovered DEF r
      <4> QED BY <4>1 DEF Free
    <3>7. ASSUME NEW q \in cells, NEW y, Covers(q, y, c) PROVE q \in placed
      <4>1. c \in Int OBVIOUS
      <4> QED BY <1>2, <2>2, <3>7, <4>1, NewCoverBefore DEF r
    <3>8. \A q \in cells : ~Covers(q, r, c) BY <3>6, <3>7
    <3>9. \A q \in cells : ~Covers(q, r + 1, c)
      <4> SUFFICES ASSUME NEW q \in cells, Covers(q, r + 1, c) PROVE FALSE OBVIOUS
      <4>1. q \in placed /\ q \in Places BY <1>3, <3>7
      <4>2. q.row <= r
        <5>1. q.row <= Len(read) /\ q.row \in Nat BY <4>1 DEF TableInv, Places
        <5> QED BY <1>4, <1>5, <5>1
      <4>3. Covers(q, r, c) BY <1>5, <4>1, <4>2, CoversAbove
      <4> QED BY <3>8, <4>3
    <3> QED BY <3>2, <3>5, <3>8, <3>9 DEF Lands, Carries
  <2> QED BY <1>3, <1>4, <2>1, <2>2
<1>9. ASSUME NEW c \in 1..Width, NEW y \in 1..Len(read)
      PROVE  Lands(cells, y, c, read[y][c])
  <2>1. Lands(placed, y, c, read[y][c]) BY <1>1 DEF TableInv
  <2>2. \A p \in cells \ placed : ~Covers(p, y, c)
    <3> SUFFICES ASSUME NEW p \in cells \ placed, Covers(p, y, c) PROVE FALSE OBVIOUS
    <3>1. p.row = r BY <1>3
    <3>2. y >= p.row /\ p.row \in Int BY <1>5, <3>1 DEF Covers
    <3> QED BY <1>4, <1>5, <3>1, <3>2
  <2>3. Lands(placed \cup (cells \ placed), y, c, read[y][c]) BY <2>1, <2>2, LandsStill
  <2>4. placed \cup (cells \ placed) = cells BY <1>3
  <2> QED BY Zenon, <2>3, <2>4
<1>10. ASSUME ~ragged', NEW c \in 1..Width, NEW y \in 1..Len(read')
       PROVE  Lands(cells, y, c, read'[y][c])
  <2>1. CASE y = r
    <3>1. read'[y] = end.row BY <1>6, <2>1
    <3>2. Lands(cells, r, c, end.row[c]) BY <1>8, <1>10
    <3> QED BY Zenon, <2>1, <3>1, <3>2
  <2>2. CASE y # r
    <3>1. y \in 1..Len(read) BY <1>4, <1>5, <1>6, <2>2
    <3>2. read'[y] = read[y] BY <1>6, <3>1
    <3> QED BY <1>9, <3>1, <3>2
  <2> QED BY <2>1, <2>2
<1>11. /\ placed' \subseteq Places /\ Apart(placed')
       /\ carried' \in [1..Width -> [v : CellTexts, left : Nat]] /\ ragged' \in BOOLEAN
  BY <1>1, <1>3
<1>12. ~ragged' => \A c \in 1..Width :
         /\ Carries(placed', Len(read') + 1, c, carried'[c])
         /\ \A y \in 1..Len(read') : Lands(placed', y, c, read'[y][c])
  BY <1>1, <1>6, <1>8, <1>10
<1> QED BY <1>6, <1>7, <1>11, <1>12 DEF TableInv

LEMMA TableStep == ASSUME TableInv, [TableNext]_tableVars PROVE TableInv'
<1>1. CASE UNCHANGED tableVars
  <2>1. read' = read /\ carried' = carried /\ placed' = placed /\ ragged' = ragged
    BY <1>1 DEF tableVars
  <2> QED BY Zenon, <2>1 DEF TableInv
<1>2. CASE TableNext
  <2>1. PICK n \in 0..Width : \E across, down \in [1..n -> Spans] :
          TableRow([i \in 1..n |-> [v |-> <<Len(read) + 1, i>>, across |-> across[i],
                                    down |-> down[i]]])
    BY <1>2 DEF TableNext
  <2>2. PICK across \in [1..n -> Spans], down \in [1..n -> Spans] :
          TableRow([i \in 1..n |-> [v |-> <<Len(read) + 1, i>>, across |-> across[i],
                                    down |-> down[i]]])
    BY <2>1
  <2> DEFINE list == [i \in 1..n |-> [v |-> <<Len(read) + 1, i>>, across |-> across[i],
                                      down |-> down[i]]]
  <2>3. list \in [1..n -> Marks]
    <3>1. Len(read) + 1 \in Nat BY LenProperties DEF TableInv
    <3> SUFFICES ASSUME NEW i \in 1..n
                 PROVE [v |-> <<Len(read) + 1, i>>, across |-> across[i], down |-> down[i]] \in Marks
      OBVIOUS
    <3>2. i \in Nat BY WidthIsNat
    <3>3. <<Len(read) + 1, i>> \in CellTexts BY <3>1, <3>2 DEF CellTexts
    <3>4. across[i] \in Nat \ {0} /\ down[i] \in Nat \ {0} BY ContainersAssumption
    <3> QED BY <3>3, <3>4 DEF Marks
  <2>4. TableRow(list) BY <2>2
  <2>5. n \in Nat BY WidthIsNat
  <2> HIDE DEF list
  <2> QED BY <2>3, <2>4, <2>5, RowKeeps
<1> QED BY <1>1, <1>2

(* The cells of a table do not overlap, and until a row is ragged what is  *)
(* carried into the next row is what the cells above still cover.          *)
THEOREM TableTypeCorrect == TableSpec => []TableInv
<1>1. TableInit => TableInv BY TableStarts
<1>2. TableInv /\ [TableNext]_tableVars => TableInv' BY TableStep
<1> QED BY <1>1, <1>2, PTL DEF TableSpec

(* Every cell is read in the columns and rows it stands in, whatever spans *)
(* from above pass by it (htmlRows): for a table of any width and length,  *)
(* and cells of any span.                                                  *)
THEOREM TableCorrect == TableSpec => []TableKeepsColumns
<1>1. TableInv => TableKeepsColumns
  <2> SUFFICES ASSUME TableInv, ~ragged, NEW r \in DOMAIN read, NEW c \in 1..Width
               PROVE  LET over == {p \in placed : Covers(p, r, c) /\ p.col = c}
                      IN read[r][c] = IF over = {} THEN Hole ELSE (CHOOSE p \in over : TRUE).v
    BY DEF TableKeepsColumns
  <2> DEFINE over == {p \in placed : Covers(p, r, c) /\ p.col = c}
             pick == CHOOSE p \in over : TRUE
  <2>1. r \in 1..Len(read) BY LenProperties DEF TableInv
  <2>2. Lands(placed, r, c, read[r][c]) BY <2>1 DEF TableInv
  <2>3. CASE over = {}
    <3>1. ASSUME NEW p \in placed, Covers(p, r, c) PROVE read[r][c] = Hole
      <4>1. p.col # c BY <2>3, <3>1
      <4> QED BY <2>2, <3>1, <4>1 DEF Lands, Shown
    <3>2. read[r][c] = Hole BY <2>2, <3>1 DEF Lands
    <3> QED BY <2>3, <3>2
  <2>4. CASE over # {}
    <3>1. pick \in over BY <2>4
    <3> HIDE DEF pick
    <3>2. pick \in placed /\ Covers(pick, r, c) /\ pick.col = c BY <3>1
    <3>3. read[r][c] = pick.v BY <2>2, <3>2 DEF Lands, Shown
    <3> QED BY Zenon, <2>4, <3>3 DEF pick
  <2> QED BY <2>3, <2>4
<1> QED BY <1>1, TableTypeCorrect, PTL

----------------------------------------------------------------------------
(* Reports: the cells and rows of a file, and what a reader makes of one.  *)
Rows == Charges \cup {Texts(h) : h \in Headings}

LEMMA TextsAreCells ==
  ASSUME NEW heading \in Seq(Words)
  PROVE  /\ Texts(heading) \in Seq(Cell)
         /\ Len(Texts(heading)) = Len(heading) /\ DOMAIN Texts(heading) = DOMAIN heading
         /\ \A c \in DOMAIN heading : Texts(heading)[c] = <<"s", heading[c]>>
<1>1. Len(heading) \in Nat /\ DOMAIN heading = 1..Len(heading) BY LenProperties
<1>2. ASSUME NEW c \in DOMAIN heading PROVE <<"s", heading[c]>> \in Cell
  <2>1. heading[c] \in Words BY ElementOfSeq, <1>1
  <2> QED BY <2>1 DEF Cell
<1>3. Texts(heading) \in [1..Len(heading) -> Cell] BY <1>1, <1>2 DEF Texts
<1> QED BY <1>1, <1>3 DEF Texts

LEMMA RowIsCells == ASSUME NEW row \in Rows PROVE row \in Seq(Cell)
<1>1. CASE row \in Charges BY <1>1, RowsAssumption
<1>2. CASE row \notin Charges
  <2>1. PICK h \in Headings : row = Texts(h) BY <1>2 DEF Rows
  <2>2. h \in Seq(Words) BY ReportsAssumption
  <2> QED BY <2>1, <2>2, TextsAreCells
<1> QED BY <1>1, <1>2

LEMMA FirstIs ==
  ASSUME NEW n \in Nat, NEW cols \in SUBSET (1..n)
  PROVE  /\ FirstOf(cols) \in 0..n
         /\ cols = {} => FirstOf(cols) = 0
         /\ cols # {} => FirstOf(cols) \in cols /\ \A c \in cols : FirstOf(cols) <= c
<1>1. CASE cols = {} BY <1>1 DEF FirstOf
<1>2. CASE cols # {}
  <2>1. IsFiniteSet(1..n) BY FS_Interval
  <2>2. IsFiniteSet(cols) BY <2>1, FS_Subset
  <2>3. cols \subseteq Int OBVIOUS
  <2>4. Min(cols) \in cols /\ \A c \in cols : Min(cols) <= c BY <1>2, <2>2, <2>3, LeastIs
  <2>5. FirstOf(cols) = Min(cols) BY <1>2 DEF FirstOf
  <2>6. FirstOf(cols) \in cols /\ \A c \in cols : FirstOf(cols) <= c BY <2>4, <2>5, Zenon
  <2>7. FirstOf(cols) \in 0..n
    <3>1. \A c \in cols : c \in 0..n OBVIOUS
    <3> QED BY <2>6, <3>1, Zenon
  <2> QED BY <1>2, <2>6, <2>7
<1> QED BY <1>1, <1>2

LEMMA CellAt ==
  ASSUME NEW row \in Seq(Cell), NEW c PROVE At(row, c) \in Cell
<1>1. DOMAIN row = 1..Len(row) BY LenProperties
<1>2. c \in DOMAIN row => row[c] \in Cell BY <1>1, ElementOfSeq
<1>3. Blank \in Cell BY DEF Cell
<1> QED BY <1>2, <1>3 DEF At

LEMMA CellIs ==
  ASSUME NEW cell \in Cell
  PROVE  \/ cell[1] = "s" /\ cell[2] \in Words
         \/ cell[1] \in {"n", "()", "d"} /\ cell[2] \in Int
         \/ cell[1] = "none"
BY DEF Cell, Blank

LEMMA CellNumbers ==
  ASSUME NEW cell \in Cell
  PROVE  /\ BankNumber(cell) \in Int /\ CardNumber(cell) \in Int
         /\ DateOf(cell) # None => cell[1] = "d" /\ DateOf(cell) \in Int
<1>1. CASE cell[1] = "s" BY <1>1 DEF BankNumber, CardNumber, DateOf
<1>2. CASE cell[1] = "none" BY <1>2 DEF BankNumber, CardNumber, DateOf
<1>3. CASE cell[1] = "n"
  <2>1. cell[2] \in Int BY CellIs, <1>3
  <2> QED BY <1>3, <2>1 DEF BankNumber, CardNumber, DateOf
<1>4. CASE cell[1] = "()"
  <2>1. cell[2] \in Int BY CellIs, <1>4
  <2> QED BY <1>4, <2>1 DEF BankNumber, CardNumber, DateOf
<1>5. CASE cell[1] = "d"
  <2>1. cell[2] \in Int BY CellIs, <1>5
  <2> QED BY <1>5, <2>1 DEF BankNumber, CardNumber, DateOf
<1> QED BY CellIs, <1>1, <1>2, <1>3, <1>4, <1>5

LEMMA LeastIsNat ==
  ASSUME NEW n \in Int PROVE Least(n) \in Nat /\ Least(n) = IF n > 0 THEN n ELSE 0
<1>1. Max({0, n}) = IF 0 >= n THEN 0 ELSE n BY OfTwo
<1> QED BY <1>1 DEF Least

LEMMA Magnitude ==
  ASSUME NEW n \in Int PROVE Max({n, -n}) \in Nat /\ Max({n, -n}) = IF n > 0 THEN n ELSE -n
<1>1. -n \in Int OBVIOUS
<1>2. Max({n, -n}) = IF n >= -n THEN n ELSE -n BY <1>1, OfTwo
<1> QED BY <1>2

(* The columns a heading names.                                            *)
Columns(row, k) == {c \in 1..Len(row) : row[c][1] = "s" /\ BankKey[row[c][2]] = k}
BankHeads(rows) == {i \in 1..Len(rows) : i <= HeadRows /\ IsBankHeader(BankMap(rows[i]))}

LEMMA BankMapIs ==
  ASSUME NEW row \in Seq(Cell), NEW k \in BankKeys
  PROVE  /\ BankMap(row)[k] \in 0..Len(row)
         /\ Columns(row, k) = {} => BankMap(row)[k] = 0
         /\ Columns(row, k) # {} => BankMap(row)[k] \in Columns(row, k)
<1>1. DOMAIN row = 1..Len(row) /\ Len(row) \in Nat BY LenProperties
<1>2. BankMap(row)[k] = FirstOf(Columns(row, k)) BY <1>1 DEF BankMap, Columns
<1>3. Columns(row, k) \in SUBSET (1..Len(row)) BY DEF Columns
<1> QED BY <1>1, <1>2, <1>3, FirstIs

LEMMA HeadingIs ==
  ASSUME NEW rows \in Seq(Seq(Cell))
  PROVE  /\ findHeader(rows) \in 0..Len(rows)
         /\ BankHeads(rows) = {} => findHeader(rows) = 0
         /\ BankHeads(rows) # {} => /\ findHeader(rows) \in BankHeads(rows)
                                    /\ \A i \in BankHeads(rows) : findHeader(rows) <= i
<1>1. DOMAIN rows = 1..Len(rows) /\ Len(rows) \in Nat BY LenProperties
<1>2. findHeader(rows) = FirstOf(BankHeads(rows)) BY <1>1 DEF findHeader, BankHeads
<1>3. BankHeads(rows) \in SUBSET (1..Len(rows)) BY DEF BankHeads
<1> DEFINE h == FirstOf(BankHeads(rows))
<1>4. /\ h \in 0..Len(rows) /\ (BankHeads(rows) = {} => h = 0)
      /\ BankHeads(rows) # {} => h \in BankHeads(rows) /\ \A i \in BankHeads(rows) : h <= i
  BY <1>1, <1>3, FirstIs
<1> HIDE DEF h
<1>5. findHeader(rows) = h BY <1>2 DEF h
<1> QED BY <1>4, <1>5, Zenon

(* A row is read as a movement, or as nothing.                             *)
IsRead(t, date) ==
  t # None => t \in Transactions /\ date[1] = "d" /\ (t.out # 0 \/ t.in # 0)

LEMMA BankRowIs ==
  ASSUME NEW row \in Seq(Cell), NEW m
  PROVE  IsRead(BankRow(m, row, "bank"), At(row, m.date))
<1> DEFINE number(k) == BankNumber(At(row, m[k]))
           apart(k) == IF m[k] = 0 THEN 0 ELSE Max({number(k), -number(k)})
           out == apart("out")
           in == apart("in")
           lone == m.amt # 0 /\ out = 0 /\ in = 0
           spent == -number("amt")
           t == [date |-> DateOf(At(row, m.date)), ref |-> At(row, m.ref),
                 desc |-> At(row, m.desc),
                 out  |-> IF lone THEN Least(spent) ELSE out,
                 in   |-> IF lone THEN Least(-spent) ELSE in,
                 bal  |-> IF m.bal = 0 \/ number("bal") = 0 THEN None ELSE number("bal")]
<1>1. BankRow(m, row, "bank") = IF t.date = None \/ (t.out = 0 /\ t.in = 0) THEN None ELSE t
  BY DEF BankRow
<1>2. \A k : number(k) \in Int BY CellAt, CellNumbers
<1> HIDE DEF number
<1>3. \A k : apart(k) \in Nat
  <2> SUFFICES ASSUME NEW k PROVE apart(k) \in Nat OBVIOUS
  <2>1. Max({number(k), -number(k)}) \in Nat BY <1>2, Magnitude
  <2> QED BY <2>1
<1>4. out \in Nat /\ in \in Nat BY <1>3
<1> HIDE DEF apart
<1>5. Least(spent) \in Nat /\ Least(-spent) \in Nat
  <2>1. spent \in Int /\ -spent \in Int BY <1>2
  <2> HIDE DEF spent
  <2> QED BY <2>1, LeastIsNat
<1>6. At(row, m.ref) \in Cell /\ At(row, m.desc) \in Cell BY CellAt
<1>7. DateOf(At(row, m.date)) # None
        => At(row, m.date)[1] = "d" /\ DateOf(At(row, m.date)) \in Int
  BY CellAt, CellNumbers
<1>8. t.bal \in Int \cup {None} BY <1>2
<1>9. t.out \in Nat /\ t.in \in Nat BY <1>4, <1>5
<1>10. /\ t.date = DateOf(At(row, m.date)) /\ t.ref \in Cell /\ t.desc \in Cell
       /\ t = [date |-> t.date, ref |-> t.ref, desc |-> t.desc, out |-> t.out, in |-> t.in,
               bal |-> t.bal]
  BY <1>6
<1> HIDE DEF t
<1>11. t.date # None => t \in Transactions BY <1>7, <1>8, <1>9, <1>10 DEF Transactions
<1> QED BY <1>1, <1>7, <1>10, <1>11 DEF IsRead

LEMMA CardRowIs ==
  ASSUME NEW row \in Seq(Cell), NEW m
  PROVE  CardRow(m, row) \in Transactions \cup {None}
<1> DEFINE signed == CardNumber(At(row, IF m.out # 0 THEN m.out ELSE m.amount))
           credit == IF m.in = 0 THEN 0 ELSE CardNumber(At(row, m.in))
           credited == Max({credit, -credit})
           t == [date |-> DateOf(At(row, m.date)), ref |-> At(row, m.ref),
                 desc |-> At(row, m.desc), out |-> Least(signed), bal |-> None,
                 in   |-> IF credited # 0 THEN credited ELSE Least(-signed)]
<1>1. CardRow(m, row) = IF t.date = None \/ (t.out = 0 /\ t.in = 0) THEN None ELSE t
  BY DEF CardRow
<1>2. signed \in Int /\ credit \in Int BY CellAt, CellNumbers
<1> HIDE DEF signed, credit
<1>3. credited \in Nat BY <1>2, Magnitude
<1>4. Least(signed) \in Nat /\ Least(-signed) \in Nat
  <2>1. -signed \in Int BY <1>2
  <2> QED BY <1>2, <2>1, LeastIsNat
<1> HIDE DEF credited
<1>5. At(row, m.ref) \in Cell /\ At(row, m.desc) \in Cell BY CellAt
<1>6. DateOf(At(row, m.date)) # None => DateOf(At(row, m.date)) \in Int BY CellAt, CellNumbers
<1>7. t.date # None => t \in Transactions BY <1>3, <1>4, <1>5, <1>6 DEF Transactions
<1> HIDE DEF t
<1> QED BY <1>1, <1>7

LEMMA IdOf == ASSUME NEW t \in Transactions PROVE Id(t) \in Ids
BY DEF Transactions, Id, Ids

(* What is kept of a list is what it has besides None.                     *)
Kinds(list) == [i \in DOMAIN list |-> IF list[i] = None THEN <<>> ELSE <<list[i]>>]

LEMMA KindsAre ==
  ASSUME NEW n \in Nat, NEW X, None \notin X, NEW list \in [1..n -> X \cup {None}]
  PROVE  /\ Kinds(list) \in [1..n -> Seq(X)] /\ Kept(list) = FlattenSeq(Kinds(list))
         /\ \A i \in 1..n : Kinds(list)[i] = IF list[i] = None THEN <<>> ELSE <<list[i]>>
<1>1. ASSUME NEW i \in 1..n PROVE (IF list[i] = None THEN <<>> ELSE <<list[i]>>) \in Seq(X)
  <2>1. list[i] \in X \cup {None} OBVIOUS
  <2>2. list[i] \in X => <<list[i]>> \in Seq(X) OBVIOUS
  <2>3. <<>> \in Seq(X) BY EmptySeq
  <2> QED BY <2>1, <2>2, <2>3
<1>2. Kinds(list) = [i \in 1..n |-> IF list[i] = None THEN <<>> ELSE <<list[i]>>]
  BY DEF Kinds
<1>3. Kept(list) = FlattenSeq(Kinds(list)) BY Zenon DEF Kept, Kinds
<1> QED BY <1>1, <1>2, <1>3

LEMMA KeptIs ==
  ASSUME NEW n \in Nat, NEW X, None \notin X, NEW list \in [1..n -> X \cup {None}]
  PROVE  /\ Kept(list) \in Seq(X)
         /\ Elements(Kept(list)) = {list[i] : i \in 1..n} \ {None}
<1>1. /\ Kinds(list) \in [1..n -> Seq(X)] /\ Kept(list) = FlattenSeq(Kinds(list))
      /\ \A i \in 1..n : Kinds(list)[i] = IF list[i] = None THEN <<>> ELSE <<list[i]>>
  BY KindsAre
<1>2. /\ FlattenSeq(Kinds(list)) \in Seq(X)
      /\ Elements(FlattenSeq(Kinds(list))) = UNION {Elements(Kinds(list)[i]) : i \in 1..n}
  BY <1>1, FlattenMembers
<1>3. ASSUME NEW i \in 1..n
      PROVE  Elements(Kinds(list)[i]) = {list[i]} \ {None}
  <2>1. CASE list[i] = None
    <3>1. Kinds(list)[i] = <<>> BY <1>1, <2>1
    <3>2. Elements(<<>>) = {} BY DEF Elements
    <3> QED BY <2>1, <3>1, <3>2
  <2>2. CASE list[i] # None
    <3>1. Kinds(list)[i] = <<list[i]>> BY <1>1, <2>2
    <3>2. Elements(<<list[i]>>) = {list[i]} BY DEF Elements
    <3> QED BY <2>2, <3>1, <3>2
  <2> QED BY <2>1, <2>2
<1>4. UNION {Elements(Kinds(list)[i]) : i \in 1..n} = {list[i] : i \in 1..n} \ {None}
  <2>1. ASSUME NEW x \in UNION {Elements(Kinds(list)[i]) : i \in 1..n}
        PROVE  x \in {list[i] : i \in 1..n} \ {None}
    <3>1. PICK i \in 1..n : x \in Elements(Kinds(list)[i]) BY <2>1
    <3>2. x = list[i] /\ x # None BY <1>3, <3>1
    <3> QED BY <3>2
  <2>2. ASSUME NEW x \in {list[i] : i \in 1..n} \ {None}
        PROVE  x \in UNION {Elements(Kinds(list)[i]) : i \in 1..n}
    <3>1. PICK i \in 1..n : x = list[i] /\ x # None BY <2>2
    <3>2. x \in Elements(Kinds(list)[i]) BY <1>3, <3>1
    <3> QED BY <3>2
  <2> QED BY <2>1, <2>2
<1> QED BY <1>1, <1>2, <1>4

LEMMA KeptOne ==
  ASSUME NEW X, None \notin X, NEW t \in X \cup {None}
  PROVE  Kept(<<t>>) = IF t = None THEN <<>> ELSE <<t>>
<1> DEFINE list == <<t>>
           one == IF t = None THEN <<>> ELSE <<t>>
<1>1. list \in [1..1 -> X \cup {None}] /\ list[1] = t OBVIOUS
<1> HIDE DEF list
<1>2. /\ Kinds(list) \in [1..1 -> Seq(X)] /\ Kept(list) = FlattenSeq(Kinds(list))
      /\ Kinds(list)[1] = one
  BY <1>1, KindsAre
<1> HIDE DEF one
<1>3. Kinds(list) = <<one>> BY <1>2
<1>4. one \in Seq(X) BY <1>2
<1>5. Kept(list) = one BY <1>2, <1>3, <1>4, FlattenOne
<1> QED BY <1>5 DEF list, one

LEMMA KeptAfterNone ==
  ASSUME NEW X, None \notin X, NEW t \in X \cup {None}
  PROVE  Kept(<<None, t>>) = IF t = None THEN <<>> ELSE <<t>>
<1> DEFINE list == <<None, t>>
           one == IF t = None THEN <<>> ELSE <<t>>
<1>1. list \in [1..2 -> X \cup {None}] /\ list[1] = None /\ list[2] = t OBVIOUS
<1> HIDE DEF list
<1>2. /\ Kinds(list) \in [1..2 -> Seq(X)] /\ Kept(list) = FlattenSeq(Kinds(list))
      /\ Kinds(list)[1] = <<>> /\ Kinds(list)[2] = one
  <2>1. /\ Kinds(list) \in [1..2 -> Seq(X)] /\ Kept(list) = FlattenSeq(Kinds(list))
        /\ \A i \in 1..2 : Kinds(list)[i] = IF list[i] = None THEN <<>> ELSE <<list[i]>>
    BY <1>1, KindsAre
  <2>2. 1 \in 1..2 /\ 2 \in 1..2 OBVIOUS
  <2> QED BY <1>1, <2>1, <2>2, Zenon
<1> HIDE DEF one
<1>3. Kinds(list) = <<<<>>, one>> BY <1>2
<1>4. one \in Seq(X) /\ <<>> \in Seq(X) BY <1>2
<1>5. Kept(list) = <<>> \o one BY <1>2, <1>3, <1>4, FlattenTwo
<1>6. <<>> \o one = one BY <1>4, ConcatEmptySeq
<1>7. Kept(list) = one BY Zenon, <1>5, <1>6
<1> QED BY <1>7 DEF list, one

LEMMA KeptAll ==
  ASSUME NEW n \in Nat, NEW X, None \notin X, NEW list \in [1..n -> X]
  PROVE  Kept(list) = list
<1>1. list \in [1..n -> X \cup {None}] /\ list \in Seq(X)
      /\ Len(list) = n /\ \A i \in 1..n : list[i] \in X
  OBVIOUS
<1>2. /\ Kinds(list) \in [1..n -> Seq(X)] /\ Kept(list) = FlattenSeq(Kinds(list))
      /\ \A i \in 1..n : Kinds(list)[i] = <<list[i]>>
  <2>1. /\ Kinds(list) \in [1..n -> Seq(X)] /\ Kept(list) = FlattenSeq(Kinds(list))
        /\ \A i \in 1..n : Kinds(list)[i] = IF list[i] = None THEN <<>> ELSE <<list[i]>>
    BY <1>1, KindsAre
  <2>2. \A i \in 1..n : list[i] # None BY <1>1
  <2> QED BY <2>1, <2>2, Zenon
<1>3. PICK w : /\ \A k \in 0..n : w[k] \in Seq(X)
               /\ Joins(n, Kinds(list), w) /\ FlattenSeq(Kinds(list)) = w[n]
  BY <1>2, FlattenFromNone
<1> DEFINE upto(k) == SubSeq(list, 1, k)
           Has(k) == w[k] = upto(k)
           P == {k \in 0..n : Has(k)}
<1>4. 0 \in P
  <2>1. upto(0) = <<>> BY <1>1, SubSeqEmpty
  <2>2. w[0] = <<>> BY <1>3 DEF Joins
  <2> HIDE DEF upto
  <2>3. Has(0) BY <2>1, <2>2
  <2> HIDE DEF Has
  <2> QED BY <2>3
<1>5. ASSUME NEW k \in 1..n, k - 1 \in P PROVE k \in P
  <2>1. w[k] = w[k - 1] \o <<list[k]>>
    <3>1. w[k] = w[k - 1] \o Kinds(list)[k] BY <1>3 DEF Joins
    <3>2. Kinds(list)[k] = <<list[k]>> BY <1>2
    <3> QED BY Zenon, <3>1, <3>2
  <2>2. upto(k) = upto(k - 1) \o <<list[k]>> BY <1>1, SubSeqRecursiveSecond
  <2>3. Has(k - 1)
    <3> HIDE DEF Has
    <3> QED BY <1>5
  <2> HIDE DEF upto
  <2>4. Has(k) BY Zenon, <2>1, <2>2, <2>3
  <2> HIDE DEF Has
  <2> QED BY <2>4
<1>6. Has(n)
  <2> HIDE DEF Has
  <2>1. \A k \in 0..n : k \in P
    <3> HIDE DEF P
    <3> QED BY <1>4, <1>5, Induction
  <2> QED BY <2>1
<1>7. upto(n) = list BY <1>1, SubSeqFull
<1> HIDE DEF upto
<1> QED BY Zenon, <1>2, <1>3, <1>6, <1>7

(* A row that is read again stands alone under a heading.                  *)
LEMMA TwoRows ==
  ASSUME NEW head \in Seq(Cell), NEW row \in Seq(Cell), IsBankHeader(BankMap(head))
  PROVE  LET t == BankRow(BankMap(head), row, "bank")
         IN BankImport(<<<<head, row>>>>, "bank") = IF t = None THEN <<>> ELSE <<t>>
<1> DEFINE t == BankRow(BankMap(head), row, "bank")
           rows == <<head, row>>
           one == IF t = None THEN <<>> ELSE <<t>>
<1>1. t \in Transactions \cup {None} BY BankRowIs DEF IsRead
<1>2. None \notin Transactions BY RowsAssumption
<1>3. Kept(<<t>>) = one /\ one \in Seq(Transactions)
  <2> HIDE DEF t
  <2>1. Kept(<<t>>) = one BY <1>1, <1>2, KeptOne
  <2>2. one \in Seq(Transactions) BY <1>1, EmptySeq
  <2> QED BY <2>1, <2>2
<1>4. findHeader(rows) = 1
  <2>1. rows \in Seq(Seq(Cell)) /\ Len(rows) = 2 /\ rows[1] = head OBVIOUS
  <2> HIDE DEF rows
  <2>2. 1 \in BankHeads(rows)
    <3>1. 1 \in 1..Len(rows) /\ 1 <= HeadRows
      <4>1. HeadRows \in Nat \ {0} BY ReportsAssumption, Zenon
      <4> QED BY <2>1, <4>1
    <3>2. IsBankHeader(BankMap(rows[1])) BY <2>1, Zenon
    <3> QED BY <3>1, <3>2, Zenon DEF BankHeads
  <2>3. findHeader(rows) \in BankHeads(rows) /\ findHeader(rows) <= 1 BY <2>1, <2>2, HeadingIs
  <2> QED BY <2>3 DEF BankHeads
<1>5. [i \in 1..(Len(rows) - findHeader(rows)) |->
         BankRow(BankMap(rows[findHeader(rows)]), rows[findHeader(rows) + i], "bank")] = <<t>>
  <2>1. Len(rows) - findHeader(rows) = 1 /\ rows[findHeader(rows)] = head BY <1>4
  <2>2. \A i \in 1..1 : rows[findHeader(rows) + i] = row BY <1>4
  <2> HIDE DEF rows
  <2> QED BY <2>1, <2>2
<1> HIDE DEF t
<1>6. one # <<>> => /\ one[1] = Last(one) /\ one = <<t>>
  BY DEF Last
<1>7. orientNewestFirst(one) = one
  <2>1. CASE one = <<>> BY <2>1 DEF orientNewestFirst
  <2>2. CASE one # <<>>
    <3>1. t \in Transactions /\ one = <<t>> /\ one[1] = t /\ Last(one) = t BY <1>1, <2>2 DEF Last
    <3>2. t.date \in Int BY <3>1 DEF Transactions
    <3>3. ~(one[1].date < Last(one).date) BY <3>1, <3>2
    <3> HIDE DEF one
    <3> QED BY <3>3 DEF orientNewestFirst
  <2> QED BY <2>1, <2>2
<1> HIDE DEF one, rows
<1>8. BankSheet(rows, "bank") = one
  <2>1. findHeader(rows) # 0 BY <1>4
  <2> QED BY <1>3, <1>5, <1>7, <2>1, Zenon DEF BankSheet
<1>9. BankImport(<<rows>>, "bank") = FlattenSeq(<<BankSheet(rows, "bank")>>)
  <2>1. [s \in DOMAIN <<rows>> |-> BankSheet(<<rows>>[s], "bank")] = <<BankSheet(rows, "bank")>>
    OBVIOUS
  <2> QED BY <2>1, Zenon DEF BankImport
<1>10. FlattenSeq(<<one>>) = one BY <1>3, FlattenOne
<1>11. BankImport(<<rows>>, "bank") = one BY Zenon, <1>8, <1>9, <1>10
<1> QED BY <1>11 DEF rows, one, t

LEMMA TwoCardRows ==
  ASSUME NEW head \in Seq(Cell), NEW row \in Seq(Cell), canHandle(head), ~canHandle(row)
  PROVE  LET t == CardRow(CardMap(head), row)
         IN CardImport(<<<<head, row>>>>) = IF t = None THEN <<>> ELSE <<t>>
<1> DEFINE t == CardRow(CardMap(head), row)
           rows == <<head, row>>
           one == IF t = None THEN <<>> ELSE <<t>>
           list == [i \in DOMAIN rows |->
                      IF canHandle(rows[i]) \/ Heads(rows, i) = {} THEN None
                      ELSE CardRow(CardMap(rows[Max(Heads(rows, i))]), rows[i])]
<1>1. t \in Transactions \cup {None} BY CardRowIs
<1>2. None \notin Transactions BY RowsAssumption
<1>3. rows[1] = head /\ rows[2] = row /\ DOMAIN rows = 1..2 OBVIOUS
<1> HIDE DEF rows
<1>4. Heads(rows, 2) = {1} BY <1>3 DEF Heads
<1>5. Max({1}) = 1
  <2>1. 1 \in Nat /\ {1} \in SUBSET (1..1) /\ 1 \in {1} OBVIOUS
  <2> QED BY <2>1, MaxOf
<1>6. list = <<None, t>>
  <2>1. list[1] = None BY <1>3
  <2>2. list[2] = t
    <3>1. list[2] = IF canHandle(rows[2]) \/ Heads(rows, 2) = {} THEN None
                    ELSE CardRow(CardMap(rows[Max(Heads(rows, 2))]), rows[2])
      BY <1>3
    <3>2. {1} # {} OBVIOUS
    <3> HIDE DEF list
    <3> QED BY <1>3, <1>4, <1>5, <3>1, <3>2, Zenon
  <2>3. list = [i \in 1..2 |-> list[i]] BY <1>3
  <2> HIDE DEF list, t
  <2> QED BY <2>1, <2>2, <2>3
<1> HIDE DEF t
<1>7. Kept(<<None, t>>) = one BY <1>1, <1>2, KeptAfterNone
<1>8. one \in Seq(Transactions) BY <1>1, EmptySeq
<1>9. CardSheet(rows) = Kept(list) BY Zenon DEF CardSheet
<1> HIDE DEF one, list
<1>10. CardSheet(rows) = one BY Zenon, <1>6, <1>7, <1>9
<1>11. CardImport(<<rows>>) = FlattenSeq(<<CardSheet(rows)>>)
  <2>1. [s \in DOMAIN <<rows>> |-> CardSheet(<<rows>>[s])] = <<CardSheet(rows)>> OBVIOUS
  <2> QED BY <2>1, Zenon DEF CardImport
<1>12. FlattenSeq(<<one>>) = one BY <1>8, FlattenOne
<1>13. CardImport(<<rows>>) = one BY Zenon, <1>10, <1>11, <1>12
<1> QED BY <1>13 DEF rows, one, t

(* The line of a sheet that is replayed, and what comes of it.             *)
Replayed(rows) == {i \in 1..Len(rows) : ~canHandle(rows[i]) /\ Heads(rows, i) # {}}
Replays(rows, i) ==
  LET t == Filed(rows, i)
  IN /\ IF t = None THEN TRUE ELSE t \in Transactions /\ (t.out # 0 \/ t.in # 0)
     /\ Correction(rows, i) = IF t = None THEN None
                              ELSE IF t.out > 0 THEN None
                              ELSE [old |-> Id(t), new |-> Now(rows, i)]

LEMMA RowsAreCells ==
  ASSUME NEW rows \in Seq(Rows)
  PROVE  /\ rows \in Seq(Seq(Cell)) /\ Len(rows) \in Nat /\ DOMAIN rows = 1..Len(rows)
         /\ \A i \in 1..Len(rows) : rows[i] \in Rows /\ rows[i] \in Seq(Cell)
<1>1. Rows \subseteq Seq(Cell) BY RowIsCells
<1>2. rows \in Seq(Seq(Cell)) BY <1>1, SeqMonotonic
<1>3. Len(rows) \in Nat /\ DOMAIN rows = 1..Len(rows) BY LenProperties
<1>4. \A i \in 1..Len(rows) : rows[i] \in Rows BY ElementOfSeq
<1> QED BY <1>1, <1>2, <1>3, <1>4

LEMMA FirstHeading ==
  ASSUME NEW rows \in Seq(Rows), ReadAlike(rows), NEW i \in Replayed(rows)
  PROVE  LET h == findHeader(rows)
         IN /\ h # 0 /\ h < i /\ h \in 1..Len(rows) /\ Min(Heads(rows, i)) = h
            /\ IsBankHeader(BankMap(rows[h]))
<1> DEFINE h == findHeader(rows)
           heads == Heads(rows, i)
<1>1. rows \in Seq(Seq(Cell)) /\ Len(rows) \in Nat /\ DOMAIN rows = 1..Len(rows)
  BY RowsAreCells
<1>2. i \in 1..Len(rows) /\ heads # {} BY DEF Replayed
<1>3. heads \in SUBSET (1..(i - 1)) /\ \A g \in heads : canHandle(rows[g]) BY DEF Heads
<1>4. \A g \in 1..Len(rows) : canHandle(rows[g]) <=> IsBankHeader(BankMap(rows[g]))
  <2> DEFINE cards == {g \in DOMAIN rows : canHandle(rows[g])}
             banks == {g \in DOMAIN rows : IsBankHeader(BankMap(rows[g]))}
  <2>1. cards = banks BY Zenon DEF ReadAlike
  <2>2. ASSUME NEW g \in 1..Len(rows)
        PROVE  canHandle(rows[g]) <=> IsBankHeader(BankMap(rows[g]))
    <3>1. g \in cards <=> canHandle(rows[g]) BY <1>1, Zenon
    <3>2. g \in banks <=> IsBankHeader(BankMap(rows[g])) BY <1>1, Zenon
    <3> HIDE DEF cards, banks
    <3> QED BY <2>1, <3>1, <3>2, Zenon
  <2> QED BY <2>2
<1>5. h # 0
  <2>1. PICK g \in heads : TRUE BY <1>2
  <2>2. g \in DOMAIN rows /\ canHandle(rows[g])
    <3> HIDE DEF heads
    <3>1. g \in 1..(i - 1) BY <1>3
    <3>2. g \in 1..Len(rows) BY <1>1, <1>2, <3>1
    <3> QED BY <1>1, <1>3, <3>2
  <2> QED BY <2>2 DEF ReadAlike
<1> HIDE DEF heads
<1>6. h \in BankHeads(rows) /\ \A g \in BankHeads(rows) : h <= g
  <2>1. BankHeads(rows) # {} BY <1>1, <1>5, HeadingIs
  <2> QED BY <1>1, <2>1, HeadingIs
<1> HIDE DEF h
<1>7. h \in 1..Len(rows) /\ h <= HeadRows /\ IsBankHeader(BankMap(rows[h]))
  BY <1>6 DEF BankHeads
<1>8. HeadRows \in Nat BY ReportsAssumption, Zenon
<1>9. ASSUME NEW g \in heads PROVE h <= g
  <2>1. g \in 1..(i - 1) BY <1>3
  <2>2. g \in 1..Len(rows) /\ i \in Nat BY <1>1, <1>2, <2>1
  <2>3. IsBankHeader(BankMap(rows[g])) BY <1>3, <1>4, <2>2
  <2>4. CASE g <= HeadRows
    <3>1. g \in BankHeads(rows) BY <2>2, <2>3, <2>4 DEF BankHeads
    <3> QED BY <1>6, <3>1
  <2>5. CASE ~(g <= HeadRows) BY <1>7, <1>8, <2>2, <2>5
  <2> QED BY <2>4, <2>5
<1>10. h < i
  <2>1. PICK g \in heads : TRUE BY <1>2
  <2>2. g \in 1..(i - 1) BY <1>3
  <2> QED BY <1>1, <1>2, <1>7, <1>9, <2>1, <2>2
<1>11. h \in heads
  <2>1. canHandle(rows[h]) BY <1>4, <1>7
  <2>2. h \in 1..(i - 1) BY <1>1, <1>2, <1>7, <1>10
  <2> QED BY <2>1, <2>2 DEF heads, Heads
<1>12. Min(heads) = h
  <2>1. IsFiniteSet(1..(i - 1)) /\ i \in Int BY <1>1, <1>2, FS_Interval
  <2>2. IsFiniteSet(heads) BY <1>3, <2>1, FS_Subset
  <2>3. heads \subseteq Int BY <1>3
  <2> QED BY <1>9, <1>11, <2>2, <2>3, LeastAmong
<1> QED BY <1>5, <1>7, <1>10, <1>12 DEF h, heads

LEMMA NowIs ==
  ASSUME NEW rows \in Seq(Rows), NEW i \in Replayed(rows)
  PROVE  /\ Max(Heads(rows, i)) \in 1..Len(rows) /\ canHandle(rows[Max(Heads(rows, i))])
         /\ Now(rows, i) \in Ids \cup {None}
<1>1. Len(rows) \in Nat /\ \A g \in 1..Len(rows) : rows[g] \in Seq(Cell) BY RowsAreCells
<1>2. i \in 1..Len(rows) /\ Heads(rows, i) # {} BY DEF Replayed
<1>3. Heads(rows, i) \in SUBSET (1..(i - 1)) /\ \A g \in Heads(rows, i) : canHandle(rows[g])
  BY DEF Heads
<1>4. i - 1 \in Nat BY <1>1, <1>2
<1>5. Max(Heads(rows, i)) \in Heads(rows, i) BY <1>2, <1>3, <1>4, MaxIn
<1> DEFINE top == Max(Heads(rows, i))
<1>6. top \in 1..Len(rows) /\ canHandle(rows[top])
  <2> HIDE DEF top
  <2>1. top \in Heads(rows, i) BY <1>5 DEF top
  <2>2. top \in 1..(i - 1) BY <1>3, <2>1
  <2> QED BY <1>1, <1>2, <1>3, <2>1, <2>2
<1>7. CardRow(CardMap(rows[top]), rows[i]) \in Transactions \cup {None}
  BY <1>1, <1>2, CardRowIs
<1>8. Now(rows, i) \in Ids \cup {None} BY <1>7, IdOf DEF Now
<1> QED BY <1>6, <1>8

LEMMA LineIsReplayed ==
  ASSUME NEW rows \in Seq(Rows), ReadAlike(rows), NEW i \in Replayed(rows)
  PROVE  Replays(rows, i)
<1> DEFINE h == findHeader(rows)
           head == rows[h]
           now == rows[Max(Heads(rows, i))]
           t == Filed(rows, i)
           new == CardRow(CardMap(now), rows[i])
           olds == BankImport(<<<<head, rows[i]>>>>, "bank")
           news == CardImport(<<<<now, rows[i]>>>>)
<1>1. \A g \in 1..Len(rows) : rows[g] \in Seq(Cell) BY RowsAreCells
<1>2. i \in 1..Len(rows) /\ ~canHandle(rows[i]) BY DEF Replayed
<1>3. /\ h # 0 /\ h < i /\ h \in 1..Len(rows) /\ Min(Heads(rows, i)) = h
      /\ IsBankHeader(BankMap(head))
  BY FirstHeading
<1>4. /\ Max(Heads(rows, i)) \in 1..Len(rows) /\ canHandle(now) BY NowIs
<1>5. t = BankRow(BankMap(head), rows[i], "bank")
  <2>1. i \in Int /\ h \in Int
    <3>1. Len(rows) \in Nat BY RowsAreCells
    <3> QED BY <1>2, <1>3, <3>1
  <2>2. ~(i <= h) BY <1>3, <2>1
  <2> QED BY <1>3, <2>2 DEF Filed
<1>6. olds = IF t = None THEN <<>> ELSE <<t>>
  <2>1. head \in Seq(Cell) /\ rows[i] \in Seq(Cell) BY <1>1, <1>2, <1>3
  <2> QED BY <1>3, <1>5, <2>1, TwoRows
<1>7. news = IF new = None THEN <<>> ELSE <<new>>
  <2>1. now \in Seq(Cell) /\ rows[i] \in Seq(Cell) BY <1>1, <1>2, <1>4
  <2> QED BY <1>2, <1>4, <2>1, TwoCardRows
<1>8. IsRead(t, At(rows[i], BankMap(head).date))
  BY <1>1, <1>2, <1>5, BankRowIs
<1>9. Now(rows, i) = IF new = None THEN None ELSE Id(new) BY DEF Now
<1>10. Correction(rows, i) = IF olds = <<>> \/ olds[1].out > 0 THEN None
         ELSE [old |-> Id(olds[1]), new |-> IF news = <<>> THEN None ELSE Id(news[1])]
  BY <1>3, Zenon DEF Correction
<1> HIDE DEF t, new, olds, news
<1>11. (IF news = <<>> THEN None ELSE Id(news[1])) = Now(rows, i)
  <2>1. CASE new = None BY <1>7, <1>9, <2>1
  <2>2. CASE new # None
    <3>1. news = <<new>> BY <1>7, <2>2
    <3>2. news # <<>> /\ news[1] = new BY <3>1
    <3> QED BY <1>9, <2>2, <3>2, Zenon
  <2> QED BY <2>1, <2>2
<1>12. Correction(rows, i) = IF t = None THEN None
         ELSE IF t.out > 0 THEN None ELSE [old |-> Id(t), new |-> Now(rows, i)]
  <2>1. CASE t = None BY <1>6, <1>10, <2>1
  <2>2. CASE t # None
    <3>1. olds = <<t>> BY <1>6, <2>2
    <3>2. olds # <<>> /\ olds[1] = t BY <3>1
    <3> QED BY <1>10, <1>11, <2>2, <3>2, Zenon
  <2> QED BY <2>1, <2>2
<1>13. t # None => t \in Transactions /\ (t.out # 0 \/ t.in # 0) BY <1>8 DEF IsRead
<1> QED BY <1>12, <1>13 DEF Replays, t

(* What was read as a movement is no heading, and stands under one.        *)
LEMMA FiledIsReplayed ==
  ASSUME NEW rows \in Seq(Rows), ReadAlike(rows), NEW i \in 1..Len(rows), Filed(rows, i) # None
  PROVE  i \in Replayed(rows)
<1> DEFINE h == findHeader(rows)
<1>1. rows \in Seq(Seq(Cell)) /\ Len(rows) \in Nat /\ DOMAIN rows = 1..Len(rows)
      /\ rows[i] \in Rows /\ rows[i] \in Seq(Cell)
  BY RowsAreCells
<1>2. h # 0 /\ ~(i <= h) /\ Filed(rows, i) = BankRow(BankMap(rows[h]), rows[i], "bank")
  BY DEF Filed
<1>3. IsRead(Filed(rows, i), At(rows[i], BankMap(rows[h]).date)) BY <1>1, <1>2, BankRowIs
<1>4. At(rows[i], BankMap(rows[h]).date)[1] = "d" BY <1>3 DEF IsRead
<1>5. ~canHandle(rows[i])
  <2>1. CASE rows[i] \in Charges BY <2>1, RowsAssumption
  <2>2. CASE rows[i] \notin Charges
    <3>1. PICK head \in Headings : rows[i] = Texts(head) BY <1>1, <2>2 DEF Rows
    <3>2. At(Texts(head), BankMap(rows[h]).date)[1] \in {"s", "none"} BY DEF At, Texts, Blank
    <3> QED BY <1>4, <3>1, <3>2
  <2> QED BY <2>1, <2>2
<1>6. h \in BankHeads(rows) BY <1>1, <1>2, HeadingIs
<1>7. h \in 1..Len(rows) /\ IsBankHeader(BankMap(rows[h])) BY <1>6 DEF BankHeads
<1>8. canHandle(rows[h])
  <2> DEFINE cards == {g \in DOMAIN rows : canHandle(rows[g])}
             banks == {g \in DOMAIN rows : IsBankHeader(BankMap(rows[g]))}
  <2>1. cards = banks BY Zenon DEF ReadAlike
  <2>2. h \in banks BY <1>1, <1>7
  <2>3. h \in cards BY <2>1, <2>2
  <2> QED BY <2>3
<1>9. h \in 1..(i - 1) BY <1>1, <1>2, <1>7
<1>10. h \in Heads(rows, i) BY <1>8, <1>9 DEF Heads
<1> QED BY <1>5, <1>10 DEF Replayed

CorrectionsOf(rows) == {Correction(rows, i) : i \in Replayed(rows)} \ {None}

LEMMA CorrectionKind ==
  ASSUME NEW rows \in Seq(Rows), ReadAlike(rows), NEW i \in Replayed(rows)
  PROVE  Correction(rows, i) \in Corrections \cup {None}
<1> DEFINE t == Filed(rows, i)
<1>1. Replays(rows, i) BY LineIsReplayed
<1>2. Now(rows, i) \in Ids \cup {None} BY NowIs
<1>3. CASE t = None BY <1>1, <1>3 DEF Replays
<1>4. CASE t # None
  <2>1. Id(t) \in Ids BY <1>1, <1>4, IdOf DEF Replays
  <2>2. [old |-> Id(t), new |-> Now(rows, i)] \in Corrections BY <1>2, <2>1 DEF Corrections
  <2> QED BY <1>1, <1>4, <2>2, Zenon DEF Replays
<1> QED BY <1>3, <1>4

LEMMA SheetCorrectionsAre ==
  ASSUME NEW rows \in Seq(Rows), ReadAlike(rows)
  PROVE  /\ SheetCorrections(rows) \in Seq(Corrections)
         /\ Elements(SheetCorrections(rows)) = CorrectionsOf(rows)
<1> DEFINE n == Len(rows)
           list == [i \in DOMAIN rows |-> IF canHandle(rows[i]) \/ Heads(rows, i) = {} THEN None
                                          ELSE Correction(rows, i)]
<1>1. n \in Nat /\ DOMAIN rows = 1..n BY RowsAreCells
<1>2. \A i \in 1..n : list[i] = IF i \in Replayed(rows) THEN Correction(rows, i) ELSE None
  BY <1>1 DEF Replayed
<1>3. SheetCorrections(rows) = Kept(list) BY Zenon DEF SheetCorrections
<1>4. list \in [1..n -> Corrections \cup {None}]
  <2>1. ASSUME NEW i \in 1..n PROVE list[i] \in Corrections \cup {None}
    <3>1. CASE i \in Replayed(rows)
      <4>1. Correction(rows, i) \in Corrections \cup {None} BY <3>1, CorrectionKind
      <4>2. list[i] = Correction(rows, i) BY <1>2, <3>1
      <4> HIDE DEF list
      <4> QED BY <4>1, <4>2, Zenon
    <3>2. CASE i \notin Replayed(rows)
      <4>1. list[i] = None BY <1>2, <3>2
      <4> QED BY <4>1
    <3> QED BY <3>1, <3>2
  <2>2. list = [i \in 1..n |-> list[i]] BY <1>1
  <2> HIDE DEF list, n
  <2> QED BY <2>1, <2>2
<1> HIDE DEF list
<1>5. None \notin Corrections BY RowsAssumption, Zenon
<1>6. /\ Kept(list) \in Seq(Corrections)
      /\ Elements(Kept(list)) = {list[i] : i \in 1..n} \ {None}
  <2> HIDE DEF n
  <2> QED BY <1>1, <1>4, <1>5, KeptIs
<1>7. {list[i] : i \in 1..n} \ {None} = CorrectionsOf(rows)
  <2>1. Replayed(rows) \subseteq 1..n BY DEF Replayed
  <2>2. ASSUME NEW x \in {list[i] : i \in 1..n} \ {None} PROVE x \in CorrectionsOf(rows)
    <3>1. PICK i \in 1..n : x = list[i] /\ x # None OBVIOUS
    <3>2. i \in Replayed(rows) /\ x = Correction(rows, i) BY <1>2, <3>1
    <3> QED BY <3>1, <3>2 DEF CorrectionsOf
  <2>3. ASSUME NEW x \in CorrectionsOf(rows) PROVE x \in {list[i] : i \in 1..n} \ {None}
    <3>1. PICK i \in Replayed(rows) : x = Correction(rows, i) /\ x # None BY DEF CorrectionsOf
    <3>2. i \in 1..n /\ x = list[i] BY <1>2, <2>1, <3>1
    <3> QED BY <3>1, <3>2
  <2> QED BY <2>2, <2>3
<1> QED BY <1>3, <1>6, <1>7

(* A report: its sheets, and an account that moves day by day.             *)
ReportsInv ==
  /\ book \in Seq(Seq(Rows)) /\ book # <<>>
  /\ ledger \in Seq(Days \X Amounts)
  /\ \A i, j \in DOMAIN ledger : i <= j => ledger[i][1] <= ledger[j][1]

LEMMA CorrectionsFound == ASSUME ReportsInv PROVE CorrectionsFindMisreadings
<1> SUFFICES ASSUME \A s \in DOMAIN book : ReadAlike(book[s]), NEW l \in Misread
             PROVE  LET id == Id(Filed(book[l[1]], l[2]))
                        corrections == legacyCardCorrections(book)
                    IN /\ id \in DOMAIN corrections
                       /\ \E o \in Misread : /\ Id(Filed(book[o[1]], o[2])) = id
                                             /\ corrections[id] = Now(book[o[1]], o[2])
  BY DEF CorrectionsFindMisreadings
<1> DEFINE n == Len(book)
           sheets == [s \in DOMAIN book |-> SheetCorrections(book[s])]
           list == FlattenSeq(sheets)
           id == Id(Filed(book[l[1]], l[2]))
           same == {j \in DOMAIN list : list[j].old = id}
           corrections == legacyCardCorrections(book)
<1>1. n \in Nat /\ DOMAIN book = 1..n BY LenProperties DEF ReportsInv
<1>2. \A s \in 1..n : book[s] \in Seq(Rows) /\ ReadAlike(book[s])
  BY <1>1, ElementOfSeq DEF ReportsInv
<1>3. sheets \in [1..n -> Seq(Corrections)]
      /\ \A s \in 1..n : Elements(sheets[s]) = CorrectionsOf(book[s])
  BY <1>1, <1>2, SheetCorrectionsAre
<1> HIDE DEF sheets
<1>4. list \in Seq(Corrections) /\ Elements(list) = UNION {Elements(sheets[s]) : s \in 1..n}
  <2> HIDE DEF n
  <2> QED BY <1>1, <1>3, FlattenMembers
<1>5. corrections = [old \in {list[j].old : j \in DOMAIN list} |->
                       list[Max({j \in DOMAIN list : list[j].old = old})].new]
  BY Zenon DEF legacyCardCorrections, sheets
<1> HIDE DEF list, corrections
<1>6. DOMAIN list = 1..Len(list) /\ Len(list) \in Nat BY <1>4, LenProperties
<1>7. /\ l[1] \in 1..n /\ l[2] \in DOMAIN book[l[1]]
      /\ Filed(book[l[1]], l[2]) # None /\ Filed(book[l[1]], l[2]).out = 0
  BY <1>1 DEF Misread
<1>8. l[2] \in Replayed(book[l[1]])
  <2>1. l[2] \in 1..Len(book[l[1]]) BY <1>2, <1>7, RowsAreCells
  <2> QED BY <1>2, <1>7, <2>1, FiledIsReplayed
<1>9. Correction(book[l[1]], l[2]) = [old |-> id, new |-> Now(book[l[1]], l[2])]
  <2>1. Replays(book[l[1]], l[2]) BY <1>2, <1>7, <1>8, LineIsReplayed
  <2>2. ~(Filed(book[l[1]], l[2]).out > 0)
    <3>1. ~(0 > 0) OBVIOUS
    <3> QED BY <1>7, <3>1
  <2> QED BY <1>7, <2>1, <2>2, Zenon DEF Replays
<1>10. Correction(book[l[1]], l[2]) # None
  <2>1. Now(book[l[1]], l[2]) \in Ids \cup {None} BY <1>2, <1>7, <1>8, NowIs
  <2>2. id \in Ids
    <3>1. Replays(book[l[1]], l[2]) BY <1>2, <1>7, <1>8, LineIsReplayed
    <3> QED BY <1>7, <3>1, IdOf DEF Replays
  <2> HIDE DEF id
  <2>3. Correction(book[l[1]], l[2]) \in Corrections BY <1>9, <2>1, <2>2 DEF Corrections
  <2> QED BY <2>3, RowsAssumption
<1>11. Correction(book[l[1]], l[2]) \in Elements(list)
  <2>1. Correction(book[l[1]], l[2]) \in CorrectionsOf(book[l[1]])
    BY <1>8, <1>10 DEF CorrectionsOf
  <2> QED BY <1>3, <1>4, <1>7, <2>1
<1>12. same # {} /\ same \in SUBSET (1..Len(list))
  <2>1. PICK j \in 1..Len(list) : list[j] = Correction(book[l[1]], l[2])
    BY <1>11 DEF Elements
  <2>2. list[j].old = id
    <3> HIDE DEF id
    <3> QED BY <1>9, <2>1
  <2> HIDE DEF id
  <2> QED BY <1>6, <2>1, <2>2
<1> DEFINE top == Max(same)
<1>13. top \in same
  <2> HIDE DEF same
  <2> QED BY <1>6, <1>12, MaxIn
<1> HIDE DEF top
<1>14. top \in 1..Len(list) /\ list[top].old = id /\ list[top] \in Elements(list)
  BY <1>6, <1>13 DEF Elements
<1>15. id \in DOMAIN corrections /\ corrections[id] = list[top].new
  <2>1. id \in {list[j].old : j \in DOMAIN list} BY <1>6, <1>14
  <2> HIDE DEF id
  <2> QED BY <1>5, <2>1 DEF top, same
<1>16. PICK s \in 1..n : list[top] \in CorrectionsOf(book[s]) BY <1>3, <1>4, <1>14
<1>17. PICK i \in Replayed(book[s]) : list[top] = Correction(book[s], i) /\ list[top] # None
  BY <1>16 DEF CorrectionsOf
<1> DEFINE t == Filed(book[s], i)
           o == <<s, i>>
<1>18. Replays(book[s], i) BY <1>2, LineIsReplayed
<1>19. t # None /\ ~(t.out > 0) /\ list[top] = [old |-> Id(t), new |-> Now(book[s], i)]
  <2>1. t # None BY <1>17, <1>18, Zenon DEF Replays
  <2>2. ~(t.out > 0) BY <1>17, <1>18, <2>1, Zenon DEF Replays
  <2> QED BY <1>17, <1>18, <2>1, <2>2, Zenon DEF Replays
<1>20. t.in > 0 /\ t.out = 0
  <2>1. t \in Transactions /\ (t.out # 0 \/ t.in # 0) BY <1>18, <1>19, Zenon DEF Replays
  <2>2. t.out \in Nat /\ t.in \in Nat BY <2>1 DEF Transactions
  <2> QED BY <1>19, <2>1, <2>2
<1>21. o \in Misread
  <2>1. s \in DOMAIN book /\ i \in DOMAIN book[s]
    <3>1. i \in 1..Len(book[s]) BY DEF Replayed
    <3> QED BY <1>1, <1>2, <3>1, RowsAreCells
  <2> QED BY <1>19, <1>20, <2>1 DEF Misread
<1>22. Id(Filed(book[o[1]], o[2])) = id /\ corrections[id] = Now(book[o[1]], o[2])
  <2>1. o[1] = s /\ o[2] = i OBVIOUS
  <2>2. list[top].old = Id(t) /\ list[top].new = Now(book[s], i) BY <1>19
  <2> HIDE DEF o, id
  <2> QED BY <1>14, <1>15, <2>1, <2>2
<1> HIDE DEF o
<1>23. \E x \in Misread : /\ Id(Filed(book[x[1]], x[2])) = id
                          /\ corrections[id] = Now(book[x[1]], x[2])
  BY <1>21, <1>22
<1> QED BY <1>15, <1>23 DEF corrections

(* An account, as its statement shows it.                                  *)
Moved(i) == [j \in 1..i |-> ledger[j][2]]

LEMMA BalanceIsSum == ASSUME NEW i PROVE Balance(i) = SumOf(Moved(i))
<1> DEFINE
  moves(g) == [T \in SUBSET (1..i) |->
                 IF T = {} THEN 0 ELSE ledger[Chosen(T)][2] + g[T \ {Chosen(T)}]]
  sums(g) == [T \in SUBSET (1..i) |->
                IF T = {} THEN 0 ELSE Moved(i)[Chosen(T)] + g[T \ {Chosen(T)}]]
  ofMoves == CHOOSE g : g = moves(g)
  ofSums == CHOOSE g : g = sums(g)
<1>1. Balance(i) = ofMoves[1..i] BY Zenon DEF Balance, MapThenSumSet, MapThenFoldSet, Chosen
<1>2. DOMAIN Moved(i) = 1..i BY DEF Moved
<1>3. SumOf(Moved(i)) = ofSums[1..i] BY Zenon, <1>2 DEF SumOf, Chosen
<1>4. \A g : moves(g) = sums(g) BY AnyIn DEF Moved
<1>5. ofMoves = ofSums
  <2> HIDE DEF moves, sums
  <2> QED BY <1>4, Zenon
<1> HIDE DEF ofMoves, ofSums
<1> QED BY <1>1, <1>3, <1>5, Zenon

LEMMA LedgerIs ==
  ASSUME ReportsInv, NEW i \in DOMAIN ledger
  PROVE  /\ Len(ledger) \in Nat /\ i \in 1..Len(ledger)
         /\ ledger[i][1] \in Int /\ ledger[i][2] \in Int \ {0} /\ Balance(i) \in Int
<1>1. Days \subseteq Int /\ Amounts \subseteq Int \ {0} BY ReportsAssumption, Zenon
<1>2. Len(ledger) \in Nat /\ DOMAIN ledger = 1..Len(ledger) BY LenProperties DEF ReportsInv
<1>3. \A j \in 1..Len(ledger) : ledger[j] \in Days \X Amounts BY ElementOfSeq DEF ReportsInv
<1>4. \A j \in 1..Len(ledger) : ledger[j][1] \in Int /\ ledger[j][2] \in Int \ {0}
  <2> SUFFICES ASSUME NEW j \in 1..Len(ledger)
               PROVE  ledger[j][1] \in Int /\ ledger[j][2] \in Int \ {0}
    OBVIOUS
  <2>1. ledger[j][1] \in Days /\ ledger[j][2] \in Amounts BY <1>3
  <2> QED BY <1>1, <2>1
<1>5. Balance(i) \in Int
  <2>1. Moved(i) \in [1..i -> Int]
    <3>1. \A j \in 1..i : j \in 1..Len(ledger) BY <1>2
    <3> QED BY <1>4, <3>1 DEF Moved
  <2>2. IsFiniteSet(1..i)
    <3>1. i \in Int BY <1>2
    <3> QED BY <3>1, FS_Interval
  <2>3. PICK g \in [SUBSET (1..i) -> Int] : Sums(1..i, Moved(i), g) /\ SumOf(Moved(i)) = g[1..i]
    BY <2>1, <2>2, SumsExist
  <2>4. g[1..i] \in Int OBVIOUS
  <2> QED BY <2>3, <2>4, BalanceIsSum
<1> QED BY <1>2, <1>4, <1>5

(* The columns of a statement are found by the keys of its heading.        *)
Names(m, layout) ==
  \A k \in BankKeys :
    /\ m[k] # 0 => m[k] \in DOMAIN layout /\ BankKey[layout[m[k]]] = k
    /\ (\E c \in DOMAIN layout : BankKey[layout[c]] = k) => m[k] # 0

LEMMA LayoutIsNamed == ASSUME NEW layout \in Layouts PROVE Names(BankMap(Texts(layout)), layout)
<1> DEFINE row == Texts(layout)
           m == BankMap(row)
<1>1. layout \in Seq(Words) BY ReportsAssumption
<1>2. /\ row \in Seq(Cell) /\ Len(row) = Len(layout)
      /\ DOMAIN layout = 1..Len(layout) /\ Len(layout) \in Nat
      /\ \A c \in DOMAIN layout : row[c] = <<"s", layout[c]>>
  BY <1>1, TextsAreCells, LenProperties
<1> HIDE DEF row
<1>3. ASSUME NEW k \in BankKeys
      PROVE  /\ m[k] # 0 => m[k] \in DOMAIN layout /\ BankKey[layout[m[k]]] = k
             /\ (\E c \in DOMAIN layout : BankKey[layout[c]] = k) => m[k] # 0
  <2>1. /\ m[k] \in 0..Len(row) /\ (Columns(row, k) = {} => m[k] = 0)
        /\ Columns(row, k) # {} => m[k] \in Columns(row, k)
    BY <1>2, BankMapIs
  <2>2. Columns(row, k) = {c \in DOMAIN layout : BankKey[layout[c]] = k}
    BY <1>2 DEF Columns
  <2> HIDE DEF m
  <2>3. 0 \notin DOMAIN layout BY <1>2
  <2> QED BY <2>1, <2>2, <2>3
<1> QED BY <1>3 DEF Names, row, m

LEMMA LayoutShows ==
  ASSUME NEW layout \in Layouts, NEW m, Names(m, layout)
  PROVE  /\ m["date"] # 0 /\ m["desc"] # 0 /\ m["bal"] # 0
         /\ m["amt"] # 0 \/ (m["out"] # 0 /\ m["in"] # 0)
         /\ \A c \in DOMAIN layout :
              BankKey[layout[c]] \in {"date", "desc", "out", "in", "amt", "bal"}
<1> DEFINE keys == {BankKey[layout[c]] : c \in DOMAIN layout}
<1>1. /\ {"date", "desc", "bal"} \subseteq keys
      /\ keys \subseteq {"date", "desc", "out", "in", "amt", "bal"}
      /\ "amt" \in keys \/ {"out", "in"} \subseteq keys
  BY RowsAssumption, Zenon
<1>2. \A k \in BankKeys : k \in keys => m[k] # 0 BY DEF Names
<1>3. \A c \in DOMAIN layout : BankKey[layout[c]] \in keys OBVIOUS
<1> HIDE DEF keys
<1>4. {"date", "desc", "out", "in", "amt", "bal"} \subseteq BankKeys BY DEF BankKeys
<1> QED BY <1>1, <1>2, <1>3, <1>4

(* Whichever columns show a movement, it is read as what it was.           *)
LEMMA EitherColumns ==
  ASSUME NEW a \in Int \ {0}, NEW out \in {0, Least(-a)}, NEW in \in {0, Least(a)},
         NEW shown \in BOOLEAN, shown \/ (out = Least(-a) /\ in = Least(a)),
         NEW o, NEW i,
         o = IF shown /\ out = 0 /\ in = 0 THEN Least(-a) ELSE out,
         i = IF shown /\ out = 0 /\ in = 0 THEN Least(a) ELSE in
  PROVE  o \in Nat /\ i \in Nat /\ i - o = a /\ ~(o = 0 /\ i = 0)
<1>1. -a \in Int OBVIOUS
<1>2. Least(a) = (IF a > 0 THEN a ELSE 0) /\ Least(-a) = IF -a > 0 THEN -a ELSE 0
  BY <1>1, LeastIsNat
<1>3. CASE a > 0
  <2>1. Least(a) = a /\ Least(-a) = 0 BY <1>2, <1>3
  <2> QED BY <1>3, <2>1
<1>4. CASE ~(a > 0)
  <2>1. Least(a) = 0 /\ Least(-a) = -a /\ -a > 0 BY <1>2, <1>4
  <2> QED BY <1>4, <2>1
<1> QED BY <1>3, <1>4

StatementRow(layout, i) == [c \in DOMAIN layout |-> StatementCell(layout[c], i)]
Shows(t, i) ==
  /\ t \in Transactions /\ t.date = ledger[i][1] /\ t.in - t.out = ledger[i][2]
  /\ t.bal = IF Balance(i) = 0 THEN None ELSE Balance(i)

LEMMA StatementRowIsCells ==
  ASSUME ReportsInv, NEW layout \in Layouts, NEW i \in DOMAIN ledger
  PROVE  StatementRow(layout, i) \in Seq(Cell)
<1>1. /\ ledger[i][1] \in Int /\ ledger[i][2] \in Int /\ Balance(i) \in Int BY LedgerIs
<1>2. layout \in Seq(Words) BY ReportsAssumption
<1>3. Len(layout) \in Nat /\ DOMAIN layout = 1..Len(layout) BY <1>2, LenProperties
<1>4. ASSUME NEW c \in DOMAIN layout PROVE StatementCell(layout[c], i) \in Cell
  <2>1. BankKey[layout[c]] \in {"date", "desc", "out", "in", "amt", "bal"}
    BY LayoutShows, LayoutIsNamed
  <2>2. /\ <<"d", ledger[i][1]>> \in Cell /\ <<"n", ledger[i][2]>> \in Cell
        /\ <<"n", -ledger[i][2]>> \in Cell /\ <<"n", Balance(i)>> \in Cell /\ Blank \in Cell
    <3>1. -ledger[i][2] \in Int BY <1>1
    <3> QED BY <1>1, <3>1 DEF Cell
  <2>3. <<"s", "words">> \in Cell
    <3>1. "words" \in Words BY ReportsAssumption, Zenon
    <3> QED BY <3>1 DEF Cell
  <2> QED BY <2>1, <2>2, <2>3 DEF StatementCell
<1>5. StatementRow(layout, i) \in [1..Len(layout) -> Cell] BY <1>3, <1>4 DEF StatementRow
<1> QED BY <1>3, <1>5

LEMMA StatementRowShows ==
  ASSUME ReportsInv, NEW layout \in Layouts, NEW i \in DOMAIN ledger
  PROVE  Shows(BankRow(BankMap(Texts(layout)), StatementRow(layout, i), "bank"), i)
<1> DEFINE m == BankMap(Texts(layout))
           row == StatementRow(layout, i)
           a == ledger[i][2]
           number(k) == BankNumber(At(row, m[k]))
           apart(k) == IF m[k] = 0 THEN 0 ELSE Max({number(k), -number(k)})
           out == apart("out")
           in == apart("in")
           lone == m.amt # 0 /\ out = 0 /\ in = 0
           spent == -number("amt")
           t == [date |-> DateOf(At(row, m.date)), ref |-> At(row, m.ref),
                 desc |-> At(row, m.desc),
                 out  |-> IF lone THEN Least(spent) ELSE out,
                 in   |-> IF lone THEN Least(-spent) ELSE in,
                 bal  |-> IF m.bal = 0 \/ number("bal") = 0 THEN None ELSE number("bal")]
<1>1. /\ ledger[i][1] \in Int /\ a \in Int \ {0} /\ Balance(i) \in Int BY LedgerIs
<1>2. row \in Seq(Cell) BY StatementRowIsCells
<1>3. Names(m, layout) BY LayoutIsNamed
<1>4. m \in [BankKeys -> {m[k] : k \in BankKeys}] BY DEF BankMap
<1>5. BankRow(m, row, "bank") = IF t.date = None \/ (t.out = 0 /\ t.in = 0) THEN None ELSE t
  BY DEF BankRow
<1> HIDE DEF m
<1>7. /\ m["date"] # 0 /\ m["bal"] # 0
      /\ m["amt"] # 0 \/ (m["out"] # 0 /\ m["in"] # 0)
  BY <1>3, LayoutShows
<1>8. \A k \in BankKeys : m[k] # 0 =>
        At(row, m[k]) = StatementCell(layout[m[k]], i) /\ BankKey[layout[m[k]]] = k
  BY <1>3 DEF Names, At, StatementRow
<1>9. {"date", "out", "in", "amt", "bal"} \subseteq BankKeys BY DEF BankKeys
<1> HIDE DEF row
<1>10. At(row, m["date"]) = <<"d", ledger[i][1]>>
  BY <1>7, <1>8, <1>9 DEF StatementCell
<1>11. At(row, m["bal"]) = <<"n", Balance(i)>> BY <1>7, <1>8, <1>9 DEF StatementCell
<1>12. m["amt"] # 0 => At(row, m["amt"]) = <<"n", a>> BY <1>8, <1>9 DEF StatementCell
<1>13. m["out"] # 0 => At(row, m["out"]) = IF -a > 0 THEN <<"n", -a>> ELSE Blank
  BY <1>8, <1>9 DEF StatementCell
<1>14. m["in"] # 0 => At(row, m["in"]) = IF a > 0 THEN <<"n", a>> ELSE Blank
  BY <1>8, <1>9 DEF StatementCell
<1> HIDE DEF a
<1>15. -a \in Int BY <1>1
<1>16. \A n \in Int : BankNumber(<<"n", n>>) = n BY DEF BankNumber
<1>17. BankNumber(Blank) = 0 BY DEF BankNumber, Blank
<1>18. m["amt"] # 0 => number("amt") = a BY <1>1, <1>12, <1>16
<1>19. m["out"] # 0 => number("out") = Least(-a) BY <1>13, <1>15, <1>16, <1>17, LeastIsNat
<1>20. m["in"] # 0 => number("in") = Least(a) BY <1>1, <1>14, <1>16, <1>17, LeastIsNat
<1>21. number("bal") = Balance(i) BY <1>1, <1>11, <1>16
<1> HIDE DEF number
<1>22. \A n \in Nat : Max({n, -n}) = n BY Magnitude
<1>23. Least(a) \in Nat /\ Least(-a) \in Nat BY <1>1, <1>15, LeastIsNat
<1>24. out = IF m["out"] = 0 THEN 0 ELSE Least(-a) BY <1>19, <1>22, <1>23
<1>25. in = IF m["in"] = 0 THEN 0 ELSE Least(a) BY <1>20, <1>22, <1>23
<1> HIDE DEF apart
<1>26. /\ t.out = IF m["amt"] # 0 /\ out = 0 /\ in = 0 THEN Least(-a) ELSE out
       /\ t.in = IF m["amt"] # 0 /\ out = 0 /\ in = 0 THEN Least(a) ELSE in
  <2>1. m["amt"] # 0 => spent = -a /\ -spent = a BY <1>1, <1>18
  <2> HIDE DEF spent
  <2>2. m.amt = m["amt"] BY <1>4
  <2> QED BY <2>1, <2>2
<1>27. /\ t.date = ledger[i][1] /\ t.bal = IF Balance(i) = 0 THEN None ELSE Balance(i)
  <2>1. m.date = m["date"] /\ m.bal = m["bal"] BY <1>4
  <2>2. DateOf(<<"d", ledger[i][1]>>) = ledger[i][1] BY DEF DateOf
  <2>3. DateOf(At(row, m.date)) = ledger[i][1] BY <1>10, <2>1, <2>2, Zenon
  <2>4. (IF m.bal = 0 \/ number("bal") = 0 THEN None ELSE number("bal"))
          = IF Balance(i) = 0 THEN None ELSE Balance(i)
    BY <1>7, <1>21, <2>1, Zenon
  <2> QED BY <2>3, <2>4
<1>28. t.out \in Nat /\ t.in \in Nat /\ t.in - t.out = a /\ ~(t.out = 0 /\ t.in = 0)
  <2> DEFINE shown == m["amt"] # 0
  <2> HIDE DEF t, out, in
  <2>1. shown \in BOOLEAN /\ out \in {0, Least(-a)} /\ in \in {0, Least(a)}
        /\ (shown \/ (out = Least(-a) /\ in = Least(a)))
    BY <1>7, <1>24, <1>25
  <2>2. /\ t.out = IF shown /\ out = 0 /\ in = 0 THEN Least(-a) ELSE out
        /\ t.in = IF shown /\ out = 0 /\ in = 0 THEN Least(a) ELSE in
    BY <1>26
  <2> HIDE DEF shown
  <2> QED BY <1>1, <2>1, <2>2, EitherColumns
<1>29. /\ t = [date |-> t.date, ref |-> t.ref, desc |-> t.desc, out |-> t.out, in |-> t.in,
               bal |-> t.bal]
       /\ t.ref \in Cell /\ t.desc \in Cell
  <2>1. At(row, m.ref) \in Cell /\ At(row, m.desc) \in Cell BY <1>2, CellAt
  <2> QED BY <2>1
<1> HIDE DEF t
<1>30. t \in Transactions BY <1>1, <1>27, <1>28, <1>29 DEF Transactions
<1>31. t.date # None
  <2>1. None \notin Int BY RowsAssumption
  <2> QED BY <1>1, <1>27, <2>1
<1>32. BankRow(m, row, "bank") = t BY <1>5, <1>28, <1>31
<1> QED BY <1>27, <1>28, <1>30, <1>32 DEF Shows, m, row, a

StatementRows(layout, newestFirst) ==
  LET rows == [i \in DOMAIN ledger |-> StatementRow(layout, i)]
  IN IF newestFirst THEN Reverse(rows) ELSE rows
Booked(newestFirst, i) == IF newestFirst THEN Len(ledger) + 1 - i ELSE i

LEMMA StatementIs ==
  ASSUME ReportsInv, NEW layout \in Layouts, NEW newestFirst \in BOOLEAN
  PROVE  LET st == Statement(layout, newestFirst)
         IN /\ st \in Seq(Seq(Cell)) /\ Len(st) = Len(ledger) + 1 /\ st[1] = Texts(layout)
            /\ \A i \in 1..Len(ledger) :
                 st[1 + i] = StatementRow(layout, Booked(newestFirst, i))
<1> DEFINE rows == [i \in DOMAIN ledger |-> StatementRow(layout, i)]
           shown == StatementRows(layout, newestFirst)
           st == Statement(layout, newestFirst)
           n == Len(ledger)
<1>1. n \in Nat /\ DOMAIN ledger = 1..n BY LenProperties DEF ReportsInv
<1>2. \A i \in 1..n : StatementRow(layout, i) \in Seq(Cell) BY <1>1, StatementRowIsCells
<1>3. rows \in [1..n -> Seq(Cell)] /\ \A i \in 1..n : rows[i] = StatementRow(layout, i)
  BY <1>1, <1>2
<1>4. shown = IF newestFirst THEN Reverse(rows) ELSE rows BY DEF StatementRows
<1>5. st = <<Texts(layout)>> \o shown BY Zenon DEF Statement, StatementRows, StatementRow
<1> HIDE DEF rows, n
<1>6. shown \in [1..n -> Seq(Cell)]
      /\ \A i \in 1..n : shown[i] = StatementRow(layout, Booked(newestFirst, i))
  <2>1. CASE newestFirst
    <3>1. Len(rows) = n BY <1>1, <1>3
    <3>2. shown = [i \in 1..n |-> rows[(n - i) + 1]] BY <1>4, <2>1, <3>1 DEF Reverse
    <3>3. \A i \in 1..n : (n - i) + 1 \in 1..n /\ (n - i) + 1 = n + 1 - i BY <1>1
    <3>4. \A i \in 1..n : Booked(newestFirst, i) = n + 1 - i BY <2>1 DEF Booked, n
    <3> HIDE DEF shown
    <3> QED BY <1>3, <3>2, <3>3, <3>4
  <2>2. CASE ~newestFirst BY <1>3, <1>4, <2>2 DEF Booked
  <2> QED BY <2>1, <2>2
<1> HIDE DEF shown, st
<1>7. Texts(layout) \in Seq(Cell)
  <2>1. layout \in Seq(Words) BY ReportsAssumption
  <2> QED BY <2>1, TextsAreCells
<1> DEFINE head == <<Texts(layout)>>
<1>8. head \in Seq(Seq(Cell)) /\ Len(head) = 1 /\ head[1] = Texts(layout) BY <1>7
<1>9. shown \in Seq(Seq(Cell)) /\ Len(shown) = n BY <1>1, <1>6
<1> HIDE DEF head
<1>10. /\ head \o shown \in Seq(Seq(Cell)) /\ Len(head \o shown) = 1 + n
       /\ \A i \in 1..(1 + n) : (head \o shown)[i] = IF i <= 1 THEN head[i] ELSE shown[i - 1]
  <2>1. /\ head \o shown \in Seq(Seq(Cell)) /\ Len(head \o shown) = Len(head) + Len(shown)
        /\ \A i \in 1..(Len(head) + Len(shown)) :
             (head \o shown)[i] = IF i <= Len(head) THEN head[i] ELSE shown[i - Len(head)]
    BY <1>8, <1>9, ConcatProperties
  <2> QED BY <1>8, <1>9, <2>1, Zenon
<1>11. st = head \o shown BY <1>5 DEF head
<1>12. st[1] = Texts(layout)
  <2>1. 1 \in 1..(1 + n) /\ 1 <= 1 BY <1>1
  <2> QED BY <1>8, <1>10, <1>11, <2>1, Zenon
<1>13. ASSUME NEW i \in 1..n PROVE st[1 + i] = StatementRow(layout, Booked(newestFirst, i))
  <2>1. 1 + i \in 1..(1 + n) /\ ~(1 + i <= 1) /\ (1 + i) - 1 = i BY <1>1
  <2>2. st[1 + i] = shown[i] BY <1>10, <1>11, <2>1, Zenon
  <2> QED BY <1>6, <2>2
<1>14. st \in Seq(Seq(Cell)) /\ Len(st) = n + 1 BY <1>1, <1>10, <1>11
<1> QED BY <1>12, <1>13, <1>14 DEF st, n

LEMMA StatementIsRead ==
  ASSUME ReportsInv, NEW layout \in Layouts, NEW newestFirst \in BOOLEAN
  PROVE  LET m == BankMap(Texts(layout))
             list == [i \in 1..Len(ledger) |->
                        BankRow(m, StatementRow(layout, Booked(newestFirst, i)), "bank")]
         IN ReadReport(<<Statement(layout, newestFirst)>>, "bank") = orientNewestFirst(list)
<1> DEFINE m == BankMap(Texts(layout))
           list == [i \in 1..Len(ledger) |->
                      BankRow(m, StatementRow(layout, Booked(newestFirst, i)), "bank")]
           st == Statement(layout, newestFirst)
           n == Len(ledger)
<1>1. n \in Nat /\ DOMAIN ledger = 1..n BY LenProperties DEF ReportsInv
<1>2. /\ st \in Seq(Seq(Cell)) /\ Len(st) = n + 1 /\ st[1] = Texts(layout)
      /\ \A i \in 1..n : st[1 + i] = StatementRow(layout, Booked(newestFirst, i))
  BY StatementIs
<1>3. Names(m, layout) BY LayoutIsNamed
<1>4. m \in [BankKeys -> {m[k] : k \in BankKeys}] BY DEF BankMap
<1>5. list \in [1..n -> Transactions]
  <2> HIDE DEF m
  <2>1. ASSUME NEW i \in 1..n
        PROVE  BankRow(m, StatementRow(layout, Booked(newestFirst, i)), "bank") \in Transactions
    <3>1. Booked(newestFirst, i) \in DOMAIN ledger BY <1>1 DEF Booked
    <3>2. Shows(BankRow(m, StatementRow(layout, Booked(newestFirst, i)), "bank"),
                Booked(newestFirst, i))
      BY <3>1, StatementRowShows DEF m
    <3> QED BY <3>2 DEF Shows
  <2> QED BY <2>1
<1>6. list \in Seq(Transactions) BY <1>1, <1>5
<1> HIDE DEF m, st, n
<1>7. /\ m.date # 0 /\ m.desc # 0 /\ m.bal # 0 /\ IsBankHeader(m)
  <2>1. /\ m["date"] # 0 /\ m["desc"] # 0 /\ m["bal"] # 0
        /\ m["amt"] # 0 \/ (m["out"] # 0 /\ m["in"] # 0)
    BY <1>3, LayoutShows
  <2>2. m.date = m["date"] /\ m.desc = m["desc"] /\ m.bal = m["bal"] /\ m.amt = m["amt"]
        /\ m.out = m["out"]
    BY <1>4
  <2> QED BY <2>1, <2>2 DEF IsBankHeader
<1>8. findHeader(st) = 1
  <2>1. 1 \in BankHeads(st)
    <3>1. HeadRows \in Nat \ {0} BY ReportsAssumption, Zenon
    <3>2. 1 \in 1..Len(st) /\ 1 <= HeadRows BY <1>1, <1>2, <3>1
    <3>3. IsBankHeader(BankMap(st[1])) BY <1>2, <1>7 DEF m
    <3> QED BY <3>2, <3>3, Zenon DEF BankHeads
  <2>2. findHeader(st) \in BankHeads(st) /\ findHeader(st) <= 1 BY <1>2, <2>1, HeadingIs
  <2> QED BY <2>2 DEF BankHeads
<1>9. ~readsAsCardReport(<<st>>)
  <2> DEFINE sheets == <<st>>
             headed == {s \in DOMAIN sheets : findHeader(sheets[s]) # 0}
  <2>1. sheets[1] = st /\ 1 \in DOMAIN sheets OBVIOUS
  <2>2. 1 \in headed BY <1>8, <2>1
  <2>3. BankMap(sheets[1][findHeader(sheets[1])]) = m BY <1>2, <1>8, <2>1 DEF m
  <2> HIDE DEF sheets
  <2>4. readsAsCardReport(sheets)
          => \A s \in headed : BankMap(sheets[s][findHeader(sheets[s])]).bal = 0
    BY Zenon DEF readsAsCardReport
  <2> HIDE DEF headed
  <2>5. ~readsAsCardReport(sheets) BY <1>7, <2>2, <2>3, <2>4
  <2> QED BY <2>5 DEF sheets
<1>10. ReadReport(<<st>>, "bank") = BankImport(<<st>>, "bank")
  <2>1. ~("bank" = "card") OBVIOUS
  <2> QED BY <1>9, <2>1, Zenon DEF ReadReport
<1>11. BankImport(<<st>>, "bank") = FlattenSeq(<<BankSheet(st, "bank")>>)
  <2>1. [s \in DOMAIN <<st>> |-> BankSheet(<<st>>[s], "bank")] = <<BankSheet(st, "bank")>>
    OBVIOUS
  <2> QED BY <2>1, Zenon DEF BankImport
<1>12. [i \in 1..(Len(st) - findHeader(st)) |->
          BankRow(BankMap(st[findHeader(st)]), st[findHeader(st) + i], "bank")] = list
  <2>1. Len(st) - findHeader(st) = n BY <1>1, <1>2, <1>8
  <2>2. BankMap(st[findHeader(st)]) = m BY <1>2, <1>8 DEF m
  <2>3. \A i \in 1..n : st[findHeader(st) + i] = StatementRow(layout, Booked(newestFirst, i))
    BY <1>2, <1>8
  <2>4. [i \in 1..n |-> BankRow(m, st[findHeader(st) + i], "bank")] = list BY <2>3 DEF n
  <2> HIDE DEF list
  <2> QED BY <2>1, <2>2, <2>4, Zenon
<1> HIDE DEF list
<1>13. Kept(list) = list
  <2>1. None \notin Transactions BY RowsAssumption, Zenon
  <2> QED BY <1>1, <1>5, <2>1, KeptAll
<1>14. BankSheet(st, "bank") = orientNewestFirst(list)
  <2>1. findHeader(st) # 0 BY <1>8
  <2>2. BankMap(st[findHeader(st)]).bal # 0 BY <1>2, <1>7, <1>8 DEF m
  <2>3. BankSheet(st, "bank") = orientNewestFirst(Kept(list))
    BY <1>12, <2>1, <2>2, Zenon DEF BankSheet
  <2> QED BY <1>13, <2>3, Zenon
<1>15. orientNewestFirst(list) \in Seq(Transactions)
  <2>1. Len(list) = n BY <1>1, <1>5
  <2>2. Reverse(list) = [i \in 1..n |-> list[(n - i) + 1]] BY <2>1 DEF Reverse
  <2>3. \A i \in 1..n : (n - i) + 1 \in 1..n BY <1>1
  <2>4. Reverse(list) \in [1..n -> Transactions] BY <1>5, <2>2, <2>3
  <2>5. Reverse(list) \in Seq(Transactions) BY <1>1, <2>4
  <2> QED BY <1>6, <2>5 DEF orientNewestFirst
<1>16. FlattenSeq(<<orientNewestFirst(list)>>) = orientNewestFirst(list) BY <1>15, FlattenOne
<1>17. ReadReport(<<st>>, "bank") = orientNewestFirst(list)
  BY <1>10, <1>11, <1>14, <1>16, Zenon
<1> QED BY <1>17 DEF st, list, m

LEMMA ClosingBalanceShown == ASSUME ReportsInv PROVE ClosingBalanceFirst
<1> SUFFICES ASSUME NEW layout \in Layouts, NEW newestFirst \in BOOLEAN,
                    ledger # <<>>, ledger[1][1] # ledger[Len(ledger)][1]
             PROVE  LET rows == ReadReport(<<Statement(layout, newestFirst)>>, "bank")
                        last == Len(ledger)
                    IN /\ Len(rows) = last
                       /\ \A k \in 1..last : LET m == ledger[last + 1 - k] IN
                            /\ rows[k].date = m[1] /\ rows[k].in - rows[k].out = m[2]
                            /\ rows[k].bal = IF Balance(last + 1 - k) = 0 THEN None
                                             ELSE Balance(last + 1 - k)
  BY DEF ClosingBalanceFirst
<1> DEFINE n == Len(ledger)
           list == [i \in 1..Len(ledger) |->
                      BankRow(BankMap(Texts(layout)),
                              StatementRow(layout, Booked(newestFirst, i)), "bank")]
           rows == ReadReport(<<Statement(layout, newestFirst)>>, "bank")
<1>1. n \in Nat /\ DOMAIN ledger = 1..n /\ n # 0
  <2>1. ledger \in Seq(Days \X Amounts) BY DEF ReportsInv
  <2> QED BY <2>1, LenProperties, EmptySeq
<1>2. rows = orientNewestFirst(list) BY StatementIsRead
<1>3. \A i \in 1..n : ledger[i][1] \in Int BY <1>1, LedgerIs
<1>4. ledger[1][1] < ledger[n][1]
  <2>1. 1 \in 1..n /\ n \in 1..n /\ 1 <= n BY <1>1
  <2>2. ledger[1][1] <= ledger[n][1] BY <1>1, <2>1 DEF ReportsInv
  <2> QED BY <1>3, <2>1, <2>2
<1>5. \A i \in 1..n : Booked(newestFirst, i) \in 1..n BY <1>1 DEF Booked
<1>6. ASSUME NEW i \in 1..n PROVE Shows(list[i], Booked(newestFirst, i))
  BY <1>1, <1>5, StatementRowShows
<1>7. DOMAIN list = 1..n /\ Len(list) = n BY <1>1
<1> HIDE DEF n, list
<1>8. list # <<>> BY <1>1, <1>7
<1>9. 1 \in 1..n /\ n \in 1..n BY <1>1
<1>10. list[1].date = ledger[Booked(newestFirst, 1)][1]
       /\ Last(list).date = ledger[Booked(newestFirst, n)][1]
  BY <1>6, <1>7, <1>9 DEF Shows, Last
<1>11. Len(rows) = n /\ \A k \in 1..n : Shows(rows[k], n + 1 - k)
  <2>1. CASE newestFirst
    <3>1. \A i \in 1..n : Booked(newestFirst, i) = n + 1 - i BY <2>1 DEF Booked, n
    <3>2. n + 1 - 1 = n /\ n + 1 - n = 1 BY <1>1
    <3>3. list[1].date = ledger[n][1] /\ Last(list).date = ledger[1][1]
      BY <1>9, <1>10, <3>1, <3>2
    <3>4. ~(list[1].date < Last(list).date) BY <1>3, <1>4, <1>9, <3>3
    <3>5. rows = list BY <1>2, <3>4 DEF orientNewestFirst
    <3> QED BY <1>6, <1>7, <3>1, <3>5
  <2>2. CASE ~newestFirst
    <3>1. \A i \in 1..n : Booked(newestFirst, i) = i BY <2>2 DEF Booked
    <3>2. list[1].date < Last(list).date BY <1>4, <1>9, <1>10, <3>1
    <3>3. rows = Reverse(list) BY <1>2, <1>8, <3>2 DEF orientNewestFirst
    <3>4. rows = [i \in 1..n |-> list[(n - i) + 1]] BY <1>7, <3>3 DEF Reverse
    <3>5. \A k \in 1..n : (n - k) + 1 \in 1..n /\ (n - k) + 1 = n + 1 - k BY <1>1
    <3> HIDE DEF rows
    <3>6. Len(rows) = n BY <1>1, <3>4
    <3>7. ASSUME NEW k \in 1..n PROVE Shows(rows[k], n + 1 - k)
      <4>1. rows[k] = list[n + 1 - k] /\ n + 1 - k \in 1..n BY <3>4, <3>5
      <4>2. Shows(list[n + 1 - k], n + 1 - k) BY <1>6, <3>1, <4>1
      <4> QED BY <4>1, <4>2
    <3> QED BY <3>6, <3>7
  <2> QED BY <2>1, <2>2
<1> HIDE DEF rows
<1>12. ASSUME NEW k \in 1..n
       PROVE  /\ rows[k].date = ledger[n + 1 - k][1]
              /\ rows[k].in - rows[k].out = ledger[n + 1 - k][2]
              /\ rows[k].bal = IF Balance(n + 1 - k) = 0 THEN None ELSE Balance(n + 1 - k)
  BY <1>11, Zenon DEF Shows
<1> QED BY <1>11, <1>12 DEF rows, n

(* What an issuer and a bank may do to the files.                          *)
LEMMA ReportsStart == ASSUME ReportsInit PROVE ReportsInv
BY EmptySeq DEF ReportsInit, ReportsInv

LEMMA RowKeepsReports ==
  ASSUME ReportsInv, NEW row \in Rows, AddRow(row) PROVE ReportsInv'
<1> DEFINE n == Len(book)
<1>1. n \in Nat /\ DOMAIN book = 1..n BY LenProperties DEF ReportsInv
<1>2. \A s \in 1..n : book[s] \in Seq(Rows) BY <1>1, ElementOfSeq DEF ReportsInv
<1>3. book' = [book EXCEPT ![n] = Append(book[n], row)] /\ ledger' = ledger
  BY <1>1 DEF AddRow
<1>4. n \in 1..n
  <2>1. book \in Seq(Seq(Rows)) /\ book # <<>> BY DEF ReportsInv
  <2> QED BY <1>1, <2>1, EmptySeq
<1>5. Append(book[n], row) \in Seq(Rows) BY <1>2, <1>4, AppendProperties
<1>6. book \in Seq(Seq(Rows)) BY DEF ReportsInv
<1>7. book' \in Seq(Seq(Rows)) /\ Len(book') = n BY <1>3, <1>4, <1>5, <1>6, ExceptSeq
<1>8. book' # <<>> BY <1>1, <1>4, <1>7
<1> QED BY <1>3, <1>7, <1>8 DEF ReportsInv

LEMMA SheetKeepsReports == ASSUME ReportsInv, AddSheet PROVE ReportsInv'
<1>1. <<>> \in Seq(Rows) BY EmptySeq
<1>2. book' = Append(book, <<>>) /\ ledger' = ledger BY DEF AddSheet
<1>3. book \in Seq(Seq(Rows)) BY DEF ReportsInv
<1>4. book' \in Seq(Seq(Rows)) /\ book' # <<>> BY <1>1, <1>2, <1>3, AppendProperties
<1> QED BY <1>2, <1>4 DEF ReportsInv

LEMMA MoveKeepsReports ==
  ASSUME ReportsInv, NEW day \in Days, NEW amount \in Amounts, Move(day, amount)
  PROVE  ReportsInv'
<1> DEFINE n == Len(ledger)
<1>1. ledger \in Seq(Days \X Amounts) /\ n \in Nat /\ DOMAIN ledger = 1..n
  BY LenProperties DEF ReportsInv
<1>2. ledger' = Append(ledger, <<day, amount>>) /\ book' = book BY DEF Move
<1>3. <<day, amount>> \in Days \X Amounts OBVIOUS
<1>4. /\ ledger' \in Seq(Days \X Amounts) /\ Len(ledger') = n + 1
      /\ ledger'[n + 1] = <<day, amount>> /\ \A i \in 1..n : ledger'[i] = ledger[i]
  BY <1>1, <1>2, <1>3, AppendProperties
<1>5. DOMAIN ledger' = 1..(n + 1) BY <1>4, LenProperties
<1>6. Days \subseteq Int BY ReportsAssumption, Zenon
<1>7. \A i \in 1..n : ledger[i][1] \in Int BY <1>1, LedgerIs
<1>8. \A i \in 1..n : ledger[i][1] <= day
  <2> SUFFICES ASSUME NEW i \in 1..n PROVE ledger[i][1] <= day OBVIOUS
  <2>1. n \in 1..n /\ i <= n /\ ledger # <<>> BY <1>1
  <2>2. ledger[i][1] <= ledger[n][1] BY <1>1, <2>1 DEF ReportsInv
  <2>3. day >= ledger[n][1] BY <2>1 DEF Move, Last
  <2> QED BY <1>6, <1>7, <2>1, <2>2, <2>3
<1>9. ASSUME NEW i \in 1..(n + 1), NEW j \in 1..(n + 1), i <= j
      PROVE  ledger'[i][1] <= ledger'[j][1]
  <2> HIDE DEF n
  <2>1. CASE j \in 1..n
    <3>1. i \in 1..n BY <1>1, <1>9, <2>1
    <3>2. ledger[i][1] <= ledger[j][1] BY <1>1, <1>9, <2>1, <3>1 DEF ReportsInv
    <3> QED BY <1>4, <2>1, <3>1, <3>2
  <2>2. CASE j \notin 1..n
    <3>1. j = n + 1 BY <1>1, <2>2
    <3>2. ledger'[j][1] = day BY <1>4, <3>1
    <3>3. CASE i \in 1..n BY <1>4, <1>8, <3>2, <3>3
    <3>4. CASE i \notin 1..n
      <4>1. i = n + 1 BY <1>1, <3>4
      <4>2. day \in Int BY <1>6
      <4> QED BY <3>1, <3>2, <4>1, <4>2
    <3> QED BY <3>3, <3>4
  <2> QED BY <2>1, <2>2
<1>10. book' \in Seq(Seq(Rows)) /\ book' # <<>> BY <1>2 DEF ReportsInv
<1> HIDE DEF n
<1> QED BY <1>4, <1>5, <1>9, <1>10 DEF ReportsInv

LEMMA ReportsStep ==
  ASSUME ReportsInv, [ReportNext \/ AccountNext]_<<book, ledger>> PROVE ReportsInv'
<1>1. ASSUME NEW h \in Headings, AddRow(Texts(h)) PROVE ReportsInv'
  <2>1. Texts(h) \in Rows BY DEF Rows
  <2> QED BY <1>1, <2>1, RowKeepsReports
<1>2. ASSUME NEW row \in Charges, AddRow(row) PROVE ReportsInv'
  <2>1. row \in Rows BY DEF Rows
  <2> QED BY <1>2, <2>1, RowKeepsReports
<1>3. ASSUME NEW day \in Days, NEW amount \in Amounts, Move(day, amount) PROVE ReportsInv'
  BY <1>3, MoveKeepsReports
<1>4. CASE UNCHANGED <<book, ledger>> BY <1>4 DEF ReportsInv
<1> QED BY <1>1, <1>2, <1>3, <1>4, SheetKeepsReports DEF ReportNext, AccountNext

(* A report has at least one sheet, of headings and charges; an account    *)
(* moves from day to day.                                                  *)
THEOREM ReportsTypeCorrect == ReportsSpec => []ReportsInv
BY ReportsStart, ReportsStep, PTL DEF ReportsSpec

(* However a bank names the columns of its statement and from whichever    *)
(* end it exports an account of any length, each movement is read as what  *)
(* it was, newest first, with the balance of the account after it.         *)
THEOREM StatementsCorrect == ReportsSpec => []ClosingBalanceFirst
BY ReportsTypeCorrect, ClosingBalanceShown, PTL

(* Of any report whose headings both readers take for one, every row that  *)
(* was filed as income is found again and replaced by what it says now.    *)
THEOREM CorrectionsCorrect == ReportsSpec => []CorrectionsFindMisreadings
BY ReportsTypeCorrect, CorrectionsFound, PTL

----------------------------------------------------------------------------
(* All of it of the files as they are written side by side: what a file    *)
(* says is what is read of it.                                             *)
THEOREM FilesCorrect ==
  Spec => []( /\ CsvKeepsCells /\ TableKeepsColumns /\ StringsSurvive
              /\ ClosingBalanceFirst /\ CorrectionsFindMisreadings)
<1>1. Init => CsvInit /\ TableInit /\ StringsInit /\ ReportsInit BY DEF Init
<1>2. [Next]_<<csvVars, tableVars, stringVars, book, ledger, part>> =>
        /\ [CsvNext]_csvVars /\ [TableNext]_tableVars /\ [StringsNext]_stringVars
        /\ [ReportNext \/ AccountNext]_<<book, ledger>>
  BY DEF Next, TextWrite, TableWrite, StringsWrite, ReportWrite, AccountWrite
<1>3. Spec => CsvSpec /\ TableSpec /\ StringsSpec /\ ReportsSpec
  BY <1>1, <1>2, PTL DEF Spec, CsvSpec, TableSpec, StringsSpec, ReportsSpec
<1> QED
  BY <1>3, CsvCorrect, TableCorrect, StringsCorrect, StatementsCorrect, CorrectionsCorrect, PTL

=============================================================================
