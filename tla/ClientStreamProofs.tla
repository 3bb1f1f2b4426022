-------------------------- MODULE ClientStreamProofs -------------------------
(***************************************************************************)
(* The byte stream of a connection, for every value of the constants with  *)
(* which nothing fails: StreamInv is shown to be inductive together with   *)
(* IInv, so the bytes on their way to the client are the reply it is owed, *)
(* and the connection implements HttpService.                              *)
(***************************************************************************)
EXTENDS ClientSocketProofs

USE DEF vars, clientVars, netVars, loopVars, dataVars, outside, server

------------------------------------------------------------------------------
(* A sequence of bytes that another one starts with.                       *)

Start(a, b) == a \in Seq(Byte) /\ \E rest \in Seq(Byte) : b = a \o rest

ProperStart(a, b) == a \in Seq(Byte) /\ \E rest \in Seq(Byte) : b = a \o rest /\ rest # <<>>

\* Concatenation is associative.
LEMMA Regroup ==
    ASSUME NEW a \in Seq(Byte), NEW b \in Seq(Byte), NEW c \in Seq(Byte)
    PROVE  (a \o b) \o c = a \o (b \o c)
  BY ConcatAssociative, SMTT(60)

\* One element makes a sequence.
LEMMA Single ==
    ASSUME NEW S, NEW h \in S
    PROVE  <<h>> \in Seq(S)
  <1>1. <<>> \in Seq(S)
    BY EmptySeq
  <1>2. Append(<<>>, h) \in Seq(S)
    BY <1>1, AppendProperties
  <1>3. Append(<<>>, h) = <<h>>
    OBVIOUS
  <1> QED
    BY <1>2, <1>3

\* Only nothing and nothing make nothing.
LEMMA Nothing ==
    ASSUME NEW a \in Seq(Byte), NEW b \in Seq(Byte), a \o b = <<>>
    PROVE  a = <<>> /\ b = <<>>
  BY ConcatEqualIffEmpty, SMTT(30)

\* The first element of a sequence, and the rest.
LEMMA TakeHead ==
    ASSUME NEW S, NEW s \in Seq(S), s # <<>>
    PROVE  /\ Head(s) = s[1] /\ s[1] \in S /\ Tail(s) \in Seq(S)
           /\ SubSeq(s, 1, 1) = <<Head(s)>>
           /\ s = <<Head(s)>> \o Tail(s)
  <1>1. Len(s) \in Nat \ {0}
    BY EmptySeq, LenProperties
  <1>2. 1 \in 1..Len(s) /\ 1 \in 1..1 /\ Len(s) \in 1..Len(s)
    BY <1>1
  <1>3. Head(s) = s[1] /\ s[1] \in S
    BY <1>2, ElementOfSeq
  <1>4. Tail(s) \in Seq(S)
    BY HeadTailProperties
  <1>5. SubSeq(s, 1, 1) = <<Head(s)>>
    <2>1. SubSeq(s, 1, 1) = SubSeq(s, 1, 1 - 1) \o <<s[1]>>
      BY <1>2, SubSeqRecursiveSecond
    <2>2. SubSeq(s, 1, 1 - 1) = <<>>
      BY SubSeqEmpty
    <2>3. <<>> \o <<s[1]>> = <<s[1]>>
      BY <1>3, ConcatEmptySeq
    <2> QED
      BY <1>3, <2>1, <2>2, <2>3
  <1>6. s = <<Head(s)>> \o Tail(s)
    <2>1. SubSeq(s, 1, Len(s)) = <<s[1]>> \o SubSeq(s, 1 + 1, Len(s))
      BY <1>2, SubSeqRecursiveFirst
    <2>2. SubSeq(s, 1, Len(s)) = s
      BY SubSeqFull
    <2>3. Tail(s) = SubSeq(s, 2, Len(s)) /\ 1 + 1 = 2
      BY TailIsSubSeq
    <2> QED
      BY <1>3, <2>1, <2>2, <2>3
  <1> QED
    BY <1>3, <1>4, <1>5, <1>6

\* A concatenation starts as its first part does.
LEMMA HeadTailConcat ==
    ASSUME NEW S, NEW a \in Seq(S), NEW b \in Seq(S), a # <<>>
    PROVE  Head(a \o b) = Head(a) /\ Tail(a \o b) = Tail(a) \o b
  <1>1. PICK r \in Seq(S) : r = a \o b
    BY ConcatProperties
  <1>2. PICK m \in Nat \ {0}, n \in Nat : m = Len(a) /\ n = Len(b)
    BY EmptySeq, LenProperties
  <1>3. /\ Len(r) = m + n
        /\ \A i \in 1..(m + n) : r[i] = IF i <= m THEN a[i] ELSE b[i - m]
    BY <1>1, <1>2, ConcatProperties
  <1>4. r # <<>>
    BY <1>2, <1>3, EmptySeq
  <1>5. Head(r) = Head(a)
    <2>1. r[1] = a[1]
      BY <1>2, <1>3
    <2>2. Head(a) = a[1]
      BY TakeHead
    <2>3. Head(r) = r[1]
      BY <1>4, TakeHead
    <2> QED
      BY <2>1, <2>2, <2>3
  <1>6. PICK t \in Seq(S) : /\ t = Tail(a) /\ Len(t) = m - 1
                            /\ \A i \in 1..(m - 1) : t[i] = a[i + 1]
    <2>1. PICK t \in Seq(S) : t = Tail(a)
      BY HeadTailProperties
    <2>2. Len(t) = Len(a) - 1 /\ \A i \in 1..Len(t) : t[i] = a[i + 1]
      BY <2>1, HeadTailProperties
    <2>3. Len(t) = m - 1
      BY <1>2, <2>2
    <2> QED
      BY <2>1, <2>2, <2>3
  <1>7. PICK u \in Seq(S) : /\ u = Tail(r) /\ Len(u) = m + n - 1
                            /\ \A i \in 1..(m + n - 1) : u[i] = r[i + 1]
    <2>1. PICK u \in Seq(S) : u = Tail(r)
      BY <1>4, HeadTailProperties
    <2>2. Len(u) = Len(r) - 1 /\ \A i \in 1..Len(u) : u[i] = r[i + 1]
      BY <1>4, <2>1, HeadTailProperties
    <2>3. Len(u) = m + n - 1
      BY <1>3, <2>2
    <2> QED
      BY <2>1, <2>2, <2>3
  <1>8. PICK v \in Seq(S) :
           /\ v = t \o b /\ Len(v) = m + n - 1
           /\ \A i \in 1..(m + n - 1) : v[i] = IF i <= m - 1 THEN t[i] ELSE b[i - (m - 1)]
    <2>1. PICK v \in Seq(S) : v = t \o b
      BY ConcatProperties
    <2>2. /\ Len(v) = Len(t) + n
          /\ \A i \in 1..(Len(t) + n) : v[i] = IF i <= Len(t) THEN t[i] ELSE b[i - Len(t)]
      BY <1>2, <2>1, ConcatProperties
    <2>3. Len(t) + n = m + n - 1 /\ Len(t) = m - 1
      BY <1>2, <1>6
    <2> QED
      BY <2>1, <2>2, <2>3, ZenonT(60)
  <1>9. \A i \in 1..(m + n - 1) : u[i] = v[i]
    <2> SUFFICES ASSUME NEW i \in 1..(m + n - 1) PROVE u[i] = v[i]
      OBVIOUS
    <2>1. u[i] = IF i + 1 <= m THEN a[i + 1] ELSE b[i + 1 - m]
      BY <1>2, <1>3, <1>7, SMTT(60)
    <2>2. v[i] = IF i <= m - 1 THEN a[i + 1] ELSE b[i - (m - 1)]
      BY <1>2, <1>6, <1>8
    <2>3. i + 1 - m = i - (m - 1)
      BY <1>2
    <2> QED
      BY <1>2, <2>1, <2>2, <2>3
  <1>10. u = v
    BY <1>7, <1>8, <1>9, SeqEqual, ZenonT(60)
  <1> QED
    BY <1>1, <1>5, <1>6, <1>7, <1>8, <1>10

\* The first element of the rest of a sequence that is in two parts.
LEMMA TakeOne ==
    ASSUME NEW s \in Seq(Wire), NEW c \in Nat, c < Len(s),
           NEW a \in Seq(Wire), NEW b \in Seq(Wire), a # <<>>,
           a \o b = SubSeq(s, c + 1, Len(s))
    PROVE  /\ SubSeq(a, 1, 1) = <<s[c + 1]>>
           /\ SubSeq(a, 2, Len(a)) \o b = SubSeq(s, c + 2, Len(s))
  <1>1. Len(s) \in Nat /\ c + 1 \in 1..Len(s) /\ Len(s) \in (c + 1)..Len(s)
    BY LenProperties
  <1>2. PICK r \in Seq(Wire) : r = a \o b
    BY ConcatProperties
  <1>3. Head(r) = s[c + 1] /\ Tail(r) = SubSeq(s, (c + 1) + 1, Len(s))
    BY <1>1, <1>2, HeadTailOfSubSeq
  <1>4. (c + 1) + 1 = c + 2
    OBVIOUS
  <1>5. Head(r) = Head(a) /\ Tail(r) = Tail(a) \o b
    BY <1>2, HeadTailConcat
  <1>6. Tail(a) = SubSeq(a, 2, Len(a))
    BY TailIsSubSeq
  <1>7. SubSeq(a, 1, 1) = <<Head(a)>>
    BY TakeHead
  <1> QED
    BY <1>3, <1>4, <1>5, <1>6, <1>7

\* A part of a sequence is one element longer.
LEMMA PartMore ==
    ASSUME NEW s \in Seq(Wire), NEW p \in Nat, NEW c \in Nat, p <= c, c < Len(s)
    PROVE  SubSeq(s, p + 1, c) \o <<s[c + 1]>> = SubSeq(s, p + 1, c + 1)
  <1>1. Len(s) \in Nat /\ p + 1 \in 1..Len(s) /\ c + 1 \in (p + 1)..Len(s) /\ (c + 1) - 1 = c
    BY LenProperties
  <1>2. SubSeq(s, p + 1, c + 1) = SubSeq(s, p + 1, (c + 1) - 1) \o <<s[c + 1]>>
    BY <1>1, SubSeqRecursiveSecond
  <1> QED
    BY <1>1, <1>2

\* A sequence continued starts with what it was.
LEMMA StartOf ==
    ASSUME NEW a \in Seq(Byte), NEW b \in Seq(Byte)
    PROVE  Start(a, a \o b) /\ (b # <<>> => ProperStart(a, a \o b))
  BY DEF Start, ProperStart

\* A sequence starts with itself.
LEMMA StartSelf ==
    ASSUME NEW a \in Seq(Byte)
    PROVE  Start(a, a)
  <1>1. a = a \o <<>> /\ <<>> \in Seq(Byte)
    BY ConcatEmptySeq, EmptySeq
  <1> QED
    BY <1>1 DEF Start

\* The start of a start is a start.
LEMMA StartTrans ==
    ASSUME NEW a, NEW b, NEW c, Start(b, c)
    PROVE  /\ Start(a, b) => Start(a, c)
           /\ ProperStart(a, b) => ProperStart(a, c)
  <1>1. PICK s \in Seq(Byte) : c = b \o s
    BY DEF Start
  <1>2. ASSUME NEW r \in Seq(Byte), a \in Seq(Byte), b = a \o r
        PROVE  \E u \in Seq(Byte) : c = a \o u /\ (r # <<>> => u # <<>>)
    <2>1. PICK d \in Seq(Byte) : d = a
      BY <1>2
    <2>2. PICK u \in Seq(Byte) : u = r \o s
      BY ConcatProperties
    <2>3. (d \o r) \o s = d \o (r \o s)
      BY Regroup, ZenonT(60)
    <2>4. r # <<>> => u # <<>>
      BY <2>2, ConcatEqualIffEmpty
    <2> QED
      BY <1>1, <1>2, <2>1, <2>2, <2>3, <2>4
  <1>3. ASSUME Start(a, b) PROVE Start(a, c)
    BY <1>2, <1>3 DEF Start
  <1>4. ASSUME ProperStart(a, b) PROVE ProperStart(a, c)
    BY <1>2, <1>4 DEF ProperStart
  <1> QED
    BY <1>3, <1>4

\* A text that is cut is not whole.
LEMMA StartCut ==
    ASSUME NEW before \in Seq(Byte), NEW text \in Seq(Byte), NEW i \in Nat, i < Len(text)
    PROVE  ProperStart(before \o SubSeq(text, 1, i), before \o text)
  <1>1. Len(text) \in Nat /\ 1 \in Nat \ {0} /\ i + 1 \in Nat \ {0} /\ i <= Len(text)
    BY LenProperties
  <1>2. PICK a \in Seq(Byte) : a = SubSeq(text, 1, i)
    BY <1>1, PartIsSeq
  <1>3. PICK b \in Seq(Byte) : b = SubSeq(text, i + 1, Len(text)) /\ b # <<>>
    <2>1. /\ SubSeq(text, i + 1, Len(text)) \in Seq(Byte)
          /\ Len(SubSeq(text, i + 1, Len(text)))
                = IF i + 1 <= Len(text) THEN Len(text) - (i + 1) + 1 ELSE 0
      BY <1>1, PartIsSeq
    <2>2. PICK b \in Seq(Byte) : b = SubSeq(text, i + 1, Len(text))
      BY <2>1
    <2>3. Len(b) > 0
      BY <1>1, <2>1, <2>2
    <2>4. b # <<>>
      BY <2>3, EmptySeq, SMTT(60)
    <2> QED
      BY <2>2, <2>4
  <1>4. a \o b = text
    <2>1. /\ 1 \in 1..(Len(text) + 1) /\ i \in (1 - 1)..Len(text) /\ Len(text) \in i..Len(text)
      BY <1>1
    <2>2. SubSeq(text, 1, i) \o SubSeq(text, i + 1, Len(text)) = SubSeq(text, 1, Len(text))
      BY <2>1, ConcatAdjacentSubSeq
    <2>3. SubSeq(text, 1, Len(text)) = text
      BY SubSeqFull
    <2> QED
      BY <1>2, <1>3, <2>2, <2>3
  <1>5. (before \o a) \o b = before \o (a \o b)
    BY Regroup, ZenonT(60)
  <1>6. PICK c \in Seq(Byte) : c = before \o a
    BY ConcatProperties
  <1>7. ProperStart(c, c \o b)
    BY <1>3, StartOf
  <1> QED
    BY <1>2, <1>4, <1>5, <1>6, <1>7

------------------------------------------------------------------------------
(* The text of a reply.                                                    *)

\* How many stages a response with this code writes.
Number(code) == IF code = 200 THEN 12 ELSE 5

\* They are the numbers from 0, without 4 in a response that succeeds.
LEMMA StagesAre ==
    ASSUME NEW code
    PROVE  /\ Stages(code) \in Seq(0..12) /\ Len(Stages(code)) = Number(code)
           /\ Number(code) \in Nat
           /\ \A k \in 1..Number(code) :
                  Stages(code)[k] = IF code = 200 /\ k > 4 THEN k ELSE k - 1
  <1>1. CASE code = 200
    <2> DEFINE ss == <<0, 1, 2, 3, 5, 6, 7, 8, 9, 10, 11, 12>>
    <2>1. ss \in Seq(0..12) /\ Len(ss) = 12
      OBVIOUS
    <2>2. \A k \in 1..12 : ss[k] = IF k > 4 THEN k ELSE k - 1
      OBVIOUS
    <2>3. Stages(code) = ss /\ Number(code) = 12
      BY <1>1 DEF Stages, Number
    <2> HIDE DEF ss
    <2>4. \A k \in 1..12 : Stages(code)[k] = IF code = 200 /\ k > 4 THEN k ELSE k - 1
      BY <1>1, <2>2, <2>3
    <2> QED
      BY <2>1, <2>3, <2>4
  <1>2. CASE code # 200
    <2> DEFINE ss == <<0, 1, 2, 3, 4>>
    <2>1. ss \in Seq(0..12) /\ Len(ss) = 5
      OBVIOUS
    <2>2. \A k \in 1..5 : ss[k] = k - 1
      OBVIOUS
    <2>3. Stages(code) = ss /\ Number(code) = 5
      BY <1>2 DEF Stages, Number
    <2> HIDE DEF ss
    <2>4. \A k \in 1..5 : Stages(code)[k] = IF code = 200 /\ k > 4 THEN k ELSE k - 1
      BY <1>2, <2>2, <2>3
    <2> QED
      BY <2>1, <2>3, <2>4
  <1> QED
    BY <1>1, <1>2

\* The text of the first k stages.
First(k, code, file) == Pieces(SubSeq(Stages(code), 1, k), code, file)

\* The text of one stage more.
LEMMA FirstMore ==
    ASSUME NEW code \in Code, NEW file \in Line \cup {"none"}, NEW k \in 0..(Number(code) - 1),
           First(k, code, file) \in Seq(Byte)
    PROVE  /\ First(k + 1, code, file) = First(k, code, file) \o Piece(Stages(code)[k + 1], code, file)
           /\ First(k + 1, code, file) \in Seq(Byte)
  <1>1. PICK ss \in Seq(0..12), n \in Nat : ss = Stages(code) /\ n = Len(ss) /\ n = Number(code)
    BY StagesAre
  <1>2. k \in Nat /\ k + 1 \in 1..n /\ 1 \in 1..n /\ (k + 1) - 1 = k
    BY <1>1
  <1>3. ss[k + 1] \in 0..12
    BY <1>1, <1>2, ElementOfSeq
  <1>4. SubSeq(ss, 1, k) \in Seq(0..12)
    <2>1. k <= Len(ss) /\ 1 \in Nat \ {0}
      BY <1>1, <1>2
    <2> QED
      BY <1>2, <2>1, PartIsSeq
  <1>5. SubSeq(ss, 1, k + 1) = Append(SubSeq(ss, 1, k), ss[k + 1])
    <2>1. SubSeq(ss, 1, k + 1) = SubSeq(ss, 1, (k + 1) - 1) \o <<ss[k + 1]>>
      <3>1. 1 \in 1..Len(ss) /\ k + 1 \in 1..Len(ss)
        BY <1>1, <1>2
      <3> QED
        BY <3>1, SubSeqRecursiveSecond
    <2>2. Append(SubSeq(ss, 1, k), ss[k + 1]) = SubSeq(ss, 1, k) \o <<ss[k + 1]>>
      BY <1>3, <1>4, AppendIsConcat
    <2> QED
      BY <1>2, <2>1, <2>2
  <1> DEFINE part == SubSeq(ss, 1, k)
             s    == ss[k + 1]
  <1>6. part \in Seq(0..12) /\ s \in 0..12 /\ Pieces(part, code, file) \in Seq(Byte)
    BY <1>1, <1>3, <1>4 DEF First
  <1>7. First(k + 1, code, file) = Pieces(Append(part, s), code, file)
    BY <1>1, <1>5 DEF First
  <1>8. First(k, code, file) = Pieces(part, code, file) /\ s = Stages(code)[k + 1]
    BY <1>1 DEF First
  <1> HIDE DEF part, s
  <1>9. Pieces(Append(part, s), code, file) = Pieces(part, code, file) \o Piece(s, code, file)
    BY <1>6, MorePieces
  <1>10. Pieces(Append(part, s), code, file) \in Seq(Byte)
    BY <1>6, MorePieces
  <1> QED
    BY <1>7, <1>8, <1>9, <1>10

\* The first stages write a text, and the later ones continue it.
LEMMA FirstFacts ==
    ASSUME NEW code \in Code, NEW file \in Line \cup {"none"}
    PROVE  /\ First(0, code, file) = <<>>
           /\ \A k \in 0..Number(code) : First(k, code, file) \in Seq(Byte)
           /\ \A k \in 0..Number(code) :
                  Start(First(k, code, file), First(Number(code), code, file))
  <1> DEFINE n    == Number(code)
             F(k) == First(k, code, file)
             P(k) == Piece(Stages(code)[k + 1], code, file)
  <1>1. n \in Nat \ {0}
    BY DEF Number
  <1>2. F(0) = <<>> /\ F(0) \in Seq(Byte)
    <2>1. SubSeq(Stages(code), 1, 0) = <<>>
      BY SubSeqEmpty
    <2> QED
      BY <2>1, FewPieces, EmptySeq DEF First
  <1>3. ASSUME NEW k \in 0..(n - 1), F(k) \in Seq(Byte)
        PROVE  F(k + 1) = F(k) \o P(k) /\ F(k + 1) \in Seq(Byte)
    BY <1>3, FirstMore
  <1>4. \A k \in 1..n : F(k) \in Seq(Byte)
    <2> DEFINE T == {k \in 1..n : F(k) \in Seq(Byte)}
    <2> HIDE DEF F, P, n
    <2>1. 1 \in T
      <3>1. 0 \in 0..(n - 1) /\ 0 + 1 = 1 /\ 1 \in 1..n
        BY <1>1
      <3> QED
        BY <1>2, <1>3, <3>1
    <2>2. ASSUME NEW k \in 1..(n - 1), k \in T PROVE k + 1 \in T
      <3>1. k \in 0..(n - 1) /\ k + 1 \in 1..n /\ F(k) \in Seq(Byte)
        BY <1>1, <2>2
      <3> QED
        BY <1>3, <3>1
    <2>3. \A k \in 1..n : k \in T
      <3> HIDE DEF T
      <3> QED
        BY <1>1, <2>1, <2>2, Counting
    <2> QED
      BY <2>3
  <1>5. \A k \in 0..n : F(k) \in Seq(Byte)
    <2>1. \A k \in 0..n : k = 0 \/ k \in 1..n
      BY <1>1
    <2> HIDE DEF F, P, n
    <2> QED
      BY <1>2, <1>4, <2>1
  <1> DEFINE Rest(k) == Start(F(k), F(n))
  <1>6. Rest(n)
    <2>1. F(n) \in Seq(Byte)
      BY <1>1, <1>4
    <2> HIDE DEF F, n
    <2> QED
      BY <2>1, StartSelf
  <1>7. ASSUME NEW k \in 0..(n - 1), Rest(k + 1) PROVE Rest(k)
    <2>1. k \in 0..n
      BY <1>1
    <2>2. F(k) \in Seq(Byte) /\ F(k + 1) = F(k) \o P(k)
      BY <1>3, <1>5, <2>1
    <2>3. P(k) \in Seq(Byte)
      <3>1. PICK ss \in Seq(0..12) : ss = Stages(code) /\ n = Len(ss)
        BY StagesAre
      <3>2. k + 1 \in 1..Len(ss)
        BY <1>1, <3>1
      <3>3. ss[k + 1] \in 0..12
        BY <3>2, ElementOfSeq
      <3> QED
        BY <3>1, <3>3, PieceType
    <2> HIDE DEF F, P, n
    <2>4. Start(F(k), F(k) \o P(k))
      BY <2>2, <2>3, StartOf
    <2> QED
      BY <1>7, <2>2, <2>4, StartTrans
  <1>8. \A k \in 0..n : Rest(k)
    <2> HIDE DEF F, P, n, Rest
    <2> DEFINE T == {j \in 1..n : Rest(n - j)}
    <2>1. 1 \in T
      <3>1. n - 1 \in 0..(n - 1) /\ (n - 1) + 1 = n /\ 1 \in 1..n
        BY <1>1
      <3> QED
        BY <1>6, <1>7, <3>1
    <2>2. ASSUME NEW j \in 1..(n - 1), j \in T PROVE j + 1 \in T
      <3>1. n - (j + 1) \in 0..(n - 1) /\ (n - (j + 1)) + 1 = n - j /\ j + 1 \in 1..n
        BY <1>1
      <3>2. Rest(n - j)
        BY <2>2
      <3> QED
        BY <1>7, <3>1, <3>2
    <2>3. \A j \in 1..n : j \in T
      <3> HIDE DEF T
      <3> QED
        BY <1>1, <2>1, <2>2, Counting
    <2>4. \A k \in 0..n : k = n \/ (n - k \in 1..n /\ n - (n - k) = k)
      BY <1>1
    <2> QED
      BY <1>6, <2>3, <2>4
  <1>9. First(0, code, file) = <<>>
    BY <1>2
  <1>10. \A k \in 0..Number(code) : First(k, code, file) \in Seq(Byte)
    BY <1>5
  <1>11. \A k \in 0..Number(code) : Start(First(k, code, file), First(Number(code), code, file))
    BY <1>8
  <1> QED
    BY <1>9, <1>10, <1>11

\* The stage after s in a response with this code.
After(s, code) == IF s = 3 /\ code = 200 THEN 5 ELSE s + 1

\* Stage s is a stage of a response with this code.
Stage(s, code) == IF code = 200 THEN s # 4 ELSE s <= 4

\* What the text of one stage adds, and what it leaves.
LEMMA StageText ==
    ASSUME NEW code \in Code, NEW file \in Line \cup {"none"}, NEW s \in 0..12,
           Stage(s, code)
    PROVE  LET before == Ahead(s, code, file)
               after  == before \o Piece(s, code, file)
               whole  == First(Number(code), code, file)
               last   == IF code = 200 THEN 12 ELSE 4
           IN  /\ before \in Seq(Byte) /\ after \in Seq(Byte)
               /\ Start(after, whole)
               /\ IF s = last THEN whole = after ELSE Ahead(After(s, code), code, file) = after
               /\ s = 0 => before = <<>>
  <1> DEFINE k     == IF s <= 4 THEN s ELSE s - 1
             after == Ahead(s, code, file) \o Piece(s, code, file)
             whole == First(Number(code), code, file)
             last  == IF code = 200 THEN 12 ELSE 4
  <1> USE DEF Stage
  <1>1. /\ k \in 0..(Number(code) - 1) /\ k \in 0..Number(code) /\ k + 1 \in 0..Number(code)
        /\ k + 1 \in 1..Number(code)
    BY DEF Number
  <1>2. Stages(code)[k + 1] = s
    <2>1. Stages(code)[k + 1] = IF code = 200 /\ k + 1 > 4 THEN k + 1 ELSE (k + 1) - 1
      BY <1>1, StagesAre
    <2> QED
      BY <2>1
  <1>3. Ahead(s, code, file) = First(k, code, file)
    BY DEF Ahead, First
  <1>4. s = 0 => k = 0
    OBVIOUS
  <1>5. s = last => k + 1 = Number(code)
    BY DEF Number
  <1>6. s # last => Ahead(After(s, code), code, file) = First(k + 1, code, file)
    <2>1. s # last => (IF After(s, code) <= 4 THEN After(s, code) ELSE After(s, code) - 1) = k + 1
      BY DEF After
    <2> QED
      BY <2>1 DEF Ahead, First
  <1> HIDE DEF k, last
  <1>7. First(k, code, file) \in Seq(Byte)
    BY <1>1, FirstFacts
  <1>8. /\ First(k + 1, code, file) = First(k, code, file) \o Piece(Stages(code)[k + 1], code, file)
        /\ First(k + 1, code, file) \in Seq(Byte)
    BY <1>1, <1>7, FirstMore
  <1>9. after = First(k + 1, code, file)
    BY <1>2, <1>3, <1>8
  <1>10. Start(First(k + 1, code, file), whole)
    BY <1>1, FirstFacts
  <1>11. First(0, code, file) = <<>>
    BY FirstFacts
  <1> HIDE DEF after, whole
  <1>12. Start(after, whole)
    BY <1>9, <1>10
  <1>13. IF s = last THEN whole = after ELSE Ahead(After(s, code), code, file) = after
    BY <1>5, <1>6, <1>9 DEF whole
  <1>14. s = 0 => Ahead(s, code, file) = <<>>
    BY <1>3, <1>4, <1>11
  <1>15. Ahead(s, code, file) \in Seq(Byte) /\ after \in Seq(Byte)
    BY <1>3, <1>7, <1>8, <1>9
  <1> QED
    BY <1>12, <1>13, <1>14, <1>15 DEF after, whole, last

\* The reply to a plain request is the text of its stages, and the file.
LEMMA ReplyIs ==
    ASSUME NEW req, Plain(req), NEW file \in Line \cup {"none"},
           Outcome(req) = 200 => file = req.line
    PROVE  LET code == Outcome(req)
               text == First(Number(code), code, file)
           IN  /\ code \in {200, 404, 500} /\ text \in Seq(Byte)
               /\ IF code = 200 THEN text = FileHead(req.line) ELSE text = Failed(code)
               /\ Reply(req) = IF code = 200 /\ Method[req.line] = "GET"
                               THEN text \o FileBytes(req.line, 0, FileSize[req.line])
                               ELSE text
  <1> DEFINE code == Outcome(req)
             text == First(Number(code), code, file)
  <1>1. code \in {200, 404, 500}
    BY DEF Outcome
  <1>2. text \in Seq(Byte)
    <2>1. code \in Code /\ Number(code) \in 0..Number(code)
      BY <1>1 DEF Code, Number
    <2> HIDE DEF code
    <2> QED
      BY <2>1, FirstFacts
  <1>3. text = Pieces(Stages(code), code, file)
    <2>1. PICK ss \in Seq(0..12) : ss = Stages(code) /\ Number(code) = Len(ss)
      BY StagesAre
    <2>2. SubSeq(ss, 1, Len(ss)) = ss
      BY SubSeqFull
    <2> QED
      BY <2>1, <2>2 DEF First
  <1> HIDE DEF code, text
  <1>4. IF code = 200 THEN text = FileHead(req.line) ELSE text = Failed(code)
    <2>1. CASE code = 200
      BY <1>3, <2>1 DEF Stages, FileHead, code
    <2>2. CASE code # 200
      BY <1>3, <2>2, FewPieces DEF Stages
    <2> QED
      BY <2>1, <2>2
  <1>5. Reply(req) = IF code = 200
                     THEN IF Method[req.line] = "HEAD" THEN FileHead(req.line)
                          ELSE FileHead(req.line) \o FileBytes(req.line, 0, FileSize[req.line])
                     ELSE Failed(code)
    <2>1. ~\E i \in DOMAIN req.headers : req.headers[i] = "nocolon"
      <3>1. DOMAIN req.headers = 1..Len(req.headers)
        BY LenProperties DEF Plain
      <3>2. \A i \in 1..Len(req.headers) : req.headers[i] \in {"host", "length"}
        BY ElementOfSeq DEF Plain
      <3> QED
        BY <3>1, <3>2
    <2>2. /\ Target[req.line] # "bad" /\ ~(req.times > 1) /\ Method[req.line] # "POST"
          /\ Target[req.line] # "cgi" /\ Method[req.line] \in {"GET", "HEAD"}
      BY DEF Plain
    <2>3. Reply(req) = CASE Target[req.line] = "missing" -> Failed(404)
                         [] Target[req.line] = "unreadable" /\ Method[req.line] = "GET" -> Failed(500)
                         [] OTHER -> IF Method[req.line] = "HEAD" THEN FileHead(req.line)
                              ELSE FileHead(req.line) \o FileBytes(req.line, 0, FileSize[req.line])
      BY <2>1, <2>2 DEF Reply
    <2>4. code = CASE Target[req.line] = "missing" -> 404
                   [] Target[req.line] = "unreadable" /\ Method[req.line] = "GET" -> 500
                   [] OTHER -> 200
      BY DEF code, Outcome
    <2> QED
      BY <2>2, <2>3, <2>4
  <1>6. Method[req.line] \in {"GET", "HEAD"}
    BY DEF Plain
  <1>7. Reply(req) = IF code = 200 /\ Method[req.line] = "GET"
                     THEN text \o FileBytes(req.line, 0, FileSize[req.line]) ELSE text
    BY <1>4, <1>5, <1>6
  <1> QED
    BY <1>1, <1>2, <1>4, <1>7 DEF code, text

\* What was written of a reply is a part of it from the start, and not the
\* whole unless something of it waits in the write buffer.
LEMMA WrittenFacts ==
    ASSUME IInv, NEW req, Plain(req), Writing(req)
    PROVE  /\ Start(Written(req), Reply(req))
           /\ writebuf = <<>> => ProperStart(Written(req), Reply(req))
  <1> DEFINE code == response.httpcode
             file == response.file
             text == First(Number(code), code, file)
             l    == req.line
             get  == code = 200 /\ Method[l] = "GET"
             body == FileBytes(l, 0, FileSize[l])
  <1>1. /\ response \in ResponseType /\ code = Outcome(req) /\ code \in Code
        /\ file \in Line \cup {"none"} /\ (code = 200 => file = l)
    BY DEF IInv, TypeOK, ResponseType, Writing
  <1>2. /\ text \in Seq(Byte)
        /\ (code = 200 => text = FileHead(l))
        /\ Reply(req) = IF get THEN text \o body ELSE text
    <2> HIDE DEF code, file
    <2>1. Outcome(req) = 200 => file = req.line
      BY <1>1
    <2> DEFINE whole == First(Number(Outcome(req)), Outcome(req), file)
    <2>2. /\ whole \in Seq(Byte)
          /\ Outcome(req) = 200 => whole = FileHead(req.line)
          /\ Reply(req) = IF Outcome(req) = 200 /\ Method[req.line] = "GET"
                          THEN whole \o FileBytes(req.line, 0, FileSize[req.line])
                          ELSE whole
      <3>1. file \in Line \cup {"none"}
        BY <1>1
      <3> QED
        BY <2>1, <3>1, ReplyIs
    <2>3. text = whole
      BY <1>1
    <2> HIDE DEF whole, text
    <2> QED
      BY <1>1, <2>2, <2>3
  <1>3. l \in Line /\ FileSize[l] \in Nat
    BY ResponseAssumption DEF Plain
  <1>4. body \in Seq(Byte)
    BY <1>3, FileBytesType
  <1>5. CASE response.state # BodyStage
    <2> DEFINE i == response.bufIndex
    <2>1. /\ response.state \in IF code = 200 THEN (0..12) \ {4} ELSE 0..4
          /\ request.method = Method[l] /\ response.preprocessed
      BY <1>5 DEF Writing, Recognised
    <2>2. PICK s \in 0..12 : s = response.state /\ IF code = 200 THEN s # 4 ELSE s <= 4
      BY <2>1
    <2> DEFINE p == Piece(s, code, file)
               b == Ahead(s, code, file)
    <2>3. i \in Nat /\ i < PieceLen[s]
      <3>1. i < PieceLen[TextStage(s, request.method)]
        BY <2>1, <2>2 DEF IInv, ProtocolInv, HeaderInv
      <3>2. TextStage(s, request.method) = s
        BY <2>1 DEF TextStage, Plain
      <3> QED
        BY <1>1, <3>1, <3>2 DEF ResponseType
    <2>4. p \in Seq(Byte) /\ Len(p) = PieceLen[s]
      <3> HIDE DEF code, file
      <3> QED
        BY <1>1, PieceType
    <2>5. b \in Seq(Byte) /\ Start(b \o p, text)
      <3>1. Stage(s, code)
        BY <2>2 DEF Stage
      <3> HIDE DEF code, file
      <3> QED
        BY <1>1, <3>1, StageText, ZenonT(60)
    <2>6. Written(req) = b \o SubSeq(p, 1, i)
      BY <1>5, <2>2 DEF Written
    <2> HIDE DEF p, i, code, file, text, l, body, get, b
    <2>7. ProperStart(Written(req), b \o p)
      BY <2>3, <2>4, <2>5, <2>6, StartCut
    <2>8. Start(text, Reply(req))
      BY <1>2, <1>4, StartOf, StartSelf
    <2>9. ProperStart(Written(req), Reply(req))
      BY <2>5, <2>7, <2>8, StartTrans
    <2> QED
      BY <2>9 DEF Start, ProperStart
  <1>6. CASE response.state = BodyStage
    <2>1. code = 200 /\ Method[l] = "GET" /\ file = l
      BY <1>1, <1>6 DEF Writing, BodyStage
    <2>2. PICK pos \in Nat : /\ pos = response.fpos /\ pos <= FileSize[l]
                             /\ writebuf = <<>> => pos < FileSize[l]
      BY <1>1, <1>3, <1>6, <2>1 DEF IInv, ProtocolInv, BodyInv, ResponseType
    <2> DEFINE a == FileBytes(l, 0, pos)
               b == FileBytes(l, pos, FileSize[l])
    <2>3. Written(req) = text \o a
      BY <1>2, <1>6, <2>1, <2>2 DEF Written
    <2>4. Reply(req) = text \o body
      BY <1>2, <2>1
    <2> HIDE DEF code, file, text, l, get
    <2>5. a \in Seq(Byte)
      <3>1. 0 \in Nat /\ 0 <= pos
        OBVIOUS
      <3> QED
        BY <1>3, <3>1, FileBytesType
    <2>6. b \in Seq(Byte) /\ Len(b) = FileSize[l] - pos
      BY <1>3, <2>2, FileBytesType
    <2>7. a \o b = body
      BY <1>3, <2>2, FileBytesJoin
    <2> HIDE DEF a, b, body
    <2>8. writebuf = <<>> => b # <<>>
      <3>1. writebuf = <<>> => Len(b) # 0
        BY <1>3, <2>2, <2>6
      <3> QED
        BY <3>1, EmptySeq
    <2>9. (text \o a) \o b = Reply(req)
      <3>1. (text \o a) \o b = text \o (a \o b)
        BY <1>2, <2>5, <2>6, Regroup
      <3> QED
        BY <2>4, <2>7, <3>1
    <2>10. text \o a \in Seq(Byte)
      BY <1>2, <2>5, ConcatProperties
    <2> QED
      BY <2>3, <2>6, <2>8, <2>9, <2>10, StartOf
  <1> QED
    BY <1>5, <1>6

------------------------------------------------------------------------------
(* The shape of the inductive step.                                        *)

\* What StreamInv says of a connection whatever is on its way.
Calm ==
    /\ peer = "open" /\ intact /\ closed # 2 /\ ~request.cgi
    /\ closed = 1 => response.state = -1 /\ writebuf = <<>>
    /\ answers \in Nat /\ rx \in Seq(Byte) /\ outbox \in Seq(Byte)

\* The request the client waits for is one that is answered from the files.
LEMMA PlainDue ==
    ASSUME Undisturbed, TypeOK, StreamInv, peer = "open", asked # answers
    PROVE  /\ Plain(script[asked]) /\ Stands(script[asked])
           /\ asked = answers + 1 /\ asked \in Nat /\ script[asked] = script[answers + 1]
  <1>1. script \in Scripts /\ asked \in 0..Len(script) /\ Len(script) \in Nat
    BY ClientAssumption DEF TypeOK
  <1>2. asked = answers + 1 /\ answers \in Nat /\ \A req \in {script[asked]} : Stands(req)
    BY DEF StreamInv
  <1>3. asked \in 1..Len(script)
    BY <1>1, <1>2
  <1>4. Plain(script[asked])
    BY <1>1, <1>3 DEF Undisturbed
  <1> QED
    BY <1>2, <1>3, <1>4

\* A step that asks nothing and completes no answer only has to leave what is
\* on its way on its way.
LEMMA Frame ==
    ASSUME Undisturbed, TypeOK, StreamInv, peer = "open", Calm',
           UNCHANGED <<script, asked, answers>>,
           Idle => Idle', \A req : Plain(req) /\ Stands(req) => Stands(req)'
    PROVE  StreamInv'
  <1>1. asked = answers => Idle
    BY DEF StreamInv
  <1>2. asked \in {answers, answers + 1}
    BY DEF StreamInv
  <1>3. asked' # answers' => \A req \in {script'[asked']} : Stands(req)'
    BY PlainDue
  <1> QED
    BY <1>1, <1>2, <1>3 DEF StreamInv, Calm

\* The object of a connection whose client waits for a request to be read or
\* for nothing has no response to write.
LEMMA QuietFacts ==
    ASSUME IInv, Quiet, closed # 1
    PROVE  ~response.preprocessed /\ response.state = 0 /\ ~response.isPipelining
  BY DEF Quiet, IInv, ProtocolInv, HeaderInv
------------------------------------------------------------------------------
(* The read buffer.                                                        *)

\* A line or the whole request is in the buffer.
Due(req, c) == c = Parsed + 3 \/ c = Len(Encoded(req))

\* How many lines of the request the parser has taken.
Lined == IF request.state = "REQ_LINE" THEN 0 ELSE Len(request.headers) + 1

\* The buffer holds the start of the next line of the request.
LEMMA BufferIs ==
    ASSUME IInv, NEW req, Plain(req), NEW c \in 0..Len(Encoded(req)), Reading(req, c)
    PROVE  LET m    == Len(req.headers)
               wire == Encoded(req)
           IN  /\ m \in Nat /\ wire \in Seq(Wire) /\ Len(wire) = 3 * m + 5
               /\ Lined \in 0..(m + 1) /\ Parsed = 3 * Lined /\ c \in Nat
               /\ Len(readbuf) = c - Parsed /\ Len(readbuf) <= 3
               /\ \A i \in 1..Len(readbuf) : readbuf[i] = wire[3 * Lined + i]
  <1> DEFINE m    == Len(req.headers)
             wire == Encoded(req)
  <1>1. m \in Nat /\ wire \in Seq(Wire) /\ Len(wire) = 3 * m + 5
    <2>1. req.headers \in Seq(Header)
      BY DEF Plain, Header
    <2> QED
      BY <2>1, EncodedIs DEF Plain
  <1>2. c \in Nat /\ c <= Len(wire)
    BY <1>1
  <1>3. Lined \in 0..(m + 1) /\ Parsed = 3 * Lined
    <2>1. request \in RequestType /\ Len(request.headers) \in Nat
      BY LenProperties DEF IInv, TypeOK, RequestType
    <2>2. \/ request.state = "REQ_LINE"
          \/ request.state = "REQ_HEADER" /\ Len(request.headers) <= m
      BY DEF Reading, Fresh
    <2> HIDE DEF m, wire
    <2> QED
      BY <1>1, <2>1, <2>2 DEF Lined, Parsed
  <1>4. /\ Parsed <= c /\ c <= Parsed + 3
        /\ readbuf = SubSeq(wire, Parsed + 1, c)
    BY DEF Reading
  <1> HIDE DEF m, wire
  <1>5. PICK k \in Nat : k = Lined
    BY <1>1, <1>3
  <1>6. readbuf = SubSeq(wire, 3 * k + 1, c) /\ 3 * k <= c /\ c <= 3 * k + 3
    BY <1>3, <1>4, <1>5
  <1>7. \A i \in (3 * k + 1)..c : wire[i] \in Wire
    BY <1>1, <1>2, ElementOfSeq
  <1>8. /\ Len(readbuf) = c - 3 * k
        /\ \A i \in 1..(c - 3 * k) : readbuf[i] = wire[3 * k + i]
    <2>1. PICK first \in Int : first = 3 * k + 1
      BY <1>5
    <2>2. PICK b : b = SubSeq(wire, first, c)
      OBVIOUS
    <2>3. /\ Len(b) = IF first <= c THEN c - first + 1 ELSE 0
          /\ \A i \in 1..(c - first + 1) : b[i] = wire[first + i - 1]
      BY <1>2, <1>7, <2>1, <2>2, SubSeqProperties
    <2> QED
      BY <1>2, <1>6, <2>1, <2>2, <2>3
  <1> QED
    BY <1>1, <1>2, <1>3, <1>5, <1>6, <1>8, SMTT(60) DEF m, wire

\* The text of a line with its "\r\n" is its first symbol.
LEMMA TextIs ==
    ASSUME NEW b \in Seq(Wire), Len(b) = 3
    PROVE  Text(b) = <<b[1]>>
  <1>1. PICK n \in Int : n = 1
    OBVIOUS
  <1>2. PICK t : t = SubSeq(b, 1, n)
    OBVIOUS
  <1>3. b[1] \in Wire
    BY ElementOfSeq
  <1>4. t \in Seq(Wire) /\ Len(t) = 1 /\ t[1] = b[1]
    <2>1. \A i \in 1..n : b[i] \in Wire
      BY <1>1, <1>3
    <2>2. /\ t \in Seq(Wire) /\ Len(t) = IF 1 <= n THEN n - 1 + 1 ELSE 0
          /\ \A i \in 1..(n - 1 + 1) : t[i] = b[1 + i - 1]
      BY <1>1, <1>2, <2>1, SubSeqProperties
    <2> QED
      BY <1>1, <2>2
  <1>5. <<b[1]>> \in Seq(Wire) /\ Len(<<b[1]>>) = 1 /\ <<b[1]>>[1] = b[1]
    BY <1>3
  <1>6. t = <<b[1]>>
    <2>1. PICK u \in Seq(Wire) : u = <<b[1]>> /\ Len(u) = 1 /\ u[1] = b[1]
      BY <1>5
    <2>2. \A i \in 1..1 : t[i] = u[i]
      BY <1>4, <2>1
    <2>3. t = u
      BY <1>4, <2>1, <2>2, SeqEqual
    <2> QED
      BY <2>1, <2>3
  <1>7. Text(b) = SubSeq(b, 1, n)
    <2>1. Len(b) - 2 = n
      BY <1>1
    <2> QED
      BY <2>1, Zenon DEF Text
  <1> QED
    BY <1>2, <1>6, <1>7

\* checkBuffer() reports a line exactly when one is there, and the line is the
\* next one of the request.
LEMMA LineIs ==
    ASSUME IInv, NEW req, Plain(req), NEW c \in 0..Len(Encoded(req)), Reading(req, c)
    PROVE  /\ ~Due(req, c) => readbuf = <<>> \/ checkBuffer(readbuf) = 2
           /\ Due(req, c) => /\ readbuf # <<>> /\ checkBuffer(readbuf) = 1
                             /\ c = Len(Encoded(req)) <=> Lined = Len(req.headers) + 1
           /\ Due(req, c) /\ Lined = 0 => readbuf[1] = req.line /\ Text(readbuf) = <<req.line>>
           /\ Due(req, c) /\ Lined \in 1..Len(req.headers) =>
                  readbuf # CRLF /\ Text(readbuf) = <<req.headers[Lined]>>
           /\ Due(req, c) /\ Lined = Len(req.headers) + 1 => readbuf = CRLF
  <1> DEFINE m    == Len(req.headers)
             wire == Encoded(req)
  <1>1. /\ m \in Nat /\ wire \in Seq(Wire) /\ Len(wire) = 3 * m + 5
        /\ wire[1] = req.line /\ wire[2] = "CR" /\ wire[3] = "LF"
        /\ wire[3 * m + 4] = "CR" /\ wire[3 * m + 5] = "LF"
    <2>1. req.headers \in Seq(Header)
      BY DEF Plain, Header
    <2> QED
      BY <2>1, EncodedIs DEF Plain
  <1>2. \A j \in 1..m : /\ wire[3 * j + 1] = req.headers[j]
                        /\ wire[3 * j + 2] = "CR" /\ wire[3 * j + 3] = "LF"
    <2>1. req.headers \in Seq(Header)
      BY DEF Plain, Header
    <2> QED
      BY <2>1, EncodedIs DEF Plain
  <1>3. \A j \in 1..m : req.headers[j] \in {"host", "length"}
    BY ElementOfSeq DEF Plain
  <1>4. req.line \in Line /\ req.line # "LF" /\ req.line # "CR"
    BY RequestAssumption DEF Plain
  <1>5. /\ Lined \in 0..(m + 1) /\ Parsed = 3 * Lined /\ c \in Nat /\ c <= Len(wire)
        /\ Len(readbuf) = c - Parsed /\ Len(readbuf) <= 3
    BY BufferIs
  <1>6. \A i \in 1..Len(readbuf) : readbuf[i] = wire[3 * Lined + i]
    BY BufferIs
  <1>7. Due(req, c) <=> c = Parsed + 3 \/ c = Len(wire)
    BY DEF Due
  <1>8. PICK b \in Seq(Wire) : b = readbuf
    BY DEF IInv, TypeOK
  <1> HIDE DEF m, wire
  <1>9. PICK k \in Nat, n \in Nat : k = Lined /\ n = Len(b)
    <2>1. Lined \in Nat
      BY <1>1, <1>5
    <2>2. Len(b) \in Nat
      BY LenProperties
    <2> QED
      BY <2>1, <2>2
  <1>10. /\ k <= m + 1 /\ c = 3 * k + n /\ n <= 3 /\ c <= 3 * m + 5
         /\ \A i \in 1..n : b[i] = wire[3 * k + i]
    BY <1>1, <1>5, <1>6, <1>8, <1>9
  <1>11. Due(req, c) <=> IF k = m + 1 THEN n = 2 ELSE n = 3
    <2>1. Due(req, c) <=> c = 3 * k + 3 \/ c = 3 * m + 5
      BY <1>1, <1>5, <1>7, <1>9
    <2>2. (c = 3 * k + 3 \/ c = 3 * m + 5) <=> IF k = m + 1 THEN n = 2 ELSE n = 3
      BY <1>1, <1>10
    <2> QED
      BY <2>1, <2>2
  <1>12. /\ n >= 1 => b[1] = wire[3 * k + 1]
         /\ n >= 2 => b[2] = wire[3 * k + 2]
         /\ n >= 3 => b[3] = wire[3 * k + 3]
    BY <1>10
  <1>13. BUFSIZE \in Nat /\ BUFSIZE >= 3
    BY RequestAssumption
  <1>14. b = <<>> <=> n = 0
    BY <1>8, <1>9, EmptySeq
  <1>15. CASE k = 0
    <2>1. /\ n >= 1 => b[1] = req.line
          /\ n >= 2 => b[2] = "CR"
          /\ n >= 3 => b[3] = "LF"
      BY <1>1, <1>12, <1>15
    <2>2. n = 3 <=> Due(req, c)
      BY <1>1, <1>11, <1>15
    <2>3. ~Due(req, c) => b = <<>> \/ checkBuffer(b) = 2
      BY <1>4, <1>9, <1>10, <1>13, <1>14, <2>1, <2>2 DEF checkBuffer
    <2>4. Due(req, c) => b # <<>> /\ checkBuffer(b) = 1 /\ c # Len(wire)
      BY <1>1, <1>9, <1>10, <1>14, <1>15, <2>1, <2>2 DEF checkBuffer
    <2>5. Due(req, c) => b[1] = req.line /\ Text(b) = <<req.line>>
      BY <1>9, <2>1, <2>2, TextIs
    <2> QED
      BY <1>1, <1>8, <1>9, <1>15, <2>3, <2>4, <2>5 DEF m, wire
  <1>16. CASE k \in 1..m
    <2>1. /\ n >= 1 => b[1] = req.headers[k]
          /\ n >= 2 => b[2] = "CR"
          /\ n >= 3 => b[3] = "LF"
      BY <1>2, <1>12, <1>16
    <2>2. n = 3 <=> Due(req, c)
      BY <1>1, <1>11, <1>16
    <2>3. req.headers[k] \notin {"CR", "LF"}
      BY <1>3, <1>16
    <2>4. ~Due(req, c) => b = <<>> \/ checkBuffer(b) = 2
      BY <1>9, <1>10, <1>13, <1>14, <2>1, <2>2, <2>3, SMTT(60) DEF checkBuffer
    <2>5. Due(req, c) => b # <<>> /\ checkBuffer(b) = 1 /\ c # Len(wire)
      BY <1>1, <1>9, <1>10, <1>14, <1>16, <2>1, <2>2, SMTT(60) DEF checkBuffer
    <2>6. Due(req, c) => b # CRLF /\ Text(b) = <<req.headers[k]>>
      <3>1. Len(CRLF) = 2
        BY DEF CRLF
      <3>3. Due(req, c) => Text(b) = <<req.headers[k]>>
        BY <1>9, <2>1, <2>2, TextIs
      <3>4. ASSUME Due(req, c), b = CRLF PROVE FALSE
        <4>1. n = 3
          BY <2>2, <3>4
        <4>2. n = 2
          BY <1>9, <3>1, <3>4
        <4> QED
          BY <4>1, <4>2
      <3> QED
        BY <3>3, <3>4
    <2> QED
      BY <1>1, <1>8, <1>9, <1>16, <2>4, <2>5, <2>6 DEF m, wire
  <1>17. CASE k = m + 1
    <2>1. n <= 2 /\ (n = 2 <=> Due(req, c))
      BY <1>1, <1>10, <1>11, <1>17
    <2>2. /\ n >= 1 => b[1] = "CR"
          /\ n >= 2 => b[2] = "LF"
      BY <1>1, <1>12, <1>17
    <2>3. ~Due(req, c) => b = <<>> \/ checkBuffer(b) = 2
      BY <1>9, <1>10, <1>13, <1>14, <2>1, <2>2 DEF checkBuffer
    <2>4. Due(req, c) => b # <<>> /\ checkBuffer(b) = 1 /\ c = Len(wire)
      <3> SUFFICES ASSUME Due(req, c) PROVE b # <<>> /\ checkBuffer(b) = 1 /\ c = Len(wire)
        OBVIOUS
      <3>1. n = 2 /\ b # <<>>
        BY <1>14, <2>1
      <3>2. c = Len(wire)
        BY <1>1, <1>10, <1>17, <3>1
      <3>3. b[2] = "LF" /\ b[1] = "CR" /\ Len(b) = 2
        BY <1>9, <2>2, <3>1
      <3>4. checkBuffer(b) = 1
        BY <3>3 DEF checkBuffer
      <3> QED
        BY <3>1, <3>2, <3>4
    <2>5. Due(req, c) => b = CRLF
      <3> SUFFICES ASSUME Due(req, c) PROVE b = CRLF
        OBVIOUS
      <3>1. CRLF \in Seq(Wire) /\ Len(CRLF) = 2 /\ CRLF[1] = "CR" /\ CRLF[2] = "LF"
        BY DEF CRLF, Wire
      <3>2. n = 2
        BY <2>1
      <3>3. Len(b) = 2 /\ b[1] = "CR" /\ b[2] = "LF"
        BY <1>9, <2>2, <3>2
      <3>4. \A i \in 1..2 : b[i] = CRLF[i]
        BY <3>1, <3>3
      <3> QED
        BY <1>8, <3>1, <3>3, <3>4, SeqEqual
    <2> QED
      BY <1>1, <1>8, <1>9, <1>17, <2>3, <2>4, <2>5 DEF m, wire
  <1> QED
    BY <1>1, <1>9, <1>10, <1>15, <1>16, <1>17

------------------------------------------------------------------------------
(* The steps of the select loop that write no member of the object.        *)

\* What is on its way stays there when only the place in the loop changes, and
\* http_process() is not left with a line in the buffer.
LEMMA Moved ==
    ASSUME IInv, Undisturbed, StreamInv, peer = "open",
           UNCHANGED <<clientVars, inbox, outbox, closed, readbuf, writebuf, request, response>>,
           \/ pc # "http_process" \/ pc' = pc
           \/ \A req : \A c \in 0..Len(Encoded(req)) :
                  Plain(req) /\ Reading(req, c) => ~Due(req, c)
    PROVE  StreamInv'
  <1>1. ASSUME NEW req, NEW c \in 0..Len(Encoded(req)), Plain(req), Reading(req, c)
        PROVE  Reading(req, c)'
    <2>1. Due(req, c) => pc' = "http_process"
      BY <1>1 DEF Reading, Due
    <2> QED
      BY <1>1, <2>1 DEF Reading, Due, Quiet, NoOutput, Parsed, Fresh, Recognised
  <1>2. ASSUME NEW req, Plain(req), Stands(req)
        PROVE  Stands(req)'
    <2>1. CASE \E c \in 0..Len(Encoded(req)) : Reading(req, c)
      BY <1>1, <1>2, <2>1 DEF Stands
    <2>2. CASE Accepted(req)
      BY <2>2 DEF Stands, Accepted, Recognised, NoInput, NoOutput
    <2>3. CASE Writing(req)
      BY <2>3 DEF Stands, Writing, Recognised, NoInput, Fresh, Sent, Written
    <2>4. CASE Finished(req)
      BY <2>4 DEF Stands, Finished, NoInput, Fresh, Sent
    <2> QED
      BY <1>2, <2>1, <2>2, <2>3, <2>4 DEF Stands
  <1>3. Idle => Idle'
    BY DEF Idle, NoInput, NoOutput, Fresh, Quiet
  <1>4. Calm'
    BY DEF Calm, StreamInv
  <1>5. TypeOK
    BY DEF IInv
  <1> QED
    BY <1>2, <1>3, <1>4, <1>5, Frame

\* The loop moves on.
LEMMA MoveSteps ==
    ASSUME IInv, Undisturbed, StreamInv, peer = "open",
           \/ Select \/ NoRead \/ Flushing \/ ParseIdle \/ NeedMoreData \/ NotCgi
           \/ NoResponse \/ NothingToWrite \/ Crash \/ NoSend \/ StayOpen \/ ChildWrite \/ Over
    PROVE  StreamInv'
  <1>1. CASE \/ Select \/ NoRead \/ NotCgi \/ NoResponse \/ NothingToWrite \/ Crash
             \/ NoSend \/ StayOpen \/ ChildWrite \/ Over
    <2>1. CASE Select \/ NoRead \/ NotCgi \/ NoSend \/ StayOpen
      BY <2>1, Moved DEF Select, NoRead, NotCgi, NoSend, StayOpen
    <2>2. CASE NoResponse \/ NothingToWrite \/ Crash
      BY <2>2, Moved DEF NoResponse, NothingToWrite, Responding, Crash
    <2>3. CASE ChildWrite \/ Over
      <3>1. /\ pc' = pc
            /\ UNCHANGED <<clientVars, inbox, outbox, closed, readbuf, writebuf, request, response>>
        BY <2>3, Zenon DEF ChildWrite, Over
      <3> QED
        BY <3>1, Moved
    <2> QED
      BY <1>1, <2>1, <2>2, <2>3
  <1>2. CASE Flushing \/ ParseIdle \/ NeedMoreData
    <2>1. /\ UNCHANGED <<clientVars, inbox, outbox, closed, readbuf, writebuf, request, response>>
          /\ pc = "http_process"
      BY <1>2 DEF Flushing, ParseIdle, NeedMoreData, Parsing
    <2>2. ASSUME NEW req, NEW c \in 0..Len(Encoded(req)), Plain(req), Reading(req, c), Due(req, c)
          PROVE  FALSE
      <3>1. readbuf # <<>> /\ checkBuffer(readbuf) = 1
        BY <2>2, LineIs
      <3>2. response.state # -1
        <4>1. Quiet
          BY <2>2 DEF Reading
        <4>2. closed # 1
          BY <2>1 DEF IInv, ProtocolInv, LoopInv
        <4>3. response.state = 0
          BY <4>1, <4>2, QuietFacts
        <4> QED
          BY <4>3
      <3>3. request.state # "REQ_DONE"
        BY <2>2 DEF Reading, Fresh
      <3> QED
        BY <1>2, <3>1, <3>2, <3>3 DEF Flushing, ParseIdle, NeedMoreData
    <2> QED
      BY <2>1, <2>2, Moved
  <1> QED
    BY <1>1, <1>2

------------------------------------------------------------------------------
(* handleread() and process_request().                                     *)

\* Of a connection with something in the read buffer or on its way there the
\* client waits for a request to be read.
LEMMA InputIsRead ==
    ASSUME Undisturbed, TypeOK, StreamInv, peer = "open", ~NoInput
    PROVE  /\ asked # answers
           /\ \A req : Stands(req) => \E c \in 0..Len(Encoded(req)) : Reading(req, c)
  <1>1. asked # answers
    BY DEF StreamInv, Idle
  <1>2. ASSUME NEW req, Stands(req)
        PROVE  \E c \in 0..Len(Encoded(req)) : Reading(req, c)
    BY <1>2 DEF Stands, Accepted, Writing, Finished
  <1> QED
    BY <1>1, <1>2

\* A step that takes a request some symbols further.
LEMMA ReadingFrame ==
    ASSUME Undisturbed, TypeOK, StreamInv, peer = "open", ~NoInput, Calm',
           UNCHANGED <<script, asked, answers>>,
           \A req : \A c \in 0..Len(Encoded(req)) : Plain(req) /\ Reading(req, c) => Stands(req)'
    PROVE  StreamInv'
  <1>1. Idle => Idle'
    BY DEF Idle
  <1>2. ASSUME NEW req, Plain(req), Stands(req) PROVE Stands(req)'
    BY <1>2, InputIsRead
  <1> QED
    BY <1>1, <1>2, Frame

\* handleread() takes the next symbol of the request.
LEMMA ReadStep ==
    ASSUME IInv, Undisturbed, StreamInv, peer = "open", Read
    PROVE  StreamInv'
  <1>1. /\ pc = "handleread" /\ pc' = "http_process" /\ inbox # <<>>
        /\ UNCHANGED <<clientVars, outbox, closed, writebuf, request, response>>
    BY DEF Read
  <1>2. readbuf' = readbuf \o SubSeq(inbox, 1, 1)
    BY ReadOne
  <1>3. inbox' = SubSeq(inbox, 2, Len(inbox))
    BY ReadOne
  <1>4. TypeOK /\ ~NoInput
    BY <1>1 DEF IInv, NoInput
  <1>5. Calm'
    BY <1>1 DEF Calm, StreamInv
  <1>6. ASSUME NEW req, NEW c \in 0..Len(Encoded(req)), Plain(req), Reading(req, c)
        PROVE  Stands(req)'
    <2> DEFINE wire == Encoded(req)
    <2>1. c \in Nat /\ wire \in Seq(Wire) /\ Len(wire) \in Nat /\ Parsed \in Nat
      BY <1>6, BufferIs
    <2>2. ~Due(req, c)
      BY <1>1, <1>6 DEF Reading, Due
    <2>3. /\ Parsed <= c /\ c < Parsed + 3 /\ c < Len(wire)
          /\ c + 1 \in 0..Len(wire)
      BY <1>6, <2>1, <2>2 DEF Reading, Due
    <2>4. readbuf = SubSeq(wire, Parsed + 1, c)
      BY <1>6 DEF Reading
    <2>5. inbox \o todo = SubSeq(wire, c + 1, Len(wire))
      BY <1>6 DEF Reading
    <2> HIDE DEF wire
    <2>6. PICK a \in Seq(Wire), b \in Seq(Wire) : a = inbox /\ b = todo
      BY <1>4 DEF TypeOK
    <2>7. PICK w \in Seq(Wire), p \in Nat : w = wire /\ p = Parsed
      BY <2>1
    <2>8. /\ SubSeq(a, 1, 1) = <<w[c + 1]>>
          /\ SubSeq(a, 2, Len(a)) \o b = SubSeq(w, c + 2, Len(w))
      <3>1. a # <<>> /\ c \in Nat /\ c < Len(w) /\ a \o b = SubSeq(w, c + 1, Len(w))
        BY <1>1, <2>1, <2>3, <2>5, <2>6, <2>7
      <3> QED
        BY <3>1, TakeOne, ZenonT(60)
    <2>9. readbuf' = SubSeq(wire, Parsed + 1, c + 1)
      <3>1. SubSeq(w, p + 1, c) \o <<w[c + 1]>> = SubSeq(w, p + 1, c + 1)
        <4>1. c \in Nat /\ p <= c /\ c < Len(w)
          BY <2>1, <2>3, <2>7
        <4> QED
          BY <4>1, PartMore
      <3> QED
        BY <1>2, <2>4, <2>6, <2>7, <2>8, <3>1
    <2>10. inbox' \o todo' = SubSeq(wire, (c + 1) + 1, Len(wire))
      <3>1. (c + 1) + 1 = c + 2
        BY <2>1
      <3> QED
        BY <1>1, <1>3, <2>6, <2>7, <2>8, <3>1
    <2>11. Reading(req, c + 1)'
      <3>1. Parsed' = Parsed
        BY <1>1 DEF Parsed
      <3>2. Quiet' /\ NoOutput'
        BY <1>1, <1>6 DEF Reading, Quiet, NoOutput
      <3>3. Parsed <= c + 1 /\ c + 1 <= Parsed + 3 /\ c + 1 <= Len(wire)
        BY <2>1, <2>3
      <3>4. \/ Fresh'
            \/ /\ request'.state = "REQ_HEADER" /\ Recognised(req)'
               /\ Len(request'.headers) <= Len(req.headers)
        BY <1>1, <1>6 DEF Reading, Fresh, Recognised
      <3> QED
        BY <1>1, <2>9, <2>10, <3>1, <3>2, <3>3, <3>4 DEF Reading, wire
    <2> QED
      BY <2>3, <2>11 DEF Stands, wire
  <1> QED
    BY <1>1, <1>4, <1>5, <1>6, ReadingFrame

\* While the parser works on a line it is one of the request that is due.
LEMMA ParsedIsDue ==
    ASSUME IInv, Undisturbed, StreamInv, peer = "open", readbuf # <<>>
    PROVE  \E req : \E c \in 0..Len(Encoded(req)) : Plain(req) /\ Reading(req, c)
  <1>1. TypeOK /\ ~NoInput
    BY DEF IInv, NoInput
  <1>2. asked # answers
    BY <1>1, InputIsRead
  <1>3. Plain(script[asked]) /\ Stands(script[asked])
    BY <1>1, <1>2, PlainDue
  <1> QED
    BY <1>1, <1>3, InputIsRead

\* No line of the request is refused.
LEMMA NothingRefused ==
    ASSUME IInv, Undisturbed, StreamInv, peer = "open",
           ReadEnd \/ BadLineEnd \/ BadRequestLine \/ BadHeaderLine \/ ParseNoMemory
    PROVE  FALSE
  <1>1. ~ReadEnd /\ ~ParseNoMemory
    BY DEF ReadEnd, ParseNoMemory, Undisturbed
  <1>2. PICK s \in {"REQ_LINE", "REQ_HEADER"} : Parsing(s)
    BY <1>1 DEF BadLineEnd, BadRequestLine, BadHeaderLine
  <1>3. PICK req : \E c \in 0..Len(Encoded(req)) : Plain(req) /\ Reading(req, c)
    <2>1. readbuf # <<>>
      BY <1>2 DEF Parsing
    <2> QED
      BY <2>1, ParsedIsDue
  <1>4. PICK c \in 0..Len(Encoded(req)) : Plain(req) /\ Reading(req, c)
    BY <1>3
  <1>5. checkBuffer(readbuf) = IF Due(req, c) THEN 1 ELSE 2
    <2>1. ~Due(req, c) => readbuf = <<>> \/ checkBuffer(readbuf) = 2
      BY <1>4, LineIs
    <2>2. Due(req, c) => checkBuffer(readbuf) = 1
      BY <1>4, LineIs
    <2>3. readbuf # <<>>
      BY <1>2 DEF Parsing
    <2> QED
      BY <2>1, <2>2, <2>3
  <1>6. ~BadLineEnd
    BY <1>5 DEF BadLineEnd
  <1>7. Due(req, c)
    BY <1>1, <1>5, <1>6 DEF BadRequestLine, BadHeaderLine
  <1>8. ~BadRequestLine
    <2> SUFFICES ASSUME BadRequestLine PROVE FALSE
      OBVIOUS
    <2>1. Lined = 0
      BY DEF BadRequestLine, Parsing, Lined
    <2>2. Text(readbuf) = <<req.line>>
      BY <1>4, <1>7, <2>1, LineIs
    <2>3. req.line \in Line /\ Target[req.line] # "bad"
      BY <1>4 DEF Plain
    <2>4. PICK l \in Line : l = req.line
      BY <2>3
    <2>5. Len(<<l>>) = 1 /\ <<l>>[1] = l
      OBVIOUS
    <2>6. ValidLine(Text(readbuf))
      BY <2>2, <2>3, <2>4, <2>5 DEF ValidLine
    <2> QED
      BY <2>6 DEF BadRequestLine
  <1>9. ~BadHeaderLine
    <2> SUFFICES ASSUME BadHeaderLine PROVE FALSE
      OBVIOUS
    <2>1. readbuf # CRLF
      BY DEF BadHeaderLine
    <2>2. Lined \in 1..Len(req.headers)
      <3>1. Lined \in 0..(Len(req.headers) + 1) /\ Len(req.headers) \in Nat
        BY <1>4, BufferIs
      <3>2. Lined # Len(req.headers) + 1
        BY <1>4, <1>7, <2>1, LineIs
      <3>3. Lined # 0
        <4>1. request.state = "REQ_HEADER"
          BY DEF BadHeaderLine, Parsing
        <4>2. Len(request.headers) \in Nat
          BY LenProperties DEF IInv, TypeOK, RequestType
        <4> QED
          BY <4>1, <4>2 DEF Lined
      <3> QED
        BY <3>1, <3>2, <3>3
    <2>3. Text(readbuf) = <<req.headers[Lined]>>
      BY <1>4, <1>7, <2>2, LineIs
    <2>4. PICK h \in {"host", "length"} : h = req.headers[Lined]
      BY <1>4, <2>2, ElementOfSeq DEF Plain
    <2>5. 1 \in DOMAIN <<h>> /\ <<h>>[1] \in Header \ {"nocolon"}
      BY DEF Header
    <2>6. HasColon(Text(readbuf))
      BY <2>3, <2>4, <2>5 DEF HasColon
    <2> QED
      BY <2>6 DEF BadHeaderLine
  <1> QED
    BY <1>1, <1>6, <1>8, <1>9

\* The request line is taken.
LEMMA RequestLineStep ==
    ASSUME IInv, Undisturbed, StreamInv, peer = "open", RequestLine
    PROVE  StreamInv'
  <1>1. /\ request.state = "REQ_LINE" /\ readbuf # <<>> /\ checkBuffer(readbuf) = 1
        /\ request' = [request EXCEPT !.state = "REQ_HEADER", !.line = readbuf[1],
                                      !.method = Method[readbuf[1]],
                                      !.cgi = (Target[readbuf[1]] = "cgi")]
        /\ readbuf' = <<>>
        /\ UNCHANGED <<clientVars, inbox, outbox, closed, writebuf, response>>
    BY DEF RequestLine, Parsing
  <1>2. TypeOK /\ ~NoInput /\ request \in RequestType
    BY <1>1 DEF IInv, NoInput, TypeOK
  <1>3. ASSUME NEW req, NEW c \in 0..Len(Encoded(req)), Plain(req), Reading(req, c)
        PROVE  /\ Due(req, c) /\ Lined = 0 /\ Parsed = 0 /\ c = 3 /\ readbuf[1] = req.line
               /\ request.headers = <<>>
    <2>1. Due(req, c)
      <3>1. ~Due(req, c) => checkBuffer(readbuf) = 2
        BY <1>1, <1>3, LineIs
      <3> QED
        BY <1>1, <3>1
    <2>2. Lined = 0 /\ Parsed = 0
      BY <1>1 DEF Lined, Parsed
    <2>3. readbuf[1] = req.line
      BY <1>3, <2>1, <2>2, LineIs
    <2>4. c = 3
      <3>1. c # Len(Encoded(req))
        <4>1. Len(req.headers) \in Nat
          BY <1>3, BufferIs
        <4>2. c = Len(Encoded(req)) <=> Lined = Len(req.headers) + 1
          BY <1>3, <2>1, LineIs
        <4> QED
          BY <2>2, <4>1, <4>2
      <3> QED
        BY <2>1, <2>2, <3>1 DEF Due
    <2>5. request.headers = <<>>
      BY <1>1, <1>3 DEF Reading, Fresh
    <2> QED
      BY <2>1, <2>2, <2>3, <2>4, <2>5
  <1>4. Calm'
    <2>1. PICK req : \E c \in 0..Len(Encoded(req)) : Plain(req) /\ Reading(req, c)
      BY <1>1, ParsedIsDue
    <2>2. readbuf[1] = req.line /\ Target[req.line] # "cgi"
      BY <1>3, <2>1 DEF Plain
    <2>3. ~request'.cgi
      BY <1>1, <1>2, <2>2 DEF RequestType
    <2> QED
      BY <1>1, <2>3 DEF Calm, StreamInv
  <1>5. ASSUME NEW req, NEW c \in 0..Len(Encoded(req)), Plain(req), Reading(req, c)
        PROVE  Stands(req)'
    <2> DEFINE wire == Encoded(req)
    <2>1. /\ c = 3 /\ readbuf[1] = req.line /\ request.headers = <<>>
          /\ Parsed = 0
      BY <1>3, <1>5
    <2>2. /\ request'.state = "REQ_HEADER" /\ request'.line = req.line
          /\ request'.method = Method[req.line] /\ request'.headers = <<>>
      BY <1>1, <1>2, <2>1 DEF RequestType
    <2>3. Parsed' = 3
      <3>1. Len(<<>>) = 0
        OBVIOUS
      <3> QED
        BY <2>2, <3>1 DEF Parsed
    <2>4. Len(req.headers) \in Nat /\ Len(wire) = 3 * Len(req.headers) + 5
      BY <1>5, BufferIs
    <2>5. inbox' \o todo' = SubSeq(wire, c + 1, Len(wire))
      BY <1>1, <1>5 DEF Reading
    <2>6. readbuf' = SubSeq(wire, Parsed' + 1, c)
      <3>1. SubSeq(wire, 3 + 1, 3) = <<>>
        BY SubSeqEmpty
      <3> QED
        BY <1>1, <2>1, <2>3, <3>1
    <2>7. Quiet' /\ NoOutput'
      BY <1>1, <1>5 DEF Reading, Quiet, NoOutput
    <2>8. Parsed' <= c /\ c <= Parsed' + 3 /\ c <= Len(wire) /\ c # Parsed' + 3 /\ c # Len(wire)
      BY <2>1, <2>3, <2>4
    <2>9. Len(request'.headers) <= Len(req.headers)
      <3>1. Len(<<>>) = 0
        OBVIOUS
      <3> QED
        BY <2>2, <2>4, <3>1
    <2>10. Reading(req, c)'
      BY <2>2, <2>5, <2>6, <2>7, <2>8, <2>9 DEF Reading, Recognised
    <2> QED
      BY <2>10 DEF Stands
  <1> QED
    BY <1>1, <1>2, <1>4, <1>5, ReadingFrame

\* A header line is taken.
LEMMA HeaderLineStep ==
    ASSUME IInv, Undisturbed, StreamInv, peer = "open", HeaderLine
    PROVE  StreamInv'
  <1>1. /\ request.state = "REQ_HEADER" /\ readbuf # <<>> /\ checkBuffer(readbuf) = 1
        /\ readbuf # CRLF
        /\ request' = [request EXCEPT !.headers = Append(request.headers, Text(readbuf))]
        /\ readbuf' = <<>>
        /\ UNCHANGED <<clientVars, inbox, outbox, closed, writebuf, response>>
    BY DEF HeaderLine, Parsing
  <1>2. TypeOK /\ ~NoInput /\ request \in RequestType
    BY <1>1 DEF IInv, NoInput, TypeOK
  <1>3. PICK n \in Nat : n = Len(request.headers)
    BY <1>2, LenProperties DEF RequestType
  <1>4. /\ request'.state = "REQ_HEADER" /\ request'.line = request.line
        /\ request'.method = request.method /\ request'.cgi = request.cgi
        /\ Len(request'.headers) = n + 1
    <2>1. request.headers \in Seq(Seq(Wire)) /\ Text(readbuf) \in Seq(Wire)
      BY <1>1, <1>2, TextType DEF RequestType
    <2>2. PICK hs \in Seq(Seq(Wire)) : hs = Append(request.headers, Text(readbuf))
      BY <2>1, AppendProperties
    <2>3. Len(hs) = n + 1
      BY <1>3, <2>1, <2>2, AppendProperties
    <2>4. request' = [request EXCEPT !.headers = hs]
      BY <1>1, <2>2
    <2> QED
      BY <1>1, <1>2, <2>3, <2>4 DEF RequestType
  <1>5. Calm'
    BY <1>1, <1>4 DEF Calm, StreamInv
  <1>6. Parsed = 3 * (n + 1) /\ Lined = n + 1 /\ Parsed' = 3 * (n + 2)
    BY <1>1, <1>3, <1>4 DEF Parsed, Lined
  <1>7. ASSUME NEW req, NEW c \in 0..Len(Encoded(req)), Plain(req), Reading(req, c)
        PROVE  Stands(req)'
    <2> DEFINE wire == Encoded(req)
    <2>1. PICK m \in Nat : m = Len(req.headers) /\ Len(wire) = 3 * m + 5
      BY <1>7, BufferIs
    <2>2. Due(req, c)
      <3>1. ~Due(req, c) => checkBuffer(readbuf) = 2
        BY <1>1, <1>7, LineIs
      <3> QED
        BY <1>1, <3>1
    <2>3. Lined # Len(req.headers) + 1
      BY <1>1, <1>7, <2>2, LineIs
    <2>4. c # Len(wire)
      <3>1. c = Len(wire) <=> Lined = Len(req.headers) + 1
        BY <1>7, <2>2, LineIs
      <3> QED
        BY <2>3, <3>1
    <2>5. c = 3 * (n + 2)
      <3>1. c = Parsed + 3
        BY <2>2, <2>4 DEF Due
      <3> QED
        BY <1>6, <3>1
    <2>6. n + 1 <= m
      <3>1. Lined \in 0..(m + 1)
        BY <1>7, <2>1, BufferIs
      <3> QED
        BY <1>6, <2>1, <2>3, <3>1
    <2>7. Parsed' <= c /\ c <= Parsed' + 3 /\ c <= Len(wire) /\ c # Parsed' + 3
      BY <1>6, <2>1, <2>5, <2>6
    <2>8. inbox' \o todo' = SubSeq(wire, c + 1, Len(wire))
      BY <1>1, <1>7 DEF Reading
    <2>9. readbuf' = SubSeq(wire, Parsed' + 1, c)
      <3>1. c + 1 \in Int /\ c \in Int /\ c < c + 1
        BY <2>5
      <3>2. SubSeq(wire, c + 1, c) = <<>>
        BY <3>1, SubSeqEmpty
      <3> QED
        BY <1>1, <1>6, <2>5, <3>2
    <2>10. Quiet' /\ NoOutput'
      BY <1>1, <1>7 DEF Reading, Quiet, NoOutput
    <2>11. Recognised(req)'
      BY <1>1, <1>4, <1>7 DEF Reading, Fresh, Recognised
    <2>12. Len(request'.headers) <= Len(req.headers)
      BY <1>4, <2>1, <2>6
    <2>13. Reading(req, c)'
      BY <1>4, <2>4, <2>7, <2>8, <2>9, <2>10, <2>11, <2>12 DEF Reading
    <2> QED
      BY <2>13 DEF Stands
  <1> QED
    BY <1>1, <1>2, <1>5, <1>7, ReadingFrame

\* The blank line is taken, and the request accepted.
LEMMA HeadersEndStep ==
    ASSUME IInv, Undisturbed, StreamInv, peer = "open", HeadersEnd
    PROVE  StreamInv'
  <1>1. /\ pc = "http_process" /\ request.state = "REQ_HEADER" /\ readbuf = CRLF
        /\ readbuf # <<>> /\ readbuf' = <<>>
        /\ request.method # "POST" =>
              /\ request' = [request EXCEPT !.state = "REQ_DONE"]
              /\ response' = [response EXCEPT !.httpcode = 200]
        /\ \/ request' = [request EXCEPT !.state = "REQ_DONE"]
           \/ request' = [request EXCEPT !.state = "REQ_CONTENT"]
        /\ response' \in {response, [response EXCEPT !.httpcode = 200]}
        /\ UNCHANGED <<clientVars, inbox, outbox, closed, writebuf>>
    BY DEF HeadersEnd, Parsing
  <1>2. TypeOK /\ ~NoInput /\ request \in RequestType /\ response \in ResponseType
    BY <1>1 DEF IInv, NoInput, TypeOK
  <1>3. checkBuffer(readbuf) = 1
    BY <1>1 DEF checkBuffer, CRLF
  <1>4. /\ request'.cgi = request.cgi /\ request'.line = request.line
        /\ request'.method = request.method
        /\ response'.state = response.state /\ response'.preprocessed = response.preprocessed
    BY <1>1, <1>2 DEF RequestType, ResponseType
  <1>5. Calm'
    BY <1>1, <1>4 DEF Calm, StreamInv
  <1>6. ASSUME NEW req, NEW c \in 0..Len(Encoded(req)), Plain(req), Reading(req, c)
        PROVE  Stands(req)'
    <2> DEFINE wire == Encoded(req)
    <2>1. PICK m \in Nat : m = Len(req.headers) /\ Len(wire) = 3 * m + 5
      BY <1>6, BufferIs
    <2>2. Due(req, c)
      <3>1. ~Due(req, c) => checkBuffer(readbuf) = 2
        BY <1>1, <1>6, LineIs
      <3> QED
        BY <1>3, <3>1
    <2>3. Lined = m + 1
      <3>1. Lined \in 0..(m + 1)
        BY <1>6, <2>1, BufferIs
      <3>2. Lined \notin 1..m
        BY <1>1, <1>6, <2>1, <2>2, LineIs
      <3>3. Lined # 0
        <4>1. Len(request.headers) \in Nat
          BY <1>2, LenProperties DEF RequestType
        <4> QED
          BY <1>1, <4>1 DEF Lined
      <3> QED
        BY <2>1, <3>1, <3>2, <3>3
    <2>4. c = Len(wire)
      <3>1. c = Len(wire) <=> Lined = Len(req.headers) + 1
        BY <1>6, <2>2, LineIs
      <3> QED
        BY <2>1, <2>3, <3>1
    <2>5. inbox = <<>> /\ todo = <<>>
      <3>1. inbox \o todo = SubSeq(wire, Len(wire) + 1, Len(wire))
        BY <1>6, <2>4 DEF Reading
      <3>2. SubSeq(wire, Len(wire) + 1, Len(wire)) = <<>>
        BY <2>1, SubSeqEmpty
      <3>3. PICK a \in Seq(Wire), b \in Seq(Wire) : a = inbox /\ b = todo
        BY <1>2 DEF TypeOK
      <3>4. a \o b = <<>>
        BY <3>1, <3>2, <3>3
      <3>5. a = <<>> /\ b = <<>>
        BY <3>4, ConcatEqualIffEmpty
      <3> QED
        BY <3>3, <3>5
    <2>6. Quiet /\ NoOutput /\ Recognised(req)
      BY <1>1, <1>6 DEF Reading, Fresh
    <2>7. ~response.preprocessed
      <3>1. closed # 1
        BY <1>1 DEF IInv, ProtocolInv, LoopInv
      <3> QED
        BY <2>6, <3>1, QuietFacts
    <2>8. request'.state = "REQ_DONE" /\ response'.httpcode = 200
      <3>1. request.method # "POST"
        BY <1>6, <2>6 DEF Recognised, Plain
      <3> QED
        BY <1>1, <1>2, <3>1 DEF RequestType, ResponseType
    <2>9. Accepted(req)'
      BY <1>1, <1>4, <2>5, <2>6, <2>7, <2>8 DEF Accepted, Recognised, NoInput, NoOutput
    <2> QED
      BY <2>9 DEF Stands
  <1> QED
    BY <1>1, <1>2, <1>5, <1>6, ReadingFrame

\* There is no content to read and no CGI program to run.
LEMMA NoContentNoCgi ==
    ASSUME IInv, Undisturbed, StreamInv, peer = "open",
           Content \/ CgiStart \/ CgiStartFails \/ CgiPoll
    PROVE  FALSE
  <1>1. ~is_cgi
    BY DEF is_cgi, StreamInv
  <1>2. Content
    BY <1>1 DEF CgiStart, CgiStartFails, CgiPoll
  <1>3. request.state = "REQ_CONTENT"
    BY <1>2 DEF Content
  <1>4. TypeOK
    BY DEF IInv
  <1>5. asked # answers
    BY <1>3 DEF StreamInv, Idle, Fresh
  <1>6. PICK req : Stands(req)
    BY <1>4, <1>5, PlainDue
  <1>7. ~Accepted(req) /\ ~Finished(req) /\ ~\E c \in 0..Len(Encoded(req)) : Reading(req, c)
    BY <1>3 DEF Accepted, Finished, Reading, Fresh
  <1>8. Writing(req)
    BY <1>6, <1>7 DEF Stands
  <1>9. CASE response.state \in IF response.httpcode = 200 THEN (0..12) \ {4} ELSE 0..4
    <2>1. response.state \in 0..12 /\ response.preprocessed
      BY <1>8, <1>9 DEF Writing
    <2>2. request.state = "REQ_DONE"
      BY <2>1 DEF IInv, ProtocolInv, HeaderInv
    <2> QED
      BY <1>3, <2>2
  <1> QED
    BY <1>3, <1>8, <1>9 DEF Writing, Fresh

------------------------------------------------------------------------------
(* process_response().                                                     *)

\* Of a connection with a response under way the client waits for it.
LEMMA ResponseIsDue ==
    ASSUME IInv, Undisturbed, StreamInv, peer = "open",
           response.preprocessed, response.state # -1
    PROVE  ~Idle /\ \A req : Stands(req) => Writing(req)
  <1>1. ~Idle
    BY DEF Idle, Quiet
  <1>2. ASSUME NEW req, Stands(req) PROVE Writing(req)
    BY <1>2 DEF Stands, Reading, Quiet, Accepted, Finished
  <1> QED
    BY <1>1, <1>2

\* preprocess() finds the code of the reply and, when it is 200, its file.
LEMMA PreprocessStreamStep ==
    ASSUME IInv, Undisturbed, StreamInv, peer = "open", Preprocess
    PROVE  StreamInv'
  <1>1. /\ ~response.preprocessed /\ response' = Preprocessed
        /\ UNCHANGED <<clientVars, inbox, outbox, closed, readbuf, writebuf, request>>
        /\ ~(Static /\ Target[request.line] = "noext")
    BY DEF Preprocess
  <1>2. TypeOK /\ response \in ResponseType
    BY DEF IInv, TypeOK
  <1>3. response.state = 0 /\ response.bufIndex = 0 /\ ~response.isPipelining
    BY <1>1 DEF IInv, ProtocolInv, HeaderInv
  <1>4. request.state = "REQ_DONE"
    BY <1>3 DEF Preprocess, Responding
  <1>5. closed # 1
    BY <1>3 DEF StreamInv
  <1>6. response'.state = 0 /\ response'.bufIndex = 0 /\ response'.preprocessed /\ response'.datestr
    BY <1>1, <1>2, <1>3 DEF Preprocessed, ResponseType
  <1>7. Calm'
    BY <1>1, <1>5 DEF Calm, StreamInv
  <1>8. Idle => Idle'
    BY <1>4 DEF Idle, Fresh
  <1>9. ASSUME NEW req, Plain(req), Stands(req) PROVE Stands(req)'
    <2>1. Accepted(req)
      BY <1>1, <1>4, <1>9 DEF Stands, Reading, Writing, Finished, Fresh
    <2>2. /\ request.line = req.line /\ request.method = Method[req.line]
          /\ response.httpcode = 200 /\ Recognised(req)
      BY <2>1 DEF Accepted, Recognised
    <2>3. /\ req.line \in Line /\ Method[req.line] \in {"GET", "HEAD"}
          /\ Target[req.line] \notin {"bad", "cgi", "noext"}
      BY <1>1, <1>9, <2>2 DEF Plain, Static
    <2>4. Target[req.line] \in {"file", "missing", "unreadable"}
      BY <2>3, RequestAssumption DEF Targets
    <2>5. PICK l \in Line, m \in {"GET", "HEAD"} :
             l = req.line /\ l = request.line /\ m = Method[l] /\ m = request.method
      BY <2>2, <2>3
    <2>6. /\ response'.httpcode = Outcome(req)
          /\ Outcome(req) = 200 => response'.file = l
          /\ response'.file \in Line \cup {"none"}
      <3>1. CASE Target[l] = "missing"
        <4>1. response' = [response EXCEPT !.preprocessed = TRUE, !.datestr = TRUE,
                                           !.httpcode = 404]
          BY <1>1, <2>2, <2>5, <3>1 DEF Preprocessed
        <4>2. Outcome(req) = 404
          BY <2>5, <3>1 DEF Outcome
        <4> QED
          BY <1>2, <4>1, <4>2 DEF ResponseType
      <3>2. CASE Target[l] = "unreadable" /\ m = "GET"
        <4>1. response' = [response EXCEPT !.preprocessed = TRUE, !.datestr = TRUE,
                                           !.file = l, !.fpos = 0, !.httpcode = 500]
          BY <1>1, <2>2, <2>5, <3>2 DEF Preprocessed, needOpen
        <4>2. Outcome(req) = 500
          BY <2>5, <3>2 DEF Outcome
        <4> QED
          BY <1>2, <4>1, <4>2 DEF ResponseType
      <3>3. CASE Target[l] # "missing" /\ ~(Target[l] = "unreadable" /\ m = "GET")
        <4>1. response' = [response EXCEPT !.preprocessed = TRUE, !.datestr = TRUE,
                                           !.file = l, !.fpos = 0, !.fp = needOpen]
          BY <1>1, <2>2, <2>5, <3>3 DEF Preprocessed, needOpen
        <4>2. Outcome(req) = 200
          BY <2>5, <3>3 DEF Outcome
        <4> QED
          BY <1>2, <2>2, <4>1, <4>2 DEF ResponseType
      <3> QED
        BY <3>1, <3>2, <3>3
    <2>7. Sent' = Written(req)'
      <3>1. PICK code \in Code, file \in Line \cup {"none"} :
               code = response'.httpcode /\ file = response'.file
        BY <2>6 DEF Outcome, Code
      <3>2. Written(req)' = Ahead(0, code, file) \o SubSeq(Piece(0, code, file), 1, 0)
        BY <1>6, <3>1 DEF Written, BodyStage
      <3>3. Ahead(0, code, file) = <<>>
        <4>1. Stage(0, code) /\ 0 \in 0..12
          BY DEF Stage
        <4> QED
          BY <4>1, StageText
      <3>4. SubSeq(Piece(0, code, file), 1, 0) = <<>>
        BY SubSeqEmpty
      <3>5. Sent' = <<>> \o <<>> \o <<>>
        BY <1>1, <2>1 DEF Accepted, NoOutput, Sent
      <3>6. <<>> \o <<>> = <<>>
        OBVIOUS
      <3> QED
        BY <3>2, <3>3, <3>4, <3>5, <3>6
    <2>8. response'.httpcode = 200 => response'.file = req.line
      BY <2>5, <2>6
    <2>9. NoInput' /\ Recognised(req)'
      BY <1>1, <2>1 DEF Accepted, NoInput, Recognised
    <2>10. response'.state \in IF response'.httpcode = 200 THEN (0..12) \ {4} ELSE 0..4
      BY <1>6
    <2>11. Writing(req)'
      BY <1>6, <2>6, <2>7, <2>8, <2>9, <2>10 DEF Writing
    <2> QED
      BY <2>11 DEF Stands
  <1> QED
    BY <1>1, <1>2, <1>7, <1>8, <1>9, Frame

\* The stage that NextStage() finds for a plain request, before the last one.
LEMMA StageAfter ==
    ASSUME NEW s \in 0..12, NEW code \in Code, Stage(s, code), NEW m \in {"GET", "HEAD"},
           s # IF code = 200 THEN 12 ELSE 4
    PROVE  /\ NextStage(s, code, m) = After(s, code)
           /\ After(s, code) \in 0..12 /\ Stage(After(s, code), code)
  BY DEF Stage, NextStage, After

\* And after it.
LEMMA StageAfterLast ==
    ASSUME NEW code \in Code, NEW m \in {"GET", "HEAD"}
    PROVE  NextStage(IF code = 200 THEN 12 ELSE 4, code, m)
              = IF code = 200 /\ m = "GET" THEN BodyStage ELSE -1
  BY DEF NextStage, BodyStage

\* A piece is written, or a part of it: the reply stands further on.
LEMMA PieceStreamStep ==
    ASSUME IInv, Undisturbed, StreamInv, peer = "open", WritePiece
    PROVE  StreamInv'
  <1> DEFINE s     == response.state
             code  == response.httpcode
             file  == response.file
             i     == response.bufIndex
             m     == request.method
             added == addBuffer(writebuf, i, Piece(TextStage(s, m), code, file))
             next  == NextStage(s, code, m)
             over  == added.done /\ next = -1
  <1>1. /\ writebuf' = added.buf
        /\ response' = [response EXCEPT !.bufIndex = added.index,
                                        !.state = IF added.done THEN next ELSE s,
                                        !.isPipelining = response.isPipelining \/ over]
        /\ request' = IF over THEN NextRequest ELSE request
        /\ response.preprocessed /\ HasPiece
        /\ UNCHANGED <<clientVars, inbox, outbox, closed, readbuf>>
    BY DEF WritePiece
  <1>2. s \in 0..12
    BY <1>1 DEF HasPiece
  <1>3. TypeOK /\ response \in ResponseType
    BY DEF IInv, TypeOK
  <1>4. /\ code \in Code /\ file \in Line \cup {"none"} /\ i \in Nat
        /\ response.isPipelining \in BOOLEAN
    BY <1>3 DEF ResponseType
  <1>5. ~Idle /\ \A req : Stands(req) => Writing(req)
    BY <1>1, <1>2, ResponseIsDue
  <1>6. /\ closed # 1 /\ rx \in Seq(Byte) /\ outbox \in Seq(Byte) /\ writebuf \in Seq(Byte)
        /\ Len(writebuf) <= BUFSIZE
    <2>1. s # -1
      BY <1>2
    <2>2. closed # 1 /\ rx \in Seq(Byte) /\ outbox \in Seq(Byte)
      BY <2>1 DEF StreamInv
    <2>3. writebuf \in Seq(Byte) /\ Len(writebuf) <= BUFSIZE
      BY <1>3 DEF TypeOK
    <2> QED
      BY <2>2, <2>3
  <1>7. added.index \in Nat /\ added.done \in BOOLEAN /\ (added.done => added.index = 0)
        /\ next \in -1..BodyStage
    <2>1. added.index \in Nat
      BY PieceFacts
    <2>2. added.done \in BOOLEAN
      BY PieceFacts
    <2>3. added.done => added.index = 0
      BY PieceFacts
    <2>4. next \in -1..BodyStage
      BY NextStageFacts
    <2> QED
      BY <2>1, <2>2, <2>3, <2>4
  <1>8. /\ response'.bufIndex = added.index
        /\ response'.state = IF added.done THEN next ELSE s
        /\ response'.preprocessed /\ response'.httpcode = code /\ response'.fpos = response.fpos
        /\ response'.file = file /\ response'.datestr = response.datestr
        /\ response'.isPipelining = (response.isPipelining \/ over)
    <2> HIDE DEF added, next, over, s, i, m
    <2>1. PICK st \in -1..BodyStage, p \in BOOLEAN :
             st = (IF added.done THEN next ELSE s) /\ p = (response.isPipelining \/ over)
      <3>1. (IF added.done THEN next ELSE s) \in -1..BodyStage
        BY <1>2, <1>7 DEF BodyStage
      <3>2. (response.isPipelining \/ over) \in BOOLEAN
        BY Zenon
      <3> QED
        BY <3>1, <3>2, Zenon
    <2>2. response' = [response EXCEPT !.bufIndex = added.index, !.state = st, !.isPipelining = p]
      BY <1>1, <2>1
    <2>3. PICK n \in Nat : n = added.index
      BY <1>7
    <2>4. response' = [response EXCEPT !.bufIndex = n, !.state = st, !.isPipelining = p]
      BY <2>2, <2>3
    <2>5. /\ response'.bufIndex = n /\ response'.state = st /\ response'.isPipelining = p
          /\ response'.preprocessed = response.preprocessed /\ response'.httpcode = code
          /\ response'.fpos = response.fpos /\ response'.file = file
          /\ response'.datestr = response.datestr
      BY <1>3, <2>4 DEF ResponseType
    <2> QED
      BY <1>1, <2>1, <2>3, <2>5
  <1>9. Calm'
    <2>1. ~request'.cgi
      <3>1. ~NextRequest.cgi
        BY DEF NextRequest, InitRequest
      <3>2. ~request.cgi
        BY DEF StreamInv
      <3> HIDE DEF over
      <3> QED
        BY <1>1, <3>1, <3>2
    <2> HIDE DEF added, over, next
    <2> QED
      BY <1>1, <1>6, <2>1 DEF Calm, StreamInv
  <1>10. ASSUME NEW req, Plain(req), Writing(req) PROVE Stands(req)'
    <2> DEFINE l    == req.line
               last == IF code = 200 THEN 12 ELSE 4
               p    == Piece(s, code, file)
               b    == Ahead(s, code, file)
               text == First(Number(code), code, file)
    <2>1. /\ s \in IF code = 200 THEN (0..12) \ {4} ELSE 0..4
          /\ response.datestr /\ Recognised(req)
      BY <1>2, <1>10 DEF Writing, BodyStage
    <2>2. code = Outcome(req) /\ (code = 200 => file = l) /\ NoInput /\ Sent = Written(req)
      BY <1>10 DEF Writing
    <2>3. Stage(s, code) /\ m \in {"GET", "HEAD"} /\ m = Method[l] /\ TextStage(s, m) = s
      BY <1>10, <2>1 DEF Stage, Recognised, Plain, TextStage
    <2>4. p \in Seq(Byte) /\ Len(p) = PieceLen[s] /\ i < Len(p)
      <3>1. i < PieceLen[TextStage(s, m)]
        BY <1>1, <1>2 DEF IInv, ProtocolInv, HeaderInv
      <3> HIDE DEF s, code, file, i, m
      <3>2. p \in Seq(Byte) /\ Len(p) = PieceLen[s]
        BY <1>2, <1>4, PieceType
      <3> QED
        BY <2>3, <3>1, <3>2
    <2>5. added = addBuffer(writebuf, i, p)
      BY <2>3
    <2>6. Written(req) = b \o SubSeq(p, 1, i)
      <3>1. s # BodyStage
        BY <1>2 DEF BodyStage
      <3> QED
        BY <3>1, Zenon DEF Written
    <2>7. text \in Seq(Byte) /\ (code = 200 => text = FileHead(l))
          /\ Reply(req) = IF code = 200 /\ m = "GET"
                          THEN text \o FileBytes(l, 0, FileSize[l]) ELSE text
      BY <1>4, <1>10, <2>2, <2>3, ReplyIs, SMTT(60)
    <2> DEFINE a == addBuffer(writebuf, i, p)
    <2>8. added = a
      BY <2>5
    <2>9. PICK part \in Seq(Byte) :
             /\ a.buf = writebuf \o part
             /\ SubSeq(p, 1, i) \o part = IF a.done THEN p ELSE SubSeq(p, 1, a.index)
      <3> HIDE DEF p, i, s, code, file, added
      <3> QED
        BY <1>4, <1>6, <2>4, AddBufferText
    <2> HIDE DEF s, code, file, i, m, added, next, over, l, last, p, b, text, a
    <2>10. PICK q \in Seq(Byte) : q = SubSeq(p, 1, i)
      <3>1. i <= Len(p) /\ 1 \in Nat \ {0} /\ i \in Nat
        BY <1>4, <2>4
      <3> QED
        BY <2>4, <3>1, PartIsSeq
    <2>11. b \in Seq(Byte) /\ b \o p \in Seq(Byte)
      BY <1>2, <1>4, <2>3, StageText DEF b, p
    <2>12. Sent' = b \o (IF added.done THEN p ELSE SubSeq(p, 1, added.index))
      <3>1. PICK w \in Seq(Byte), z \in Seq(Byte) : w = rx \o outbox /\ z = writebuf
        BY <1>6, ConcatProperties
      <3>2. Sent' = Sent \o part
        <4>1. (w \o z) \o part = w \o (z \o part)
          BY Regroup
        <4> QED
          BY <1>1, <2>8, <2>9, <3>1, <4>1 DEF Sent
      <3>3. Sent \o part = (b \o q) \o part
        BY <2>2, <2>6, <2>10
      <3>4. (b \o q) \o part = b \o (q \o part)
        <4>1. PICK d \in Seq(Byte) : d = b
          BY <2>11
        <4>2. (d \o q) \o part = d \o (q \o part)
          BY Regroup
        <4> QED
          BY <4>1, <4>2
      <3> QED
        BY <2>8, <2>9, <2>10, <3>2, <3>3, <3>4
    <2>13. NoInput'
      BY <1>1, <2>2 DEF NoInput
    <2>14. CASE ~added.done
      <3>1. request' = request /\ response'.state = s /\ response'.bufIndex = added.index
        BY <1>1, <1>8, <2>14 DEF over
      <3>2. Written(req)' = b \o SubSeq(p, 1, added.index)
        <4>1. s # BodyStage
          BY <1>2 DEF BodyStage
        <4> QED
          BY <1>8, <3>1, <4>1, Zenon DEF Written, b, p
      <3>3. Recognised(req)'
        BY <2>1, <3>1 DEF Recognised
      <3>4. Writing(req)'
        BY <1>8, <2>1, <2>2, <2>12, <2>13, <2>14, <3>1, <3>2, <3>3, ZenonT(60) DEF Writing, l
      <3> QED
        BY <3>4 DEF Stands
    <2>15. CASE added.done /\ s # last
      <3>1. next = After(s, code) /\ next \in 0..12 /\ Stage(next, code)
        <4>1. PICK st \in 0..12, me \in {"GET", "HEAD"}, co \in Code : st = s /\ me = m /\ co = code
          BY <1>2, <1>4, <2>3
        <4> QED
          BY <2>3, <2>15, <4>1, StageAfter DEF next, last
      <3>2. request' = request /\ response'.state = next /\ response'.bufIndex = 0
        BY <1>1, <1>7, <1>8, <2>15, <3>1 DEF over
      <3>3. Ahead(next, code, file) = b \o p
        BY <1>2, <1>4, <2>3, <2>15, <3>1, StageText, ZenonT(60) DEF b, p, last
      <3>4. Written(req)' = Ahead(next, code, file) \o SubSeq(Piece(next, code, file), 1, 0)
        BY <1>8, <3>1, <3>2, SMTT(60) DEF Written, BodyStage
      <3>5. SubSeq(Piece(next, code, file), 1, 0) = <<>>
        BY SubSeqEmpty
      <3>6. Written(req)' = b \o p
        BY <2>11, <3>3, <3>4, <3>5, ConcatEmptySeq
      <3>7. Recognised(req)'
        BY <2>1, <3>2 DEF Recognised
      <3>8. next \in IF code = 200 THEN (0..12) \ {4} ELSE 0..4
        BY <3>1 DEF Stage
      <3>9. Sent' = Written(req)'
        BY <2>12, <2>15, <3>6
      <3>10. Writing(req)'
        BY <1>8, <2>1, <2>2, <2>13, <3>2, <3>7, <3>8, <3>9 DEF Writing, l
      <3> QED
        BY <3>10 DEF Stands
    <2>16. CASE added.done /\ s = last
      <3>1. next = IF code = 200 /\ m = "GET" THEN BodyStage ELSE -1
        BY <1>4, <2>3, <2>16, StageAfterLast DEF next, last
      <3>2. text = b \o p
        <4>1. IF s = last THEN text = b \o p
                          ELSE Ahead(After(s, code), code, file) = b \o p
          BY <1>2, <1>4, <2>3, StageText, ZenonT(60) DEF b, p, last, text
        <4> QED
          BY <2>16, <4>1
      <3>3. Sent' = text
        BY <2>12, <2>16, <3>2
      <3>4. CASE code = 200 /\ m = "GET"
        <4>1. request' = request /\ response'.state = BodyStage
          BY <1>1, <1>8, <2>16, <3>1, <3>4 DEF over, BodyStage
        <4>2. request.state = "REQ_DONE" /\ response.fpos = 0 /\ ~response.isPipelining
          BY <1>1, <1>2, <3>4 DEF IInv, ProtocolInv, HeaderInv, s, code, m
        <4>3. Written(req)' = FileHead(l) \o FileBytes(l, 0, 0)
          BY <1>8, <4>1, <4>2 DEF Written, l
        <4>4. FileBytes(l, 0, 0) = <<>>
          <5>1. l \in Line /\ 0 \in Nat /\ 0 <= 0
            BY <1>10 DEF Plain, l
          <5>2. FileBytes(l, 0, 0) \in Seq(Byte) /\ Len(FileBytes(l, 0, 0)) = 0 - 0
            BY <5>1, FileBytesType
          <5> QED
            BY <5>2, EmptySeq
        <4>5. Written(req)' = text
          BY <2>7, <3>4, <4>3, <4>4, ConcatEmptySeq
        <4>6. ~response'.isPipelining
          <5>1. ~over
            BY <3>1, <3>4 DEF over, BodyStage
          <5> QED
            BY <1>8, <4>2, <5>1
        <4>7. Recognised(req)'
          BY <2>1, <4>1 DEF Recognised
        <4>8. Writing(req)'
          BY <1>8, <2>2, <2>3, <2>13, <3>3, <3>4, <4>1, <4>2, <4>5, <4>6, <4>7 DEF Writing, l
        <4> QED
          BY <4>8 DEF Stands
      <3>5. CASE ~(code = 200 /\ m = "GET")
        <4>1. request' = NextRequest /\ response'.state = -1
          BY <1>1, <1>8, <2>16, <3>1, <3>5 DEF over
        <4>2. Fresh'
          BY <4>1 DEF Fresh, NextRequest, InitRequest
        <4>3. Sent' = Reply(req)
          BY <2>7, <3>3, <3>5
        <4>4. Finished(req)'
          BY <1>8, <2>13, <4>1, <4>2, <4>3 DEF Finished
        <4> QED
          BY <4>4 DEF Stands
      <3> QED
        BY <3>4, <3>5
    <2> QED
      BY <2>14, <2>15, <2>16
  <1> HIDE DEF added, over, next
  <1> QED
    BY <1>1, <1>3, <1>5, <1>9, <1>10, Frame

\* A part of the file is written: the reply stands further on.
LEMMA BodyStreamStep ==
    ASSUME IInv, Undisturbed, StreamInv, peer = "open", WriteBody
    PROVE  StreamInv'
  <1> DEFINE file  == response.file
             pos   == response.fpos
             added == readFileContent(writebuf, file, pos)
  <1>1. /\ writebuf' = added.buf
        /\ response' = [response EXCEPT !.isPipelining = TRUE, !.fpos = added.fpos,
                                        !.state = IF added.done THEN -1 ELSE response.state]
        /\ request' = IF response.isPipelining THEN request ELSE NextRequest
        /\ response.preprocessed /\ response.state = BodyStage
        /\ UNCHANGED <<clientVars, inbox, outbox, closed, readbuf>>
    BY DEF WriteBody
  <1>2. TypeOK /\ response \in ResponseType
    BY DEF IInv, TypeOK
  <1>3. /\ file \in Line /\ pos \in Nat /\ pos <= FileSize[file]
        /\ pos < FileSize[file] \/ writebuf # <<>>
    <2>1. FileSize[file] \in Nat \/ file \notin Line
      BY ResponseAssumption
    <2> QED
      BY <1>1, <1>2, <2>1 DEF IInv, ProtocolInv, BodyInv, ResponseType
  <1>4. ~Idle /\ \A req : Stands(req) => Writing(req)
    BY <1>1, ResponseIsDue DEF BodyStage
  <1>5. /\ closed # 1 /\ rx \in Seq(Byte) /\ outbox \in Seq(Byte) /\ writebuf \in Seq(Byte)
        /\ Len(writebuf) <= BUFSIZE
    <2>1. closed # 1 /\ rx \in Seq(Byte) /\ outbox \in Seq(Byte)
      BY <1>1 DEF StreamInv, BodyStage
    <2>2. writebuf \in Seq(Byte) /\ Len(writebuf) <= BUFSIZE
      BY <1>2 DEF TypeOK
    <2> QED
      BY <2>1, <2>2
  <1>6. added.fpos \in Nat /\ added.done \in BOOLEAN
    BY <1>3, <1>5, ReadFile
  <1>7. PICK part \in Seq(Byte) :
           /\ added.buf = writebuf \o part
           /\ FileBytes(file, 0, pos) \o part = FileBytes(file, 0, added.fpos)
    <2> HIDE DEF added, file, pos
    <2> QED
      BY <1>3, <1>5, ReadFileText DEF added
  <1>8. added.done => added.fpos = FileSize[file]
    <2> HIDE DEF added, file, pos
    <2> QED
      BY <1>3, <1>5, ReadFileText DEF added
  <1>9. /\ response'.fpos = added.fpos /\ response'.isPipelining
        /\ response'.state = IF added.done THEN -1 ELSE BodyStage
        /\ response'.preprocessed /\ response'.httpcode = response.httpcode
        /\ response'.file = file
    <2> HIDE DEF added
    <2>1. PICK st \in -1..BodyStage, n \in Nat :
             st = (IF added.done THEN -1 ELSE BodyStage) /\ n = added.fpos
      BY <1>6 DEF BodyStage
    <2>2. response' = [response EXCEPT !.isPipelining = TRUE, !.fpos = n, !.state = st]
      BY <1>1, <2>1
    <2> QED
      BY <1>1, <1>2, <2>1, <2>2 DEF ResponseType
  <1>10. Fresh' \/ (response.isPipelining /\ request' = request)
    BY <1>1 DEF Fresh, NextRequest, InitRequest
  <1>11. Calm'
    <2>1. ~request'.cgi
      <3>1. ~NextRequest.cgi
        BY DEF NextRequest, InitRequest
      <3>2. ~request.cgi
        BY DEF StreamInv
      <3> QED
        BY <1>1, <3>1, <3>2
    <2> HIDE DEF added
    <2> QED
      BY <1>1, <1>5, <2>1 DEF Calm, StreamInv
  <1>12. ASSUME NEW req, Plain(req), Writing(req) PROVE Stands(req)'
    <2> DEFINE l    == req.line
               body == FileBytes(l, 0, added.fpos)
               done == FileBytes(l, 0, pos)
    <2>1. /\ response.httpcode = 200 /\ Method[l] = "GET" /\ file = l
          /\ 200 = Outcome(req) /\ NoInput /\ Sent = Written(req)
          /\ response.isPipelining => Fresh
      BY <1>1, <1>12 DEF Writing, BodyStage
    <2>2. Fresh'
      BY <1>10, <2>1 DEF Fresh
    <2>3. NoInput'
      BY <1>1, <2>1 DEF NoInput
    <2>4. FileHead(l) \in Seq(Byte) /\ Reply(req) = FileHead(l) \o FileBytes(l, 0, FileSize[l])
      <3>2. file \in Line \cup {"none"}
        BY <1>3
      <3>3. Outcome(req) = 200 => file = req.line
        BY <2>1
      <3> DEFINE text == First(Number(Outcome(req)), Outcome(req), file)
      <3>4. /\ text \in Seq(Byte)
            /\ Outcome(req) = 200 => text = FileHead(req.line)
            /\ Reply(req) = IF Outcome(req) = 200 /\ Method[req.line] = "GET"
                            THEN text \o FileBytes(req.line, 0, FileSize[req.line])
                            ELSE text
        <4> HIDE DEF file
        <4> QED
          BY <1>12, <3>2, <3>3, ReplyIs
      <3> QED
        BY <2>1, <3>4
    <2>5. done \in Seq(Byte)
      <3>1. 0 \in Nat /\ 0 <= pos /\ l \in Line
        BY <1>3, <2>1
      <3> QED
        BY <1>3, <3>1, FileBytesType
    <2>6. Written(req) = FileHead(l) \o done
      BY <1>1, Zenon DEF Written
    <2> HIDE DEF l, done, body, added, pos, file
    <2>7. Sent' = FileHead(l) \o body
      <3>1. PICK w \in Seq(Byte), z \in Seq(Byte) : w = rx \o outbox /\ z = writebuf
        BY <1>5, ConcatProperties
      <3>2. (w \o z) \o part = w \o (z \o part)
        BY Regroup
      <3>3. Sent' = Sent \o part
        BY <1>1, <1>7, <3>1, <3>2 DEF Sent
      <3>4. PICK h \in Seq(Byte), d \in Seq(Byte) : h = FileHead(l) /\ d = done
        BY <2>4, <2>5
      <3>5. (h \o d) \o part = h \o (d \o part)
        BY Regroup, ZenonT(60)
      <3>6. done \o part = body
        BY <1>7, <2>1 DEF done, body, l, file
      <3> QED
        BY <2>1, <2>6, <3>3, <3>4, <3>5, <3>6
    <2>8. CASE added.done
      <3>1. Sent' = Reply(req)
        <4>1. added.fpos = FileSize[l]
          BY <1>8, <2>1, <2>8 DEF l, file
        <4>2. body = FileBytes(l, 0, FileSize[l])
          BY <4>1 DEF body
        <4> QED
          BY <2>4, <2>7, <4>2
      <3>2. response'.state = -1
        BY <1>9, <2>8
      <3>3. Finished(req)'
        BY <1>9, <2>2, <2>3, <3>1, <3>2 DEF Finished
      <3> QED
        BY <3>3 DEF Stands
    <2>9. CASE ~added.done
      <3>1. response'.state = BodyStage
        BY <1>9, <2>9
      <3>2. Written(req)' = FileHead(l) \o body
        BY <1>9, <3>1, Zenon DEF Written, body, l
      <3>3. Writing(req)'
        BY <1>9, <2>1, <2>2, <2>3, <2>7, <3>1, <3>2 DEF Writing, l, file
      <3> QED
        BY <3>3 DEF Stands
    <2> QED
      BY <2>8, <2>9
  <1> HIDE DEF added
  <1> QED
    BY <1>1, <1>2, <1>4, <1>11, <1>12, Frame

------------------------------------------------------------------------------
(* handlewrite() and the end of a response.                                *)

\* send() moves what is on its way.
LEMMA SendStreamStep ==
    ASSUME IInv, Undisturbed, StreamInv, peer = "open", Send
    PROVE  StreamInv'
  <1>1. /\ writebuf # <<>> /\ outbox' = outbox \o writebuf /\ writebuf' = <<>>
        /\ closed' = IF response.state = -1 THEN 1 ELSE 0
        /\ UNCHANGED <<clientVars, inbox, readbuf, request, response>>
    BY DEF Send, Sending, AfterSend
  <1>2. TypeOK
    BY DEF IInv
  <1>3. /\ rx \in Seq(Byte) /\ outbox \in Seq(Byte) /\ writebuf \in Seq(Byte)
        /\ outbox' \in Seq(Byte) /\ writebuf' \in Seq(Byte)
    <2>1. rx \in Seq(Byte) /\ outbox \in Seq(Byte) /\ writebuf \in Seq(Byte)
      BY <1>2 DEF StreamInv, TypeOK
    <2>2. outbox \o writebuf \in Seq(Byte)
      BY <2>1, ConcatProperties
    <2> QED
      BY <1>1, <2>1, <2>2, EmptySeq
  <1>4. Calm'
    BY <1>1, <1>3 DEF Calm, StreamInv
  <1>5. Sent' = Sent
    <2>1. PICK x \in Seq(Byte), y \in Seq(Byte), z \in Seq(Byte), w \in Seq(Byte) :
             x = rx /\ y = outbox /\ z = writebuf /\ w = y \o z
      BY <1>3, ConcatProperties
    <2>2. (x \o y) \o z = x \o (y \o z)
      BY Regroup, ZenonT(60)
    <2>3. PICK v \in Seq(Byte) : v = x \o w
      BY ConcatProperties
    <2>4. v \o <<>> = v
      BY ConcatEmptySeq
    <2>5. Sent = v
      BY <2>1, <2>2, <2>3 DEF Sent
    <2>6. Sent' = (x \o w) \o <<>>
      BY <1>1, <2>1 DEF Sent
    <2> QED
      BY <2>3, <2>4, <2>5, <2>6
  <1>6. ~Idle
    BY <1>1 DEF Idle, NoOutput
  <1>7. ASSUME NEW req, Plain(req), Stands(req) PROVE Stands(req)'
    <2>1. Writing(req) \/ Finished(req)
      BY <1>1, <1>7 DEF Stands, Reading, Accepted, NoOutput
    <2>2. CASE Writing(req)
      <3>1. Written(req)' = Written(req)
        BY <1>1 DEF Written
      <3>2. Writing(req)'
        BY <1>1, <1>5, <2>2, <3>1 DEF Writing, NoInput, Recognised, Fresh
      <3> QED
        BY <3>2 DEF Stands
    <2>3. CASE Finished(req)
      <3>1. Finished(req)'
        BY <1>1, <1>5, <2>3 DEF Finished, NoInput, Fresh
      <3> QED
        BY <3>1 DEF Stands
    <2> QED
      BY <2>1, <2>2, <2>3
  <1> QED
    BY <1>1, <1>2, <1>4, <1>6, <1>7, Frame

\* The response is reset when all of it was sent.
LEMMA NextResponseStep ==
    ASSUME IInv, Undisturbed, StreamInv, peer = "open", NextResponse
    PROVE  StreamInv'
  <1>1. /\ pc = "remove" /\ closed = 1 /\ closed' = 0
        /\ response' = InitResponse(response.httpcode)
        /\ UNCHANGED <<clientVars, inbox, outbox, readbuf, writebuf, request>>
    BY DEF NextResponse
  <1>2. response.state = -1 /\ writebuf = <<>>
    BY <1>1 DEF StreamInv
  <1>3. response.preprocessed
    BY <1>2 DEF IInv, ProtocolInv, HeaderInv
  <1>4. ~response'.preprocessed
    BY <1>1 DEF InitResponse
  <1>5. TypeOK /\ Calm'
    BY <1>1 DEF IInv, Calm, StreamInv
  <1>6. Idle => Idle'
    BY <1>1, <1>4 DEF Idle, NoInput, NoOutput, Fresh, Quiet
  <1>7. ASSUME NEW req, NEW c \in 0..Len(Encoded(req)), Plain(req), Reading(req, c)
        PROVE  Reading(req, c)'
    <2>1. c # Parsed + 3 /\ c # Len(Encoded(req))
      BY <1>1, <1>7 DEF Reading
    <2>2. Parsed' = Parsed /\ Quiet' /\ NoOutput'
      BY <1>1, <1>4, <1>7 DEF Reading, Parsed, Quiet, NoOutput
    <2> QED
      BY <1>1, <1>7, <2>1, <2>2 DEF Reading, Fresh, Recognised
  <1>8. ASSUME NEW req, Plain(req), Stands(req) PROVE Stands(req)'
    <2>1. ~Accepted(req) /\ ~Writing(req)
      BY <1>2, <1>3 DEF Accepted, Writing, BodyStage
    <2>2. CASE Finished(req)
      <3>1. Finished(req)'
        BY <1>1, <1>2, <1>4, <2>2 DEF Finished, NoInput, Fresh, Sent
      <3> QED
        BY <3>1 DEF Stands
    <2>3. CASE \E c \in 0..Len(Encoded(req)) : Reading(req, c)
      BY <1>7, <1>8, <2>3 DEF Stands
    <2> QED
      BY <1>8, <2>1, <2>2, <2>3 DEF Stands
  <1> QED
    BY <1>1, <1>5, <1>6, <1>8, Frame
------------------------------------------------------------------------------
(* The client and the network.                                             *)

\* The client asks when it has its answers: its request is on its way.
LEMMA AskStep ==
    ASSUME IInv, Undisturbed, StreamInv, peer = "open", Ask
    PROVE  StreamInv'
  <1>1. /\ answers = asked /\ asked < Len(script) /\ asked' = asked + 1
        /\ todo' = todo \o Encoded(script[asked + 1])
        /\ UNCHANGED <<script, peer, rx, answers, intact, inbox, outbox, server>>
    BY DEF Ask, Undisturbed
  <1>2. TypeOK /\ Len(script) \in Nat /\ script \in Scripts /\ asked \in Nat
    BY ClientAssumption DEF IInv, TypeOK
  <1>3. Idle
    BY <1>1 DEF StreamInv
  <1>4. PICK req : req = script[asked'] /\ req = script[asked + 1]
    BY <1>1
  <1>5. Plain(req)
    <2>1. asked + 1 \in 1..Len(script)
      BY <1>1, <1>2
    <2> QED
      BY <1>2, <1>4, <2>1 DEF Undisturbed
  <1> DEFINE wire == Encoded(req)
  <1>6. Len(req.headers) \in Nat /\ wire \in Seq(Wire) /\ Len(wire) = 3 * Len(req.headers) + 5
    <2>1. req.headers \in Seq(Header)
      BY <1>5 DEF Plain, Header
    <2> QED
      BY <1>5, <2>1, EncodedIs DEF Plain
  <1>7. 0 \in 0..Len(wire) /\ 0 # Len(wire) /\ 0 <= Len(wire)
    BY <1>6
  <1>8. todo' = wire
    <2>1. todo' = <<>> \o wire
      BY <1>1, <1>3, <1>4 DEF Idle, NoInput
    <2> HIDE DEF wire
    <2> QED
      BY <1>6, <2>1, ConcatEmptySeq
  <1>9. inbox' \o todo' = SubSeq(wire, 0 + 1, Len(wire))
    <2>1. inbox' = <<>>
      BY <1>1, <1>3 DEF Idle, NoInput
    <2> HIDE DEF wire
    <2>2. <<>> \o wire = wire
      BY <1>6, ConcatEmptySeq
    <2>3. SubSeq(wire, 1, Len(wire)) = wire /\ 0 + 1 = 1
      BY <1>6, SubSeqFull
    <2> QED
      BY <1>8, <2>1, <2>2, <2>3
  <1>10. readbuf' = SubSeq(wire, 0 + 1, 0)
    <2>1. SubSeq(wire, 0 + 1, 0) = <<>>
      BY SubSeqEmpty
    <2> QED
      BY <1>1, <1>3, <2>1 DEF Idle, NoInput
  <1>11. Fresh' /\ Quiet' /\ NoOutput' /\ Parsed' = 0
    BY <1>1, <1>3 DEF Idle, Fresh, Quiet, NoOutput, Parsed
  <1>12. Reading(req, 0)'
    BY <1>7, <1>9, <1>10, <1>11 DEF Reading
  <1>13. Stands(req)'
    BY <1>7, <1>12 DEF Stands
  <1>14. \A r \in {script'[asked']} : Stands(r)'
    BY <1>1, <1>4, <1>13
  <1>15. asked' = answers' + 1 /\ asked' # answers'
    BY <1>1, <1>2
  <1> QED
    BY <1>1, <1>14, <1>15 DEF StreamInv

\* The network brings a symbol of the request to the socket.
LEMMA DeliverStep ==
    ASSUME IInv, Undisturbed, StreamInv, peer = "open", Deliver
    PROVE  StreamInv'
  <1>1. /\ todo # <<>> /\ inbox' = Append(inbox, Head(todo)) /\ todo' = Tail(todo)
        /\ UNCHANGED <<script, asked, peer, rx, answers, intact, outbox, server>>
    BY DEF Deliver
  <1>2. TypeOK /\ ~NoInput /\ inbox \in Seq(Wire) /\ todo \in Seq(Wire)
    BY <1>1 DEF IInv, TypeOK, NoInput
  <1>3. Calm'
    BY <1>1 DEF Calm, StreamInv
  <1>4. inbox' \o todo' = inbox \o todo
    <2>1. PICK h \in Wire, t \in Seq(Wire) :
             h = Head(todo) /\ t = Tail(todo) /\ todo = <<h>> \o t
      BY <1>1, <1>2, TakeHead
    <2>2. PICK i \in Seq(Wire) : i = inbox
      BY <1>2
    <2>3. PICK s \in Seq(Wire) : s = <<h>>
      BY Single
    <2>4. Append(i, h) = i \o s
      BY <2>3, AppendIsConcat
    <2>5. (i \o s) \o t = i \o (s \o t)
      BY ConcatAssociative, SMTT(60)
    <2> QED
      BY <1>1, <2>1, <2>2, <2>3, <2>4, <2>5
  <1>5. ASSUME NEW req, NEW c \in 0..Len(Encoded(req)), Plain(req), Reading(req, c)
        PROVE  Stands(req)'
    <2>1. Reading(req, c)'
      BY <1>1, <1>4, <1>5 DEF Reading, Quiet, NoOutput, Parsed, Fresh, Recognised
    <2> QED
      BY <2>1 DEF Stands
  <1> QED
    BY <1>1, <1>2, <1>3, <1>5, ReadingFrame

\* A sequence that starts another one is a prefix of it, and not a proper one
\* of itself.
LEMMA StartFacts ==
    ASSUME NEW a, NEW b \in Seq(Byte)
    PROVE  /\ Start(a, b) => IsPrefix(a, b)
           /\ ProperStart(a, b) => a # b /\ Start(a, b)
  <1>1. ASSUME NEW s \in Seq(Byte), NEW r \in Seq(Byte), b = s \o r
        PROVE  IsPrefix(s, b) /\ (r # <<>> => s # b)
    <2>1. PICK m \in Nat, n \in Nat : m = Len(s) /\ n = Len(r)
      BY LenProperties
    <2>2. /\ Len(b) = m + n
          /\ \A i \in 1..(m + n) : b[i] = IF i <= m THEN s[i] ELSE r[i - m]
      BY <1>1, <2>1, ConcatProperties
    <2>3. SubSeq(s, 1, m) = s
      BY <2>1, SubSeqFull
    <2>4. SubSeq(b, 1, m) = s
      <3>1. m <= Len(b)
        BY <2>2
      <3>2. SubSeq(b, 1, m) = SubSeq(s \o r, 1, Len(s))
        BY <1>1, <2>1
      <3>3. /\ 1 \in Nat \ {0} /\ SubSeq(b, 1, m) \in Seq(Byte)
            /\ Len(SubSeq(b, 1, m)) = IF 1 <= m THEN m - 1 + 1 ELSE 0
            /\ \A i \in 1..(m - 1 + 1) : SubSeq(b, 1, m)[i] = b[1 + i - 1]
        BY <2>1, <3>1, PartIsSeq, SubSeqProperties
      <3>4. PICK p \in Seq(Byte) : p = SubSeq(b, 1, m)
        BY <3>3
      <3>5. Len(p) = m
        BY <3>3, <3>4
      <3>6. \A i \in 1..m : p[i] = s[i]
        BY <2>2, <3>3, <3>4
      <3> QED
        BY <2>1, <3>4, <3>5, <3>6, SeqEqual
    <2>5. r # <<>> => n # 0
      BY <2>1, EmptySeq
    <2>6. n # 0 => Len(b) # m
      BY <2>2
    <2> QED
      BY <2>1, <2>2, <2>3, <2>4, <2>5, <2>6 DEF IsPrefix
  <1>2. ASSUME Start(a, b) PROVE IsPrefix(a, b)
    BY <1>1, <1>2 DEF Start
  <1>3. ASSUME ProperStart(a, b) PROVE a # b
    BY <1>1, <1>3 DEF ProperStart
  <1>4. ASSUME ProperStart(a, b) PROVE Start(a, b)
    BY <1>4 DEF ProperStart, Start
  <1> QED
    BY <1>2, <1>3, <1>4

\* The element of a sequence that follows a part of it.
LEMMA NextElement ==
    ASSUME NEW s \in Seq(Byte), NEW h \in Byte, NEW b \in Seq(Byte), Start(Append(s, h), b)
    PROVE  b[Len(s) + 1] = h
  <1>1. PICK p \in Seq(Byte) : p = Append(s, h) /\ Len(p) = Len(s) + 1 /\ p[Len(s) + 1] = h
    BY AppendProperties
  <1>2. PICK r \in Seq(Byte) : b = p \o r
    BY <1>1 DEF Start
  <1>3. Len(s) \in Nat /\ Len(r) \in Nat
    BY LenProperties
  <1>4. \A i \in 1..(Len(p) + Len(r)) : b[i] = IF i <= Len(p) THEN p[i] ELSE r[i - Len(p)]
    BY <1>2, ConcatProperties
  <1> QED
    BY <1>1, <1>3, <1>4

\* Bytes on their way to the client are those of the reply it waits for, and
\* not all of them are received while the reply is being written.
LEMMA OnTheWay ==
    ASSUME IInv, Undisturbed, StreamInv, peer = "open", outbox # <<>>
    PROVE  /\ asked = answers + 1 /\ asked # answers /\ answers \in Nat
           /\ Plain(script[asked]) /\ script[asked] = script[answers + 1]
           /\ Writing(script[asked]) \/ Finished(script[asked])
           /\ Sent \in Seq(Byte) /\ Reply(script[asked]) \in Seq(Byte)
           /\ Start(Sent, Reply(script[asked]))
           /\ Writing(script[asked]) /\ writebuf = <<>> => Sent # Reply(script[asked])
  <1> DEFINE req == script[asked]
  <1>1. asked # answers
    BY DEF StreamInv, Idle, NoOutput
  <1>2. /\ Plain(req) /\ Stands(req)
        /\ asked = answers + 1 /\ script[asked] = script[answers + 1]
    BY <1>1, PlainDue DEF IInv
  <1>3. Writing(req) \/ Finished(req)
    BY <1>2 DEF Stands, Reading, Accepted, NoOutput
  <1>4. answers \in Nat /\ Sent \in Seq(Byte)
    <2>1. PICK x \in Seq(Byte), y \in Seq(Byte), z \in Seq(Byte) :
             x = rx /\ y = outbox /\ z = writebuf
      BY DEF StreamInv, IInv, TypeOK
    <2>2. PICK w \in Seq(Byte) : w = x \o y
      BY ConcatProperties
    <2>3. w \o z \in Seq(Byte)
      BY ConcatProperties
    <2> QED
      BY <2>1, <2>2, <2>3 DEF StreamInv, Sent
  <1> HIDE DEF req
  <1>5. CASE Writing(req)
    <2>1. Sent = Written(req) /\ Start(Written(req), Reply(req))
      BY <1>2, <1>5, WrittenFacts DEF Writing
    <2>2. Reply(req) \in Seq(Byte)
      BY <2>1, ConcatProperties DEF Start
    <2>3. writebuf = <<>> => ProperStart(Written(req), Reply(req))
      BY <1>2, <1>5, WrittenFacts
    <2>4. writebuf = <<>> => Sent # Reply(req)
      BY <2>1, <2>2, <2>3, StartFacts
    <2> QED
      BY <1>1, <1>2, <1>4, <1>5, <2>1, <2>2, <2>4 DEF req
  <1>6. CASE Finished(req)
    <2>1. Sent = Reply(req)
      BY <1>6 DEF Finished
    <2>2. Start(Sent, Sent)
      BY <1>4, StartSelf
    <2>3. ASSUME Writing(req), writebuf = <<>>
          PROVE  Sent # Reply(req)
      <3>1. Sent = Written(req)
        BY <2>3 DEF Writing
      <3>2. ProperStart(Written(req), Reply(req))
        BY <1>2, <2>3, WrittenFacts
      <3> QED
        BY <1>4, <2>1, <3>1, <3>2, StartFacts
    <2> QED
      BY <1>1, <1>2, <1>4, <1>6, <2>1, <2>2, <2>3 DEF req
  <1> QED
    BY <1>3, <1>5, <1>6

\* The byte the client takes is the next one of that reply, and completes it
\* only when nothing of it is left anywhere.
LEMMA ReceiveFacts ==
    ASSUME IInv, Undisturbed, StreamInv, peer = "open", Receive
    PROVE  LET req == script[asked]
               got == Append(rx, Reply(req)[Len(rx) + 1])
           IN  /\ got = Append(rx, Head(outbox)) /\ got \in Seq(Byte)
               /\ intact' /\ outbox' \in Seq(Byte)
               /\ IF got = Reply(req) THEN rx' = <<>> /\ answers' = answers + 1
                                      ELSE rx' = got /\ answers' = answers
               /\ got = Reply(req) => Finished(req) /\ outbox' = <<>> /\ writebuf = <<>>
               /\ got # Reply(req) => Sent' = Sent
  <1> DEFINE req  == script[asked]
             got  == Append(rx, Head(outbox))
             owed == IF intact /\ answers < asked THEN Replies(answers + 1) ELSE {}
  <1>1. /\ outbox # <<>> /\ outbox' = Tail(outbox) /\ intact
        /\ UNCHANGED <<script, asked, writebuf>>
    BY DEF Receive, StreamInv
  <1>2. /\ asked = answers + 1 /\ answers \in Nat /\ Plain(req) /\ req = script[answers + 1]
        /\ Sent \in Seq(Byte) /\ Reply(req) \in Seq(Byte) /\ Start(Sent, Reply(req))
        /\ Writing(req) /\ writebuf = <<>> => Sent # Reply(req)
        /\ Writing(req) \/ Finished(req)
    BY <1>1, OnTheWay
  <1>3. owed = {Reply(req)}
    <2>1. Replies(answers + 1) = {Reply(req)}
      BY <1>2 DEF Replies, Undisturbed
    <2>2. answers < asked
      BY <1>2, SMTT(60)
    <2> QED
      BY <1>1, <2>1, <2>2
  <1>4. PICK x \in Seq(Byte), h \in Byte, t \in Seq(Byte), z \in Seq(Byte) :
           /\ x = rx /\ h = Head(outbox) /\ t = Tail(outbox) /\ z = writebuf
           /\ outbox = <<h>> \o t
    <2>1. rx \in Seq(Byte) /\ writebuf \in Seq(Byte) /\ outbox \in Seq(Byte)
      BY DEF StreamInv, IInv, TypeOK
    <2>2. /\ Head(outbox) \in Byte /\ Tail(outbox) \in Seq(Byte)
          /\ outbox = <<Head(outbox)>> \o Tail(outbox)
      BY <1>1, <2>1, TakeHead
    <2> QED
      BY <2>1, <2>2
  <1>5. PICK g \in Seq(Byte) : g = got /\ g = Append(x, h) /\ g = x \o <<h>>
    BY <1>4, AppendProperties, AppendIsConcat
  <1>6. PICK r \in Seq(Byte) : r = t \o z
    BY ConcatProperties
  <1>7. Sent = g \o r /\ Sent = (g \o t) \o z
    <2>1. PICK u \in Seq(Byte) : u = <<h>>
      BY Single
    <2>2. (x \o u) \o t = x \o (u \o t)
      BY Regroup, SMTT(60)
    <2>3. (g \o t) \o z = g \o (t \o z)
      BY Regroup, ZenonT(60)
    <2>4. Sent = (x \o (u \o t)) \o z
      BY <1>4, <2>1 DEF Sent
    <2> QED
      BY <1>5, <1>6, <2>1, <2>2, <2>3, <2>4
  <1> HIDE DEF req, got, owed
  <1>8. Start(g, Sent)
    BY <1>7, StartOf
  <1>9. Start(g, Reply(req))
    BY <1>2, <1>8, StartTrans
  <1>10. IsPrefix(g, Reply(req)) /\ Reply(req)[Len(x) + 1] = h
    BY <1>2, <1>5, <1>9, StartFacts, NextElement, ZenonT(60)
  <1>11. (\E b \in owed : IsPrefix(got, b)) /\ (got \in owed <=> got = Reply(req))
    BY <1>3, <1>5, <1>10
  <1>12. /\ rx' = IF (\E b \in owed : IsPrefix(got, b)) /\ ~(got \in owed) THEN got ELSE <<>>
         /\ answers' = IF got \in owed THEN answers + 1 ELSE answers
         /\ intact' = \E b \in owed : IsPrefix(got, b)
    BY DEF Receive, got, owed
  <1>13. IF got = Reply(req) THEN rx' = <<>> /\ answers' = answers + 1
                             ELSE rx' = got /\ answers' = answers
    BY <1>11, <1>12
  <1>14. intact'
    BY <1>11, <1>12
  <1>15. ASSUME got = Reply(req)
         PROVE  Finished(req) /\ t = <<>> /\ writebuf = <<>>
    <2>1. PICK s \in Seq(Byte) : Reply(req) = Sent \o s
      BY <1>2 DEF Start
    <2>2. (g \o r) \o s = g \o (r \o s)
      BY Regroup, SMTT(60)
    <2>3. PICK w \in Seq(Byte) : w = r \o s
      BY ConcatProperties
    <2>4. g \o w = g
      BY <1>5, <1>7, <1>15, <2>1, <2>2, <2>3
    <2>5. w = <<>>
      BY <2>4, ConcatEqualIffEmpty
    <2>6. r = <<>>
      BY <2>3, <2>5, Nothing
    <2>7. t = <<>> /\ z = <<>>
      BY <1>6, <2>6, Nothing
    <2>8. Sent = Reply(req)
      BY <1>5, <1>7, <1>15, <2>6, ConcatEmptySeq
    <2> QED
      BY <1>2, <1>4, <2>7, <2>8
  <1>16. ASSUME got # Reply(req)
         PROVE  Sent' = Sent
    <2>1. rx' = g /\ outbox' = t /\ writebuf' = z
      BY <1>1, <1>4, <1>5, <1>13, <1>16
    <2> QED
      BY <1>7, <2>1 DEF Sent
  <1>17. got = Append(rx, Reply(req)[Len(rx) + 1]) /\ got \in Seq(Byte)
    BY <1>4, <1>5, <1>10
  <1>18. outbox' \in Seq(Byte) /\ outbox' = t
    BY <1>1, <1>4
  <1> QED
    BY <1>13, <1>14, <1>15, <1>16, <1>17, <1>18 DEF req, got

\* The client takes a byte, and with the last one it has its answer.
LEMMA ReceiveStep ==
    ASSUME IInv, Undisturbed, StreamInv, peer = "open", Receive
    PROVE  StreamInv'
  <1> DEFINE req == script[asked]
             got == Append(rx, Reply(req)[Len(rx) + 1])
  <1>1. /\ outbox # <<>>
        /\ UNCHANGED <<script, asked, todo, peer, inbox, closed, readbuf, writebuf, request, response>>
    BY DEF Receive
  <1>2. TypeOK /\ closed \in {0, 1, 2} /\ closed # 2 /\ FinishedHasBytes
    BY DEF IInv, TypeOK, ProtocolInv, StreamInv
  <1>3. /\ asked = answers + 1 /\ answers \in Nat
        /\ Plain(req) /\ (Writing(req) \/ Finished(req))
    BY <1>1, OnTheWay
  <1>4. /\ got \in Seq(Byte) /\ intact' /\ outbox' \in Seq(Byte)
        /\ IF got = Reply(req) THEN rx' = <<>> /\ answers' = answers + 1
                               ELSE rx' = got /\ answers' = answers
        /\ got = Reply(req) => Finished(req) /\ outbox' = <<>> /\ writebuf = <<>>
        /\ got # Reply(req) => Sent' = Sent
    BY ReceiveFacts
  <1>5. req' = req
    BY <1>1
  <1> HIDE DEF req, got
  <1>6. rx' \in Seq(Byte) /\ answers' \in Nat
    BY <1>3, <1>4, EmptySeq
  <1>7. Calm'
    BY <1>1, <1>4, <1>6 DEF Calm, StreamInv
  <1>8. CASE got = Reply(req)
    <2>1. answers' = asked' /\ asked' = asked /\ rx' = <<>> /\ outbox' = <<>> /\ writebuf' = <<>>
      BY <1>1, <1>3, <1>4, <1>8
    <2>2. Finished(req) /\ writebuf = <<>>
      BY <1>4, <1>8
    <2>3. NoInput' /\ NoOutput' /\ Fresh'
      BY <1>1, <2>1, <2>2 DEF Finished, NoInput, NoOutput, Fresh
    <2>4. Quiet'
      <3>1. response.preprocessed => response.state = -1
        BY <2>2 DEF Finished
      <3>2. response.state = -1 => closed = 1
        BY <1>2, <2>2 DEF FinishedHasBytes
      <3> QED
        BY <1>1, <3>1, <3>2 DEF Quiet
    <2>5. Idle'
      BY <2>3, <2>4 DEF Idle
    <2> QED
      BY <1>7, <2>1, <2>5 DEF StreamInv, Calm
  <1>9. CASE got # Reply(req)
    <2>1. asked' = answers' + 1 /\ asked' # answers' /\ Sent' = Sent
      BY <1>1, <1>3, <1>4, <1>9
    <2>2. ASSUME Writing(req) PROVE Writing(req)'
      <3>1. Written(req)' = Written(req)
        BY <1>1, <1>5 DEF Written
      <3> QED
        BY <1>1, <1>5, <2>1, <2>2, <3>1 DEF Writing, NoInput, Recognised, Fresh
    <2>3. ASSUME Finished(req) PROVE Finished(req)'
      BY <1>1, <1>5, <2>1, <2>3 DEF Finished, NoInput, Fresh
    <2>4. Stands(req)'
      BY <1>3, <2>2, <2>3 DEF Stands
    <2>5. \A r \in {script'[asked']} : Stands(r)'
      BY <1>5, <2>4 DEF req
    <2> QED
      BY <1>7, <2>1, <2>5 DEF StreamInv, Calm
  <1> QED
    BY <1>8, <1>9

\* Nothing is sent to a client that is gone, no call is interrupted and no
\* memory is missing; a client that hangs up is owed nothing any more.
LEMMA OtherSteps ==
    ASSUME IInv, Undisturbed, StreamInv, peer = "open",
           \/ SendShort \/ SendToClosed \/ SendFails \/ RemoveClosed \/ PreprocessNoMemory
           \/ HangUp
    PROVE  StreamInv'
  <1>1. CASE SendShort \/ PreprocessNoMemory
    BY <1>1 DEF SendShort, PreprocessNoMemory, Undisturbed
  <1>2. CASE SendToClosed \/ SendFails
    BY <1>2 DEF SendToClosed, SendFails
  <1>3. CASE RemoveClosed
    BY <1>3 DEF RemoveClosed, StreamInv
  <1>4. CASE HangUp
    BY <1>4 DEF HangUp, StreamInv
  <1> QED
    BY <1>1, <1>2, <1>3, <1>4

\* The server and the CGI child leave the client what it has, and only make
\* a client that has hung up one that was sent a reset.
LEMMA ServerKeepsClient ==
    ASSUME Server \/ ChildWrite \/ Over
    PROVE  /\ UNCHANGED <<script, asked, rx, answers, intact>>
           /\ \/ UNCHANGED peer
              \/ peer = "closed" /\ peer' = "reset"
  <1>1. CASE SendToClosed
    BY <1>1 DEF SendToClosed
  <1>2. CASE Select \/ NoRead \/ Read \/ ReadEnd \/ Flushing \/ ParseIdle \/ NeedMoreData
    BY <1>2, Zenon DEF Select, NoRead, Read, ReadEnd, Flushing, ParseIdle, NeedMoreData
  <1>3. CASE BadLineEnd \/ RequestLine \/ BadRequestLine \/ HeadersEnd \/ HeaderLine
             \/ BadHeaderLine \/ ParseNoMemory \/ Content
    BY <1>3, Zenon DEF BadLineEnd, RequestLine, BadRequestLine, HeadersEnd, HeaderLine,
                       BadHeaderLine, ParseNoMemory, Content
  <1>4. CASE NotCgi \/ CgiStart \/ CgiStartFails \/ CgiPoll \/ NoResponse \/ Preprocess
             \/ PreprocessNoMemory
    BY <1>4, Zenon DEF NotCgi, CgiStart, CgiStartFails, CgiPoll, NoResponse, Preprocess,
                       PreprocessNoMemory
  <1>5. CASE WritePiece \/ WriteBody \/ NothingToWrite \/ Crash \/ NoSend \/ Send \/ SendShort
             \/ SendFails \/ RemoveClosed \/ NextResponse \/ StayOpen
    BY <1>5, Zenon DEF WritePiece, WriteBody, NothingToWrite, Crash, NoSend, Send, SendShort,
                       SendFails, RemoveClosed, NextResponse, StayOpen
  <1>6. CASE ChildWrite \/ Over
    BY <1>6, Zenon DEF ChildWrite, Over
  <1> QED
    BY <1>1, <1>2, <1>3, <1>4, <1>5, <1>6 DEF Server

\* Nobody comes back, and who hung up neither asks nor receives.
LEMMA ClosedForGood ==
    ASSUME [Next]_vars, peer # "open"
    PROVE  peer' # "open" /\ UNCHANGED <<script, asked, rx, answers, intact>>
  <1>1. CASE UNCHANGED vars
    BY <1>1
  <1>2. CASE Server \/ ChildWrite \/ Over
    BY <1>2, ServerKeepsClient
  <1>3. CASE Client
    BY <1>3 DEF Client, Ask, Deliver, Receive, HangUp
  <1> QED
    BY <1>1, <1>2, <1>3 DEF Next

------------------------------------------------------------------------------
(* The inductive invariant, and what it says of the stream.                *)

\* At first there is nothing on its way: memory was zero.
LEMMA InitStream ==
    ASSUME Undisturbed, Init
    PROVE  StreamInv /\ intact
  <1>1. PICK n \in Garbage : writebuf = Junk(n)
    BY DEF Init
  <1>2. n = 0
    BY DEF Undisturbed
  <1>3. writebuf = <<>>
    BY <1>1, <1>2 DEF Junk
  <1>4. rx \in Seq(Byte) /\ outbox \in Seq(Byte) /\ answers \in Nat
    BY EmptySeq DEF Init
  <1>5. /\ request.state = "REQ_LINE" /\ request.headers = <<>> /\ ~request.cgi
        /\ ~response.preprocessed
    BY DEF Init, InitRequest, InitResponse
  <1>6. Idle
    BY <1>3, <1>5 DEF Init, Idle, NoInput, NoOutput, Fresh, Quiet
  <1> QED
    BY <1>4, <1>5, <1>6 DEF StreamInv, Init

\* Every step leaves the bytes on their way what they have to be.
LEMMA StreamInductive ==
    ASSUME IInv, Undisturbed, StreamInv, intact, [Next]_vars
    PROVE  StreamInv' /\ intact'
  <1>1. CASE peer # "open"
    BY <1>1, ClosedForGood DEF StreamInv
  <1>2. CASE peer = "open" /\ UNCHANGED vars
    <2>1. StreamInv'
      BY <1>2, Moved
    <2> QED
      BY <1>2, <2>1
  <1>3. CASE peer = "open" /\ Next
    <2>1. StreamInv'
      <3>1. CASE Server
        <4>1. CASE \/ Select \/ NoRead \/ Flushing \/ ParseIdle \/ NeedMoreData \/ NotCgi
                   \/ NoResponse \/ NothingToWrite \/ Crash \/ NoSend \/ StayOpen
          BY <1>3, <4>1, MoveSteps
        <4>2. CASE \/ Read \/ RequestLine \/ HeaderLine \/ HeadersEnd
          BY <1>3, <4>2, ReadStep, RequestLineStep, HeaderLineStep, HeadersEndStep
        <4>3. CASE \/ ReadEnd \/ BadLineEnd \/ BadRequestLine \/ BadHeaderLine \/ ParseNoMemory
                   \/ Content \/ CgiStart \/ CgiStartFails \/ CgiPoll
          BY <1>3, <4>3, NothingRefused, NoContentNoCgi
        <4>4. CASE Preprocess \/ WritePiece \/ WriteBody \/ Send \/ NextResponse
          BY <1>3, <4>4, PreprocessStreamStep, PieceStreamStep, BodyStreamStep, SendStreamStep,
             NextResponseStep
        <4>5. CASE SendShort \/ SendToClosed \/ SendFails \/ RemoveClosed \/ PreprocessNoMemory
          BY <1>3, <4>5, OtherSteps
        <4> QED
          BY <3>1, <4>1, <4>2, <4>3, <4>4, <4>5 DEF Server
      <3>2. CASE ChildWrite \/ Over
        BY <1>3, <3>2, MoveSteps
      <3>3. CASE Client
        BY <1>3, <3>3, AskStep, DeliverStep, ReceiveStep, OtherSteps DEF Client
      <3> QED
        BY <1>3, <3>1, <3>2, <3>3 DEF Next
    <2>2. peer' # "open" => UNCHANGED intact
      <3>1. CASE Client
        BY <1>3, <3>1 DEF Client, Ask, Deliver, Receive, HangUp
      <3>2. CASE ~Client
        BY <1>3, <3>2, ServerKeepsClient DEF Next
      <3> QED
        BY <3>1, <3>2
    <2>3. peer' = "open" => intact'
      BY <2>1 DEF StreamInv
    <2> QED
      BY <2>1, <2>2, <2>3
  <1> QED
    BY <1>1, <1>2, <1>3

\* A reply is a sequence of bytes.
LEMMA ReplyType ==
    ASSUME NEW req, Plain(req)
    PROVE  Reply(req) \in Seq(Byte)
  <1>1. req.line \in Line /\ req.line \in Line \cup {"none"} /\ FileSize[req.line] \in Nat
    BY ResponseAssumption DEF Plain
  <1>2. PICK text \in Seq(Byte) :
           Reply(req) = IF Outcome(req) = 200 /\ Method[req.line] = "GET"
                        THEN text \o FileBytes(req.line, 0, FileSize[req.line]) ELSE text
    BY <1>1, ReplyIs
  <1>3. FileBytes(req.line, 0, FileSize[req.line]) \in Seq(Byte)
    BY <1>1, FileBytesType
  <1>4. text \o FileBytes(req.line, 0, FileSize[req.line]) \in Seq(Byte)
    BY <1>3, ConcatProperties
  <1> QED
    BY <1>2, <1>4

\* StreamInv says of all states in which the client is there what StreamOwed
\* promises.
LEMMA StreamSuffices ==
    ASSUME IInv, Undisturbed, StreamInv
    PROVE  StreamOwed
  <1> SUFFICES ASSUME peer = "open"
               PROVE  IsPrefix(Sent, FlattenSeq([i \in 1..(asked - answers) |->
                                                    Reply(script[answers + i])]))
    BY DEF StreamOwed, Sent
  <1> DEFINE owed == [i \in 1..(asked - answers) |-> Reply(script[answers + i])]
  <1>1. <<>> \in Seq(Byte) /\ <<>> \o <<>> = <<>>
    BY EmptySeq, ConcatEmptySeq
  <1>2. NoOutput => Sent = <<>>
    BY <1>1 DEF NoOutput, Sent
  <1>3. CASE asked = answers
    <2>1. answers \in Nat /\ Sent = <<>>
      BY <1>2, <1>3 DEF StreamInv, Idle
    <2>2. owed = <<>>
      <3>1. asked - answers = 0
        BY <1>3, <2>1
      <3> QED
        BY <3>1
    <2>3. FlattenSeq(owed) = <<>>
      BY <2>2, FlattenFew
    <2>4. IsPrefix(<<>>, <<>>)
      BY <1>1, StartSelf, StartFacts
    <2> QED
      BY <2>1, <2>3, <2>4
  <1>4. CASE asked # answers
    <2> DEFINE req == script[asked]
    <2>1. /\ Plain(req) /\ Stands(req) /\ asked = answers + 1 /\ asked \in Nat
          /\ answers \in Nat /\ script[answers + 1] = req
      BY <1>4, PlainDue DEF IInv, StreamInv
    <2> HIDE DEF req
    <2>2. Reply(req) \in Seq(Byte)
      BY <2>1, ReplyType
    <2>3. FlattenSeq(owed) = Reply(req)
      <3>1. asked - answers = 1
        BY <2>1
      <3>2. owed = <<Reply(req)>>
        BY <2>1, <3>1
      <3> QED
        BY <2>2, <3>2, FlattenFew
    <2>4. Start(Sent, Reply(req))
      <3>1. CASE Writing(req)
        BY <2>1, <3>1, WrittenFacts DEF Writing
      <3>2. CASE Finished(req)
        <4>1. Sent = Reply(req)
          BY <3>2 DEF Finished
        <4> QED
          BY <2>2, <4>1, StartSelf
      <3>3. CASE NoOutput
        <4>1. Start(<<>>, <<>> \o Reply(req)) /\ <<>> \o Reply(req) = Reply(req)
          BY <1>1, <2>2, StartOf, ConcatEmptySeq
        <4> QED
          BY <1>2, <3>3, <4>1
      <3> QED
        BY <2>1, <3>1, <3>2, <3>3 DEF Stands, Reading, Accepted
    <2> HIDE DEF owed
    <2>5. IsPrefix(Sent, FlattenSeq(owed))
      BY <2>2, <2>3, <2>4, StartFacts
    <2> QED
      BY <2>5 DEF owed
  <1> QED
    BY <1>3, <1>4

\* The inductive invariant of the stream: at every place of the loop, what was
\* parsed of a request and what was written and sent of its reply fit together
\* (clientsocket.c:64-189, process_request.c, process_response.c), and the
\* client has received what it was owed.
THEOREM StreamAlways ==
    ASSUME Undisturbed
    PROVE  Spec => [](IInv /\ StreamInv /\ intact)
  <1>1. Init => IInv /\ StreamInv /\ intact
    BY InitInv, InitStream
  <1>2. IInv /\ StreamInv /\ intact /\ [Next]_vars => (IInv /\ StreamInv /\ intact)'
    BY Inductive, StreamInductive
  <1> QED
    BY <1>1, <1>2, PTL DEF Spec

\* No byte is lost, repeated or out of place between addBuffer() and the client
\* (process_response.c:40-118, clientsocket.c:139-189), for every script of
\* requests for files and every size of the files, the texts and the buffers,
\* as long as one request is made at a time and nothing fails.
THEOREM NothingLost ==
    ASSUME Undisturbed
    PROVE  Spec => []StreamOwed
  <1>1. IInv /\ StreamInv => StreamOwed
    BY StreamSuffices
  <1> QED
    BY <1>1, StreamAlways, PTL

\* Under the same conditions the client receives nothing but the replies to its
\* requests, in their order.
THEOREM NothingElse ==
    ASSUME Undisturbed
    PROVE  Spec => []StreamIntact
  <1>1. intact => StreamIntact
    BY DEF StreamIntact
  <1> QED
    BY <1>1, StreamAlways, PTL

------------------------------------------------------------------------------
(* The refinement of HttpService.                                          *)

\* The first state is one of the service.
LEMMA ServiceInit == Init => Service!Init
  <1> SUFFICES ASSUME Init PROVE Service!Init
    OBVIOUS
  <1>1. asked = 0 /\ answers = 0 /\ rx = <<>> /\ peer = "open"
    BY DEF Init
  <1> QED
    BY <1>1, Zenon DEF Service!Init

\* What the service does not see.
LEMMA ServiceStutters ==
    ASSUME UNCHANGED <<script, asked, answers, rx>>, (peer = "open") <=> (peer' = "open")
    PROVE  UNCHANGED Service!vars
  <1>1. (peer = "open") = (peer' = "open")
    OBVIOUS
  <1> QED
    BY <1>1, Zenon DEF Service!vars

\* Every step of the connection is one of the service, or none.
LEMMA ServiceStep ==
    ASSUME IInv, Undisturbed, StreamInv, [Next]_vars
    PROVE  [Service!Next]_(Service!vars)
  <1>1. CASE UNCHANGED vars
    BY <1>1, ServiceStutters
  <1>2. CASE Server \/ ChildWrite \/ Over
    <2>1. (peer = "open") <=> (peer' = "open")
      BY <1>2, ServerKeepsClient
    <2> QED
      BY <1>2, <2>1, ServerKeepsClient, ServiceStutters
  <1>3. CASE Deliver
    <2>1. UNCHANGED <<script, asked, answers, rx, peer>>
      BY <1>3 DEF Deliver
    <2> QED
      BY <2>1, ServiceStutters
  <1>4. CASE Ask
    <2>1. /\ peer = "open" /\ asked < Len(script) /\ asked' = asked + 1
          /\ UNCHANGED <<script, answers, rx>> /\ peer' = peer
      BY <1>4 DEF Ask
    <2>2. Service!Ask
      BY <2>1, Zenon DEF Service!Ask
    <2> QED
      BY <2>2 DEF Service!Next
  <1>5. CASE HangUp
    <2>1. /\ peer = "open" /\ peer' # "open" /\ UNCHANGED <<script, asked, answers, rx>>
      BY <1>5 DEF HangUp
    <2>2. (peer' = "open") = FALSE
      BY <2>1
    <2>3. Service!HangUp
      BY <2>1, <2>2, Zenon DEF Service!HangUp
    <2> QED
      BY <2>3 DEF Service!Next
  <1>6. CASE Receive
    <2> DEFINE reply == Reply(script[answers + 1])
               got   == Append(rx, reply[Len(rx) + 1])
    <2>1. peer = "open" /\ outbox # <<>> /\ UNCHANGED <<script, asked>> /\ peer' = peer
      BY <1>6 DEF Receive
    <2>2. asked = answers + 1 /\ answers \in Nat /\ script[asked] = script[answers + 1]
      BY <2>1, OnTheWay
    <2>3. IF got = reply THEN rx' = <<>> /\ answers' = answers + 1
                         ELSE rx' = got /\ answers' = answers
      BY <1>6, <2>1, <2>2, ReceiveFacts
    <2>4. answers < asked
      BY <2>2
    <2> HIDE DEF reply, got
    <2>5. IF got = reply THEN rx' = <<>> /\ answers' = answers + 1
                         ELSE rx' = got /\ UNCHANGED answers
      BY <2>3
    <2>6. Service!Receive
      BY <2>1, <2>4, <2>5, Zenon DEF Service!Receive, reply, got
    <2> QED
      BY <2>6 DEF Service!Next
  <1> QED
    BY <1>1, <1>2, <1>3, <1>4, <1>5, <1>6 DEF Next, Client

\* The connection implements the service: requests go out, and the replies come
\* in their order, byte by byte, whatever lies between the two
\* (clientsocket.c:64-189, process_request.c, process_response.c).
THEOREM ServiceImplemented ==
    ASSUME Undisturbed
    PROVE  Spec => Service!Init /\ [][Service!Next]_(Service!vars)
  <1>1. Init => Service!Init
    BY ServiceInit
  <1>2. IInv /\ StreamInv /\ [Next]_vars => [Service!Next]_(Service!vars)
    BY ServiceStep
  <1> QED
    BY <1>1, <1>2, StreamAlways, PTL DEF Spec
==============================================================================
