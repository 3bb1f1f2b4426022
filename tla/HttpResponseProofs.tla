-------------------------- MODULE HttpResponseProofs -------------------------
(***************************************************************************)
(* Lemmas about the operators of HttpRequest and HttpResponse: the types   *)
(* of the texts, and what addBuffer() and readFileContent() promise to     *)
(* process_response().                                                     *)
(***************************************************************************)
EXTENDS HttpResponse, SequenceTheorems, WellFoundedInduction, TLAPS

\* A function on an initial segment of the naturals is a sequence.
LEMMA SegmentIsSeq ==
    ASSUME NEW S, NEW n \in Nat, NEW f \in [1..n -> S]
    PROVE  f \in Seq(S) /\ Len(f) = n
  BY SeqDef

\* The part of a sequence between two positions.
LEMMA PartIsSeq ==
    ASSUME NEW S, NEW s \in Seq(S), NEW m \in Nat \ {0}, NEW n \in Nat, n <= Len(s)
    PROVE  /\ SubSeq(s, m, n) \in Seq(S)
           /\ Len(SubSeq(s, m, n)) = IF m <= n THEN n - m + 1 ELSE 0
  <1>1. \A i \in m..n : s[i] \in S
    BY ElementOfSeq, LenProperties
  <1> QED
    BY <1>1, SubSeqProperties

\* What is left of a sequence without its first element.
LEMMA RestIsSeq ==
    ASSUME NEW S, NEW s \in Seq(S), Len(s) \in Nat \ {0}
    PROVE  /\ SubSeq(s, 2, Len(s)) \in Seq(S)
           /\ Len(SubSeq(s, 2, Len(s))) = Len(s) - 1
  <1>1. ASSUME NEW n \in Nat \ {0}, NEW k, k = IF 2 <= n THEN n - 2 + 1 ELSE 0
        PROVE  k = n - 1
    BY <1>1
  <1>2. 2 \in Nat \ {0} /\ Len(s) \in Nat /\ Len(s) <= Len(s)
    OBVIOUS
  <1>3. /\ SubSeq(s, 2, Len(s)) \in Seq(S)
        /\ Len(SubSeq(s, 2, Len(s))) = IF 2 <= Len(s) THEN Len(s) - 2 + 1 ELSE 0
    BY <1>2, PartIsSeq
  <1> QED
    BY <1>1, <1>3, Zenon

\* A piece of text is a sequence of bytes, of the length PieceLen gives it.
LEMMA PieceType ==
    ASSUME NEW s \in 0..12, NEW code \in Code, NEW file \in Line \cup {"none"}
    PROVE  /\ Piece(s, code, file) \in Seq(Byte)
           /\ Len(Piece(s, code, file)) = PieceLen[s]
           /\ PieceLen[s] \in Nat \ {0}
  <1>1. PieceLen[s] \in Nat \ {0}
    BY ResponseAssumption
  <1>2. \A i \in 1..PieceLen[s] :
           <<s, IF s = 0 THEN StatusCode(code) ELSE 0,
             IF s \in {7, 9, 11} THEN file ELSE "none", i>> \in Byte
    BY <1>1 DEF Byte, Code, StatusCode, JunkStage
  <1>3. Piece(s, code, file) \in [1..PieceLen[s] -> Byte]
    BY <1>2 DEF Piece
  <1> QED
    BY <1>1, <1>3, SegmentIsSeq

\* The bytes of a file between two positions.
LEMMA FileBytesType ==
    ASSUME NEW file \in Line, NEW first \in Nat, NEW last \in Nat, first <= last
    PROVE  /\ FileBytes(file, first, last) \in Seq(Byte)
           /\ Len(FileBytes(file, first, last)) = last - first
  <1>1. \A i \in 1..(last - first) : <<BodyStage, 0, file, first + i>> \in Byte
    BY DEF Byte, Code, BodyStage, JunkStage
  <1>2. FileBytes(file, first, last) \in [1..(last - first) -> Byte]
    BY <1>1 DEF FileBytes
  <1> QED
    BY <1>2, SegmentIsSeq

\* Uninitialised bytes are bytes.
LEMMA JunkType ==
    ASSUME NEW n \in Nat
    PROVE  Junk(n) \in Seq(Byte) /\ Len(Junk(n)) = n
  <1>1. \A i \in 1..n : <<JunkStage, 0, "none", i>> \in Byte
    BY DEF Byte, Code, JunkStage
  <1>2. Junk(n) \in [1..n -> Byte]
    BY <1>1 DEF Junk
  <1> QED
    BY <1>2, SegmentIsSeq

\* addBuffer() (process_response.c:276-293) keeps the buffer within its size
\* and remembers a position inside the piece; when it reports the piece as
\* written the buffer is not empty.
LEMMA AddBuffer ==
    ASSUME NEW buf \in Seq(Byte), Len(buf) <= BUFSIZE,
           NEW out \in Seq(Byte), NEW i \in Nat, i < Len(out)
    PROVE  LET a == addBuffer(buf, i, out)
           IN  /\ a.buf \in Seq(Byte) /\ Len(a.buf) <= BUFSIZE
               /\ a.index \in Nat /\ a.index < Len(out)
               /\ a.done \in BOOLEAN
               /\ a.done => a.buf # <<>> /\ a.index = 0
  <1> DEFINE fits   == Len(out) - i <= FreeSpace(buf)
             copied == IF fits THEN Len(out) - i ELSE FreeSpace(buf)
             part   == SubSeq(out, i + 1, i + copied)
             a      == addBuffer(buf, i, out)
  <1>1. /\ BUFSIZE \in Nat /\ Len(buf) \in Nat /\ Len(out) \in Nat
        /\ FreeSpace(buf) = BUFSIZE - Len(buf)
    BY RequestAssumption, LenProperties DEF FreeSpace
  <1>2. copied \in Nat /\ i + copied <= Len(out) /\ copied <= FreeSpace(buf)
    BY <1>1
  <1>3. part \in Seq(Byte) /\ Len(part) = copied
    <2> HIDE DEF copied
    <2>1. i + 1 \in Nat \ {0} /\ i + copied \in Nat
      BY <1>2
    <2>2. /\ part \in Seq(Byte)
          /\ Len(part) = IF i + 1 <= i + copied THEN (i + copied) - (i + 1) + 1 ELSE 0
      BY <1>2, <2>1, PartIsSeq
    <2> QED
      BY <1>2, <2>2
  <1>4. buf \o part \in Seq(Byte) /\ Len(buf \o part) = Len(buf) + copied
    BY <1>3, ConcatProperties
  <1>5. /\ a.buf = buf \o part /\ a.done = fits
        /\ a.index = IF fits THEN 0 ELSE i + copied
    BY DEF addBuffer
  <1>6. fits => buf \o part # <<>>
    <2>1. fits => copied > 0
      BY <1>1
    <2> HIDE DEF copied, fits, part
    <2>2. fits => Len(buf \o part) > 0
      BY <1>1, <1>2, <1>4, <2>1
    <2> QED
      BY <2>2, EmptySeq
  <1>7. Len(buf \o part) <= BUFSIZE
    BY <1>1, <1>2, <1>4
  <1>8. a.index \in Nat /\ a.index < Len(out)
    BY <1>1, <1>2, <1>5
  <1> HIDE DEF fits, copied, part, a
  <1>9. a.done \in BOOLEAN
    BY <1>5 DEF fits
  <1> QED
    BY <1>4, <1>5, <1>6, <1>7, <1>8, <1>9 DEF a

\* readFileContent() (process_response.c:300-317) keeps the buffer within its
\* size; it stops short of the end of the file, or reports the end and leaves
\* a buffer that is not empty.
LEMMA ReadFile ==
    ASSUME NEW buf \in Seq(Byte), Len(buf) <= BUFSIZE,
           NEW file \in Line, NEW pos \in Nat, pos <= FileSize[file],
           pos < FileSize[file] \/ buf # <<>>
    PROVE  LET a == readFileContent(buf, file, pos)
           IN  /\ a.buf \in Seq(Byte) /\ Len(a.buf) <= BUFSIZE
               /\ a.fpos \in Nat /\ a.done \in BOOLEAN
               /\ a.done => a.buf # <<>>
               /\ ~a.done => a.fpos < FileSize[file]
  <1> DEFINE size   == FileSize[file]
             fits   == size - pos <= FreeSpace(buf)
             copied == IF fits THEN size - pos ELSE FreeSpace(buf)
             part   == FileBytes(file, pos, pos + copied)
             a      == readFileContent(buf, file, pos)
  <1>1. /\ BUFSIZE \in Nat /\ Len(buf) \in Nat /\ size \in Nat
        /\ FreeSpace(buf) = BUFSIZE - Len(buf)
    BY RequestAssumption, ResponseAssumption, LenProperties DEF FreeSpace
  <1>2. copied \in Nat /\ pos + copied <= size /\ copied <= FreeSpace(buf)
    BY <1>1
  <1>3. part \in Seq(Byte) /\ Len(part) = copied
    <2> HIDE DEF copied
    <2>1. pos + copied \in Nat /\ pos <= pos + copied
      BY <1>2
    <2>2. part \in Seq(Byte) /\ Len(part) = (pos + copied) - pos
      BY <2>1, FileBytesType
    <2> QED
      BY <1>2, <2>2
  <1>4. buf \o part \in Seq(Byte) /\ Len(buf \o part) = Len(buf) + copied
    <2> HIDE DEF part, copied
    <2>1. Len(buf \o part) = Len(buf) + Len(part) /\ buf \o part \in Seq(Byte)
      BY <1>3, ConcatProperties, ZenonT(60)
    <2> QED
      BY <1>3, <2>1
  <1>5. a.buf = buf \o part /\ a.done = fits /\ a.fpos = pos + copied
    BY DEF readFileContent
  <1>6. fits => buf \o part # <<>>
    <2>1. fits /\ pos < size => copied > 0
      BY <1>1
    <2>2. buf # <<>> => Len(buf) > 0
      BY EmptySeq
    <2> HIDE DEF copied, fits, part, size
    <2>3. fits => Len(buf \o part) > 0
      BY <1>1, <1>2, <1>4, <2>1, <2>2 DEF size
    <2> QED
      BY <2>3, EmptySeq
  <1>7. Len(buf \o part) <= BUFSIZE
    BY <1>1, <1>2, <1>4
  <1>8. ~fits => pos + copied < size
    BY <1>1
  <1> HIDE DEF size, fits, copied, part, a
  <1>9. a.done \in BOOLEAN
    BY <1>5 DEF fits
  <1>10. a.fpos \in Nat
    BY <1>2, <1>5
  <1> QED
    BY <1>4, <1>5, <1>6, <1>7, <1>8, <1>9, <1>10 DEF a, size
------------------------------------------------------------------------------
(* What FlattenSeq() makes of its argument.                                *)

\* A set that has 1 and, with a number, the next one has all the numbers.
LEMMA Counting ==
    ASSUME NEW n \in Nat, NEW T, n # 0 => 1 \in T,
           \A k \in 1..(n - 1) : k \in T => k + 1 \in T
    PROVE  \A k \in 1..n : k \in T
  <1> DEFINE Bad == (1..n) \ T
             R   == OpToRel(<, Nat)
  <1> SUFFICES ASSUME Bad # {} PROVE FALSE
    OBVIOUS
  <1>1. Bad \in SUBSET Nat
    OBVIOUS
  <1>2. \E k \in Bad : \A m \in Bad : <<m, k>> \notin R
    <2>1. IsWellFoundedOn(R, Nat)
      BY NatLessThanWellFounded
    <2> HIDE DEF R, Bad
    <2> QED
      BY <1>1, <2>1, WFMin
  <1>3. \A k, m \in Nat : <<m, k>> \notin R => k <= m
    BY DEF OpToRel
  <1>4. PICK k \in Bad : \A m \in Bad : k <= m
    <2> HIDE DEF R, Bad
    <2> QED
      BY <1>1, <1>2, <1>3
  <1>5. k \in 1..n /\ k \notin T
    OBVIOUS
  <1>6. k # 1
    BY <1>5
  <1>7. k - 1 \in 1..(n - 1) /\ k - 1 \in 1..n /\ ~(k <= k - 1)
    BY <1>5, <1>6
  <1>8. k - 1 \notin Bad
    BY <1>4, <1>7
  <1>9. k - 1 \in T
    BY <1>7, <1>8
  <1>10. (k - 1) + 1 \in T
    BY <1>7, <1>9
  <1> QED
    BY <1>5, <1>10

\* g[i] is what FlattenSeq() makes of the first i sequences.
Flat(seqs, g, n) == g = [i \in 1..n |-> IF i = 1 THEN seqs[i] ELSE g[i - 1] \o seqs[i]]

\* It adds one sequence after the other.
LEMMA FlatSteps ==
    ASSUME NEW seqs, NEW g, NEW n \in Nat, Flat(seqs, g, n)
    PROVE  /\ n # 0 => g[1] = seqs[1]
           /\ \A i \in 1..(n - 1) : g[i + 1] = g[i] \o seqs[i + 1]
  <1>1. \A i \in 1..n : g[i] = IF i = 1 THEN seqs[i] ELSE g[i - 1] \o seqs[i]
    BY Zenon DEF Flat
  <1>2. \A i \in 1..(n - 1) : i + 1 \in 1..n /\ i + 1 # 1 /\ (i + 1) - 1 = i
    OBVIOUS
  <1>3. n # 0 => 1 \in 1..n
    OBVIOUS
  <1> QED
    BY <1>1, <1>2, <1>3

\* There is such a function.
LEMMA FlatExists ==
    ASSUME NEW seqs, NEW n \in Nat
    PROVE  \A k \in 1..n : \E g : Flat(seqs, g, k)
  <1> DEFINE T == {k \in 1..n : \E g : Flat(seqs, g, k)}
  <1>1. n # 0 => 1 \in T
    <2>1. Flat(seqs, [i \in 1..1 |-> seqs[1]], 1)
      BY DEF Flat
    <2> QED
      BY <2>1
  <1>2. ASSUME NEW k \in 1..(n - 1), k \in T PROVE k + 1 \in T
    <2>1. PICK g : Flat(seqs, g, k)
      BY <1>2
    <2> DEFINE h == [i \in 1..(k + 1) |-> IF i = k + 1 THEN g[k] \o seqs[k + 1] ELSE g[i]]
    <2>2. \A i \in 1..k : g[i] = IF i = 1 THEN seqs[i] ELSE g[i - 1] \o seqs[i]
      BY <2>1, Zenon DEF Flat
    <2>3. ASSUME NEW i \in 1..(k + 1)
          PROVE  h[i] = IF i = 1 THEN seqs[i] ELSE h[i - 1] \o seqs[i]
      <3>1. CASE i = k + 1
        <4>1. i # 1 /\ i - 1 = k /\ k \in 1..(k + 1) /\ k # k + 1
          BY <3>1
        <4>2. h[i] = g[k] \o seqs[k + 1]
          BY <3>1
        <4>3. h[k] = g[k]
          BY <4>1
        <4> HIDE DEF h
        <4> QED
          BY <3>1, <4>1, <4>2, <4>3
      <3>2. CASE i # k + 1
        <4>1. i \in 1..k /\ h[i] = g[i] /\ (i # 1 => i - 1 \in 1..(k + 1) /\ h[i - 1] = g[i - 1])
          BY <3>2
        <4> QED
          BY <2>2, <4>1
      <3> QED
        BY <3>1, <3>2
    <2>4. h = [i \in 1..(k + 1) |-> IF i = 1 THEN seqs[i] ELSE h[i - 1] \o seqs[i]]
      <3>1. h = [i \in 1..(k + 1) |-> h[i]]
        OBVIOUS
      <3> HIDE DEF h
      <3> QED
        BY <2>3, <3>1
    <2>5. Flat(seqs, h, k + 1)
      BY <2>4 DEF Flat
    <2>6. k + 1 \in 1..n
      OBVIOUS
    <2> HIDE DEF h
    <2> QED
      BY <2>5, <2>6
  <1> HIDE DEF T
  <1>3. \A k \in 1..n : k \in T
    BY <1>1, <1>2, Counting
  <1> QED
    BY <1>3 DEF T

\* FlattenSeq() is the last value of one.
LEMMA FlattenIs ==
    ASSUME NEW seqs, Len(seqs) \in Nat \ {0}
    PROVE  \E g : Flat(seqs, g, Len(seqs)) /\ FlattenSeq(seqs) = g[Len(seqs)]
  <1> DEFINE n == Len(seqs)
             f == CHOOSE g : g = [i \in 1..n |-> IF i = 1 THEN seqs[i] ELSE g[i - 1] \o seqs[i]]
  <1>1. \E g : g = [i \in 1..n |-> IF i = 1 THEN seqs[i] ELSE g[i - 1] \o seqs[i]]
    <2>1. n \in 1..n /\ n \in Nat
      OBVIOUS
    <2> QED
      BY <2>1, FlatExists, ZenonT(60) DEF Flat
  <1>2. f = [i \in 1..n |-> IF i = 1 THEN seqs[i] ELSE f[i - 1] \o seqs[i]]
    BY <1>1, Zenon
  <1>3. FlattenSeq(seqs) = f[n]
    BY Zenon DEF FlattenSeq
  <1> HIDE DEF f
  <1>4. Flat(seqs, f, n)
    BY <1>2 DEF Flat
  <1> QED
    BY <1>3, <1>4

\* What FlattenSeq() makes of one sequence more.
LEMMA FlattenAppend ==
    ASSUME NEW S, NEW seqs \in Seq(Seq(S)), NEW s \in Seq(S), FlattenSeq(seqs) \in Seq(S)
    PROVE  /\ FlattenSeq(Append(seqs, s)) = FlattenSeq(seqs) \o s
           /\ FlattenSeq(Append(seqs, s)) \in Seq(S)
  <1> DEFINE n   == Len(seqs)
             all == Append(seqs, s)
  <1>1. n \in Nat /\ Len(all) = n + 1 /\ all[n + 1] = s /\ \A i \in 1..n : all[i] = seqs[i]
    BY AppendProperties, LenProperties
  <1> HIDE DEF all
  <1>2. PICK h : Flat(all, h, n + 1) /\ FlattenSeq(all) = h[n + 1]
    BY <1>1, FlattenIs, SMTT(60)
  <1>3. FlattenSeq(all) = FlattenSeq(seqs) \o s
    <2>1. CASE n = 0
      <3>1. seqs = <<>> /\ FlattenSeq(seqs) = <<>>
        BY <2>1, EmptySeq DEF FlattenSeq
      <3>2. h[1] = s
        <4>1. n + 1 \in Nat /\ n + 1 # 0
          BY <1>1
        <4>2. h[1] = all[1]
          BY <1>2, <4>1, FlatSteps
        <4> QED
          BY <1>1, <2>1, <4>2
      <3> QED
        BY <1>2, <2>1, <3>1, <3>2, ConcatEmptySeq, SMTT(60)
    <2>2. CASE n # 0
      <3>1. PICK g : Flat(seqs, g, n) /\ FlattenSeq(seqs) = g[n]
        BY <1>1, <2>2, FlattenIs
      <3>2. g[n] = h[n]
        <4> DEFINE T == {i \in 1..n : g[i] = h[i]}
        <4>1. g[1] = seqs[1] /\ \A i \in 1..(n - 1) : g[i + 1] = g[i] \o seqs[i + 1]
          BY <1>1, <2>2, <3>1, FlatSteps, ZenonT(60)
        <4>2. h[1] = all[1] /\ \A i \in 1..((n + 1) - 1) : h[i + 1] = h[i] \o all[i + 1]
          <5>1. n + 1 \in Nat /\ n + 1 # 0
            BY <1>1
          <5> QED
            BY <1>2, <5>1, FlatSteps
        <4>3. 1 \in T
          BY <1>1, <2>2, <4>1, <4>2
        <4>4. ASSUME NEW i \in 1..(n - 1), i \in T PROVE i + 1 \in T
          <5>1. i \in 1..((n + 1) - 1) /\ i + 1 \in 1..n
            BY <1>1
          <5>2. g[i] = h[i] /\ seqs[i + 1] = all[i + 1]
            BY <1>1, <4>4, <5>1
          <5>3. g[i + 1] = h[i + 1]
            BY <4>1, <4>2, <5>1, <5>2
          <5> QED
            BY <5>1, <5>3
        <4>5. \A i \in 1..n : i \in T
          <5> HIDE DEF T, n
          <5> QED
            BY <1>1, <4>3, <4>4, Counting
        <4>6. n \in 1..n
          BY <1>1, <2>2
        <4> QED
          BY <4>5, <4>6
      <3>3. h[n + 1] = h[n] \o all[n + 1]
        <4>1. n \in 1..((n + 1) - 1) /\ n + 1 \in Nat
          BY <1>1, <2>2
        <4> QED
          BY <1>2, <4>1, FlatSteps
      <3> QED
        BY <1>1, <1>2, <3>1, <3>2, <3>3
    <2> QED
      BY <2>1, <2>2
  <1> QED
    BY <1>3, ConcatProperties DEF all

\* It makes nothing of nothing, and of one sequence that one.
LEMMA FlattenFew ==
    /\ FlattenSeq(<<>>) = <<>>
    /\ \A S : \A s \in Seq(S) : FlattenSeq(<<s>>) = s
  <1>1. FlattenSeq(<<>>) = <<>>
    BY EmptySeq DEF FlattenSeq
  <1>2. ASSUME NEW S, NEW s \in Seq(S) PROVE FlattenSeq(<<s>>) = s
    <2>1. <<>> \in Seq(Seq(S)) /\ <<>> \in Seq(S)
      BY EmptySeq
    <2>2. FlattenSeq(Append(<<>>, s)) = <<>> \o s
      BY <1>1, <2>1, FlattenAppend, ZenonT(60)
    <2>3. Append(<<>>, s) = <<s>>
      OBVIOUS
    <2> QED
      BY <2>2, <2>3, ConcatEmptySeq
  <1> QED
    BY <1>1, <1>2
------------------------------------------------------------------------------
(* A request on the wire.                                                  *)

\* A line and its end are three symbols.
LEMMA WholeLine ==
    ASSUME NEW l \in Wire
    PROVE  LET line == <<l>> \o CRLF
           IN  /\ line \in Seq(Wire) /\ Len(line) = 3
               /\ line[1] = l /\ line[2] = "CR" /\ line[3] = "LF"
  <1>1. <<l>> \in Seq(Wire) /\ Len(<<l>>) = 1 /\ <<l>>[1] = l
    OBVIOUS
  <1>2. CRLF \in Seq(Wire) /\ Len(CRLF) = 2 /\ CRLF[1] = "CR" /\ CRLF[2] = "LF"
    <2>1. "CR" \in Wire /\ "LF" \in Wire
      BY DEF Wire
    <2> QED
      BY <2>1 DEF CRLF
  <1> DEFINE a == <<l>>
  <1> HIDE DEF a
  <1>3. /\ a \o CRLF \in Seq(Wire) /\ Len(a \o CRLF) = 3
        /\ \A i \in 1..3 : (a \o CRLF)[i] = IF i <= 1 THEN a[i] ELSE CRLF[i - 1]
    <2>1. a \in Seq(Wire) /\ Len(a) = 1
      BY <1>1 DEF a
    <2>2. /\ a \o CRLF \in Seq(Wire) /\ Len(a \o CRLF) = Len(a) + Len(CRLF)
          /\ \A i \in 1..(Len(a) + Len(CRLF)) :
                 (a \o CRLF)[i] = IF i <= Len(a) THEN a[i] ELSE CRLF[i - Len(a)]
      BY <1>2, <2>1, ConcatProperties, ZenonT(60)
    <2>3. Len(a) + Len(CRLF) = 3
      BY <1>2, <2>1
    <2> QED
      BY <2>1, <2>2, <2>3
  <1>4. a[1] = l
    BY DEF a
  <1>5. /\ (a \o CRLF)[1] = a[1] /\ (a \o CRLF)[2] = CRLF[1] /\ (a \o CRLF)[3] = CRLF[2]
    BY <1>3
  <1> QED
    BY <1>2, <1>3, <1>4, <1>5 DEF a

\* s is the first k of the header lines hs.
Lines(hs, k, s) ==
    /\ s \in Seq(Wire) /\ Len(s) = 3 * k
    /\ \A j \in 1..k : s[3 * j - 2] = hs[j] /\ s[3 * j - 1] = "CR" /\ s[3 * j] = "LF"

\* One line more.
LEMMA OneMoreLine ==
    ASSUME NEW hs, NEW k \in Nat, NEW a \in Seq(Wire), Lines(hs, k, a), NEW b \in Seq(Wire), Len(b) = 3,
           b[1] = hs[k + 1], b[2] = "CR", b[3] = "LF"
    PROVE  Lines(hs, k + 1, a \o b)
  <1> DEFINE c == a \o b
  <1>1. /\ a \in Seq(Wire) /\ Len(a) = 3 * k
        /\ \A j \in 1..k : a[3 * j - 2] = hs[j] /\ a[3 * j - 1] = "CR" /\ a[3 * j] = "LF"
    BY DEF Lines
  <1>2. /\ c \in Seq(Wire) /\ Len(c) = Len(a) + Len(b)
        /\ \A i \in 1..(Len(a) + Len(b)) : c[i] = IF i <= Len(a) THEN a[i] ELSE b[i - Len(a)]
    BY ConcatProperties
  <1> HIDE DEF c
  <1>3. /\ Len(c) = 3 * k + 3
        /\ \A i \in 1..(3 * k + 3) : c[i] = IF i <= 3 * k THEN a[i] ELSE b[i - 3 * k]
    BY <1>1, <1>2
  <1>4. ASSUME NEW j \in 1..(k + 1)
        PROVE  c[3 * j - 2] = hs[j] /\ c[3 * j - 1] = "CR" /\ c[3 * j] = "LF"
    <2>1. CASE j \in 1..k
      <3>1. /\ 3 * j - 2 \in 1..(3 * k + 3) /\ 3 * j - 2 <= 3 * k
            /\ 3 * j - 1 \in 1..(3 * k + 3) /\ 3 * j - 1 <= 3 * k
            /\ 3 * j \in 1..(3 * k + 3) /\ 3 * j <= 3 * k
        BY <2>1
      <3> QED
        BY <1>1, <1>3, <2>1, <3>1, ZenonT(60)
    <2>2. CASE j = k + 1
      <3>1. /\ 3 * j - 2 = 3 * k + 1 /\ 3 * j - 1 = 3 * k + 2 /\ 3 * j = 3 * k + 3
            /\ 3 * k + 1 \in 1..(3 * k + 3) /\ 3 * k + 2 \in 1..(3 * k + 3)
            /\ 3 * k + 3 \in 1..(3 * k + 3)
        BY <2>2
      <3>2. c[3 * k + 1] = b[1] /\ c[3 * k + 2] = b[2] /\ c[3 * k + 3] = b[3]
        BY <1>3, <3>1
      <3> QED
        BY <2>2, <3>1, <3>2
    <2>3. j \in 1..k \/ j = k + 1
      OBVIOUS
    <2> QED
      BY <2>1, <2>2, <2>3
  <1>5. 3 * k + 3 = 3 * (k + 1)
    OBVIOUS
  <1> QED
    BY <1>2, <1>3, <1>4, <1>5 DEF Lines, c

\* Three symbols for each header line.
LEMMA HeaderLines ==
    ASSUME NEW hs \in Seq(Header)
    PROVE  Lines(hs, Len(hs), FlattenSeq([i \in DOMAIN hs |-> <<hs[i]>> \o CRLF]))
  <1> DEFINE n     == Len(hs)
             each  == [i \in DOMAIN hs |-> <<hs[i]>> \o CRLF]
  <1>1. n \in Nat /\ DOMAIN hs = 1..n /\ \A i \in 1..n : hs[i] \in Header
    BY LenProperties, ElementOfSeq
  <1>2. ASSUME NEW i \in 1..n
        PROVE  /\ each[i] \in Seq(Wire) /\ Len(each[i]) = 3
               /\ each[i][1] = hs[i] /\ each[i][2] = "CR" /\ each[i][3] = "LF"
    <2>1. each[i] = <<hs[i]>> \o CRLF
      BY <1>1
    <2>2. hs[i] \in Wire
      BY <1>1 DEF Wire
    <2> HIDE DEF each
    <2> QED
      BY <2>1, <2>2, WholeLine
  <1>3. each \in Seq(Seq(Wire)) /\ Len(each) = n
    <2>1. each \in [1..n -> Seq(Wire)]
      BY <1>1, <1>2
    <2> HIDE DEF each
    <2> QED
      BY <1>1, <2>1, SegmentIsSeq
  <1> HIDE DEF each
  <1>4. Lines(hs, n, FlattenSeq(each))
    <2>0. Lines(hs, 0, <<>>)
      BY EmptySeq DEF Lines
    <2>1. CASE n = 0
      <3>1. each = <<>>
        BY <1>3, <2>1, EmptySeq
      <3> QED
        BY <2>0, <2>1, <3>1, FlattenFew
    <2>2. CASE n # 0
      <3>1. PICK g : Flat(each, g, n) /\ FlattenSeq(each) = g[n]
        BY <1>1, <1>3, <2>2, FlattenIs
      <3>2. g[1] = each[1] /\ \A i \in 1..(n - 1) : g[i + 1] = g[i] \o each[i + 1]
        BY <1>1, <2>2, <3>1, FlatSteps
      <3> DEFINE T == {k \in 1..n : Lines(hs, k, g[k])}
      <3>3. 1 \in T
        <4>1. 1 \in 1..n /\ 0 \in Nat /\ 0 + 1 = 1
          BY <1>1, <2>2
        <4>2. Lines(hs, 0 + 1, <<>> \o each[1])
          <5>1. <<>> \in Seq(Wire)
            BY EmptySeq
          <5> QED
            BY <1>2, <2>0, <4>1, <5>1, OneMoreLine, ZenonT(60)
        <4>3. <<>> \o each[1] = g[1]
          BY <1>2, <3>2, <4>1, ConcatEmptySeq
        <4> QED
          BY <4>1, <4>2, <4>3
      <3>4. ASSUME NEW k \in 1..(n - 1), k \in T PROVE k + 1 \in T
        <4>1. k + 1 \in 1..n /\ k \in Nat
          BY <1>1
        <4>2. Lines(hs, k, g[k]) /\ g[k + 1] = g[k] \o each[k + 1]
          BY <3>2, <3>4
        <4>3. Lines(hs, k + 1, g[k] \o each[k + 1])
          <5>1. g[k] \in Seq(Wire)
            BY <4>2 DEF Lines
          <5> QED
            BY <1>2, <4>1, <4>2, <5>1, OneMoreLine
        <4> QED
          BY <4>1, <4>2, <4>3
      <3>5. \A k \in 1..n : k \in T
        <4> HIDE DEF T, n
        <4> QED
          BY <1>1, <3>3, <3>4, Counting
      <3>6. n \in 1..n
        BY <1>1, <2>2
      <3> QED
        BY <3>1, <3>5, <3>6
    <2> QED
      BY <2>1, <2>2
  <1> QED
    BY <1>4 DEF each

\* The elements of three sequences, one after the other.
LEMMA ThreeParts ==
    ASSUME NEW S, NEW s \in Seq(S), NEW t \in Seq(S), NEW u \in Seq(S)
    PROVE  LET all == (s \o t) \o u
           IN  /\ all \in Seq(S) /\ Len(all) = Len(s) + Len(t) + Len(u)
               /\ \A i \in 1..Len(s) : all[i] = s[i]
               /\ \A i \in 1..Len(t) : all[Len(s) + i] = t[i]
               /\ \A i \in 1..Len(u) : all[Len(s) + Len(t) + i] = u[i]
  <1>1. PICK b \in Seq(S) : b = s \o t
    BY ConcatProperties
  <1>2. PICK c \in Seq(S) : c = b \o u
    BY ConcatProperties
  <1>3. Len(s) \in Nat /\ Len(t) \in Nat /\ Len(u) \in Nat
    BY LenProperties
  <1>4. /\ Len(b) = Len(s) + Len(t)
        /\ \A i \in 1..(Len(s) + Len(t)) : b[i] = IF i <= Len(s) THEN s[i] ELSE t[i - Len(s)]
    BY <1>1, ConcatProperties
  <1>5. /\ Len(c) = Len(b) + Len(u)
        /\ \A i \in 1..(Len(b) + Len(u)) : c[i] = IF i <= Len(b) THEN b[i] ELSE u[i - Len(b)]
    BY <1>2, ConcatProperties
  <1>6. \A i \in 1..Len(s) : c[i] = s[i]
    <2> SUFFICES ASSUME NEW i \in 1..Len(s) PROVE c[i] = s[i]
      OBVIOUS
    <2>1. i \in 1..(Len(s) + Len(t)) /\ i \in 1..(Len(b) + Len(u)) /\ i <= Len(b) /\ i <= Len(s)
      BY <1>3, <1>4
    <2> QED
      BY <1>4, <1>5, <2>1
  <1>7. \A i \in 1..Len(t) : c[Len(s) + i] = t[i]
    <2> SUFFICES ASSUME NEW i \in 1..Len(t) PROVE c[Len(s) + i] = t[i]
      OBVIOUS
    <2>1. /\ Len(s) + i \in 1..(Len(s) + Len(t)) /\ Len(s) + i \in 1..(Len(b) + Len(u))
          /\ Len(s) + i <= Len(b) /\ ~(Len(s) + i <= Len(s)) /\ (Len(s) + i) - Len(s) = i
      BY <1>3, <1>4
    <2> QED
      BY <1>4, <1>5, <2>1
  <1>8. \A i \in 1..Len(u) : c[Len(s) + Len(t) + i] = u[i]
    <2> SUFFICES ASSUME NEW i \in 1..Len(u) PROVE c[Len(s) + Len(t) + i] = u[i]
      OBVIOUS
    <2>1. /\ Len(s) + Len(t) + i \in 1..(Len(b) + Len(u))
          /\ ~(Len(s) + Len(t) + i <= Len(b)) /\ (Len(s) + Len(t) + i) - Len(b) = i
      BY <1>3, <1>4
    <2> QED
      BY <1>5, <2>1
  <1> QED
    BY <1>1, <1>2, <1>4, <1>5, <1>6, <1>7, <1>8

\* A request without content: its lines, and the blank line.
LEMMA EncodedIs ==
    ASSUME NEW req, req.line \in Line, req.times = 1, req.body = 0, req.headers \in Seq(Header)
    PROVE  LET wire == Encoded(req)
               m    == Len(req.headers)
           IN  /\ m \in Nat /\ wire \in Seq(Wire) /\ Len(wire) = 3 * m + 5
               /\ wire[1] = req.line /\ wire[2] = "CR" /\ wire[3] = "LF"
               /\ \A j \in 1..m : /\ wire[3 * j + 1] = req.headers[j]
                                  /\ wire[3 * j + 2] = "CR" /\ wire[3 * j + 3] = "LF"
               /\ wire[3 * m + 4] = "CR" /\ wire[3 * m + 5] = "LF"
  <1> DEFINE m == Len(req.headers)
             a == <<req.line>> \o CRLF
             l == FlattenSeq([i \in DOMAIN req.headers |-> <<req.headers[i]>> \o CRLF])
             b == a \o l
             c == b \o CRLF
  <1>1. m \in Nat
    BY LenProperties
  <1>2. Encoded(req) = c
    <2>1. [i \in 1..req.times |-> req.line] = <<req.line>>
      OBVIOUS
    <2>2. [i \in 1..req.body |-> "data"] = <<>>
      OBVIOUS
    <2>3. Encoded(req) = c \o <<>>
      BY <2>1, <2>2 DEF Encoded
    <2>4. c \o <<>> = c
      <3>1. a \in Seq(Wire)
        <4>1. req.line \in Wire
          BY DEF Wire
        <4> QED
          BY <4>1, WholeLine
      <3>2. l \in Seq(Wire)
        BY HeaderLines, ZenonT(60) DEF Lines
      <3>3. CRLF \in Seq(Wire)
        BY DEF CRLF, Wire
      <3> HIDE DEF a, l
      <3> QED
        BY <3>1, <3>2, <3>3, ConcatProperties, ConcatEmptySeq
    <2> QED
      BY <2>3, <2>4
  <1>3. a \in Seq(Wire) /\ Len(a) = 3 /\ a[1] = req.line /\ a[2] = "CR" /\ a[3] = "LF"
    <2>1. req.line \in Wire
      BY DEF Wire
    <2> QED
      BY <2>1, WholeLine
  <1>4. /\ l \in Seq(Wire) /\ Len(l) = 3 * m
        /\ \A j \in 1..m : l[3 * j - 2] = req.headers[j] /\ l[3 * j - 1] = "CR" /\ l[3 * j] = "LF"
    BY HeaderLines, ZenonT(60) DEF Lines
  <1>5. CRLF \in Seq(Wire) /\ Len(CRLF) = 2 /\ CRLF[1] = "CR" /\ CRLF[2] = "LF"
    BY DEF CRLF, Wire
  <1>6. /\ c \in Seq(Wire) /\ Len(c) = Len(a) + Len(l) + Len(CRLF)
        /\ \A i \in 1..Len(a) : c[i] = a[i]
        /\ \A i \in 1..Len(l) : c[Len(a) + i] = l[i]
        /\ \A i \in 1..Len(CRLF) : c[Len(a) + Len(l) + i] = CRLF[i]
    <2>1. PICK s \in Seq(Wire), t \in Seq(Wire), u \in Seq(Wire) : s = a /\ t = l /\ u = CRLF
      BY <1>3, <1>4, <1>5
    <2> DEFINE all == (s \o t) \o u
    <2>2. all \in Seq(Wire) /\ Len(all) = Len(s) + Len(t) + Len(u)
      BY ThreeParts
    <2>3. \A i \in 1..Len(s) : all[i] = s[i]
      BY ThreeParts
    <2>4. \A i \in 1..Len(t) : all[Len(s) + i] = t[i]
      BY ThreeParts
    <2>5. \A i \in 1..Len(u) : all[Len(s) + Len(t) + i] = u[i]
      BY ThreeParts
    <2>6. c = all
      BY <2>1
    <2> HIDE DEF a, l, all, c
    <2> QED
      BY <2>1, <2>2, <2>3, <2>4, <2>5, <2>6
  <1> HIDE DEF m, a, l, b, c
  <1>7. Len(c) = 3 * m + 5
    BY <1>1, <1>3, <1>4, <1>5, <1>6
  <1>8. c[1] = req.line /\ c[2] = "CR" /\ c[3] = "LF"
    BY <1>3, <1>6
  <1>9. ASSUME NEW j \in 1..m
        PROVE  c[3 * j + 1] = req.headers[j] /\ c[3 * j + 2] = "CR" /\ c[3 * j + 3] = "LF"
    <2>1. /\ 3 * j - 2 \in 1..(3 * m) /\ 3 + (3 * j - 2) = 3 * j + 1
          /\ 3 * j - 1 \in 1..(3 * m) /\ 3 + (3 * j - 1) = 3 * j + 2
          /\ 3 * j \in 1..(3 * m) /\ 3 + 3 * j = 3 * j + 3
      BY <1>1
    <2>2. \A i \in 1..(3 * m) : c[3 + i] = l[i]
      BY <1>3, <1>4, <1>6
    <2>3. /\ c[3 + (3 * j - 2)] = l[3 * j - 2] /\ c[3 + (3 * j - 1)] = l[3 * j - 1]
          /\ c[3 + 3 * j] = l[3 * j]
      BY <2>1, <2>2
    <2> QED
      BY <1>4, <2>1, <2>3
  <1>10. c[3 * m + 4] = "CR" /\ c[3 * m + 5] = "LF"
    <2>1. \A i \in 1..2 : c[(3 + 3 * m) + i] = CRLF[i]
      BY <1>1, <1>3, <1>4, <1>5, <1>6
    <2>2. (3 + 3 * m) + 1 = 3 * m + 4 /\ (3 + 3 * m) + 2 = 3 * m + 5
      BY <1>1
    <2>3. c[(3 + 3 * m) + 1] = CRLF[1] /\ c[(3 + 3 * m) + 2] = CRLF[2]
      BY <2>1
    <2> QED
      BY <1>5, <2>2, <2>3
  <1> QED
    BY <1>1, <1>2, <1>6, <1>7, <1>8, <1>9, <1>10 DEF m
------------------------------------------------------------------------------
(* A reply.                                                                *)

\* The pieces of one stage more.
LEMMA MorePieces ==
    ASSUME NEW stages \in Seq(0..12), NEW s \in 0..12, NEW code \in Code,
           NEW file \in Line \cup {"none"}, Pieces(stages, code, file) \in Seq(Byte)
    PROVE  /\ Pieces(Append(stages, s), code, file)
                  = Pieces(stages, code, file) \o Piece(s, code, file)
           /\ Pieces(Append(stages, s), code, file) \in Seq(Byte)
  <1> DEFINE P(ss) == [i \in DOMAIN ss |-> Piece(ss[i], code, file)]
             n     == Len(stages)
             more  == Append(stages, s)
             p     == Piece(s, code, file)
  <1>1. n \in Nat /\ DOMAIN stages = 1..n /\ \A i \in 1..n : stages[i] \in 0..12
    BY LenProperties, ElementOfSeq
  <1>2. P(stages) \in Seq(Seq(Byte)) /\ Len(P(stages)) = n
    <2>1. \A i \in 1..n : Piece(stages[i], code, file) \in Seq(Byte)
      BY <1>1, PieceType
    <2>2. P(stages) \in [1..n -> Seq(Byte)]
      BY <1>1, <2>1
    <2> QED
      BY <1>1, <2>2, SegmentIsSeq
  <1>3. p \in Seq(Byte)
    BY PieceType
  <1>4. P(more) = Append(P(stages), p)
    <2>1. /\ more \in Seq(0..12) /\ Len(more) = n + 1 /\ more[n + 1] = s
          /\ \A i \in 1..n : more[i] = stages[i]
      BY AppendProperties
    <2>2. DOMAIN more = 1..(n + 1)
      BY <2>1, LenProperties
    <2> HIDE DEF more
    <2>3. P(more) = [i \in 1..(n + 1) |-> IF i = n + 1 THEN p ELSE P(stages)[i]]
      <3>1. ASSUME NEW i \in 1..(n + 1)
            PROVE  Piece(more[i], code, file) = IF i = n + 1 THEN p ELSE P(stages)[i]
        <4>1. CASE i = n + 1
          BY <2>1, <4>1
        <4>2. CASE i # n + 1
          <5>1. i \in 1..n /\ more[i] = stages[i]
            BY <1>1, <2>1, <4>2
          <5> QED
            BY <1>1, <4>2, <5>1
        <4> QED
          BY <4>1, <4>2
      <3> HIDE DEF p
      <3> QED
        BY <2>2, <3>1
    <2> DEFINE q == P(stages)
    <2>4. q \in Seq(Seq(Byte)) /\ Len(q) = n
      BY <1>2
    <2> HIDE DEF p, q, P
    <2> DEFINE f == [i \in 1..(n + 1) |-> IF i = n + 1 THEN p ELSE q[i]]
    <2>5. f \in Seq(Seq(Byte)) /\ Len(f) = n + 1
      <3>1. \A i \in 1..n : q[i] \in Seq(Byte)
        BY <2>4, ElementOfSeq
      <3>2. f \in [1..(n + 1) -> Seq(Byte)]
        BY <1>1, <1>3, <3>1
      <3>3. n + 1 \in Nat
        BY <1>1
      <3> HIDE DEF f
      <3> QED
        BY <3>2, <3>3, SegmentIsSeq
    <2>6. /\ Append(q, p) \in Seq(Seq(Byte)) /\ Len(Append(q, p)) = n + 1
          /\ Append(q, p)[n + 1] = p /\ \A i \in 1..n : Append(q, p)[i] = q[i]
      BY <1>3, <2>4, AppendProperties
    <2>7. \A i \in 1..(n + 1) : f[i] = Append(q, p)[i]
      BY <1>1, <2>6
    <2>8. f = Append(q, p)
      <3> HIDE DEF f
      <3> QED
        BY <2>5, <2>6, <2>7, SeqEqual
    <2> QED
      BY <2>3, <2>8 DEF q
  <1> DEFINE q == P(stages)
  <1>5. q \in Seq(Seq(Byte)) /\ FlattenSeq(q) \in Seq(Byte) /\ FlattenSeq(q) = Pieces(stages, code, file)
    BY <1>2 DEF Pieces
  <1>6. FlattenSeq(P(more)) = Pieces(more, code, file)
    BY DEF Pieces
  <1> HIDE DEF P, p, q, more
  <1>7. FlattenSeq(Append(q, p)) = FlattenSeq(q) \o p /\ FlattenSeq(Append(q, p)) \in Seq(Byte)
    BY <1>3, <1>5, FlattenAppend
  <1>8. P(more) = Append(q, p)
    BY <1>4 DEF q
  <1> QED
    BY <1>5, <1>6, <1>7, <1>8 DEF p, more

\* No stage, no text; and the text of the first stages names no file.
LEMMA FewPieces ==
    ASSUME NEW code, NEW file
    PROVE  /\ Pieces(<<>>, code, file) = <<>>
           /\ Pieces(<<0, 1, 2, 3, 4>>, code, file) = Failed(code)
  <1>1. [i \in DOMAIN <<>> |-> Piece(<<>>[i], code, file)] = <<>>
    OBVIOUS
  <1>2. Pieces(<<>>, code, file) = <<>>
    BY <1>1, FlattenFew DEF Pieces
  <1> DEFINE ss == <<0, 1, 2, 3, 4>>
  <1>3. \A i \in DOMAIN ss : ss[i] \in 0..4
    OBVIOUS
  <1>4. \A s \in 0..4 : Piece(s, code, file) = Piece(s, code, "none")
    BY DEF Piece
  <1> HIDE DEF ss
  <1>5. [i \in DOMAIN ss |-> Piece(ss[i], code, file)]
          = [i \in DOMAIN ss |-> Piece(ss[i], code, "none")]
    BY <1>3, <1>4
  <1>6. Pieces(ss, code, file) = Pieces(ss, code, "none")
    BY <1>5 DEF Pieces
  <1> QED
    BY <1>2, <1>6 DEF Failed, ss

\* What addBuffer() copies continues what was copied of the piece before.
LEMMA AddBufferText ==
    ASSUME NEW buf \in Seq(Byte), Len(buf) <= BUFSIZE,
           NEW out \in Seq(Byte), NEW i \in Nat, i < Len(out)
    PROVE  LET a == addBuffer(buf, i, out)
           IN  \E part \in Seq(Byte) :
                  /\ a.buf = buf \o part
                  /\ SubSeq(out, 1, i) \o part = IF a.done THEN out ELSE SubSeq(out, 1, a.index)
  <1> DEFINE fits   == Len(out) - i <= FreeSpace(buf)
             copied == IF fits THEN Len(out) - i ELSE FreeSpace(buf)
             part   == SubSeq(out, i + 1, i + copied)
             a      == addBuffer(buf, i, out)
  <1>1. /\ BUFSIZE \in Nat /\ Len(buf) \in Nat /\ Len(out) \in Nat
        /\ FreeSpace(buf) = BUFSIZE - Len(buf)
    BY RequestAssumption, LenProperties DEF FreeSpace
  <1>2. copied \in Nat /\ i + copied <= Len(out) /\ (fits => i + copied = Len(out))
    BY <1>1
  <1>3. a.buf = buf \o part /\ a.done = fits /\ a.index = IF fits THEN 0 ELSE i + copied
    BY DEF addBuffer
  <1>4. part \in Seq(Byte)
    <2> HIDE DEF copied
    <2>1. i + 1 \in Nat \ {0} /\ i + copied \in Nat
      BY <1>2
    <2> QED
      BY <1>2, <2>1, PartIsSeq
  <1>5. SubSeq(out, 1, i) \o part = SubSeq(out, 1, i + copied)
    <2> HIDE DEF copied
    <2>1. /\ 1 \in 1..(Len(out) + 1) /\ i \in (1 - 1)..Len(out) /\ i + copied \in i..Len(out)
      BY <1>1, <1>2, SMTT(60)
    <2> QED
      BY <2>1, ConcatAdjacentSubSeq
  <1> HIDE DEF copied, fits, part, a
  <1>6. SubSeq(out, 1, Len(out)) = out
    BY SubSeqFull, SMTT(60)
  <1>7. SubSeq(out, 1, i) \o part = IF a.done THEN out ELSE SubSeq(out, 1, a.index)
    BY <1>2, <1>3, <1>5, <1>6
  <1> QED
    BY <1>3, <1>4, <1>7 DEF a

\* Two adjacent parts of a file.
LEMMA FileBytesJoin ==
    ASSUME NEW file \in Line, NEW m \in Nat, NEW n \in Nat, m <= n
    PROVE  FileBytes(file, 0, m) \o FileBytes(file, m, n) = FileBytes(file, 0, n)
  <1>1. PICK s \in Seq(Byte) : s = FileBytes(file, 0, m) /\ Len(s) = m
    BY FileBytesType
  <1>2. PICK t \in Seq(Byte) : t = FileBytes(file, m, n) /\ Len(t) = n - m
    BY FileBytesType
  <1>3. PICK u \in Seq(Byte) : u = FileBytes(file, 0, n) /\ Len(u) = n
    <2>1. 0 \in Nat /\ 0 <= n /\ n - 0 = n
      OBVIOUS
    <2>2. FileBytes(file, 0, n) \in Seq(Byte) /\ Len(FileBytes(file, 0, n)) = n - 0
      BY <2>1, FileBytesType
    <2> QED
      BY <2>1, <2>2
  <1>4. s \o t \in Seq(Byte) /\ Len(s \o t) = n
    BY <1>1, <1>2, ConcatProperties
  <1>5. \A i \in 1..(Len(s) + Len(t)) : (s \o t)[i] = IF i <= Len(s) THEN s[i] ELSE t[i - Len(s)]
    BY ConcatProperties
  <1>6. ASSUME NEW i \in 1..n PROVE (s \o t)[i] = u[i]
    <2>1. i \in 1..(Len(s) + Len(t))
      BY <1>1, <1>2
    <2>2. u[i] = <<BodyStage, 0, file, i>>
      BY <1>3 DEF FileBytes
    <2>3. CASE i <= m
      <3>1. i \in 1..m
        BY <2>3
      <3>2. s[i] = <<BodyStage, 0, file, i>>
        BY <1>1, <3>1 DEF FileBytes
      <3> QED
        BY <1>1, <1>5, <2>1, <2>2, <2>3, <3>2
    <2>4. CASE ~(i <= m)
      <3>1. i - m \in 1..(n - m) /\ m + (i - m) = i
        BY <2>4
      <3>2. t[i - m] = <<BodyStage, 0, file, i>>
        BY <1>2, <3>1 DEF FileBytes
      <3> QED
        BY <1>1, <1>5, <2>1, <2>2, <2>4, <3>2
    <2> QED
      BY <2>3, <2>4
  <1>7. s \o t = u
    BY <1>3, <1>4, <1>6, SeqEqual
  <1> QED
    BY <1>1, <1>2, <1>3, <1>7

\* What readFileContent() reads continues what was read of the file before.
LEMMA ReadFileText ==
    ASSUME NEW buf \in Seq(Byte), Len(buf) <= BUFSIZE,
           NEW file \in Line, NEW pos \in Nat, pos <= FileSize[file]
    PROVE  LET a == readFileContent(buf, file, pos)
           IN  /\ \E part \in Seq(Byte) :
                     /\ a.buf = buf \o part
                     /\ FileBytes(file, 0, pos) \o part = FileBytes(file, 0, a.fpos)
               /\ a.done => a.fpos = FileSize[file]
  <1> DEFINE size   == FileSize[file]
             fits   == size - pos <= FreeSpace(buf)
             copied == IF fits THEN size - pos ELSE FreeSpace(buf)
             part   == FileBytes(file, pos, pos + copied)
             a      == readFileContent(buf, file, pos)
  <1>1. /\ BUFSIZE \in Nat /\ Len(buf) \in Nat /\ size \in Nat
        /\ FreeSpace(buf) = BUFSIZE - Len(buf)
    BY RequestAssumption, ResponseAssumption, LenProperties DEF FreeSpace
  <1>2. copied \in Nat /\ (fits => pos + copied = size)
    BY <1>1
  <1>3. a.buf = buf \o part /\ a.done = fits /\ a.fpos = pos + copied
    BY DEF readFileContent
  <1>4. pos + copied \in Nat /\ pos <= pos + copied
    <2> HIDE DEF copied
    <2> QED
      BY <1>2
  <1>5. part \in Seq(Byte) /\ FileBytes(file, 0, pos) \o part = FileBytes(file, 0, pos + copied)
    <2> HIDE DEF copied
    <2> QED
      BY <1>4, FileBytesType, FileBytesJoin
  <1> HIDE DEF size, fits, copied, part, a
  <1> QED
    BY <1>2, <1>3, <1>5 DEF a, size
==============================================================================
