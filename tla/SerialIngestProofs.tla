--------------------------- MODULE SerialIngestProofs ---------------------------
(***************************************************************************)
(* Theorems about the ingest path: what SerialIngest does with the bytes   *)
(* of the line, for every wire, noise, size and limit, and what CRC16      *)
(* finds in packets of every length.                                       *)
(*                                                                         *)
(*   - concatenations, and the frames on the wire;                         *)
(*   - what the steps do with the bytes: Core, the invariant that holds    *)
(*     however the line is disturbed;                                      *)
(*   - where packets end: Frames, which holds while nothing comes late;    *)
(*   - what packets contain: Framed, and Undamaged;                        *)
(*   - the checksum;                                                       *)
(*   - what leaves the decoder in time: Faithful, and Handled;             *)
(*   - and what may leave it however late it is: Whole.                    *)
(***************************************************************************)
EXTENDS SerialIngest, SequenceTheorems, FiniteSetTheorems, Induction

-----------------------------------------------------------------------------
\* The concatenations of the beginnings of seqs.
Concatenates(f, Elem, seqs) ==
  /\ f \in [0 .. Len(seqs) -> Seq(Elem)]
  /\ f[0] = <<>>
  /\ \A i \in 1 .. Len(seqs) : f[i] = f[i - 1] \o seqs[i]

LEMMA ConcatenationExists ==
  ASSUME NEW Elem, NEW seqs \in Seq(Seq(Elem))
  PROVE  \E f : Concatenates(f, Elem, seqs) /\ FlattenSeq(seqs) = f[Len(seqs)]
<1> DEFINE n == Len(seqs)
           Body(g) == [i \in 1 .. n |-> IF i = 1 THEN seqs[i] ELSE g[i - 1] \o seqs[i]]
           more(w, i) == IF i \in 1 .. n THEN w \o seqs[i] ELSE w
           step == [p \in Seq(Elem) \X Int |-> more(p[1], p[2])]
           s == CHOOSE g : g = Body(g)
<1>1. n \in Nat /\ <<>> \in Seq(Elem) /\ \A i \in 1 .. n : seqs[i] \in Seq(Elem)
  OBVIOUS
<1>0. n = 0 => FlattenSeq(seqs) = <<>>
  BY DEF FlattenSeq
<1>8. n # 0 => FlattenSeq(seqs) = s[n]
  BY DEF FlattenSeq
<1> HIDE DEF n
<1>2. step \in [Seq(Elem) \X Int -> Seq(Elem)]
  <2>1. ASSUME NEW p \in Seq(Elem) \X Int PROVE more(p[1], p[2]) \in Seq(Elem)
    <3>1. p[1] \in Seq(Elem)
      OBVIOUS
    <3>2. p[2] \in 1 .. n => seqs[p[2]] \in Seq(Elem)
      BY <1>1
    <3> QED BY <3>1, <3>2, ConcatProperties
  <2> QED BY <2>1
<1>3. PICK f \in [0 .. n -> Seq(Elem)] : Unfolds(f, 0, n, <<>>, step)
  <2>1. 0 \in Int /\ n \in Int /\ 0 <= n
    BY <1>1
  <2> HIDE DEF step
  <2> QED BY ONLY <1>1, <1>2, <2>1, RecursionExists
<1>4. \A i \in 1 .. n : step[<<f[i - 1], i>>] = f[i - 1] \o seqs[i]
  <2>1. \A w \in Seq(Elem), i \in 1 .. n : step[<<w, i>>] = w \o seqs[i]
    <3>1. \A w \in Seq(Elem), i \in 1 .. n : more(w, i) = w \o seqs[i] /\ i \in Int
      OBVIOUS
    <3>2. \A w \in Seq(Elem), i \in Int : step[<<w, i>>] = more(w, i)
      <4> HIDE DEF more
      <4> QED OBVIOUS
    <3> HIDE DEF step, more
    <3> QED BY <3>1, <3>2
  <2>2. \A i \in 1 .. n : f[i - 1] \in Seq(Elem)
    BY <1>1
  <2> HIDE DEF step
  <2> QED BY <2>1, <2>2
<1>5. f[0] = <<>> /\ \A i \in 1 .. n : f[i] = f[i - 1] \o seqs[i]
  <2>1. 0 + 1 = 1
    OBVIOUS
  <2> HIDE DEF step
  <2> QED BY <1>3, <1>4, <2>1 DEF Unfolds
<1> HIDE DEF step
<1>6. CASE n = 0
  BY <1>0, <1>5, <1>6 DEF Concatenates, n
<1>7. CASE n # 0
  <2> DEFINE h == [i \in 1 .. n |-> f[i]]
  <2>1. \A i \in 1 .. n : i # 1 => i - 1 \in 1 .. n
    BY <1>1
  <2>2. 1 \in 1 .. n /\ n \in 1 .. n
    BY <1>1, <1>7
  <2>3. f[1] = seqs[1]
    <3>1. f[1] = <<>> \o seqs[1]
      <4>1. 1 - 1 = 0
        OBVIOUS
      <4> QED BY <1>5, <2>2, <4>1
    <3> QED BY <1>1, <2>2, <3>1, ConcatEmptySeq
  <2>4. h = Body(h)
    BY <1>5, <2>1, <2>3
  <2>5. s = Body(s)
    <3> HIDE DEF Body, h
    <3> QED BY <2>4
  <2>6. /\ s = [i \in 1 .. n |-> s[i]] /\ s[1] = seqs[1]
        /\ \A i \in 1 .. n : i # 1 => s[i] = s[i - 1] \o seqs[i]
    <3> HIDE DEF s
    <3> QED BY <2>2, <2>5
  <2> HIDE DEF s, Body, h
  <2> DEFINE T == {i \in 1 .. n : s[i] = f[i]}
  <2>7. 1 \in T
    BY <2>2, <2>3, <2>6
  <2>8. ASSUME NEW i \in 1 .. n - 1, i \in T PROVE i + 1 \in T
    <3>1. i + 1 \in 1 .. n /\ (i + 1) - 1 = i /\ i + 1 # 1
      BY <1>1
    <3>2. s[i] = f[i]
      BY <2>8
    <3>3. s[i + 1] = s[i] \o seqs[i + 1] /\ f[i + 1] = f[i] \o seqs[i + 1]
      BY <1>5, <2>6, <3>1
    <3> QED BY <3>1, <3>2, <3>3
  <2>9. s[n] = f[n]
    <3> HIDE DEF T
    <3>1. 1 \in Int /\ n \in Int
      BY <1>1
    <3>2. 1 .. n \subseteq T
      BY ONLY <2>7, <2>8, <3>1, IntervalInduction
    <3> QED BY <2>2, <3>2 DEF T
  <2> QED BY <1>5, <1>7, <1>8, <2>9 DEF Concatenates, n
<1> QED BY <1>6, <1>7

LEMMA ConcatenationOfBeginning ==
  ASSUME NEW Elem, NEW seqs \in Seq(Seq(Elem)), NEW f, Concatenates(f, Elem, seqs), NEW k \in 0 .. Len(seqs),
         NEW part \in Seq(Seq(Elem)), Len(part) = k, \A i \in 1 .. k : part[i] = seqs[i]
  PROVE  FlattenSeq(part) = f[k]
<1>1. PICK g : Concatenates(g, Elem, part) /\ FlattenSeq(part) = g[k]
  BY ConcatenationExists
<1> DEFINE T == {i \in 0 .. k : g[i] = f[i]}
<1>2. 0 \in Int /\ k \in Int /\ k \in Nat /\ 0 \in T /\ k \in 0 .. k
  BY <1>1 DEF Concatenates
<1>3. ASSUME NEW i \in 0 .. k - 1, i \in T PROVE i + 1 \in T
  <2>1. i + 1 \in 1 .. k /\ i + 1 \in 1 .. Len(seqs) /\ (i + 1) - 1 = i /\ i + 1 \in 0 .. k
    OBVIOUS
  <2>2. g[i] = f[i]
    BY <1>3
  <2>3. g[i + 1] = g[i] \o part[i + 1]
    BY <1>1, <2>1 DEF Concatenates
  <2>4. f[i + 1] = f[i] \o seqs[i + 1]
    BY <2>1 DEF Concatenates
  <2>5. part[i + 1] = seqs[i + 1]
    BY <2>1
  <2> QED BY <2>1, <2>2, <2>3, <2>4, <2>5
<1>4. k \in T
  <2> HIDE DEF T
  <2>1. 0 .. k \subseteq T
    BY ONLY <1>2, <1>3, IntervalInduction
  <2> QED BY <1>2, <2>1
<1> QED BY <1>1, <1>4

LEMMA FlattenEmpty == FlattenSeq(<<>>) = <<>>
BY DEF FlattenSeq

LEMMA FlattenTyped ==
  ASSUME NEW Elem, NEW seqs \in Seq(Seq(Elem))
  PROVE  FlattenSeq(seqs) \in Seq(Elem)
<1>1. PICK f : Concatenates(f, Elem, seqs) /\ FlattenSeq(seqs) = f[Len(seqs)]
  BY ConcatenationExists
<1>2. Len(seqs) \in 0 .. Len(seqs)
  OBVIOUS
<1> QED BY <1>1, <1>2 DEF Concatenates

LEMMA FlattenAppend ==
  ASSUME NEW Elem, NEW seqs \in Seq(Seq(Elem)), NEW x \in Seq(Elem)
  PROVE  FlattenSeq(Append(seqs, x)) = FlattenSeq(seqs) \o x
<1> DEFINE n == Len(seqs)
           longer == Append(seqs, x)
<1>1. /\ n \in Nat /\ longer \in Seq(Seq(Elem)) /\ Len(longer) = n + 1 /\ longer[n + 1] = x
      /\ \A i \in 1 .. n : seqs[i] = longer[i]
  OBVIOUS
<1>2. PICK f : Concatenates(f, Elem, longer) /\ FlattenSeq(longer) = f[n + 1]
  <2> HIDE DEF longer, n
  <2> QED BY <1>1, ConcatenationExists
<1>3. n \in 0 .. Len(longer) /\ n + 1 \in 1 .. Len(longer) /\ (n + 1) - 1 = n /\ Len(seqs) = n
  BY <1>1
<1> HIDE DEF longer, n
<1>4. FlattenSeq(seqs) = f[n]
  <2>1. /\ longer \in Seq(Seq(Elem)) /\ Concatenates(f, Elem, longer) /\ n \in 0 .. Len(longer)
        /\ Len(seqs) = n /\ \A i \in 1 .. n : seqs[i] = longer[i]
    BY <1>1, <1>2, <1>3
  <2> QED BY <2>1, ConcatenationOfBeginning
<1>5. f[n + 1] = f[n] \o longer[n + 1]
  BY <1>2, <1>3 DEF Concatenates
<1> QED BY <1>1, <1>2, <1>4, <1>5 DEF longer

-----------------------------------------------------------------------------
\* The frames on the line.

Position(i)  == Len(FlattenSeq(SubSeq(Wire, 1, i)))

\* No frame ends between two positions.
Within(a, b) == \A e \in FrameEnds : ~(a < e /\ e < b)

\* A frame has bytes, and not more than dispatchFrame is called for at once: 256,
\* the longest Modbus frame there is.
FramesFit == \A i \in DOMAIN Wire : Len(Wire[i]) \in 1 .. DispatchSize

LEMMA WireFacts ==
  /\ Len(Wire) \in Nat /\ DOMAIN Wire = 1 .. Len(Wire) /\ Bytestream \in Seq(Bytes)
  /\ Position(0) = 0 /\ Position(Len(Wire)) = Len(Bytestream)
  /\ \A i \in 0 .. Len(Wire) : Position(i) \in Nat
  /\ \A i \in 0 .. Len(Wire) : \A j \in i .. Len(Wire) : Position(i) <= Position(j)
  /\ \A i \in 1 .. Len(Wire) :
       /\ Position(i) = Position(i - 1) + Len(Wire[i])
       /\ SubSeq(Bytestream, Position(i - 1) + 1, Position(i)) = Wire[i]
<1> DEFINE n == Len(Wire)
<1>1. /\ Wire \in Seq(Seq(Bytes)) /\ n \in Nat /\ DOMAIN Wire = 1 .. n
      /\ \A i \in 1 .. n : Wire[i] \in Seq(Bytes)
  BY IngestAssumption
<1>2. PICK f : Concatenates(f, Bytes, Wire) /\ Bytestream = f[n]
  BY <1>1, ConcatenationExists DEF Bytestream
<1>3. /\ f \in [0 .. n -> Seq(Bytes)] /\ f[0] = <<>>
      /\ \A i \in 1 .. n : f[i] = f[i - 1] \o Wire[i]
  BY <1>2 DEF Concatenates
<1>4. \A i \in 0 .. n : f[i] \in Seq(Bytes) /\ Len(f[i]) \in Nat
  BY <1>3
<1>5. ASSUME NEW i \in 0 .. n PROVE Position(i) = Len(f[i])
  <2>1. /\ SubSeq(Wire, 1, i) \in Seq(Seq(Bytes)) /\ Len(SubSeq(Wire, 1, i)) = i
        /\ \A j \in 1 .. i : SubSeq(Wire, 1, i)[j] = Wire[j]
    BY <1>1
  <2>2. i \in 0 .. Len(Wire)
    OBVIOUS
  <2>3. FlattenSeq(SubSeq(Wire, 1, i)) = f[i]
    <3>1. Wire \in Seq(Seq(Bytes)) /\ Concatenates(f, Bytes, Wire)
      BY <1>1, <1>2
    <3> QED BY ONLY <2>1, <2>2, <3>1, ConcatenationOfBeginning
  <2> QED BY <2>3 DEF Position
<1> HIDE DEF n
<1>6. /\ n \in 0 .. n /\ 0 \in 0 .. n
      /\ \A i \in 1 .. n : i \in 0 .. n /\ i - 1 \in 0 .. n
  BY <1>1
<1>7. ASSUME NEW i \in 1 .. n
      PROVE  /\ Len(f[i]) = Len(f[i - 1]) + Len(Wire[i])
             /\ \A m \in 1 .. Len(f[i]) :
                  f[i][m] = IF m <= Len(f[i - 1]) THEN f[i - 1][m] ELSE Wire[i][m - Len(f[i - 1])]
  <2>1. f[i - 1] \in Seq(Bytes) /\ Wire[i] \in Seq(Bytes) /\ f[i] = f[i - 1] \o Wire[i]
    BY <1>1, <1>3, <1>4, <1>6
  <2>2. /\ Len(f[i - 1] \o Wire[i]) = Len(f[i - 1]) + Len(Wire[i])
        /\ \A m \in 1 .. Len(f[i - 1]) + Len(Wire[i]) : (f[i - 1] \o Wire[i])[m] =
             IF m <= Len(f[i - 1]) THEN f[i - 1][m] ELSE Wire[i][m - Len(f[i - 1])]
    BY ONLY <2>1, ConcatProperties
  <2> QED BY ONLY <2>1, <2>2
<1>8. ASSUME NEW i \in 0 .. n, NEW j \in i .. n
      PROVE  Len(f[i]) <= Len(f[j]) /\ \A m \in 1 .. Len(f[i]) : f[j][m] = f[i][m]
  <2> DEFINE T == {k \in i .. n : Len(f[i]) <= Len(f[k]) /\ \A m \in 1 .. Len(f[i]) : f[k][m] = f[i][m]}
  <2>1. i \in T /\ i \in Int /\ n \in Int
    BY <1>1, <1>4
  <2>2. ASSUME NEW k \in i .. n - 1, k \in T PROVE k + 1 \in T
    <3>1. k + 1 \in i .. n /\ k + 1 \in 1 .. n /\ (k + 1) - 1 = k /\ k \in 0 .. n /\ k + 1 \in 0 .. n
      BY <1>1
    <3>2. /\ Len(f[k]) \in Nat /\ Len(f[k + 1]) \in Nat /\ Len(f[i]) \in Nat
          /\ Len(f[i]) <= Len(f[k]) /\ \A m \in 1 .. Len(f[i]) : f[k][m] = f[i][m]
      BY <1>4, <2>2, <3>1
    <3>3. Wire[k + 1] \in Seq(Bytes) /\ Len(Wire[k + 1]) \in Nat
      BY <1>1, <3>1
    <3>4. /\ Len(f[k + 1]) = Len(f[k]) + Len(Wire[k + 1])
          /\ \A m \in 1 .. Len(f[k + 1]) :
               f[k + 1][m] = IF m <= Len(f[k]) THEN f[k][m] ELSE Wire[k + 1][m - Len(f[k])]
      BY <1>7, <3>1
    <3> DEFINE a == Len(f[i])
               b == Len(f[k])
               c == Len(f[k + 1])
               w == Len(Wire[k + 1])
    <3>5. a \in Nat /\ b \in Nat /\ c \in Nat /\ w \in Nat /\ a <= b /\ c = b + w
      BY <3>2, <3>3, <3>4
    <3> HIDE DEF a, b, c, w
    <3>6. a <= c /\ \A m \in 1 .. a : m \in 1 .. c /\ m <= b
      BY ONLY <3>5
    <3>7. Len(f[i]) <= Len(f[k + 1])
      BY ONLY <3>6 DEF a, c
    <3>8. \A m \in 1 .. Len(f[i]) : m \in 1 .. Len(f[k + 1]) /\ m <= Len(f[k])
      BY ONLY <3>6 DEF a, b, c
    <3>9. \A m \in 1 .. Len(f[i]) : f[k + 1][m] = f[i][m]
      BY <3>2, <3>4, <3>8
    <3> QED BY <3>1, <3>7, <3>9
  <2> HIDE DEF T
  <2>3. i .. n \subseteq T
    BY ONLY <2>1, <2>2, IntervalInduction
  <2> QED BY <2>3 DEF T
<1>9. Position(0) = 0 /\ Position(n) = Len(Bytestream) /\ Bytestream \in Seq(Bytes)
  <2>1. Len(f[0]) = 0
    BY <1>3
  <2> QED BY <1>2, <1>4, <1>5, <1>6, <2>1
<1>10. ASSUME NEW i \in 1 .. n
       PROVE  /\ Position(i) = Position(i - 1) + Len(Wire[i])
              /\ SubSeq(Bytestream, Position(i - 1) + 1, Position(i)) = Wire[i]
  <2> DEFINE p == Len(f[i - 1])
             q == Len(f[i])
  <2>1. p \in Nat /\ q \in Nat /\ Position(i - 1) = p /\ Position(i) = q /\ q = p + Len(Wire[i])
    BY <1>4, <1>5, <1>6, <1>7
  <2>2. Len(f[i]) <= Len(f[n]) /\ \A m \in 1 .. Len(f[i]) : f[n][m] = f[i][m]
    <3>1. i \in 0 .. n /\ n \in i .. n
      BY <1>1
    <3> QED BY <1>8, <3>1
  <2>3. /\ Wire[i] \in Seq(Bytes) /\ Len(Wire[i]) \in Nat
        /\ \A m \in 1 .. q : Bytestream[m] = IF m <= p THEN f[i - 1][m] ELSE Wire[i][m - p]
    BY <1>1, <1>2, <1>7, <2>2
  <2>4. q <= Len(Bytestream)
    BY <1>2, <2>2
  <2> HIDE DEF p, q
  <2> DEFINE piece == SubSeq(Bytestream, p + 1, q)
  <2>5. /\ piece \in Seq(Bytes) /\ Len(piece) = Len(Wire[i])
        /\ \A m \in 1 .. Len(Wire[i]) : piece[m] = Bytestream[p + m]
    <3>1. \A m \in (p + 1) .. q : Bytestream[m] \in Bytes
      BY <1>9, <2>1, <2>4
    <3>2. /\ q - (p + 1) + 1 = Len(Wire[i]) /\ p + 1 <= q + 1
          /\ p + 1 \in 1 .. Len(Bytestream) + 1 /\ q \in Int
          /\ q \in (p + 1) - 1 .. Len(Bytestream)
      BY <1>9, <2>1, <2>3, <2>4
    <3>3. piece = [m \in 1 .. Len(Wire[i]) |-> Bytestream[m + (p + 1) - 1]]
      BY <2>1, <3>2
    <3>4. \A m \in 1 .. Len(Wire[i]) : m + (p + 1) - 1 = p + m /\ p + m \in (p + 1) .. q
      BY <2>1, <2>3
    <3>5. /\ piece \in [1 .. Len(Wire[i]) -> Bytes]
          /\ \A m \in 1 .. Len(Wire[i]) : piece[m] = Bytestream[p + m]
      BY <3>1, <3>3, <3>4
    <3> HIDE DEF piece
    <3>6. piece \in Seq(Bytes) /\ Len(piece) = Len(Wire[i])
      BY <2>3, <3>5, IsASeq
    <3> QED BY <3>5, <3>6
  <2> HIDE DEF piece
  <2>6. \A m \in 1 .. Len(Wire[i]) : piece[m] = Wire[i][m]
    <3>1. \A m \in 1 .. Len(Wire[i]) : p + m \in 1 .. q /\ ~(p + m <= p) /\ (p + m) - p = m
      BY <2>1, <2>3
    <3> QED BY <2>3, <2>5, <3>1
  <2>7. piece = Wire[i]
    BY <2>3, <2>5, <2>6, SeqEqual
  <2> QED BY <2>1, <2>7 DEF piece
<1>11. ASSUME NEW i \in 0 .. n, NEW j \in i .. n PROVE Position(i) <= Position(j)
  <2>1. j \in 0 .. n
    BY <1>1
  <2> QED BY <1>5, <1>8, <2>1
<1> QED BY <1>1, <1>4, <1>5, <1>9, <1>10, <1>11 DEF n

LEMMA FrameEndsFacts ==
  /\ FrameEnds \subseteq 0 .. Len(Bytestream) /\ 0 \in FrameEnds /\ Len(Bytestream) \in FrameEnds
  /\ FrameEnds = {Position(i) : i \in 0 .. Len(Wire)}
<1>1. FrameEnds = {Position(i) : i \in 0 .. Len(Wire)}
  BY DEF FrameEnds, Position
<1>2. 0 \in 0 .. Len(Wire) /\ Len(Wire) \in 0 .. Len(Wire) /\ Len(Bytestream) \in Nat
  BY WireFacts
<1>3. ASSUME NEW i \in 0 .. Len(Wire) PROVE Position(i) \in 0 .. Len(Bytestream)
  <2>1. Len(Wire) \in i .. Len(Wire)
    BY WireFacts
  <2>2. Position(i) \in Nat /\ Position(i) <= Len(Bytestream)
    BY <2>1, WireFacts
  <2> QED BY <1>2, <2>2
<1> QED BY <1>1, <1>2, <1>3, WireFacts

\* Each frame ends behind the one before it.
LEMMA PositionsDiffer ==
  ASSUME FramesFit, NEW i \in 0 .. Len(Wire), NEW j \in 0 .. Len(Wire), i < j
  PROVE  Position(i) < Position(j)
<1>1. Len(Wire) \in Nat /\ i \in Nat /\ j \in Nat
  BY WireFacts
<1> DEFINE n == Len(Wire)
<1>2. n \in Nat /\ i \in 0 .. n /\ j \in 0 .. n /\ i < j
  BY <1>1
<1> HIDE DEF n
<1>3. i + 1 \in 1 .. n /\ i + 1 \in 0 .. n /\ j \in i + 1 .. n /\ (i + 1) - 1 = i
  BY ONLY <1>2
<1>4. /\ Position(i) \in Nat /\ Position(j) \in Nat /\ Position(i + 1) \in Nat
      /\ Position(i + 1) <= Position(j)
  BY <1>2, <1>3, WireFacts DEF n
<1>5. Position(i + 1) = Position(i) + Len(Wire[i + 1])
  BY <1>3, WireFacts DEF n
<1>6. i + 1 \in DOMAIN Wire
  BY <1>3, WireFacts DEF n
<1>7. Len(Wire[i + 1]) \in 1 .. DispatchSize /\ DispatchSize \in Nat
  BY <1>6, SerialAssumption DEF FramesFit
<1> QED BY <1>4, <1>5, <1>7

LEMMA NextEnd ==
  ASSUME FramesFit, NEW a \in FrameEnds, a < Len(Bytestream)
  PROVE  \E k \in DOMAIN Wire : /\ a = Position(k - 1) /\ Position(k) = a + Len(Wire[k])
                                /\ Position(k) \in FrameEnds /\ Len(Wire[k]) \in 1 .. DispatchSize
<1>1. PICK i \in 0 .. Len(Wire) : a = Position(i)
  BY FrameEndsFacts
<1>2. i # Len(Wire)
  <2>1. Position(Len(Wire)) = Len(Bytestream) /\ Len(Bytestream) \in Nat
    BY WireFacts
  <2> QED BY <1>1, <2>1
<1>3. i + 1 \in DOMAIN Wire /\ i + 1 \in 1 .. Len(Wire) /\ i + 1 \in 0 .. Len(Wire) /\ (i + 1) - 1 = i
  <2>1. Len(Wire) \in Nat /\ DOMAIN Wire = 1 .. Len(Wire)
    BY WireFacts
  <2>2. i \in 0 .. Len(Wire)
    OBVIOUS
  <2> DEFINE n == Len(Wire)
  <2>3. n \in Nat /\ i \in 0 .. n /\ i # n
    BY <1>2, <2>1, <2>2
  <2> HIDE DEF n
  <2>4. i + 1 \in 1 .. n /\ i + 1 \in 0 .. n /\ (i + 1) - 1 = i
    BY ONLY <2>3
  <2> QED BY ONLY <2>1, <2>4 DEF n
<1>4. Position(i + 1) = a + Len(Wire[i + 1]) /\ Position(i + 1) \in FrameEnds
  BY <1>1, <1>3, WireFacts, FrameEndsFacts
<1> QED BY <1>1, <1>3, <1>4 DEF FramesFit

\* What lies between two neighbouring ends is one frame.
LEMMA FrameBetween ==
  ASSUME FramesFit, NEW a \in FrameEnds, NEW b \in FrameEnds, a < b, Within(a, b)
  PROVE  \E k \in DOMAIN Wire : a = Position(k - 1) /\ b = Position(k) /\ b = a + Len(Wire[k])
<1>1. a \in Nat /\ b \in Nat /\ b <= Len(Bytestream) /\ Len(Bytestream) \in Nat
  BY FrameEndsFacts, WireFacts
<1>2. a < Len(Bytestream)
  BY <1>1
<1>3. PICK k \in DOMAIN Wire : /\ a = Position(k - 1) /\ Position(k) = a + Len(Wire[k])
                               /\ Position(k) \in FrameEnds /\ Len(Wire[k]) \in 1 .. DispatchSize
  BY <1>2, NextEnd
<1>4. PICK j \in 0 .. Len(Wire) : b = Position(j)
  BY FrameEndsFacts
<1>5. k \in 1 .. Len(Wire) /\ k \in 0 .. Len(Wire) /\ k - 1 \in 0 .. Len(Wire) /\ Len(Wire) \in Nat
  <2>1. Len(Wire) \in Nat /\ k \in 1 .. Len(Wire)
    BY WireFacts
  <2> QED BY ONLY <2>1
<1>6. j >= k
  <2> SUFFICES ASSUME j < k PROVE FALSE
    BY <1>5
  <2>1. k - 1 \in j .. Len(Wire)
    BY <1>5
  <2>2. Position(j) <= Position(k - 1)
    BY <2>1, WireFacts
  <2> QED BY <1>1, <1>3, <1>4, <2>2
<1>7. Position(k) <= b
  <2>1. j \in k .. Len(Wire)
    BY <1>5, <1>6
  <2> QED BY <1>4, <1>5, <2>1, WireFacts
<1>8. Position(k) > a /\ Position(k) \in Nat
  <2>1. Len(Wire[k]) \in Nat /\ Len(Wire[k]) >= 1
    BY <1>3, SerialAssumption
  <2> QED BY <1>1, <1>3, <2>1
<1>9. Position(k) = b
  BY <1>1, <1>3, <1>7, <1>8 DEF Within
<1> QED BY <1>3, <1>9

\* DispatchSize bytes from the beginning of a frame reach its end.
LEMMA FrameEndsSoon ==
  ASSUME FramesFit, NEW a \in FrameEnds, NEW b \in Nat, b <= Len(Bytestream),
         Within(a, b), a + DispatchSize <= b
  PROVE  b \in FrameEnds /\ b = a + DispatchSize
<1>1. a \in Nat /\ Len(Bytestream) \in Nat /\ DispatchSize \in Nat \ {0}
  BY FrameEndsFacts, WireFacts, SerialAssumption
<1>2. PICK k \in DOMAIN Wire : /\ Position(k) = a + Len(Wire[k]) /\ Position(k) \in FrameEnds
                               /\ Len(Wire[k]) \in 1 .. DispatchSize
  BY <1>1, NextEnd
<1>3. ~(a < Position(k) /\ Position(k) < b)
  BY <1>2 DEF Within
<1>4. Position(k) = b /\ b = a + DispatchSize
  BY <1>1, <1>2, <1>3
<1> QED BY <1>2, <1>4

LEMMA MinOfNats ==
  ASSUME NEW T, T \subseteq Nat, T # {}
  PROVE  Min(T) \in T /\ \A y \in T : Min(T) <= y
<1>1. PICK m \in T : \A y \in T : <<y, m>> \notin OpToRel(<, Nat)
  BY NatLessThanWellFounded, WFMin
<1>2. \A y \in T : m <= y
  <2>1. \A y \in T : y \in Nat /\ m \in Nat /\ ~(y < m)
    BY <1>1 DEF OpToRel
  <2> QED BY <2>1
<1> QED BY <1>2 DEF Min

\* What comes next over the line does not reach beyond the end of a frame.
LEMMA BurstFacts ==
  ASSUME NEW s \in Nat, s = Len(sent), s < Len(Bytestream)
  PROVE  \E m \in s + 1 .. Len(Bytestream) : Burst = SubSeq(Bytestream, s + 1, m) /\ Within(s, m)
<1> DEFINE later == {e \in FrameEnds : e > s}
           end == Min(later)
           m == Min({end, s + BurstSize})
<1>1. FrameEnds \subseteq Nat /\ Len(Bytestream) \in later /\ Len(Bytestream) \in Nat
  BY FrameEndsFacts, WireFacts
<1>2. end \in later /\ \A e \in later : end <= e
  <2>1. later \subseteq Nat /\ later # {}
    BY <1>1
  <2> HIDE DEF later
  <2> QED BY <2>1, MinOfNats
<1>3. end \in Nat /\ end > s /\ end <= Len(Bytestream)
  BY <1>1, <1>2
<1>4. BurstSize \in Nat \ {0}
  BY SerialAssumption
<1>5. m \in {end, s + BurstSize} /\ m <= end
  <2>1. {end, s + BurstSize} \subseteq Nat /\ {end, s + BurstSize} # {}
    BY <1>3, <1>4
  <2> HIDE DEF end
  <2> QED BY <2>1, MinOfNats
<1>6. Burst = SubSeq(Bytestream, s + 1, m)
  BY DEF Burst
<1> HIDE DEF m, end
<1>7. m \in Nat /\ m > s /\ m <= Len(Bytestream)
  BY <1>1, <1>3, <1>4, <1>5
<1>8. Within(s, m)
  <2> SUFFICES ASSUME NEW e \in FrameEnds, s < e, e < m PROVE FALSE
    BY DEF Within
  <2>1. e \in Nat /\ e \in later
    BY <1>1
  <2> QED BY <1>2, <1>3, <1>5, <1>7, <2>1
<1> QED BY <1>1, <1>6, <1>7, <1>8

-----------------------------------------------------------------------------
\* The invariant.

Packets == [i \in DOMAIN dispatched |-> dispatched[i].data]
Taken   == FlattenSeq(Packets)
Packet  == [data : Seq(Bytes), fate : {"sent", "dropped", "cancelled", "panic"}]

Flags == {running, cancelled, quiet, chanClosed, timedOut, pause, untimely} \subseteq BOOLEAN

\* The sequences and their bounds.
Stored ==
  /\ {sent, line, buffer, frameBuffer} \subseteq Seq(Bytes)
  /\ dispatched \in Seq(Packet) /\ rawData \in Seq(Seq(Bytes))
  /\ Len(rawData) <= RawBufferSize /\ Len(buffer) <= ReadSize
  /\ Len(frameBuffer) <= MaxFrameBufferSize /\ Len(sent) <= Len(Bytestream)

Counted ==
  /\ totalErrors \in 0 .. SerialErrorThreshold + 1
  /\ noise \in 0 .. MaxNoise /\ faults \in 0 .. MaxFaults
  /\ stats \in [CountersOfDecoder -> Nat]

\* How far the loop and Stop are, and what the loop may hold there.
Phased ==
  /\ pc \in {"off", "loop", "read", "got", "append", "size", "backoff", "flush", "done"}
  /\ port \in {"none", "open", "closed", "nil"}
  /\ running <=> stopPc = "started"
  /\ stopPc \in {"new", "started"} => ~cancelled /\ ~chanClosed
  /\ stopPc = "new" => pc = "off" /\ port = "none"
  /\ stopPc = "started" => pc \notin {"off", "flush", "done"} /\ port = "open"
  /\ buffer # <<>> => pc \in {"got", "append", "done"}

Cut == Len(Taken)

\* Where the silence was seen that is going to cut.
Boundary == Cut + Len(frameBuffer) + (IF pc = "got" THEN 0 ELSE Len(buffer))

Timely ==
  /\ Cut \in FrameEnds
  /\ pause => line = <<>> /\ pc # "got" /\ (quiet \/ sent = <<>>)
  /\ quiet => Boundary \in FrameEnds /\ Within(Cut, Boundary) /\ Within(Boundary, Len(sent))
  /\ ~quiet => Within(Cut, Len(sent))

InTime == stopPc \in {"new", "started"} /\ ~untimely

\* data is what has arrived of a frame, damaged or not.
Arrived(k, data) ==
  /\ Len(data) = Len(Wire[k]) /\ Position(k) <= Len(sent)
  /\ \A i \in DOMAIN Wire[k] : data[i] = sent[Position(k - 1) + i]

\* What is undamaged makes no noise.
Clean ==
  /\ stats["noise"] = 0
  /\ \A i \in 1 .. Len(sent) : sent[i] = Bytestream[i]

\* What the worker will receive was dispatched.
PassedOn == \A j \in DOMAIN rawData : \E i \in DOMAIN dispatched : rawData[j] = dispatched[i].data

\* What holds however the line is disturbed.
Core ==
  Flags /\ Stored /\ Counted /\ Phased /\ Conserved /\ PassedOn

\* What holds as long as nothing comes late or Stop is called.
Frames == InTime => Timely /\ \A i \in DOMAIN dispatched : BytesIn(i) \in FrameEnds

\* The packets are the first frames of the wire, in their order.
Framed ==
  InTime => /\ Len(dispatched) <= Len(Wire) /\ Cut = Position(Len(dispatched))
            /\ \A j \in DOMAIN dispatched : Arrived(j, dispatched[j].data)

Undamaged == InTime /\ noise = 0 => Clean

LEMMA PacketsTyped ==
  ASSUME Stored
  PROVE  /\ Packets \in Seq(Seq(Bytes)) /\ Len(Packets) = Len(dispatched)
         /\ DOMAIN dispatched = 1 .. Len(dispatched) /\ Len(dispatched) \in Nat
         /\ Taken \in Seq(Bytes) /\ Cut \in Nat
<1>1. dispatched \in Seq(Packet)
  BY DEF Stored
<1>2. Packets \in Seq(Seq(Bytes)) /\ Len(Packets) = Len(dispatched)
  <2> DEFINE n == Len(dispatched)
  <2>1. n \in Nat /\ DOMAIN dispatched = 1 .. n /\ \A i \in 1 .. n : dispatched[i].data \in Seq(Bytes)
    <3>1. n \in Nat /\ DOMAIN dispatched = 1 .. n /\ \A i \in 1 .. n : dispatched[i] \in Packet
      BY <1>1
    <3>2. \A p \in Packet : p.data \in Seq(Bytes)
      BY DEF Packet
    <3> QED BY <3>1, <3>2
  <2>2. Packets = [i \in 1 .. n |-> dispatched[i].data]
    BY <2>1 DEF Packets
  <2> HIDE DEF n
  <2>3. Packets \in [1 .. n -> Seq(Bytes)]
    BY <2>1, <2>2
  <2>4. Packets \in Seq(Seq(Bytes)) /\ Len(Packets) = n
    BY <2>1, <2>3
  <2> QED BY <2>4 DEF n
<1>3. Taken \in Seq(Bytes)
  BY <1>2, FlattenTyped DEF Taken
<1> QED BY <1>1, <1>2, <1>3 DEF Cut

\* A packet given to dispatchFrame takes the bytes of frameBuffer along, whatever
\* becomes of it, and leaves the packets before it as they are.
LEMMA PacketTaken ==
  ASSUME Stored, NEW data \in Seq(Bytes), NEW fate,
         dispatched' = Append(dispatched, [data |-> data, fate |-> fate])
  PROVE  /\ Taken' = Taken \o data /\ Cut' = Cut + Len(data)
         /\ Len(dispatched') = Len(dispatched) + 1 /\ DOMAIN dispatched' = 1 .. Len(dispatched) + 1
         /\ \A i \in DOMAIN dispatched : dispatched'[i] = dispatched[i] /\ BytesIn(i)' = BytesIn(i)
         /\ dispatched'[Len(dispatched) + 1].data = data
         /\ \A m \in Nat : m = Len(dispatched) + 1 => BytesIn(m)' = Cut'
<1> DEFINE n == Len(dispatched)
<1>1. dispatched \in Seq(Packet) /\ n \in Nat
  BY DEF Stored
<1>2. /\ Len(dispatched') = n + 1 /\ DOMAIN dispatched' = 1 .. n + 1 /\ DOMAIN dispatched = 1 .. n
      /\ \A i \in 1 .. n : dispatched'[i] = dispatched[i]
      /\ dispatched'[n + 1].data = data
  BY <1>1
<1>3. Packets' = Append(Packets, data)
  <2>1. Packets' = [i \in 1 .. n + 1 |-> dispatched'[i].data]
    BY <1>2 DEF Packets
  <2>2. /\ Packets \in Seq(Seq(Bytes)) /\ Len(Packets) = n
        /\ \A i \in 1 .. n : Packets[i] = dispatched[i].data
    BY <1>2, PacketsTyped DEF Packets
  <2> HIDE DEF n
  <2>3. /\ Append(Packets, data) \in Seq(Seq(Bytes)) /\ Len(Append(Packets, data)) = n + 1
        /\ \A i \in 1 .. n : Append(Packets, data)[i] = Packets[i]
        /\ Append(Packets, data)[n + 1] = data
    BY <1>1, <2>2
  <2>4. \A i \in 1 .. n + 1 : Packets'[i] = Append(Packets, data)[i]
    <3>1. \A i \in 1 .. n + 1 : i = n + 1 \/ i \in 1 .. n
      BY <1>1
    <3> QED BY <1>2, <2>1, <2>2, <2>3, <3>1
  <2>5. Append(Packets, data) = [i \in 1 .. n + 1 |-> Append(Packets, data)[i]]
    <3>1. Append(Packets, data) \in [1 .. n + 1 -> Seq(Bytes)]
      BY <2>3, LenProperties
    <3> QED BY <3>1
  <2> QED BY <2>1, <2>4, <2>5
<1>4. Taken' = Taken \o data
  BY <1>3, PacketsTyped, FlattenAppend DEF Taken
<1>5. Cut' = Cut + Len(data)
  <2>1. Taken \in Seq(Bytes)
    BY PacketsTyped
  <2> QED BY <1>4, <2>1, ConcatProperties DEF Cut
<1>6. ASSUME NEW i \in DOMAIN dispatched PROVE BytesIn(i)' = BytesIn(i)
  <2>1. i \in 1 .. n /\ \A j \in 1 .. i : j \in 1 .. n
    BY <1>2
  <2>2. [j \in 1 .. i |-> dispatched'[j].data] = [j \in 1 .. i |-> dispatched[j].data]
    BY <1>2, <2>1
  <2> QED BY <2>2 DEF BytesIn
<1>7. ASSUME NEW m \in Nat, m = n + 1 PROVE BytesIn(m)' = Cut'
  <2>1. Packets' = [j \in 1 .. m |-> dispatched'[j].data]
    BY <1>2, <1>7 DEF Packets
  <2> QED BY <2>1 DEF Cut, Taken, BytesIn
<1> QED BY <1>2, <1>4, <1>5, <1>6, <1>7

\* The line delivers bytes up to the end of a frame at most, damaged or not.
LEMMA TransmitFacts ==
  ASSUME Stored, Counted, Transmit
  PROVE  \E x \in Seq(Bytes) :
           /\ sent' = sent \o x /\ line' = line \o x
           /\ Len(sent') = Len(sent) + Len(x) /\ Len(x) > 0 /\ Len(sent') <= Len(Bytestream)
           /\ Within(Len(sent), Len(sent'))
           /\ \/ noise' = noise /\ \A i \in 1 .. Len(x) : x[i] = Bytestream[Len(sent) + i]
              \/ /\ noise < MaxNoise /\ noise' = noise + 1
                 /\ \E d \in 1 .. Len(x) : /\ x[d] \in Damaged[Bytestream[Len(sent) + d]]
                                          /\ \A i \in 1 .. Len(x) \ {d} : x[i] = Bytestream[Len(sent) + i]
           /\ pause' = FALSE /\ untimely' = (untimely \/ (~MidFrame /\ ~pause))
           /\ UNCHANGED <<readVars, chanVars, stopVars, pc, quiet, faults>>
           /\ port = "open"
<1> DEFINE s == Len(sent)
<1>1. sent \in Seq(Bytes) /\ s \in Nat /\ s < Len(Bytestream) /\ port = "open"
  BY DEF Stored, Transmit
<1>2. PICK m \in s + 1 .. Len(Bytestream) : Burst = SubSeq(Bytestream, s + 1, m) /\ Within(s, m)
  BY <1>1, BurstFacts
<1>3. Bytestream \in Seq(Bytes) /\ Len(Bytestream) \in Nat /\ DOMAIN Bytestream = 1 .. Len(Bytestream)
  BY WireFacts
<1>4. /\ Burst \in Seq(Bytes) /\ Len(Burst) = m - s /\ DOMAIN Burst = 1 .. m - s
      /\ \A i \in 1 .. m - s : Burst[i] = Bytestream[s + i] /\ s + i \in DOMAIN Bytestream
  <2>1. \A i \in s + 1 .. m : Bytestream[i] \in Bytes
    BY <1>1, <1>3
  <2>2. /\ s + 1 \in Int /\ m \in Int /\ s + 1 <= m /\ m - (s + 1) + 1 = m - s
        /\ \A i \in 1 .. m - s : (s + 1) + i - 1 = s + i /\ s + i \in 1 .. Len(Bytestream)
    BY <1>1
  <2> HIDE DEF s
  <2>3. /\ SubSeq(Bytestream, s + 1, m) \in Seq(Bytes)
        /\ Len(SubSeq(Bytestream, s + 1, m)) = m - (s + 1) + 1
        /\ \A i \in 1 .. m - (s + 1) + 1 : SubSeq(Bytestream, s + 1, m)[i] = Bytestream[(s + 1) + i - 1]
    BY <2>1, <2>2, SubSeqProperties
  <2> QED BY <1>2, <1>3, <2>2, <2>3
<1>5. ASSUME NEW x \in Seq(Bytes), Len(x) = m - s, NEW d, Arrive(x, d)
      PROVE  /\ sent' = sent \o x /\ line' = line \o x
             /\ Len(sent') = Len(sent) + Len(x) /\ Len(x) > 0 /\ Len(sent') <= Len(Bytestream)
             /\ Within(Len(sent), Len(sent')) /\ noise' = noise + d
             /\ pause' = FALSE /\ untimely' = (untimely \/ (~MidFrame /\ ~pause))
             /\ UNCHANGED <<readVars, chanVars, stopVars, pc, quiet, faults>>
  <2>1. /\ sent' = sent \o x /\ line' = line \o x /\ noise' = noise + d
        /\ pause' = FALSE /\ untimely' = (untimely \/ (~MidFrame /\ ~pause))
        /\ UNCHANGED <<readVars, chanVars, stopVars, pc, quiet, faults>>
    BY <1>5 DEF Arrive
  <2>2. Len(sent') = s + Len(x)
    BY <1>1, <2>1, ConcatProperties
  <2>3. Len(sent') = m /\ m - s > 0 /\ m <= Len(Bytestream)
    BY <1>1, <1>3, <1>5, <2>2
  <2> QED BY <1>2, <1>5, <2>1, <2>2, <2>3
<1>6. noise \in Nat
  BY DEF Counted
<1>7. CASE Arrive(Burst, 0)
  <2>1. noise + 0 = noise
    BY <1>6
  <2> HIDE DEF s
  <2> QED BY <1>1, <1>4, <1>5, <1>7, <2>1 DEF s
<1> DEFINE Hit(x, d) == /\ x[d] \in Damaged[Bytestream[s + d]]
                        /\ \A i \in 1 .. m - s : i # d => x[i] = Bytestream[s + i]
<1>8. ASSUME noise < MaxNoise, NEW i \in DOMAIN Burst, NEW b \in Damaged[Burst[i]],
             Arrive([Burst EXCEPT ![i] = b], 1)
      PROVE  \E x \in Seq(Bytes) : Len(x) = m - s /\ Arrive(x, 1) /\ \E d \in 1 .. m - s : Hit(x, d)
  <2> DEFINE x == [Burst EXCEPT ![i] = b]
  <2>1. b \in Bytes /\ i \in 1 .. m - s /\ b \in Damaged[Bytestream[s + i]]
    BY <1>4, IngestAssumption
  <2>2. x \in Seq(Bytes) /\ Len(x) = m - s
    BY <1>4, <2>1
  <2>3. x[i] = b /\ \A j \in 1 .. m - s : j # i => x[j] = Bytestream[s + j]
    BY <1>4, <2>1
  <2> HIDE DEF x
  <2> QED BY <1>8, <2>1, <2>2, <2>3 DEF x
<1>9. CASE \E x \in Seq(Bytes) : /\ noise < MaxNoise /\ Len(x) = m - s /\ Arrive(x, 1)
                                /\ \E d \in 1 .. m - s : Hit(x, d)
  <2>1. PICK x \in Seq(Bytes) : /\ noise < MaxNoise /\ Len(x) = m - s /\ Arrive(x, 1)
                                /\ \E d \in 1 .. m - s : Hit(x, d)
    BY <1>9
  <2>2. PICK d \in 1 .. Len(x) : /\ x[d] \in Damaged[Bytestream[Len(sent) + d]]
                                 /\ \A i \in 1 .. Len(x) \ {d} : x[i] = Bytestream[Len(sent) + i]
    BY <2>1
  <2> HIDE DEF Hit
  <2>3. /\ sent' = sent \o x /\ line' = line \o x
        /\ Len(sent') = Len(sent) + Len(x) /\ Len(x) > 0 /\ Len(sent') <= Len(Bytestream)
        /\ Within(Len(sent), Len(sent')) /\ noise' = noise + 1
        /\ pause' = FALSE /\ untimely' = (untimely \/ (~MidFrame /\ ~pause))
        /\ UNCHANGED <<readVars, chanVars, stopVars, pc, quiet, faults>>
    BY <1>5, <2>1
  <2> HIDE DEF s
  <2> QED BY <1>1, <2>1, <2>2, <2>3
<1> QED BY <1>7, <1>8, <1>9 DEF Transmit

-----------------------------------------------------------------------------
\* What the steps of the program do with the bytes.

Hands(data) ==
  \E fate \in {"sent", "dropped", "cancelled", "panic"} :
    /\ dispatched' = Append(dispatched, [data |-> data, fate |-> fate])
    /\ \/ rawData' = rawData /\ fate # "sent"
       \/ Len(rawData) < RawBufferSize /\ rawData' = Append(rawData, data)

Rests == UNCHANGED <<dispatched, rawData, frameBuffer, buffer, line, sent>>

Drains ==
  /\ rawData # <<>> /\ rawData' = Tail(rawData)
  /\ UNCHANGED <<dispatched, frameBuffer, buffer, line, sent>>

Reads ==
  /\ buffer = <<>>
  /\ \E n \in 1 .. Len(line) : /\ n <= ReadSize /\ buffer' = SubSeq(line, 1, n)
                               /\ line' = SubSeq(line, n + 1, Len(line))
  /\ UNCHANGED <<dispatched, rawData, frameBuffer, sent>>

Cuts ==
  /\ frameBuffer # <<>> /\ Hands(frameBuffer) /\ frameBuffer' = <<>>
  /\ UNCHANGED <<buffer, line, sent>>

Joins ==
  /\ Len(frameBuffer) + Len(buffer) <= MaxFrameBufferSize
  /\ frameBuffer' = frameBuffer \o buffer /\ buffer' = <<>>
  /\ UNCHANGED <<dispatched, rawData, line, sent>>

Restarts ==
  /\ Len(frameBuffer) + Len(buffer) > MaxFrameBufferSize
  /\ (frameBuffer = <<>> /\ UNCHANGED <<dispatched, rawData>>) \/ (frameBuffer # <<>> /\ Hands(frameBuffer))
  /\ frameBuffer' = buffer /\ buffer' = <<>>
  /\ UNCHANGED <<line, sent>>

LEMMA DispatchHands ==
  ASSUME NEW data, dispatchFrame(data) \/ SendPanics(data)
  PROVE  Hands(data)
BY DEF dispatchFrame, SendPanics, Copied, Hands

LEMMA ReadDataReads == ASSUME Stored, Phased, ReadData PROVE Reads
<1> DEFINE n == Min({Len(line), ReadSize})
<1>1. line # <<>> /\ buffer' = SubSeq(line, 1, n) /\ line' = SubSeq(line, n + 1, Len(line))
  BY DEF ReadData
<1>2. Len(line) \in Nat \ {0} /\ ReadSize \in Nat \ {0}
  BY <1>1, SerialAssumption DEF Stored
<1>3. n \in {Len(line), ReadSize} /\ n <= Len(line) /\ n <= ReadSize
  <2>1. {Len(line), ReadSize} \subseteq Nat /\ {Len(line), ReadSize} # {}
    BY <1>2
  <2> QED BY <2>1, MinOfNats
<1> HIDE DEF n
<1>4. n \in 1 .. Len(line)
  BY <1>2, <1>3
<1>5. UNCHANGED <<dispatched, rawData, frameBuffer, sent>> /\ buffer = <<>>
  BY DEF ReadData, chanVars, lineVars, Phased
<1> QED BY <1>1, <1>3, <1>4, <1>5 DEF Reads

LEMMA LoopMoves ==
  ASSUME Stored, Phased, readLoop
  PROVE  Rests \/ Reads \/ Cuts \/ Joins \/ Restarts
<1> USE DEF readVars, chanVars, quietVars, lineVars, stopVars
<1>0. frameBuffer \in Seq(Bytes) /\ buffer \in Seq(Bytes) /\ Len(frameBuffer) \in Nat /\ Len(buffer) \in Nat
      /\ DispatchSize \in Nat \ {0} /\ MaxFrameBufferSize \in Nat
  <2>1. frameBuffer \in Seq(Bytes) /\ buffer \in Seq(Bytes)
    BY DEF Stored
  <2>2. DispatchSize \in Nat \ {0} /\ MaxFrameBufferSize \in Nat
    BY SerialAssumption
  <2> QED BY ONLY <2>1, <2>2
<1>1. CASE LoopCheck \/ PortGone \/ SetReadTimeoutFails \/ ReadFails \/ Backoff
  BY <1>1 DEF LoopCheck, PortGone, SetReadTimeoutFails, ReadFails, PortFails, Raise, Backoff, Rests
<1>2. CASE ReadData
  BY <1>2, ReadDataReads
<1>3. CASE ReadNothing
  BY <1>3, DispatchHands DEF ReadNothing, Rests, Cuts
<1>4. CASE CutBySilence
  BY <1>4, DispatchHands DEF CutBySilence, Rests, Cuts
<1>5. CASE AppendBuffer
  <2>1. CASE Len(frameBuffer) + Len(buffer) > MaxFrameBufferSize
    BY <1>5, <2>1, DispatchHands DEF AppendBuffer, Restarts
  <2>2. CASE ~(Len(frameBuffer) + Len(buffer) > MaxFrameBufferSize)
    BY <1>0, <1>5, <2>2 DEF AppendBuffer, Joins
  <2> QED BY <2>1, <2>2
<1>6. CASE CutBySize
  <2>1. CASE Len(frameBuffer) >= DispatchSize
    <3>1. frameBuffer # <<>>
      BY <1>0, <2>1
    <3> QED BY <1>6, <2>1, <3>1, DispatchHands DEF CutBySize, Cuts
  <2>2. CASE ~(Len(frameBuffer) >= DispatchSize)
    BY <1>6, <2>2 DEF CutBySize, Rests
  <2> QED BY <2>1, <2>2
<1>7. CASE Flush
  BY <1>7, DispatchHands DEF Flush, Rests, Cuts
<1>8. CASE DispatchPanics
  BY <1>8, DispatchHands DEF DispatchPanics, Cuts
<1> QED BY <1>1, <1>2, <1>3, <1>4, <1>5, <1>6, <1>7, <1>8 DEF readLoop

LEMMA OthersRest ==
  ASSUME Start \/ Silence \/ StopClearRunning \/ StopGoesOn
  PROVE  Rests
BY DEF Start, Silence, StopClearRunning, StopGoesOn, StopCancel, StopClosePort, StopForgetPort,
       StopReturn, PipelineClose, stopRest, readVars, chanVars, lineVars, stopVars, Rests

LEMMA AllMoves ==
  ASSUME Stored, Phased, [IngestNext]_allVars
  PROVE  Transmit \/ Rests \/ Drains \/ Reads \/ Cuts \/ Joins \/ Restarts
<1>1. CASE decoderWorker
  BY <1>1 DEF decoderWorker, Receive, readVars, lineVars, Drains
<1>2. CASE UNCHANGED allVars
  BY <1>2 DEF allVars, vars, readVars, chanVars, lineVars, Rests
<1>3. CASE GatewayNext
  BY <1>3, LoopMoves, OthersRest DEF GatewayNext
<1> QED BY <1>1, <1>2, <1>3 DEF IngestNext

-----------------------------------------------------------------------------
\* The sequences keep their types and their bounds.
LEMMA HandsStored ==
  ASSUME Stored, Hands(frameBuffer)
  PROVE  dispatched' \in Seq(Packet) /\ rawData' \in Seq(Seq(Bytes)) /\ Len(rawData') <= RawBufferSize
<1>1. frameBuffer \in Seq(Bytes) /\ dispatched \in Seq(Packet) /\ rawData \in Seq(Seq(Bytes))
  BY DEF Stored
<1>2. dispatched' \in Seq(Packet)
  <2>1. PICK fate \in {"sent", "dropped", "cancelled", "panic"} :
               dispatched' = Append(dispatched, [data |-> frameBuffer, fate |-> fate])
    BY DEF Hands
  <2>2. [data |-> frameBuffer, fate |-> fate] \in Packet
    BY <1>1 DEF Packet
  <2> QED BY <1>1, <2>1, <2>2
<1>3. rawData' \in Seq(Seq(Bytes)) /\ Len(rawData') <= RawBufferSize
  <2>1. CASE rawData' = rawData
    BY <1>1, <2>1 DEF Stored
  <2>2. CASE Len(rawData) < RawBufferSize /\ rawData' = Append(rawData, frameBuffer)
    <3>1. rawData' \in Seq(Seq(Bytes)) /\ Len(rawData') = Len(rawData) + 1 /\ Len(rawData) \in Nat
      BY <1>1, <2>2
    <3> QED BY <2>2, <3>1, SerialAssumption
  <2> QED BY <2>1, <2>2 DEF Hands
<1> QED BY <1>2, <1>3

LEMMA MovesStored ==
  ASSUME Stored, Transmit => Counted, Transmit \/ Rests \/ Drains \/ Reads \/ Cuts \/ Joins \/ Restarts
  PROVE  Stored'
<1> USE DEF Stored
<1>0. /\ {ReadSize, RawBufferSize, MaxFrameBufferSize} \subseteq Nat /\ ReadSize <= MaxFrameBufferSize
      /\ <<>> \in Seq(Bytes) /\ Len(<<>>) = 0
  BY SerialAssumption
<1>1. CASE Transmit
  <2>1. PICK x \in Seq(Bytes) :
           /\ sent' = sent \o x /\ line' = line \o x /\ Len(sent') <= Len(Bytestream)
           /\ UNCHANGED <<readVars, chanVars>>
    BY <1>1, TransmitFacts
  <2> QED BY <2>1, ConcatProperties DEF readVars, chanVars
<1>2. CASE Rests
  BY <1>2 DEF Rests
<1>3. CASE Drains
  <2>1. rawData' \in Seq(Seq(Bytes)) /\ Len(rawData') = Len(rawData) - 1 /\ Len(rawData) \in Nat
    BY <1>3, HeadTailProperties DEF Drains
  <2>2. Len(rawData') <= RawBufferSize
    BY <1>0, <2>1
  <2> QED BY <1>3, <2>1, <2>2 DEF Drains
<1>4. CASE Reads
  <2>1. PICK n \in 1 .. Len(line) : /\ n <= ReadSize /\ buffer' = SubSeq(line, 1, n)
                                    /\ line' = SubSeq(line, n + 1, Len(line))
    BY <1>4 DEF Reads
  <2>2. line \in Seq(Bytes) /\ n \in Nat /\ n + 1 \in Nat
    OBVIOUS
  <2>3. buffer' \in Seq(Bytes) /\ Len(buffer') = n /\ line' \in Seq(Bytes)
    BY <2>1, <2>2
  <2> QED BY <1>4, <2>1, <2>3 DEF Reads
<1>5. CASE Cuts
  BY <1>0, <1>5, HandsStored DEF Cuts
<1>6. CASE Joins
  <2>1. frameBuffer' \in Seq(Bytes) /\ Len(frameBuffer') = Len(frameBuffer) + Len(buffer)
    BY <1>6, ConcatProperties DEF Joins
  <2> QED BY <1>0, <1>6, <2>1 DEF Joins
<1>7. CASE Restarts
  <2>1. dispatched' \in Seq(Packet) /\ rawData' \in Seq(Seq(Bytes)) /\ Len(rawData') <= RawBufferSize
    BY <1>7, HandsStored DEF Restarts
  <2>2. Len(frameBuffer') <= MaxFrameBufferSize
    BY <1>0, <1>7 DEF Restarts
  <2> QED BY <1>0, <1>7, <2>1, <2>2 DEF Restarts
<1> QED BY <1>1, <1>2, <1>3, <1>4, <1>5, <1>6, <1>7

-----------------------------------------------------------------------------
\* What was read stays in order while it is moved along.

LEMMA Regroup == \A r, s, t \in Seq(Bytes) : (r \o s) \o t = r \o (s \o t)
<1> SUFFICES ASSUME NEW r \in Seq(Bytes), NEW s \in Seq(Bytes), NEW t \in Seq(Bytes)
             PROVE  (r \o s) \o t = r \o (s \o t)
  OBVIOUS
<1> QED BY ONLY r \in Seq(Bytes), s \in Seq(Bytes), t \in Seq(Bytes), ConcatAssociative

LEMMA MovesConserved ==
  ASSUME Stored, Counted, Conserved,
         Transmit \/ Rests \/ Drains \/ Reads \/ Cuts \/ Joins \/ Restarts
  PROVE  Conserved'
<1> DEFINE held == frameBuffer \o buffer
<1>0. /\ Taken \in Seq(Bytes) /\ <<>> \in Seq(Bytes)
      /\ {frameBuffer, buffer, line, sent} \subseteq Seq(Bytes)
  BY PacketsTyped DEF Stored
<1>1. sent = Taken \o frameBuffer \o buffer \o line
  BY DEF Conserved, Taken, Packets
<1> SUFFICES sent' = Taken' \o frameBuffer' \o buffer' \o line'
  BY DEF Conserved, Taken, Packets
<1>2. UNCHANGED dispatched => UNCHANGED Taken
  BY DEF Taken, Packets
<1>3. Hands(frameBuffer) => Taken' = Taken \o frameBuffer
  BY <1>0, PacketTaken DEF Hands
<1>4. /\ Taken \o frameBuffer \in Seq(Bytes) /\ Taken \o frameBuffer \o buffer \in Seq(Bytes)
  BY <1>0, ConcatProperties
<1> DEFINE tf == Taken \o frameBuffer
           tfb == Taken \o frameBuffer \o buffer
<1>11. tf \in Seq(Bytes) /\ tfb \in Seq(Bytes)
  BY <1>4
<1>5. CASE Transmit
  <2>1. PICK x \in Seq(Bytes) :
           sent' = sent \o x /\ line' = line \o x /\ UNCHANGED <<readVars, chanVars>>
    BY <1>5, TransmitFacts
  <2>2. UNCHANGED <<Taken, frameBuffer, buffer>>
    BY <1>2, <2>1 DEF readVars, chanVars
  <2>3. (Taken \o frameBuffer \o buffer \o line) \o x = Taken \o frameBuffer \o buffer \o (line \o x)
    <3>1. x \in Seq(Bytes) /\ line \in Seq(Bytes)
      BY <1>0
    <3> HIDE DEF tfb
    <3>2. (tfb \o line) \o x = tfb \o (line \o x)
      BY ONLY <1>11, <3>1, Regroup
    <3> QED BY <3>2 DEF tfb
  <2> QED BY <1>1, <2>1, <2>2, <2>3
<1>6. CASE Rests \/ Drains
  BY <1>1, <1>2, <1>6 DEF Rests, Drains
<1>7. CASE Reads
  <2>1. PICK n \in 1 .. Len(line) : buffer' = SubSeq(line, 1, n) /\ line' = SubSeq(line, n + 1, Len(line))
    BY <1>7 DEF Reads
  <2>2. line \in Seq(Bytes) /\ n \in Nat /\ Len(line) \in Nat /\ n <= Len(line)
    BY <1>0
  <2>3. SubSeq(line, 1, n) \in Seq(Bytes) /\ SubSeq(line, n + 1, Len(line)) \in Seq(Bytes)
    BY <2>2
  <2>4. SubSeq(line, 1, n) \o SubSeq(line, n + 1, Len(line)) = line
    <3>1. 1 \in 1 .. Len(line) + 1 /\ n \in 1 - 1 .. Len(line) /\ Len(line) \in n .. Len(line)
      BY <2>2
    <3>2. SubSeq(line, 1, n) \o SubSeq(line, n + 1, Len(line)) = SubSeq(line, 1, Len(line))
      BY ONLY <2>2, <3>1, ConcatAdjacentSubSeq
    <3> QED BY <2>2, <3>2, SubSeqFull
  <2>5. UNCHANGED <<Taken, frameBuffer, sent>>
    BY <1>2, <1>7 DEF Reads
  <2>6. Taken \o frameBuffer \o buffer = Taken \o frameBuffer
    BY <1>4, <1>7, ConcatEmptySeq DEF Reads
  <2>7. (Taken \o frameBuffer) \o SubSeq(line, 1, n) \o SubSeq(line, n + 1, Len(line))
          = (Taken \o frameBuffer) \o line
    <3> DEFINE u == SubSeq(line, 1, n)
               v == SubSeq(line, n + 1, Len(line))
    <3> HIDE DEF tf
    <3>1. tf \in Seq(Bytes) /\ u \in Seq(Bytes) /\ v \in Seq(Bytes)
      BY <1>11, <2>3
    <3>3. u \o v = line
      BY <2>4
    <3> HIDE DEF u, v
    <3>2. (tf \o u) \o v = tf \o (u \o v)
      BY ONLY <3>1, Regroup
    <3> QED BY <3>2, <3>3 DEF tf, u, v
  <2> QED BY <1>1, <2>1, <2>5, <2>6, <2>7
<1>8. CASE Cuts
  <2>1. Taken' = Taken \o frameBuffer /\ frameBuffer' = <<>> /\ UNCHANGED <<buffer, line, sent>>
    BY <1>3, <1>8 DEF Cuts
  <2>2. (Taken \o frameBuffer) \o <<>> = Taken \o frameBuffer
    BY <1>4, ConcatEmptySeq
  <2> QED BY <1>1, <2>1, <2>2
<1>9. CASE Joins
  <2>1. frameBuffer' = frameBuffer \o buffer /\ buffer' = <<>> /\ UNCHANGED <<Taken, line, sent>>
    BY <1>2, <1>9 DEF Joins
  <2>2. Taken \o (frameBuffer \o buffer) = Taken \o frameBuffer \o buffer
    <3>1. Taken \in Seq(Bytes) /\ frameBuffer \in Seq(Bytes) /\ buffer \in Seq(Bytes)
      BY <1>0
    <3> QED BY ONLY <3>1, Regroup
  <2>3. (Taken \o frameBuffer \o buffer) \o <<>> = Taken \o frameBuffer \o buffer
    BY <1>4, ConcatEmptySeq
  <2> QED BY <1>1, <2>1, <2>2, <2>3
<1>10. CASE Restarts
  <2>1. frameBuffer' = buffer /\ buffer' = <<>> /\ UNCHANGED <<line, sent>>
    BY <1>10 DEF Restarts
  <2>2. Taken' = Taken \o frameBuffer
    <3>1. CASE frameBuffer = <<>> /\ UNCHANGED dispatched
      BY <1>0, <1>2, <3>1, ConcatEmptySeq
    <3> QED BY <1>3, <1>10, <3>1 DEF Restarts
  <2>3. (Taken \o frameBuffer \o buffer) \o <<>> = Taken \o frameBuffer \o buffer
    BY <1>4, ConcatEmptySeq
  <2> QED BY <1>1, <2>1, <2>2, <2>3
<1> QED BY <1>5, <1>6, <1>7, <1>8, <1>9, <1>10

-----------------------------------------------------------------------------
\* Counters, flags and phases.

LEMMA RaiseBounded ==
  ASSUME totalErrors \in 0 .. SerialErrorThreshold + 1, Raise
  PROVE  totalErrors' \in 0 .. SerialErrorThreshold + 1
<1> DEFINE T == {totalErrors + 1, SerialErrorThreshold + 1}
<1>1. SerialErrorThreshold \in Nat /\ T \subseteq Nat /\ T # {}
  BY SerialAssumption
<1>2. Min(T) \in T /\ \A y \in T : Min(T) <= y
  <2> HIDE DEF T
  <2> QED BY <1>1, MinOfNats
<1>3. totalErrors' = Min(T)
  BY DEF Raise
<1> HIDE DEF T
<1>4. Min(T) \in Nat /\ SerialErrorThreshold + 1 \in T
  BY <1>1, <1>2 DEF T
<1> QED BY <1>1, <1>2, <1>3, <1>4

\* Which steps change what is counted and timed.
LEMMA WhoChanges ==
  ASSUME [IngestNext]_allVars
  PROVE  /\ UNCHANGED totalErrors \/ totalErrors' = 0 \/ Raise
         /\ UNCHANGED noise \/ Transmit
         /\ UNCHANGED faults \/ (faults < MaxFaults /\ faults' = faults + 1)
         /\ UNCHANGED stats \/ decoderWorker
         /\ UNCHANGED untimely \/ Transmit \/ Silence
         /\ stopPc' \in {"new", "started"} => stopPc \in {"new", "started"}
<1>1. CASE readLoop
  BY <1>1 DEF readLoop, LoopCheck, PortGone, ReadData, ReadNothing, SetReadTimeoutFails,
       ReadFails, PortFails,
       Backoff, CutBySilence, AppendBuffer, CutBySize, Flush, DispatchPanics, readVars, lineVars, stopVars,
       quietVars, IngestNext, allVars, workerVars
<1>2. CASE decoderWorker \/ UNCHANGED allVars
  BY <1>2 DEF decoderWorker, allVars, vars, readVars, lineVars, stopVars, workerVars
<1>3. CASE Start \/ StopClearRunning \/ StopGoesOn
  BY <1>3 DEF Start, StopClearRunning, StopGoesOn, StopCancel, StopClosePort, StopForgetPort,
       StopReturn,
       PipelineClose, stopRest, readVars, lineVars, IngestNext, allVars, workerVars
<1>4. CASE Transmit
  BY <1>4 DEF Transmit, Arrive, readVars, stopVars, IngestNext, allVars, workerVars
<1>5. CASE Silence
  BY <1>5 DEF Silence, readVars, stopVars, lineVars, IngestNext, allVars, workerVars
<1> QED BY <1>1, <1>2, <1>3, <1>4, <1>5 DEF IngestNext, GatewayNext

LEMMA NextCounted ==
  ASSUME Counted, Stored, [IngestNext]_allVars
  PROVE  Counted'
<1> USE DEF Counted
<1>0. {MaxNoise, MaxFaults, SerialErrorThreshold} \subseteq Nat
  BY SerialAssumption
<1>1. totalErrors' \in 0 .. SerialErrorThreshold + 1
  BY <1>0, RaiseBounded, WhoChanges
<1>2. noise' \in 0 .. MaxNoise
  <2>1. Transmit => noise' = noise \/ (noise < MaxNoise /\ noise' = noise + 1)
    BY TransmitFacts
  <2> QED BY <1>0, <2>1, WhoChanges
<1>3. faults' \in 0 .. MaxFaults
  BY <1>0, WhoChanges
<1>4. stats' \in [CountersOfDecoder -> Nat]
  <2>1. CASE decoderWorker
    <3>1. stats' = [c \in CountersOfDecoder |-> stats[c] + (IF c \in Raised(Head(rawData)) THEN 1 ELSE 0)]
      BY <2>1 DEF decoderWorker, Decode
    <3> QED BY <3>1
  <2> QED BY <2>1 DEF IngestNext, allVars, workerVars
<1> QED BY <1>1, <1>2, <1>3, <1>4

LEMMA NextFlags ==
  ASSUME Flags, [IngestNext]_allVars
  PROVE  Flags'
<1> SUFFICES /\ running' \in BOOLEAN /\ cancelled' \in BOOLEAN
             /\ quiet' \in BOOLEAN /\ chanClosed' \in BOOLEAN
             /\ timedOut' \in BOOLEAN /\ pause' \in BOOLEAN /\ untimely' \in BOOLEAN
  BY DEF Flags
<1>0. /\ running \in BOOLEAN /\ cancelled \in BOOLEAN /\ quiet \in BOOLEAN /\ chanClosed \in BOOLEAN
      /\ timedOut \in BOOLEAN /\ pause \in BOOLEAN /\ untimely \in BOOLEAN
  BY DEF Flags
<1>1. CASE LoopCheck \/ PortGone \/ ReadData \/ ReadNothing
  BY <1>0, <1>1, Zenon DEF LoopCheck, PortGone, ReadData, ReadNothing, quietVars, lineVars, stopVars
<1>6. CASE SetReadTimeoutFails \/ ReadFails \/ Backoff
  BY <1>0, <1>6, Zenon DEF SetReadTimeoutFails, ReadFails, Backoff, quietVars, lineVars, stopVars
<1>7. CASE CutBySilence \/ AppendBuffer
  BY <1>0, <1>7, Zenon DEF CutBySilence, AppendBuffer, quietVars, lineVars, stopVars
<1>8. CASE CutBySize \/ Flush \/ DispatchPanics
  BY <1>0, <1>8, Zenon DEF CutBySize, Flush, DispatchPanics, quietVars, lineVars, stopVars
<1>2. CASE decoderWorker \/ UNCHANGED allVars
  BY <1>0, <1>2, Zenon DEF decoderWorker, allVars, vars, lineVars, stopVars
<1>3. CASE Start \/ StopClearRunning \/ StopGoesOn
  BY <1>0, <1>3, Zenon DEF Start, StopClearRunning, StopGoesOn, StopCancel, StopClosePort,
       StopForgetPort,
       StopReturn, PipelineClose, stopRest, lineVars
<1>4. CASE Transmit
  BY <1>0, <1>4, Zenon DEF Transmit, Arrive, stopVars
<1>5. CASE Silence
  BY <1>0, <1>5, Zenon DEF Silence, stopVars
<1> QED BY <1>1, <1>2, <1>3, <1>4, <1>5, <1>6, <1>7, <1>8 DEF IngestNext, GatewayNext, readLoop

LEMMA NextPhased ==
  ASSUME Phased, [IngestNext]_allVars
  PROVE  Phased'
<1> USE DEF Phased
<1>1. CASE LoopCheck \/ PortGone \/ ReadNothing \/ Backoff
  BY <1>1 DEF LoopCheck, PortGone, ReadNothing, Backoff, readVars, quietVars, stopVars
<1>2. CASE ReadData
  BY <1>2 DEF ReadData, stopVars
<1>3. CASE SetReadTimeoutFails \/ ReadFails
  BY <1>3 DEF SetReadTimeoutFails, ReadFails, PortFails, stopVars
<1>4. CASE CutBySilence \/ AppendBuffer \/ CutBySize \/ Flush
  BY <1>4 DEF CutBySilence, AppendBuffer, CutBySize, Flush, quietVars, stopVars
<1>5. CASE DispatchPanics
  BY <1>5 DEF DispatchPanics, SendPanics, quietVars, stopVars
<1>6. CASE decoderWorker \/ UNCHANGED allVars
  BY <1>6 DEF decoderWorker, allVars, vars, readVars, stopVars
<1>7. CASE Start \/ Silence
  BY <1>7 DEF Start, Silence, readVars, stopVars
<1>8. CASE Transmit
  BY <1>8 DEF Transmit, Arrive, readVars, stopVars
<1>9. CASE StopClearRunning \/ StopGoesOn
  BY <1>9 DEF StopClearRunning, StopGoesOn, StopCancel, StopClosePort, StopForgetPort,
       StopReturn, PipelineClose, stopRest, readVars
<1> QED BY <1>1, <1>2, <1>3, <1>4, <1>5, <1>6, <1>7, <1>8, <1>9 DEF IngestNext, GatewayNext,
     readLoop

-----------------------------------------------------------------------------
\* What holds however the line is disturbed, is an invariant.

\* What is in the channel was dispatched.
LEMMA NextPassedOn ==
  ASSUME Stored, PassedOn, Transmit \/ Rests \/ Drains \/ Reads \/ Cuts \/ Joins \/ Restarts
  PROVE  PassedOn'
<1>0. dispatched \in Seq(Packet) /\ rawData \in Seq(Seq(Bytes)) /\ frameBuffer \in Seq(Bytes)
  BY DEF Stored
<1>1. CASE UNCHANGED <<dispatched, rawData>>
  BY <1>1 DEF PassedOn
<1>2. CASE Drains
  <2>1. \A j \in DOMAIN rawData' : j + 1 \in DOMAIN rawData /\ rawData'[j] = rawData[j + 1]
    BY <1>0, <1>2, HeadTailProperties DEF Drains
  <2>2. UNCHANGED dispatched
    BY <1>2 DEF Drains
  <2> QED BY <2>1, <2>2 DEF PassedOn
<1>3. CASE Hands(frameBuffer)
  <2>1. PICK fate : dispatched' = Append(dispatched, [data |-> frameBuffer, fate |-> fate])
    BY <1>3 DEF Hands
  <2>2. /\ DOMAIN dispatched' = 1 .. Len(dispatched) + 1 /\ DOMAIN dispatched = 1 .. Len(dispatched)
        /\ \A i \in DOMAIN dispatched : dispatched'[i].data = dispatched[i].data
        /\ dispatched'[Len(dispatched) + 1].data = frameBuffer /\ Len(dispatched) \in Nat
    BY <1>0, <2>1, PacketTaken
  <2>3. \A j \in DOMAIN rawData' : (j \in DOMAIN rawData /\ rawData'[j] = rawData[j]) \/ rawData'[j] = frameBuffer
    <3>1. CASE rawData' = rawData
      BY <3>1
    <3>2. CASE rawData' = Append(rawData, frameBuffer)
      <4>1. \A j \in 1 .. Len(rawData) + 1 : j \in 1 .. Len(rawData) \/ j = Len(rawData) + 1
        BY <1>0
      <4>2. /\ DOMAIN rawData' = 1 .. Len(rawData) + 1 /\ DOMAIN rawData = 1 .. Len(rawData)
            /\ \A j \in 1 .. Len(rawData) : rawData'[j] = rawData[j]
            /\ rawData'[Len(rawData) + 1] = frameBuffer
        BY <1>0, <3>2
      <4> QED BY <4>1, <4>2
    <3> QED BY <1>3, <3>1, <3>2 DEF Hands
  <2>4. \A i \in DOMAIN dispatched : i \in DOMAIN dispatched'
    BY <2>2
  <2>5. Len(dispatched) + 1 \in DOMAIN dispatched'
    BY <2>2
  <2> QED BY <2>2, <2>3, <2>4, <2>5 DEF PassedOn
<1>4. CASE Transmit
  BY <1>1, <1>4 DEF Transmit, Arrive, chanVars
<1> QED BY <1>1, <1>2, <1>3, <1>4 DEF Rests, Reads, Cuts, Joins, Restarts

LEMMA InitCore == IngestInit => Core
<1> SUFFICES ASSUME IngestInit PROVE Core
  OBVIOUS
<1> USE DEF IngestInit, Init
<1>1. dispatched = <<>> /\ DOMAIN dispatched = {} /\ Packets = <<>>
  BY DEF Packets
<1>2. Taken = <<>>
  BY <1>1, FlattenEmpty DEF Taken
<1>3. Stored
  <2>1. RawBufferSize \in Nat /\ ReadSize \in Nat /\ MaxFrameBufferSize \in Nat
    BY SerialAssumption
  <2>2. Len(Bytestream) \in Nat
    BY WireFacts
  <2> QED BY <2>1, <2>2 DEF Stored
<1>4. Counted
  <2>1. {MaxNoise, MaxFaults, SerialErrorThreshold} \subseteq Nat
    BY SerialAssumption
  <2> QED BY <2>1 DEF Counted
<1>5. Conserved
  <2>1. Taken \o <<>> \o <<>> \o <<>> = <<>>
    BY <1>2
  <2> QED BY <2>1 DEF Conserved, Taken, Packets
<1>6. Flags
  BY DEF Flags
<1>7. Phased
  BY DEF Phased
<1>8. PassedOn
  BY DEF PassedOn
<1> QED BY <1>3, <1>4, <1>5, <1>6, <1>7, <1>8 DEF Core

LEMMA NextCore == Core /\ [IngestNext]_allVars => Core'
<1> SUFFICES ASSUME Core, [IngestNext]_allVars PROVE Core'
  OBVIOUS
<1>1. Flags /\ Stored /\ Counted /\ Phased /\ Conserved /\ PassedOn
  BY DEF Core
<1>2. Transmit \/ Rests \/ Drains \/ Reads \/ Cuts \/ Joins \/ Restarts
  BY <1>1, AllMoves
<1> QED BY <1>1, <1>2, NextFlags, MovesStored, NextCounted, NextPhased, MovesConserved,
     NextPassedOn DEF Core

\* Every variable of gateway and worker keeps its type and its bound: no buffer, no
\* channel and no counter of the ingest path outgrows its limit.
THEOREM IngestTypeCorrect == Spec => []TypeOK
<1>1. Core => TypeOK
  <2> SUFFICES ASSUME Core PROVE TypeOK
    OBVIOUS
  <2>1. \A i \in DOMAIN dispatched : dispatched[i].fate \in {"sent", "dropped", "cancelled", "panic"}
    <3>1. dispatched \in Seq(Packet)
      BY DEF Core, Stored
    <3>2. \A i \in DOMAIN dispatched : dispatched[i] \in Packet
      BY <3>1
    <3>3. \A p \in Packet : p.fate \in {"sent", "dropped", "cancelled", "panic"}
      BY DEF Packet
    <3> QED BY <3>2, <3>3
  <2>2. Flags /\ Stored /\ Counted /\ Phased
    BY DEF Core
  <2> QED BY <2>1, <2>2, Zenon DEF Flags, Stored, Counted, Phased, TypeOK
<1> QED BY <1>1, InitCore, NextCore, PTL DEF Spec

\* No byte that was read is lost, doubled or moved, whatever frames are sent, however
\* they are damaged, whichever calls on the port fail and whenever Stop is called.
THEOREM BytesConserved == Spec => []Conserved
<1>1. Core => Conserved
  BY DEF Core
<1> QED BY <1>1, InitCore, NextCore, PTL DEF Spec

-----------------------------------------------------------------------------
\* Frames stay intact.

\* Where the bytes are.
LEMMA Positions ==
  ASSUME Stored, Conserved
  PROVE  /\ {Cut, Len(frameBuffer), Len(buffer), Len(line), Len(sent)} \subseteq Nat
         /\ Len(sent) = Cut + Len(frameBuffer) + Len(buffer) + Len(line)
<1> DEFINE tf == Taken \o frameBuffer
           tfb == tf \o buffer
<1>1. {Taken, frameBuffer, buffer, line, sent} \subseteq Seq(Bytes)
  BY PacketsTyped DEF Stored
<1>2. tf \in Seq(Bytes) /\ Len(tf) = Len(Taken) + Len(frameBuffer)
  BY <1>1, ConcatProperties
<1>3. tfb \in Seq(Bytes) /\ Len(tfb) = Len(tf) + Len(buffer)
  <2> HIDE DEF tf
  <2> QED BY <1>1, <1>2, ConcatProperties
<1>4. Len(tfb \o line) = Len(tfb) + Len(line)
  <2> HIDE DEF tfb
  <2> QED BY <1>1, <1>3, ConcatProperties
<1>5. sent = tfb \o line
  BY DEF Conserved, Taken, Packets
<1> QED BY <1>1, <1>2, <1>3, <1>4, <1>5 DEF Cut

\* The bytes at hand do not reach beyond the end of a frame.
LEMMA HeldWithinFrame ==
  ASSUME Stored, Conserved, Timely
  PROVE  /\ Within(Cut, Cut + Len(frameBuffer))
         /\ pc # "got" => Within(Cut, Cut + Len(frameBuffer) + Len(buffer))
<1> DEFINE c == Cut
           f == Len(frameBuffer)
           b == Len(buffer)
           s == Len(sent)
<1>1. {c, f, b, s} \subseteq Nat /\ c + f + b <= s
  BY Positions
<1>2. FrameEnds \subseteq Nat
  BY FrameEndsFacts
<1>3. CASE ~quiet
  <2>1. Within(c, s)
    BY <1>3 DEF Timely
  <2> HIDE DEF c, f, b, s
  <2>2. Within(c, c + f) /\ Within(c, c + f + b)
    BY <1>1, <1>2, <2>1 DEF Within
  <2> QED BY <2>2 DEF c, f, b
<1>4. CASE quiet
  <2>1. Within(c, Boundary) /\ Boundary = c + f + (IF pc = "got" THEN 0 ELSE b)
    BY <1>4 DEF Timely, Boundary
  <2> HIDE DEF c, f, b, s
  <2>2. Within(c, c + f) /\ (pc # "got" => Within(c, c + f + b))
    <3>1. CASE pc = "got"
      BY <1>1, <2>1, <3>1
    <3>2. CASE pc # "got"
      BY <1>1, <1>2, <2>1, <3>2 DEF Within
    <3> QED BY <3>1, <3>2
  <2> QED BY <2>2 DEF c, f, b
<1> QED BY <1>3, <1>4

\* A step that leaves buffers, line and time alone.
LEMMA TimelyRests ==
  ASSUME Timely, Rests, UNCHANGED <<quiet, pause>>, pc # "got", pc' # "got"
  PROVE  Timely'
<1>1. UNCHANGED <<Cut, Boundary>>
  BY DEF Rests, Cut, Taken, Packets, Boundary
<1> QED BY <1>1 DEF Timely, Rests

LEMMA TransmitTimely ==
  ASSUME Stored, Counted, Conserved, Flags, Timely, Transmit, ~untimely'
  PROVE  Timely'
<1> DEFINE s == Len(sent)
           t == Len(sent')
<1>1. PICK x \in Seq(Bytes) :
           /\ Len(sent') = Len(sent) + Len(x) /\ Len(x) > 0
           /\ Within(Len(sent), Len(sent'))
           /\ pause' = FALSE /\ untimely' = (untimely \/ (~MidFrame /\ ~pause))
           /\ UNCHANGED <<readVars, chanVars, stopVars, pc, quiet, faults>>
  BY TransmitFacts
<1>2. UNCHANGED <<Cut, Boundary, quiet>>
  BY <1>1 DEF Cut, Taken, Packets, Boundary, readVars, chanVars
<1>3. /\ s \in Nat /\ t \in Nat /\ s < t /\ Within(s, t) /\ FrameEnds \subseteq Nat
      /\ Cut \in Nat /\ Cut <= s
  <2>1. FrameEnds \subseteq Nat
    BY FrameEndsFacts
  <2>2. /\ {Cut, Len(frameBuffer), Len(buffer), Len(line), Len(sent)} \subseteq Nat
        /\ Len(sent) = Cut + Len(frameBuffer) + Len(buffer) + Len(line)
    BY Positions
  <2>3. Len(x) \in Nat /\ Len(x) > 0 /\ Len(sent') = Len(sent) + Len(x)
    BY <1>1
  <2>4. Cut <= Len(sent) /\ Len(sent) < Len(sent') /\ Len(sent') \in Nat
    BY ONLY <2>2, <2>3
  <2> QED BY <1>1, <2>1, <2>2, <2>4
<1>4. s \in FrameEnds => pause
  BY <1>1 DEF MidFrame
<1>5. quiet => Within(Boundary, t)
  <2> SUFFICES ASSUME quiet, NEW e \in FrameEnds, Boundary < e, e < t PROVE FALSE
    BY DEF Within
  <2>1. Within(Boundary, s) /\ e \in Nat /\ ~(s < e)
    BY <1>3 DEF Timely, Within
  <2>2. e = s
    BY <1>3, <2>1 DEF Within
  <2>3. line = <<>> /\ pc # "got"
    BY <1>4, <2>2 DEF Timely
  <2>4. Boundary = s
    BY <2>3, Positions DEF Boundary
  <2> QED BY <2>2, <2>4, <1>3
<1>6. ~quiet => Within(Cut, t)
  <2> SUFFICES ASSUME ~quiet, NEW e \in FrameEnds, Cut < e, e < t PROVE FALSE
    BY DEF Within
  <2>1. Within(Cut, s) /\ e \in Nat /\ ~(s < e)
    BY <1>3 DEF Timely, Within
  <2>2. e = s
    BY <1>3, <2>1 DEF Within
  <2>3. sent = <<>>
    BY <1>4, <2>2 DEF Timely
  <2> QED BY <1>3, <2>2, <2>3
<1>7. ~pause'
  BY <1>1
<1> QED BY <1>2, <1>5, <1>6, <1>7 DEF Timely

LEMMA SilenceTimely ==
  ASSUME Stored, Conserved, Timely, Silence, ~untimely'
  PROVE  Timely'
<1>1. line = <<>> /\ pc # "got" /\ ~MidFrame /\ quiet'
  BY DEF Silence
<1>2. UNCHANGED <<Cut, Boundary, line, sent, pc>>
  BY DEF Silence, Cut, Taken, Packets, Boundary, readVars, chanVars
<1>3. Boundary = Len(sent) /\ Len(sent) \in Nat /\ Len(sent) \in FrameEnds
  BY <1>1, Positions DEF Boundary, MidFrame
<1>4. Within(Boundary, Len(sent))
  BY <1>3, FrameEndsFacts DEF Within
<1>5. Within(Cut, Boundary)
  BY <1>3 DEF Timely
<1> QED BY <1>1, <1>2, <1>3, <1>4, <1>5 DEF Timely

LEMMA LoopTimely ==
  ASSUME FramesFit, Core, stopPc \in {"new", "started"}, Timely, readLoop
  PROVE  Timely'
<1> DEFINE c == Cut
           f == Len(frameBuffer)
           b == Len(buffer)
           l == Len(line)
           s == Len(sent)
           w == Boundary
<1>1. Stored /\ Counted /\ Phased /\ Conserved
  BY DEF Core
<1>2. {c, f, b, l, s} \subseteq Nat /\ s = c + f + b + l /\ w = c + f + (IF pc = "got" THEN 0 ELSE b)
  BY <1>1, Positions DEF Boundary
<1>3. running /\ ~cancelled /\ ~chanClosed /\ port = "open" /\ pc \notin {"off", "flush", "done"}
  <2>1. pc # "off"
    BY DEF readLoop, LoopCheck, PortGone, ReadData, ReadNothing, SetReadTimeoutFails, ReadFails,
         PortFails,
           Backoff, CutBySilence, AppendBuffer, CutBySize, Flush, DispatchPanics
  <2> QED BY <1>1, <2>1 DEF Phased
<1>4. /\ FrameEnds \subseteq Nat /\ DispatchSize \in Nat \ {0} /\ MaxFrameBufferSize \in Nat
      /\ DispatchSize <= MaxFrameBufferSize
  BY FrameEndsFacts, SerialAssumption
<1>5. Hands(frameBuffer) => Cut' = c + f
  BY <1>1, PacketTaken DEF Hands, Stored
<1>6. CASE LoopCheck \/ SetReadTimeoutFails \/ ReadFails \/ Backoff
  BY <1>3, <1>6, TimelyRests DEF LoopCheck, SetReadTimeoutFails, ReadFails, PortFails, Raise,
       Backoff, Rests,
     readVars, chanVars, quietVars, lineVars
<1>7. CASE PortGone \/ Flush \/ DispatchPanics
  BY <1>3, <1>7 DEF PortGone, Flush, DispatchPanics, SendPanics
<1>8. CASE ReadData
  <2>1. Reads /\ pc = "read" /\ pc' = "got" /\ line # <<>> /\ UNCHANGED <<quiet, pause>>
    BY <1>1, <1>8, ReadDataReads DEF ReadData, lineVars
  <2>2. UNCHANGED <<Cut, frameBuffer, sent>> /\ b = 0
    BY <2>1 DEF Reads, Cut, Taken, Packets
  <2>3. UNCHANGED Boundary
    BY <1>2, <2>1, <2>2 DEF Boundary
  <2> QED BY <2>1, <2>2, <2>3 DEF Timely
<1>9. CASE ReadNothing
  <2>1. line = <<>> /\ quiet /\ pc = "read" /\ pc' = "loop" /\ buffer = <<>> /\ frameBuffer' = <<>>
        /\ UNCHANGED <<line, sent, quiet, pause, buffer>>
    BY <1>1, <1>9 DEF ReadNothing, quietVars, lineVars, Phased
  <2>2. w = s /\ s = c + f /\ s \in FrameEnds
    BY <1>2, <2>1 DEF Timely
  <2>3. Cut' = s
    <3>1. CASE frameBuffer = <<>>
      <4>1. UNCHANGED Cut
        BY <1>9, <3>1 DEF ReadNothing, chanVars, Cut, Taken, Packets
      <4> QED BY <1>2, <2>2, <3>1, <4>1
    <3>2. CASE frameBuffer # <<>>
      BY <1>5, <1>9, <2>2, <3>2, DispatchHands DEF ReadNothing
    <3> QED BY <3>1, <3>2
  <2>4. Boundary' = s
    BY <1>2, <2>1, <2>3 DEF Boundary
  <2>5. Within(s, s)
    BY <1>2, <1>4 DEF Within
  <2> QED BY <2>1, <2>2, <2>3, <2>4, <2>5 DEF Timely
<1>10. CASE CutBySilence
  <2>1. pc = "got" /\ ~quiet' /\ pc' = "append" /\ UNCHANGED <<line, sent, pause, buffer>> /\ w = c + f
    BY <1>2, <1>10 DEF CutBySilence, quietVars, lineVars
  <2>2. ~pause'
    BY <2>1 DEF Timely
  <2>3. Cut' \in FrameEnds /\ Within(Cut', s)
    <3>1. CASE quiet /\ frameBuffer # <<>>
      <4>1. Cut' = w
        BY <1>5, <1>10, <2>1, <3>1, DispatchHands DEF CutBySilence
      <4> QED BY <3>1, <4>1 DEF Timely
    <3>2. CASE ~(quiet /\ frameBuffer # <<>>)
      <4>1. UNCHANGED Cut
        BY <1>10, <3>2 DEF CutBySilence, chanVars, Cut, Taken, Packets
      <4>2. CASE quiet
        <5>1. w = c
          BY <1>2, <2>1, <3>2, <4>2
        <5> QED BY <4>1, <4>2, <5>1 DEF Timely
      <4> QED BY <4>1, <4>2 DEF Timely
    <3> QED BY <3>1, <3>2
  <2> QED BY <2>1, <2>2, <2>3 DEF Timely
<1>11. CASE AppendBuffer \/ CutBySize
  <2>1. pc \in {"append", "size"} /\ pc' \in {"size", "loop"} /\ UNCHANGED <<line, sent, quiet, pause>>
    BY <1>11 DEF AppendBuffer, CutBySize, quietVars, lineVars
  <2>2. Within(c, c + f + b)
    BY <1>1, <2>1, HeldWithinFrame
  <2>3. c \in FrameEnds /\ c + f + b \in Nat /\ c + f + b <= Len(Bytestream)
    <3>1. Len(Bytestream) \in Nat /\ s <= Len(Bytestream)
      BY <1>1, WireFacts DEF Stored
    <3>2. c \in FrameEnds
      BY DEF Timely
    <3> HIDE DEF c, f, b, l, s, w
    <3> QED BY <1>2, <3>1, <3>2
  <2>4. f + b >= DispatchSize => f + b = DispatchSize /\ c + f + b \in FrameEnds
    <3> HIDE DEF c, f, b, l, s, w
    <3> SUFFICES ASSUME f + b >= DispatchSize PROVE f + b = DispatchSize /\ c + f + b \in FrameEnds
      OBVIOUS
    <3>1. c + DispatchSize <= c + f + b
      BY <1>2, <1>4
    <3>2. c + f + b \in FrameEnds /\ c + f + b = c + DispatchSize
      BY <2>2, <2>3, <3>1, FrameEndsSoon
    <3> QED BY <1>2, <1>4, <3>2
  <2>5. CASE AppendBuffer
    <3>1. ~(f + b > MaxFrameBufferSize)
      BY <1>2, <1>4, <2>4
    <3>2. /\ frameBuffer' = frameBuffer \o buffer /\ buffer' = <<>>
          /\ UNCHANGED <<line, sent, quiet, pause, Cut>>
      BY <2>1, <2>5, <3>1 DEF AppendBuffer, chanVars, Cut, Taken, Packets
    <3>3. Len(frameBuffer') = f + b
      BY <1>1, <3>2, ConcatProperties DEF Stored
    <3>4. UNCHANGED Boundary
      <4>1. w = c + f + b /\ Boundary' = c + Len(frameBuffer') + Len(buffer')
        BY <1>2, <2>1, <3>2 DEF Boundary
      <4> QED BY <1>2, <3>2, <3>3, <4>1
    <3> QED BY <2>1, <3>2, <3>4 DEF Timely
  <2>6. CASE CutBySize
    <3>1. buffer = <<>> /\ buffer' = <<>> /\ pc = "size" /\ pc' = "loop"
      BY <1>1, <2>6 DEF CutBySize, Phased
    <3>2. CASE ~(f >= DispatchSize)
      BY <2>1, <2>6, <3>1, <3>2, TimelyRests DEF CutBySize, Rests, quietVars, chanVars, lineVars
    <3>3. CASE f >= DispatchSize
      <4>1. Hands(frameBuffer) /\ frameBuffer' = <<>>
        BY <2>6, <3>3, DispatchHands DEF CutBySize
      <4>2. Cut' = c + f /\ c + f \in FrameEnds /\ w = c + f /\ c + f + b = c + f
        BY <1>2, <1>5, <2>4, <3>1, <3>3, <4>1
      <4>3. Boundary' = c + f
        BY <1>2, <3>1, <4>1, <4>2 DEF Boundary
      <4>4. Within(c + f, c + f)
        BY <1>2, <1>4 DEF Within
      <4>5. ~quiet => Within(c + f, s)
        <5>1. ~quiet => Within(c, s)
          BY DEF Timely
        <5> HIDE DEF c, f, b, l, s, w
        <5> QED BY <1>2, <1>4, <5>1 DEF Within
      <4>6. quiet => Within(c + f, s)
        BY <4>2 DEF Timely
      <4> QED BY <2>1, <3>1, <4>2, <4>3, <4>4, <4>5, <4>6 DEF Timely
    <3> QED BY <3>2, <3>3
  <2> QED BY <1>11, <2>5, <2>6
<1> QED BY <1>6, <1>7, <1>8, <1>9, <1>10, <1>11 DEF readLoop

\* What is in time now was in time before.
LEMMA InTimeBefore ==
  ASSUME [IngestNext]_allVars, InTime'
  PROVE  InTime
<1>1. stopPc' \in {"new", "started"} /\ ~untimely'
  BY DEF InTime
<1>2. stopPc \in {"new", "started"} /\ (UNCHANGED untimely \/ Transmit \/ Silence)
  BY <1>1, WhoChanges
<1>3. ~untimely
  BY <1>1, <1>2, Zenon DEF Transmit, Arrive, Silence
<1> QED BY <1>2, <1>3 DEF InTime

LEMMA NextTimely ==
  ASSUME FramesFit, Core, InTime, Timely, [IngestNext]_allVars, InTime'
  PROVE  Timely'
<1>1. Stored /\ Counted /\ Phased /\ Conserved /\ Flags
  BY DEF Core
<1>2. CASE readLoop
  BY <1>2, LoopTimely DEF InTime
<1>3. CASE Transmit \/ Silence
  BY <1>1, <1>3, TransmitTimely, SilenceTimely DEF InTime
<1>4. CASE Start
  <2>1. /\ pc = "off" /\ pc' = "loop"
        /\ UNCHANGED <<dispatched, frameBuffer, buffer, line, sent, quiet, pause>>
    BY <1>1, <1>4 DEF Start, readVars, chanVars, lineVars, Phased
  <2>2. UNCHANGED <<Cut, Boundary>>
    BY <2>1 DEF Cut, Taken, Packets, Boundary
  <2> QED BY <2>1, <2>2 DEF Timely
<1>5. CASE decoderWorker \/ UNCHANGED allVars
  <2>1. UNCHANGED <<dispatched, frameBuffer, buffer, line, sent, quiet, pause, pc>>
    BY <1>5 DEF decoderWorker, allVars, vars, readVars, chanVars, lineVars
  <2>2. UNCHANGED <<Cut, Boundary>>
    BY <2>1 DEF Cut, Taken, Packets, Boundary
  <2> QED BY <2>1, <2>2 DEF Timely
<1>6. ~(StopClearRunning \/ StopGoesOn)
  BY DEF InTime, StopClearRunning, StopGoesOn, StopCancel, StopClosePort, StopForgetPort,
       StopReturn, PipelineClose
<1> QED BY <1>2, <1>3, <1>4, <1>5, <1>6 DEF IngestNext, GatewayNext

Cutting == Hands(frameBuffer) /\ frameBuffer # <<>>

LEMMA CutsOrKeeps ==
  ASSUME Stored, Phased, [IngestNext]_allVars
  PROVE  UNCHANGED dispatched \/ (Cutting /\ UNCHANGED sent)
BY AllMoves DEF Transmit, Arrive, chanVars, Rests, Drains, Reads, Cuts, Joins, Restarts, Cutting

LEMMA NextFrames ==
  ASSUME FramesFit, Core, Frames, [IngestNext]_allVars
  PROVE  Frames'
<1> SUFFICES ASSUME InTime' PROVE Timely' /\ \A i \in DOMAIN dispatched' : BytesIn(i)' \in FrameEnds
  BY DEF Frames
<1>1. InTime /\ Stored /\ Phased
  BY InTimeBefore DEF Core
<1>2. Timely /\ \A i \in DOMAIN dispatched : BytesIn(i) \in FrameEnds
  BY <1>1 DEF Frames
<1>3. Timely'
  BY <1>1, <1>2, NextTimely
<1>4. CASE UNCHANGED dispatched
  BY <1>2, <1>3, <1>4 DEF BytesIn
<1>5. CASE Cutting
  <2>1. PICK fate : dispatched' = Append(dispatched, [data |-> frameBuffer, fate |-> fate])
    BY <1>5 DEF Cutting, Hands
  <2>2. /\ DOMAIN dispatched' = 1 .. Len(dispatched) + 1
        /\ \A i \in DOMAIN dispatched : BytesIn(i)' = BytesIn(i)
        /\ \A m \in Nat : m = Len(dispatched) + 1 => BytesIn(m)' = Cut'
    BY <1>1, <2>1, PacketTaken DEF Stored
  <2>3. Len(dispatched) \in Nat /\ DOMAIN dispatched = 1 .. Len(dispatched)
    BY <1>1, PacketsTyped
  <2>4. \A i \in DOMAIN dispatched' : i \in DOMAIN dispatched \/ (i \in Nat /\ i = Len(dispatched) + 1)
    BY <2>2, <2>3
  <2>5. Cut' \in FrameEnds
    BY <1>3 DEF Timely
  <2> QED BY <1>2, <1>3, <2>2, <2>4, <2>5
<1> QED BY <1>1, <1>4, <1>5, CutsOrKeeps

LEMMA InitFrames == IngestInit => Frames
<1> SUFFICES ASSUME IngestInit PROVE Frames
  OBVIOUS
<1> USE DEF IngestInit, Init
<1>1. DOMAIN dispatched = {} /\ Packets = <<>>
  BY DEF Packets
<1>2. Cut = 0
  BY <1>1, FlattenEmpty DEF Taken, Cut
<1>3. 0 \in FrameEnds /\ FrameEnds \subseteq Nat
  BY FrameEndsFacts
<1>4. Within(0, 0)
  BY <1>3 DEF Within
<1> QED BY <1>1, <1>2, <1>3, <1>4 DEF Frames, Timely

\* For every wire whose frames have no more bytes than dispatchFrame is called for at
\* once, whatever bursts the line delivers and whatever pieces the reads return: until
\* a byte is late or Stop is called, every packet ends where a frame ends.
THEOREM FramesStayIntact == ASSUME FramesFit PROVE Spec => []FramesIntact
<1>1. IngestInit => Core /\ Frames
  BY InitCore, InitFrames
<1>2. Core /\ Frames /\ [IngestNext]_allVars => Core' /\ Frames'
  BY NextCore, NextFrames
<1>3. Core /\ Frames => FramesIntact
  BY DEF Core, Phased, Frames, InTime, FramesIntact
<1> QED BY <1>1, <1>2, <1>3, PTL DEF Spec

-----------------------------------------------------------------------------
\* A packet is one frame.

LEMMA FrameOnWire ==
  ASSUME NEW k \in DOMAIN Wire
  PROVE  /\ Wire[k] \in Seq(Bytes) /\ DOMAIN Wire[k] = 1 .. Len(Wire[k]) /\ Len(Wire[k]) \in Nat
         /\ Position(k - 1) \in Nat /\ Position(k) = Position(k - 1) + Len(Wire[k])
         /\ Position(k) \in Nat /\ Position(k) <= Len(Bytestream)
         /\ \A i \in DOMAIN Wire[k] : Wire[k][i] = Bytestream[Position(k - 1) + i]
<1>1. Len(Wire) \in Nat /\ k \in 1 .. Len(Wire) /\ Wire[k] \in Seq(Bytes)
  BY WireFacts, IngestAssumption
<1>2. k \in 0 .. Len(Wire) /\ k - 1 \in 0 .. Len(Wire) /\ Len(Wire) \in k .. Len(Wire)
  BY ONLY <1>1
<1> DEFINE a == Position(k - 1)
           n == Len(Wire[k])
<1>3. DOMAIN Wire[k] = 1 .. n /\ n \in Nat
  BY <1>1
<1>4. /\ a \in Nat /\ Position(k) = a + n /\ Position(k) <= Len(Bytestream) /\ Position(k) \in Nat
      /\ SubSeq(Bytestream, a + 1, Position(k)) = Wire[k]
      /\ Bytestream \in Seq(Bytes) /\ Len(Bytestream) \in Nat
  <2>1. Position(k) = a + n /\ SubSeq(Bytestream, a + 1, Position(k)) = Wire[k]
    BY <1>1, WireFacts
  <2>2. a \in Nat /\ Position(k) \in Nat
    BY <1>2, WireFacts
  <2>3. Position(k) <= Position(Len(Wire)) /\ Position(Len(Wire)) = Len(Bytestream)
    BY <1>2, WireFacts
  <2>4. Bytestream \in Seq(Bytes) /\ Len(Bytestream) \in Nat
    BY WireFacts
  <2> QED BY <2>1, <2>2, <2>3, <2>4
<1> HIDE DEF a, n
<1>5. \A i \in 1 .. n : SubSeq(Bytestream, a + 1, a + n)[i] = Bytestream[a + i]
  <2>1. \A i \in a + 1 .. a + n : Bytestream[i] \in Bytes
    BY <1>3, <1>4
  <2>2. a + 1 \in Int /\ a + n \in Int /\ a + 1 <= (a + n) + 1 /\ (a + n) - (a + 1) + 1 = n
    BY <1>3, <1>4
  <2>3. \A i \in 1 .. n : SubSeq(Bytestream, a + 1, a + n)[i] = Bytestream[(a + 1) + i - 1]
    BY <2>1, <2>2, SubSeqProperties
  <2>4. \A i \in 1 .. n : (a + 1) + i - 1 = a + i
    BY <1>4
  <2> QED BY <2>3, <2>4
<1> QED BY <1>1, <1>3, <1>4, <1>5 DEF a, n

\* The packet that is cut off next is what comes next of the bytes that have arrived.
LEMMA CutIsPiece ==
  ASSUME Core
  PROVE  /\ Cut \in Nat /\ Len(frameBuffer) \in Nat /\ Cut + Len(frameBuffer) <= Len(sent)
         /\ \A i \in 1 .. Len(frameBuffer) : frameBuffer[i] = sent[Cut + i]
<1> DEFINE f == Len(frameBuffer)
<1>1. Stored /\ Conserved
  BY DEF Core
<1>2. {Taken, frameBuffer, buffer, line, sent} \subseteq Seq(Bytes)
  BY <1>1, PacketsTyped DEF Stored
<1>3. f \in Nat /\ Cut \in Nat /\ Cut + f <= Len(sent)
  BY <1>1, Positions
<1>4. \A i \in 1 .. f : frameBuffer[i] = sent[Cut + i]
  <2> DEFINE tf == Taken \o frameBuffer
             tfb == tf \o buffer
  <2>1. /\ tf \in Seq(Bytes) /\ Len(tf) = Cut + f
        /\ \A i \in 1 .. Cut + f : tf[i] = IF i <= Cut THEN Taken[i] ELSE frameBuffer[i - Cut]
    BY <1>2, ConcatProperties DEF Cut
  <2>2. tfb \in Seq(Bytes) /\ Len(tfb) = Cut + f + Len(buffer) /\ \A i \in 1 .. Cut + f : tfb[i] = tf[i]
    <3> HIDE DEF tf
    <3>1. /\ tfb \in Seq(Bytes) /\ Len(tfb) = Len(tf) + Len(buffer)
          /\ \A i \in 1 .. Len(tf) + Len(buffer) : tfb[i] = IF i <= Len(tf) THEN tf[i] ELSE buffer[i - Len(tf)]
      BY <1>2, <2>1, ConcatProperties
    <3>2. Len(buffer) \in Nat
      BY <1>2
    <3> HIDE DEF tfb, f
    <3> QED BY <1>3, <2>1, <3>1, <3>2
  <2>3. \A i \in 1 .. Cut + f : sent[i] = tfb[i]
    <3>1. sent = tfb \o line
      BY <1>1 DEF Conserved, Taken, Packets
    <3>2. Len(line) \in Nat /\ Len(buffer) \in Nat
      BY <1>2
    <3> HIDE DEF tf, tfb
    <3>3. \A i \in 1 .. Len(tfb) + Len(line) :
            (tfb \o line)[i] = IF i <= Len(tfb) THEN tfb[i] ELSE line[i - Len(tfb)]
      <4>1. tfb \in Seq(Bytes) /\ line \in Seq(Bytes)
        BY <1>2, <2>2
      <4> QED BY ONLY <4>1, ConcatProperties
    <3> HIDE DEF f
    <3> QED BY <1>3, <2>2, <3>1, <3>2, <3>3
  <2> HIDE DEF tf, tfb, f
  <2>4. \A i \in 1 .. f : Cut + i \in 1 .. Cut + f /\ ~(Cut + i <= Cut) /\ (Cut + i) - Cut = i
    BY <1>3
  <2> QED BY <2>1, <2>2, <2>3, <2>4
<1> QED BY <1>3, <1>4

\* The packet that is cut off next is the next frame.
LEMMA CutIsFrame ==
  ASSUME FramesFit, Core, Timely, Cutting, Cut' \in FrameEnds,
         Len(dispatched) <= Len(Wire), Cut = Position(Len(dispatched))
  PROVE  \E k \in DOMAIN Wire : /\ k = Len(dispatched) + 1 /\ Cut' = Position(k)
                                /\ Arrived(k, frameBuffer)
<1> DEFINE f == Len(frameBuffer)
<1>1. Stored /\ Conserved
  BY DEF Core
<1>2. {Taken, frameBuffer, buffer, line, sent} \subseteq Seq(Bytes)
  BY <1>1, PacketsTyped DEF Stored
<1>3. f \in Nat \ {0} /\ Cut \in Nat /\ Cut + f <= Len(sent)
  <2>1. f # 0
    BY <1>2 DEF Cutting
  <2> QED BY <1>1, <2>1, Positions
<1>4. Cut' = Cut + f
  BY <1>1, <1>2, PacketTaken DEF Cutting, Hands
<1>5. Cut \in FrameEnds /\ Within(Cut, Cut + f)
  BY <1>1, HeldWithinFrame DEF Timely
<1>6. PICK k \in DOMAIN Wire : Cut = Position(k - 1) /\ Cut + f = Position(k) /\ Cut + f = Cut + Len(Wire[k])
  <2>1. Cut < Cut + f /\ Cut + f \in FrameEnds
    BY <1>3, <1>4
  <2> HIDE DEF f
  <2> QED BY <1>5, <2>1, FrameBetween
<1>7. \A i \in 1 .. f : frameBuffer[i] = sent[Cut + i]
  BY CutIsPiece
<1>8. f = Len(Wire[k]) /\ DOMAIN Wire[k] = 1 .. f
  <2> DEFINE n == Len(Wire[k])
  <2>1. n \in Nat /\ DOMAIN Wire[k] = 1 .. n
    BY FrameOnWire
  <2>2. f \in Nat /\ Cut \in Nat /\ Cut + f = Cut + n
    BY <1>3, <1>6
  <2> HIDE DEF f, n
  <2>3. f = n
    BY ONLY <2>1, <2>2
  <2> QED BY <2>1, <2>3 DEF n
<1>9. Arrived(k, frameBuffer) /\ Cut' = Position(k)
  BY <1>3, <1>4, <1>6, <1>7, <1>8 DEF Arrived
<1>10. k = Len(dispatched) + 1
  <2> DEFINE n == Len(Wire)
             d == Len(dispatched)
  <2>1. n \in Nat /\ k \in 1 .. n /\ d \in Nat /\ d <= n
    BY <1>1, WireFacts, PacketsTyped
  <2>2. Position(d) = Position(k - 1)
    BY <1>6
  <2> HIDE DEF n, d
  <2>3. k - 1 \in 0 .. n /\ d \in 0 .. n
    BY ONLY <2>1
  <2>4. ~(Position(d) < Position(k - 1)) /\ ~(Position(k - 1) < Position(d))
    <3>1. Position(d) \in Nat
      BY <2>3, WireFacts DEF n
    <3> QED BY <2>2, <3>1
  <2>5. ~(d < k - 1) /\ ~(k - 1 < d)
    BY <2>3, <2>4, PositionsDiffer DEF n
  <2> QED BY <2>1, <2>5 DEF d
<1> QED BY <1>9, <1>10

\* What has arrived stays as it was.
LEMMA SentGrows ==
  ASSUME Stored, Counted, Phased, [IngestNext]_allVars
  PROVE  /\ \A i \in 1 .. Len(sent) : sent'[i] = sent[i]
         /\ Len(sent) <= Len(sent') /\ Len(sent) \in Nat /\ Len(sent') \in Nat
<1>1. sent \in Seq(Bytes) /\ Len(sent) \in Nat
  BY DEF Stored
<1>2. \A i \in 1 .. Len(sent) : sent'[i] = sent[i] /\ Len(sent) <= Len(sent')
  <2>1. CASE Transmit
    <3>1. PICK x \in Seq(Bytes) : sent' = sent \o x /\ Len(sent') = Len(sent) + Len(x)
      BY <2>1, TransmitFacts
    <3>2. Len(x) \in Nat
      OBVIOUS
    <3>3. \A i \in 1 .. Len(sent) + Len(x) : sent'[i] = IF i <= Len(sent) THEN sent[i] ELSE x[i - Len(sent)]
      BY <1>1, <3>1, ConcatProperties
    <3>4. \A i \in 1 .. Len(sent) : i \in 1 .. Len(sent) + Len(x) /\ i <= Len(sent)
      BY <1>1, <3>2
    <3> QED BY <1>1, <3>1, <3>2, <3>3, <3>4
  <2>2. CASE UNCHANGED sent
    BY <1>1, <2>2
  <2> QED BY <2>1, <2>2, AllMoves DEF Rests, Drains, Reads, Cuts, Joins, Restarts
<1>3. Len(sent) <= Len(sent') /\ Len(sent') \in Nat
  <2>1. CASE Transmit
    <3>1. PICK x \in Seq(Bytes) : Len(sent') = Len(sent) + Len(x)
      BY <2>1, TransmitFacts
    <3>2. Len(x) \in Nat
      OBVIOUS
    <3> QED BY <1>1, <3>1, <3>2
  <2>2. CASE UNCHANGED sent
    BY <1>1, <2>2
  <2> QED BY <2>1, <2>2, AllMoves DEF Rests, Drains, Reads, Cuts, Joins, Restarts
<1> QED BY <1>1, <1>2, <1>3

LEMMA ArrivedStays ==
  ASSUME Stored, Counted, Phased, [IngestNext]_allVars, NEW k \in DOMAIN Wire
  PROVE  \A data : Arrived(k, data) => Arrived(k, data)'
<1>1. /\ \A i \in 1 .. Len(sent) : sent'[i] = sent[i]
      /\ Len(sent) <= Len(sent') /\ Len(sent) \in Nat /\ Len(sent') \in Nat
  BY SentGrows
<1>2. ASSUME NEW data, Arrived(k, data) PROVE Arrived(k, data)'
  <2> DEFINE a == Position(k - 1)
             n == Len(Wire[k])
  <2>1. a \in Nat /\ n \in Nat /\ Position(k) = a + n /\ DOMAIN Wire[k] = 1 .. n
    BY FrameOnWire
  <2>2. Len(data) = n /\ a + n <= Len(sent) /\ \A i \in 1 .. n : data[i] = sent[a + i]
    BY <1>2, <2>1 DEF Arrived
  <2> HIDE DEF a, n
  <2>3. \A i \in 1 .. n : a + i \in 1 .. Len(sent)
    BY <1>1, <2>1, <2>2
  <2>4. a + n <= Len(sent')
    BY <1>1, <2>1, <2>2
  <2>5. \A i \in 1 .. n : data[i] = sent'[a + i]
    BY <1>1, <2>2, <2>3
  <2> QED BY <2>1, <2>2, <2>4, <2>5 DEF Arrived, a, n
<1> QED BY <1>2

LEMMA NextFramed ==
  ASSUME FramesFit, Core, Frames, Framed, [IngestNext]_allVars
  PROVE  Framed'
<1> SUFFICES ASSUME InTime' PROVE Framed'
  BY DEF Framed
<1>1. InTime /\ Stored /\ Counted /\ Phased
  BY InTimeBefore DEF Core
<1>2. Timely /\ Timely'
  BY <1>1, NextTimely DEF Frames
<1>3. /\ Len(dispatched) <= Len(Wire) /\ Cut = Position(Len(dispatched))
      /\ \A i \in DOMAIN dispatched : Arrived(i, dispatched[i].data)
  BY <1>1 DEF Framed
<1>4. Len(dispatched) \in Nat /\ DOMAIN dispatched = 1 .. Len(dispatched)
  BY <1>1, PacketsTyped
<1>5. ASSUME NEW k \in DOMAIN Wire, NEW data, Arrived(k, data) PROVE Arrived(k, data)'
  BY <1>1, <1>5, ArrivedStays
<1>6. ASSUME NEW i \in DOMAIN dispatched PROVE i \in DOMAIN Wire
  <2>1. Len(Wire) \in Nat /\ DOMAIN Wire = 1 .. Len(Wire)
    BY WireFacts
  <2> QED BY <1>3, <1>4, <2>1
<1>7. CASE UNCHANGED dispatched
  <2>1. Len(dispatched') <= Len(Wire) /\ Cut' = Position(Len(dispatched'))
    BY <1>3, <1>7 DEF Cut, Taken, Packets
  <2>2. ASSUME NEW i \in DOMAIN dispatched' PROVE Arrived(i, dispatched[i].data)'
    <3>1. i \in DOMAIN dispatched /\ i \in DOMAIN Wire
      BY <1>6, <1>7
    <3>2. PICK data : data = dispatched[i].data /\ Arrived(i, data)
      BY <1>3, <3>1
    <3>3. Arrived(i, data)' /\ dispatched'[i].data = data
      BY <1>5, <1>7, <3>1, <3>2
    <3> QED BY <3>3 DEF Arrived
  <2> QED BY <2>1, <2>2 DEF Framed
<1>8. CASE Cutting
  <2>1. PICK fate : dispatched' = Append(dispatched, [data |-> frameBuffer, fate |-> fate])
    BY <1>8 DEF Cutting, Hands
  <2>2. /\ DOMAIN dispatched' = 1 .. Len(dispatched) + 1 /\ Len(dispatched') = Len(dispatched) + 1
        /\ \A i \in DOMAIN dispatched : dispatched'[i] = dispatched[i]
        /\ dispatched'[Len(dispatched) + 1].data = frameBuffer
    BY <1>1, <2>1, PacketTaken DEF Stored
  <2>3. PICK k \in DOMAIN Wire : k = Len(dispatched) + 1 /\ Cut' = Position(k) /\ Arrived(k, frameBuffer)
    BY <1>2, <1>3, <1>8, CutIsFrame DEF Timely
  <2>4. Len(dispatched') <= Len(Wire) /\ Cut' = Position(Len(dispatched'))
    <3>1. k <= Len(Wire)
      BY WireFacts
    <3> QED BY <2>2, <2>3, <3>1
  <2>5. ASSUME NEW i \in DOMAIN dispatched' PROVE Arrived(i, dispatched[i].data)'
    <3>1. i \in DOMAIN dispatched \/ i = k
      BY <1>4, <2>2, <2>3
    <3>2. PICK data : data = dispatched'[i].data /\ Arrived(i, data)
      BY <1>3, <2>2, <2>3, <3>1
    <3>3. Arrived(i, data)'
      BY <1>5, <1>6, <3>1, <3>2
    <3> QED BY <3>2, <3>3 DEF Arrived
  <2> QED BY <2>4, <2>5 DEF Framed
<1> QED BY <1>1, <1>7, <1>8, CutsOrKeeps

LEMMA InitFramed == IngestInit => Framed
<1> SUFFICES ASSUME IngestInit PROVE Framed
  OBVIOUS
<1>1. Len(dispatched) = 0 /\ DOMAIN dispatched = {} /\ Packets = <<>>
  BY DEF IngestInit, Init, Packets
<1>2. Cut = 0
  BY <1>1, FlattenEmpty DEF Taken, Cut
<1> QED BY <1>1, <1>2, WireFacts DEF Framed

\* The worker's packet is one frame.
LEMMA WorkerGetsFrame ==
  ASSUME Core, Framed, InTime, decoderWorker
  PROVE  /\ \E k \in DOMAIN Wire : Arrived(k, Head(rawData))
         /\ Head(rawData) \in Seq(Bytes)
<1>1. rawData # <<>> /\ rawData \in Seq(Seq(Bytes)) /\ PassedOn
  BY DEF decoderWorker, Receive, Core, Stored
<1>2. 1 \in DOMAIN rawData /\ Head(rawData) = rawData[1] /\ Head(rawData) \in Seq(Bytes)
  BY <1>1
<1>3. PICK i \in DOMAIN dispatched : Head(rawData) = dispatched[i].data
  BY <1>1, <1>2 DEF PassedOn
<1>4. i \in DOMAIN Wire
  <2>1. /\ Len(dispatched) \in Nat /\ DOMAIN dispatched = 1 .. Len(dispatched)
        /\ Len(Wire) \in Nat /\ DOMAIN Wire = 1 .. Len(Wire)
    BY PacketsTyped, WireFacts DEF Core
  <2> QED BY <2>1 DEF Framed
<1> QED BY <1>2, <1>3, <1>4 DEF Framed

-----------------------------------------------------------------------------
\* Noise has a cause.

SoundWire == \A i \in DOMAIN Wire : ValidateCRC16(Wire[i])

\* What has arrived of a frame undamaged is the frame.
LEMMA ArrivedIsFrame ==
  ASSUME Stored, Clean, NEW k \in DOMAIN Wire, NEW data \in Seq(Bytes), Arrived(k, data)
  PROVE  data = Wire[k]
<1> DEFINE a == Position(k - 1)
           n == Len(Wire[k])
<1>1. /\ a \in Nat /\ n \in Nat /\ Position(k) = a + n /\ DOMAIN Wire[k] = 1 .. n
      /\ Wire[k] \in Seq(Bytes) /\ \A i \in 1 .. n : Wire[k][i] = Bytestream[a + i]
  BY FrameOnWire
<1>2. Len(data) = n /\ a + n <= Len(sent) /\ \A i \in 1 .. n : data[i] = sent[a + i]
  BY <1>1 DEF Arrived
<1>3. Len(sent) \in Nat
  BY DEF Stored
<1> HIDE DEF a, n
<1>4. \A i \in 1 .. n : a + i \in 1 .. Len(sent)
  BY <1>1, <1>2, <1>3
<1>5. \A i \in 1 .. n : data[i] = Wire[k][i]
  BY <1>1, <1>2, <1>4 DEF Clean
<1> QED BY <1>1, <1>2, <1>5, SeqEqual DEF n

\* A packet of the worker's that is a frame raises no noise count.
LEMMA NoNoise ==
  ASSUME SoundWire, Core, Framed, InTime, Clean, decoderWorker
  PROVE  stats'["noise"] = 0
<1>1. PICK k \in DOMAIN Wire : Arrived(k, Head(rawData))
  BY WorkerGetsFrame
<1>2. Head(rawData) \in Seq(Bytes)
  BY WorkerGetsFrame
<1>3. Head(rawData) = Wire[k]
  BY <1>1, <1>2, ArrivedIsFrame DEF Core
<1>4. "noise" \notin Raised(Head(rawData))
  BY <1>3 DEF SoundWire, Raised, Frame
<1>5. stats' = [c \in CountersOfDecoder |-> stats[c] + (IF c \in Raised(Head(rawData)) THEN 1 ELSE 0)]
  BY DEF decoderWorker, Decode
<1>6. "noise" \in CountersOfDecoder
  BY DEF CountersOfDecoder
<1>7. stats["noise"] + 0 = 0
  BY DEF Clean
<1> QED BY <1>4, <1>5, <1>6, <1>7

LEMMA NextUndamaged ==
  ASSUME SoundWire, Core, Framed, Undamaged, [IngestNext]_allVars
  PROVE  Undamaged'
<1> SUFFICES ASSUME InTime', noise' = 0 PROVE Clean'
  BY DEF Undamaged
<1>1. InTime /\ Stored /\ Counted /\ Phased
  BY InTimeBefore DEF Core
<1>2. /\ noise' = noise
      /\ Transmit => \E x \in Seq(Bytes) : /\ sent' = sent \o x /\ Len(sent') = Len(sent) + Len(x)
                                           /\ \A i \in 1 .. Len(x) : x[i] = Bytestream[Len(sent) + i]
  <2>1. noise' = noise \/ Transmit
    BY WhoChanges
  <2>2. noise \in Nat /\ ~(noise + 1 = 0)
    <3>1. noise \in 0 .. MaxNoise /\ MaxNoise \in Nat
      BY <1>1, SerialAssumption DEF Counted
    <3> QED BY <3>1
  <2>3. CASE Transmit
    <3>1. PICK x \in Seq(Bytes) :
           /\ sent' = sent \o x /\ Len(sent') = Len(sent) + Len(x)
           /\ \/ noise' = noise /\ \A i \in 1 .. Len(x) : x[i] = Bytestream[Len(sent) + i]
              \/ noise < MaxNoise /\ noise' = noise + 1
      BY <1>1, <2>3, TransmitFacts
    <3> QED BY <2>2, <3>1
  <2> QED BY <2>1, <2>3
<1>3. Clean
  BY <1>1, <1>2 DEF Undamaged
<1>4. \A i \in 1 .. Len(sent') : sent'[i] = Bytestream[i]
  <2>1. CASE Transmit
    <3>1. PICK x \in Seq(Bytes) : /\ sent' = sent \o x /\ Len(sent') = Len(sent) + Len(x)
                                  /\ \A i \in 1 .. Len(x) : x[i] = Bytestream[Len(sent) + i]
      BY <1>2, <2>1
    <3>2. sent \in Seq(Bytes) /\ Len(sent) \in Nat /\ Len(x) \in Nat
      BY <1>1 DEF Stored
    <3>3. \A i \in 1 .. Len(sent) + Len(x) : sent'[i] = IF i <= Len(sent) THEN sent[i] ELSE x[i - Len(sent)]
      BY <3>1, <3>2, ConcatProperties
    <3>4. \A i \in 1 .. Len(sent) : sent[i] = Bytestream[i]
      BY <1>3 DEF Clean
    <3>5. \A i \in 1 .. Len(sent) + Len(x) :
            \/ i \in 1 .. Len(sent)
            \/ ~(i <= Len(sent)) /\ i - Len(sent) \in 1 .. Len(x) /\ Len(sent) + (i - Len(sent)) = i
      BY <3>2
    <3>6. \A i \in 1 .. Len(sent) : i <= Len(sent)
      BY <3>2
    <3> QED BY <3>1, <3>3, <3>4, <3>5, <3>6
  <2>2. CASE UNCHANGED sent
    BY <1>3, <2>2 DEF Clean
  <2> QED BY <1>1, <2>1, <2>2, AllMoves DEF Rests, Drains, Reads, Cuts, Joins, Restarts
<1>5. stats'["noise"] = 0
  <2>1. decoderWorker \/ UNCHANGED stats
    BY WhoChanges
  <2> QED BY <1>1, <1>3, <2>1, NoNoise DEF Clean
<1> QED BY <1>4, <1>5 DEF Clean

LEMMA InitUndamaged == IngestInit => Undamaged
<1> SUFFICES ASSUME IngestInit PROVE Clean
  BY DEF Undamaged
<1>1. \A i \in 1 .. Len(sent) : FALSE
  BY DEF IngestInit, Init
<1>2. stats["noise"] = 0
  BY DEF IngestInit, CountersOfDecoder
<1> QED BY <1>1, <1>2 DEF Clean

\* For every wire of frames that carry their checksum and fit into one packet: the
\* decoder counts no noise on an undisturbed line unless a byte was late, a frame came
\* without a pause, or Stop was called.
THEOREM NoiseNeedsCause == ASSUME FramesFit, SoundWire PROVE Spec => []NoiseHasCause
<1>1. IngestInit => Core /\ Frames /\ Framed /\ Undamaged
  BY InitCore, InitFrames, InitFramed, InitUndamaged
<1>2. Core /\ Frames /\ Framed /\ Undamaged /\ [IngestNext]_allVars
        => Core' /\ Frames' /\ Framed' /\ Undamaged'
  BY NextCore, NextFrames, NextFramed, NextUndamaged
<1>3. Core /\ Frames /\ Undamaged => NoiseHasCause
  <2> SUFFICES ASSUME Core, Undamaged, stats["noise"] > 0, ~(noise > 0), ~untimely, running PROVE FALSE
    BY DEF NoiseHasCause
  <2>1. noise \in 0 .. MaxNoise /\ MaxNoise \in Nat
    BY SerialAssumption DEF Core, Counted
  <2>2. noise = 0
    BY <2>1
  <2>3. InTime
    BY DEF InTime, Core, Phased
  <2> QED BY <2>2, <2>3 DEF Undamaged, Clean
<1> QED BY <1>1, <1>2, <1>3, PTL DEF Spec

-----------------------------------------------------------------------------
\* Xor is a group operation on words, and bytes are words.

LEMMA XorFacts ==
  ASSUME NEW a, NEW b, NEW c
  PROVE  /\ Xor(a, b) = Xor(b, a)
         /\ Xor(a, Xor(a, b)) = b
         /\ Xor(Xor(a, b), c) = Xor(a, Xor(b, c))
         /\ Xor(a, {}) = a
         /\ Xor(a, a) = {}
         /\ Xor(a, b) = {} => a = b
BY DEF Xor

LEMMA XorType ==
  /\ \A a, b \in Words : Xor(a, b) \in Words
  /\ \A a, b \in Bytes : Xor(a, b) \in Bytes
  /\ \A b \in Bytes : b \in Words
  /\ \A w \in Words : LowOf(w) \in Bytes /\ HighOf(w) \in Bytes
  /\ crc16ModbusPoly \in Words /\ crc16Init \in Words
BY DEF Xor, Words, Bytes, Bits, LowOf, HighOf, crc16ModbusPoly, crc16Init

LEMMA JoinedFacts ==
  /\ \A w \in Words : Joined(LowOf(w), HighOf(w)) = w
  /\ \A a, b, c, d \in Bytes : Joined(a, b) = Joined(c, d) => a = c /\ b = d
<1>1. ASSUME NEW w \in Words PROVE Joined(LowOf(w), HighOf(w)) = w
  <2>1. ASSUME NEW i \in 8 .. 15 PROVE i \in Joined(LowOf(w), HighOf(w)) <=> i \in w
    <3>1. i - 8 \in 0 .. 7 /\ (i - 8) + 8 = i /\ i \notin 0 .. 7
      OBVIOUS
    <3>2. i - 8 \in HighOf(w) <=> i \in w
      BY <3>1 DEF HighOf
    <3> QED BY <3>1, <3>2 DEF Joined, LowOf
  <2>2. ASSUME NEW i \in 0 .. 7 PROVE i \in Joined(LowOf(w), HighOf(w)) <=> i \in w
    BY DEF Joined, LowOf
  <2>3. w \in SUBSET (0 .. 15) /\ Joined(LowOf(w), HighOf(w)) \in SUBSET (0 .. 15)
    BY DEF Words, Bits, Joined, LowOf
  <2>4. \A i \in 0 .. 15 : i \in 0 .. 7 \/ i \in 8 .. 15
    OBVIOUS
  <2> QED BY <2>1, <2>2, <2>3, <2>4
<1>2. ASSUME NEW a \in Bytes, NEW b \in Bytes
      PROVE  LowOf(Joined(a, b)) = a /\ HighOf(Joined(a, b)) = b
  <2>1. LowOf(Joined(a, b)) = a
    <3>1. \A i \in 8 .. 15 : i \notin 0 .. 7
      OBVIOUS
    <3>2. a \subseteq 0 .. 7
      BY DEF Bytes
    <3> QED BY <3>1, <3>2 DEF Joined, LowOf
  <2>2. ASSUME NEW i \in 0 .. 7 PROVE i \in HighOf(Joined(a, b)) <=> i \in b
    <3>1. i + 8 \in 8 .. 15 /\ (i + 8) - 8 = i /\ i + 8 \notin 0 .. 7
      OBVIOUS
    <3> QED BY <3>1 DEF Joined, HighOf, Bytes
  <2>3. b \in SUBSET (0 .. 7) /\ HighOf(Joined(a, b)) \in SUBSET (0 .. 7)
    BY DEF Bytes, HighOf
  <2>4. HighOf(Joined(a, b)) = b
    BY <2>2, <2>3
  <2> QED BY <2>1, <2>4
<1> QED
  BY <1>1, <1>2

-----------------------------------------------------------------------------
\* One round.

LEMMA ShiftType == \A w \in Words : Shift(w) \in Words
BY DEF Shift, Half, Xor, Words, Bits, crc16ModbusPoly

LEMMA HalfLinear ==
  ASSUME NEW a \in Words, NEW b \in Words
  PROVE  Half(Xor(a, b)) = Xor(Half(a), Half(b))
BY DEF Half, Xor, Words, Bits

LEMMA ShiftLinear ==
  ASSUME NEW a \in Words, NEW b \in Words
  PROVE  Shift(Xor(a, b)) = Xor(Shift(a), Shift(b))
<1> DEFINE p == crc16ModbusPoly
<1>0. 0 \in Xor(a, b) <=> ~(0 \in a <=> 0 \in b)
  BY DEF Xor
<1>1. Half(Xor(a, b)) = Xor(Half(a), Half(b))
  BY HalfLinear
<1>2. \A u, v : /\ Xor(Xor(u, v), p) = Xor(Xor(u, p), v)
                /\ Xor(Xor(u, v), p) = Xor(u, Xor(v, p))
                /\ Xor(u, v) = Xor(Xor(u, p), Xor(v, p))
  BY DEF Xor
<1> HIDE DEF p
<1>3. Shift(a) = IF 0 \in a THEN Xor(Half(a), p) ELSE Half(a)
  BY DEF Shift, p
<1>4. Shift(b) = IF 0 \in b THEN Xor(Half(b), p) ELSE Half(b)
  BY DEF Shift, p
<1>5. Shift(Xor(a, b)) = IF 0 \in Xor(a, b) THEN Xor(Xor(Half(a), Half(b)), p)
                                            ELSE Xor(Half(a), Half(b))
  BY <1>1 DEF Shift, p
<1>6. CASE 0 \in a /\ 0 \in b
  BY <1>0, <1>2, <1>3, <1>4, <1>5, <1>6
<1>7. CASE 0 \in a /\ 0 \notin b
  BY <1>0, <1>2, <1>3, <1>4, <1>5, <1>7
<1>8. CASE 0 \notin a /\ 0 \in b
  BY <1>0, <1>2, <1>3, <1>4, <1>5, <1>8
<1>9. CASE 0 \notin a /\ 0 \notin b
  BY <1>0, <1>3, <1>4, <1>5, <1>9
<1> QED BY <1>6, <1>7, <1>8, <1>9

\* Only zero is shifted to zero: a register whose bit 0 is set gets the
\* polynomial's bit 15, which nothing can cancel.
LEMMA ShiftKernel ==
  ASSUME NEW w \in Words, Shift(w) = {}
  PROVE  w = {}
<1>1. CASE 0 \in w
  <2>1. 15 \notin Half(w) /\ 15 \in crc16ModbusPoly
    BY DEF Half, crc16ModbusPoly
  <2>2. 15 \in Shift(w)
    BY <1>1, <2>1 DEF Shift, Xor
  <2> QED BY <2>2
<1>2. CASE 0 \notin w
  <2>1. \A i \in Bits : i # 0 => (i - 1 \in Half(w) <=> i \in w)
    BY DEF Half, Bits
  <2> QED BY <1>2, <2>1 DEF Shift, Words, Bits
<1> QED BY <1>1, <1>2

-----------------------------------------------------------------------------
\* Eight rounds.

LEMMA Shift8Facts ==
  /\ \A w \in Words : Shift8(w) \in Words
  /\ \A a, b \in Words : Shift8(Xor(a, b)) = Xor(Shift8(a), Shift8(b))
  /\ \A w \in Words : Shift8(w) = {} => w = {}
<1>1. /\ \A w \in Words : Shift2(w) \in Words
      /\ \A a, b \in Words : Shift2(Xor(a, b)) = Xor(Shift2(a), Shift2(b))
      /\ \A w \in Words : Shift2(w) = {} => w = {}
  BY ShiftType, ShiftLinear, ShiftKernel DEF Shift2
<1>2. /\ \A w \in Words : Shift4(w) \in Words
      /\ \A a, b \in Words : Shift4(Xor(a, b)) = Xor(Shift4(a), Shift4(b))
      /\ \A w \in Words : Shift4(w) = {} => w = {}
  BY <1>1 DEF Shift4
<1> QED
  BY <1>2 DEF Shift8

LEMMA Shift8Injective ==
  ASSUME NEW a \in Words, NEW b \in Words, Shift8(a) = Shift8(b)
  PROVE  a = b
<1>1. Xor(a, b) \in Words
  BY XorType
<1>2. Shift8(Xor(a, b)) = Xor(Shift8(a), Shift8(a))
  BY Shift8Facts
<1>3. Xor(Shift8(a), Shift8(a)) = {}
  BY DEF Xor
<1>4. Xor(a, b) = {}
  BY <1>1, <1>2, <1>3, Shift8Facts
<1> QED
  BY <1>4 DEF Xor

\* A register whose low byte is zero is only renamed.
LEMMA Shift8High ==
  ASSUME NEW w \in Words, LowOf(w) = {}
  PROVE  Shift8(w) = HighOf(w)
<1> DEFINE Down(v, k) == {i \in 0 .. 15 : i + k \in v}
<1>1. \A v \in Words : 0 \notin v => Shift(v) = Down(v, 1)
  BY DEF Shift, Half, Words, Bits
<1>2. \A i \in 0 .. 7 : i \notin w
  BY DEF LowOf
<1>3. \A k \in 0 .. 8 : Down(w, k) \in Words
  BY DEF Words, Bits
<1>4. \A k \in 0 .. 7 : Shift(Down(w, k)) = Down(w, k + 1)
  <2> SUFFICES ASSUME NEW k \in 0 .. 7 PROVE Shift(Down(w, k)) = Down(w, k + 1)
    OBVIOUS
  <2>1. 0 \notin Down(w, k)
    BY <1>2
  <2>2. Shift(Down(w, k)) = Down(Down(w, k), 1)
    <3>1. Down(w, k) \in Words
      BY DEF Words, Bits
    <3> HIDE DEF Down
    <3> QED BY <1>1, <2>1, <3>1
  <2>3. Down(Down(w, k), 1) = Down(w, k + 1)
    BY DEF Words, Bits
  <2> QED BY <2>2, <2>3
<1>5. Down(w, 0) = w
  <2>1. \A i \in 0 .. 15 : i + 0 = i
    OBVIOUS
  <2> QED BY <2>1 DEF Words, Bits
<1>6. Down(w, 8) = HighOf(w)
  BY DEF HighOf, Words, Bits
<1> HIDE DEF Down
<1>7. Shift8(Down(w, 0)) = Down(w, 8)
  BY <1>4 DEF Shift8, Shift4, Shift2
<1> QED
  BY <1>5, <1>6, <1>7

-----------------------------------------------------------------------------
\* The table of crc16.go computes what eight rounds of the defining loop do to
\* the whole register: CRC16Modbus is the bitwise checksum of the Modbus
\* specification (crc16.go:10-30).
THEOREM TableIsBitwise ==
  ASSUME NEW crc \in Words, NEW b \in Bytes
  PROVE  Update(crc, b) = Shift8(Xor(crc, b))
<1> DEFINE x == Xor(crc, b)
           h == x \ (0 .. 7)
<1>1. x \in Words /\ h \in Words /\ LowOf(x) \in Words /\ LowOf(x) \in Bytes
  BY XorType DEF Words
<1>2. x = Xor(h, LowOf(x))
  BY DEF Xor, LowOf
<1>3. LowOf(h) = {} /\ HighOf(h) = HighOf(crc)
  BY DEF LowOf, HighOf, Xor, Bytes
<1> HIDE DEF x, h
<1>4. Shift8(x) = Xor(Shift8(h), Shift8(LowOf(x)))
  BY <1>1, <1>2, Shift8Facts
<1>5. Shift8(h) = HighOf(crc)
  BY <1>1, <1>3, Shift8High
<1>6. crcTable[LowOf(x)] = Shift8(LowOf(x))
  BY <1>1 DEF crcTable
<1>7. Update(crc, b) = Xor(HighOf(crc), crcTable[LowOf(x)])
  BY DEF Update, x
<1> QED
  BY <1>4, <1>5, <1>6, <1>7 DEF x

LEMMA UpdateType ==
  ASSUME NEW crc \in Words, NEW b \in Bytes
  PROVE  Update(crc, b) \in Words
BY TableIsBitwise, XorType, Shift8Facts

\* Different registers stay different under the same byte.
LEMMA UpdateInjective ==
  ASSUME NEW c \in Words, NEW d \in Words, NEW b \in Bytes,
         Update(c, b) = Update(d, b)
  PROVE  c = d
<1>1. Shift8(Xor(c, b)) = Shift8(Xor(d, b))
  BY TableIsBitwise
<1>2. Xor(c, b) \in Words /\ Xor(d, b) \in Words
  BY XorType
<1>3. Xor(c, b) = Xor(d, b)
  BY <1>1, <1>2, Shift8Injective
<1> QED
  BY <1>3, XorFacts

\* Damage to a byte adds what the register makes of the damage alone.
LEMMA UpdateDamaged ==
  ASSUME NEW c \in Words, NEW b \in Bytes, NEW e \in Bytes
  PROVE  Update(c, Xor(b, e)) = Xor(Update(c, b), Shift8(e))
<1>1. Xor(b, e) \in Bytes /\ Xor(c, b) \in Words /\ e \in Words
  BY XorType
<1>2. Xor(c, Xor(b, e)) = Xor(Xor(c, b), e)
  BY XorFacts
<1> QED
  BY <1>1, <1>2, TableIsBitwise, Shift8Facts

\* What the register makes of a damaged byte cannot be made good by damage to
\* the byte after it: it reaches into the high half.
LEMMA DamageReachesHigh ==
  ASSUME NEW d \in Bytes, d # {}
  PROVE  Shift8(d) \notin Bytes
<1> SUFFICES ASSUME Shift8(d) \in Bytes PROVE FALSE
  OBVIOUS
<1> DEFINE u == {i \in 8 .. 15 : i - 8 \in Shift8(d)}
<1>1. u \in Words /\ LowOf(u) = {} /\ u \cap (0 .. 7) = {}
  BY DEF Words, Bits, LowOf
<1>2. HighOf(u) = Shift8(d)
  BY DEF HighOf, Bytes
<1>3. Shift8(u) = Shift8(d)
  BY <1>1, <1>2, Shift8High
<1>4. d = u
  BY <1>1, <1>3, Shift8Injective, XorType
<1> QED
  BY <1>1, <1>4 DEF Bytes

\* The checksum of a frame, put through the register that computed it, leaves
\* zero: from there the register of a glued packet starts its second frame.
THEOREM FrameLeavesZero ==
  ASSUME NEW crc \in Words
  PROVE  Update(Update(crc, LowOf(crc)), HighOf(crc)) = {}
<1>1. LowOf(crc) \in Bytes /\ HighOf(crc) \in Bytes /\ HighOf(crc) \in Words
  BY XorType
<1>2. Xor(crc, LowOf(crc)) \in Words /\ LowOf(Xor(crc, LowOf(crc))) = {}
      /\ HighOf(Xor(crc, LowOf(crc))) = HighOf(crc)
  BY DEF Xor, LowOf, HighOf, Words, Bits
<1>3. Update(crc, LowOf(crc)) = HighOf(crc)
  BY <1>1, <1>2, TableIsBitwise, Shift8High
<1>4. Xor(HighOf(crc), HighOf(crc)) = {} /\ LowOf({}) = {} /\ HighOf({}) = {} /\ {} \in Words
  BY DEF Xor, LowOf, HighOf, Words
<1> QED
  BY <1>1, <1>3, <1>4, TableIsBitwise, Shift8High

-----------------------------------------------------------------------------
\* The registers of CRC16Modbus, after each byte of data.
Run(crc, data) ==
  /\ crc \in [0 .. Len(data) -> Words]
  /\ crc[0] = crc16Init
  /\ \A i \in 1 .. Len(data) : crc[i] = Update(crc[i - 1], data[i])

LEMMA RunExists ==
  ASSUME NEW data \in Seq(Bytes)
  PROVE  \E crc : Run(crc, data) /\ CRC16Modbus(data) = crc[Len(data)]
<1> DEFINE n == Len(data)
           Body(g) == [i \in 0 .. n |-> IF i = 0 THEN crc16Init ELSE Update(g[i - 1], data[i])]
           step == [p \in Words \X Int |-> IF p[2] \in 1 .. n THEN Update(p[1], data[p[2]]) ELSE p[1]]
           s == CHOOSE g : g = Body(g)
<1>1. n \in Nat /\ crc16Init \in Words /\ \A i \in 1 .. n : data[i] \in Bytes
  BY XorType
<1> HIDE DEF n
<1>2. step \in [Words \X Int -> Words]
  <2>1. ASSUME NEW p \in Words \X Int
        PROVE  (IF p[2] \in 1 .. n THEN Update(p[1], data[p[2]]) ELSE p[1]) \in Words
    <3>1. p[1] \in Words
      OBVIOUS
    <3>2. p[2] \in 1 .. n => data[p[2]] \in Bytes
      BY <1>1
    <3> QED BY <3>1, <3>2, UpdateType
  <2> QED BY <2>1
<1>3. PICK f \in [0 .. n -> Words] : Unfolds(f, 0, n, crc16Init, step)
  <2>1. 0 \in Int /\ n \in Int /\ 0 <= n
    BY <1>1
  <2> HIDE DEF step
  <2> QED BY ONLY <1>1, <1>2, <2>1, RecursionExists
<1>4. \A i \in 1 .. n : step[<<f[i - 1], i>>] = Update(f[i - 1], data[i])
  <2> SUFFICES ASSUME NEW i \in 1 .. n PROVE step[<<f[i - 1], i>>] = Update(f[i - 1], data[i])
    OBVIOUS
  <2>1. f[i - 1] \in Words
    BY <1>1
  <2> QED BY <2>1
<1>5. f[0] = crc16Init /\ \A i \in 1 .. n : f[i] = Update(f[i - 1], data[i])
  <2>1. 0 + 1 = 1
    OBVIOUS
  <2> HIDE DEF step
  <2> QED BY <1>3, <1>4, <2>1 DEF Unfolds
<1>6. f = Body(f)
  <2>1. \A i \in 0 .. n : i # 0 => i \in 1 .. n
    BY <1>1
  <2>2. f = [i \in 0 .. n |-> f[i]]
    OBVIOUS
  <2> QED BY <1>5, <2>1, <2>2
<1>7. s = Body(s)
  <2> HIDE DEF Body
  <2> QED BY <1>6
<1>8. CRC16Modbus(data) = s[n]
  BY DEF CRC16Modbus, n
<1>9. s = [i \in 0 .. n |-> s[i]] /\ s[0] = crc16Init
      /\ \A i \in 1 .. n : s[i] = Update(s[i - 1], data[i])
  <2> HIDE DEF s
  <2>1. 0 \in 0 .. n /\ \A i \in 1 .. n : i \in 0 .. n /\ i # 0
    BY <1>1
  <2> QED BY <1>7, <2>1
<1> HIDE DEF s, step, Body
<1>10. \A i \in 0 .. n : s[i] \in Words
  <2> DEFINE T == {i \in 0 .. n : s[i] \in Words}
  <2>1. 0 \in T
    BY <1>1, <1>9
  <2>2. ASSUME NEW i \in 0 .. n - 1, i \in T PROVE i + 1 \in T
    <3>1. i + 1 \in 1 .. n /\ (i + 1) - 1 = i /\ i + 1 \in 0 .. n
      BY <1>1
    <3>2. s[i + 1] = Update(s[i], data[i + 1])
      BY <1>9, <3>1
    <3>3. s[i] \in Words /\ data[i + 1] \in Bytes
      BY <1>1, <2>2, <3>1
    <3> QED BY <3>1, <3>2, <3>3, UpdateType
  <2>3. 0 \in Int /\ n \in Int
    BY <1>1
  <2> HIDE DEF T
  <2>4. 0 .. n \subseteq T
    BY ONLY <2>1, <2>2, <2>3, IntervalInduction
  <2> QED BY <2>4 DEF T
<1>11. s \in [0 .. n -> Words]
  BY <1>9, <1>10
<1> QED BY <1>8, <1>9, <1>11 DEF Run, n

\* What the checksum is of the beginning of data, is in the register there.
LEMMA RunOfBeginning ==
  ASSUME NEW data \in Seq(Bytes), NEW crc, Run(crc, data), NEW k \in 0 .. Len(data),
         NEW part \in Seq(Bytes), Len(part) = k, \A i \in 1 .. k : part[i] = data[i]
  PROVE  CRC16Modbus(part) = crc[k]
<1>1. PICK f : Run(f, part) /\ CRC16Modbus(part) = f[k]
  BY RunExists
<1> DEFINE T == {i \in 0 .. k : f[i] = crc[i]}
<1>2. k \in Int /\ k \in Nat /\ 0 \in T
  BY <1>1 DEF Run
<1>3. ASSUME NEW i \in 0 .. k - 1, i \in T PROVE i + 1 \in T
  <2>1. i + 1 \in 1 .. k /\ i + 1 \in 1 .. Len(data) /\ (i + 1) - 1 = i /\ i + 1 \in 0 .. k
    OBVIOUS
  <2>2. f[i] = crc[i]
    BY <1>3
  <2>3. f[i + 1] = Update(f[i], part[i + 1])
    BY <1>1, <2>1 DEF Run
  <2>4. crc[i + 1] = Update(crc[i], data[i + 1])
    BY <2>1 DEF Run
  <2>5. part[i + 1] = data[i + 1]
    BY <2>1
  <2> QED BY <2>1, <2>2, <2>3, <2>4, <2>5
<1>4. k \in T
  <2> HIDE DEF T
  <2>1. 0 .. k \subseteq T
    BY ONLY <1>2, <1>3, IntervalInduction
  <2> QED BY <1>2, <2>1
<1> QED BY <1>1, <1>4

\* A packet ends in the checksum of what precedes, or is refused.
LEMMA ValidExactly ==
  ASSUME NEW data \in Seq(Bytes), NEW n \in Nat, n >= 2, Len(data) = n + 2,
         NEW crc, Run(crc, data)
  PROVE  ValidateCRC16(data) <=> crc[n] = Joined(data[n + 1], data[n + 2])
<1> DEFINE part == SubSeq(data, 1, n)
<1>1. part \in Seq(Bytes) /\ Len(part) = n /\ \A i \in 1 .. n : part[i] = data[i]
  OBVIOUS
<1>2. CRC16Modbus(part) = crc[n]
  <2>1. n \in 0 .. Len(data)
    OBVIOUS
  <2> HIDE DEF part
  <2> QED BY ONLY <1>1, <2>1, data \in Seq(Bytes), Run(crc, data), RunOfBeginning
<1>3. Len(data) >= 4 /\ Len(data) - 2 = n
  OBVIOUS
<1> QED BY <1>2, <1>3 DEF ValidateCRC16

\* What AppendCRC16 makes of a payload.
LEMMA AppendedCRC ==
  ASSUME NEW payload \in Seq(Bytes), NEW crc, Run(crc, payload), NEW n, n = Len(payload)
  PROVE  /\ AppendCRC16(payload) \in Seq(Bytes)
         /\ Len(AppendCRC16(payload)) = n + 2
         /\ \A i \in 1 .. n : AppendCRC16(payload)[i] = payload[i]
         /\ AppendCRC16(payload)[n + 1] = LowOf(crc[n])
         /\ AppendCRC16(payload)[n + 2] = HighOf(crc[n])
         /\ crc[n] \in Words
<1>1. n \in Nat /\ n \in 0 .. n
  OBVIOUS
<1>2. CRC16Modbus(payload) = crc[n]
  BY ONLY <1>1, payload \in Seq(Bytes), Run(crc, payload), n = Len(payload), RunOfBeginning
<1>3. crc[n] \in Words
  BY <1>1 DEF Run
<1>4. LowOf(crc[n]) \in Bytes /\ HighOf(crc[n]) \in Bytes
  BY <1>3, XorType
<1> DEFINE end == <<LowOf(crc[n]), HighOf(crc[n])>>
<1>5. end \in Seq(Bytes) /\ Len(end) = 2 /\ end[1] = LowOf(crc[n]) /\ end[2] = HighOf(crc[n])
  BY <1>4
<1>6. AppendCRC16(payload) = payload \o end
  BY <1>2 DEF AppendCRC16
<1> HIDE DEF end
<1>7. /\ payload \o end \in Seq(Bytes) /\ Len(payload \o end) = n + 2
      /\ \A i \in 1 .. n : (payload \o end)[i] = payload[i]
      /\ (payload \o end)[n + 1] = end[1] /\ (payload \o end)[n + 2] = end[2]
  <2>1. payload \o end \in Seq(Bytes) /\ Len(payload \o end) = n + 2
    <3>1. payload \in Seq(Bytes) /\ end \in Seq(Bytes)
      BY <1>5
    <3>2. payload \o end \in Seq(Bytes) /\ Len(payload \o end) = Len(payload) + Len(end)
      BY ONLY <3>1, ConcatProperties
    <3> QED BY <1>5, <3>2
  <2>2. \A i \in 1 .. n + 2 : (payload \o end)[i] = IF i <= n THEN payload[i] ELSE end[i - n]
    <3>1. Len(payload) + Len(end) = n + 2 /\ Len(payload) = n
      BY <1>5
    <3>2. \A i \in 1 .. Len(payload) + Len(end) :
            (payload \o end)[i] = IF i <= Len(payload) THEN payload[i] ELSE end[i - Len(payload)]
      BY ONLY <1>5, payload \in Seq(Bytes), ConcatProperties
    <3> QED BY ONLY <3>1, <3>2
  <2>3. /\ \A i \in 1 .. n : i \in 1 .. n + 2 /\ i <= n
        /\ n + 1 \in 1 .. n + 2 /\ ~(n + 1 <= n) /\ (n + 1) - n = 1
        /\ n + 2 \in 1 .. n + 2 /\ ~(n + 2 <= n) /\ (n + 2) - n = 2
    BY <1>1
  <2> QED BY <2>1, <2>2, <2>3
<1> QED BY <1>3, <1>5, <1>6, <1>7

\* Damage to the first byte alone, and to the byte after it, cannot make each
\* other good.
LEMMA DamageStays ==
  ASSUME NEW d \in Bytes, NEW e \in Bytes, Shift8(d) = e
  PROVE  d = {} /\ e = {}
<1>1. d = {}
  BY DamageReachesHigh
<1>2. {} \in Words /\ LowOf({}) = {} /\ HighOf({}) = {}
  BY DEF Words, LowOf, HighOf
<1> QED BY <1>1, <1>2, Shift8High

\* ValidateCRC16 accepts a packet of any length exactly if it was not damaged,
\* when the damage is to one byte or to two neighbouring ones, of the payload or
\* of the checksum (crc16.go:24-45, decoder.go:86-102).
THEOREM NoiseIsFiltered ==
  ASSUME NEW payload \in Seq(Bytes), Len(payload) >= 2,
         NEW packet \in Seq(Bytes), Len(packet) = Len(payload) + 2,
         NEW d \in 1 .. Len(packet),
         \A i \in 1 .. Len(packet) : i \notin {d, d + 1} => packet[i] = AppendCRC16(payload)[i]
  PROVE  ValidateCRC16(packet) <=> packet = AppendCRC16(payload)
<1> DEFINE n == Len(payload)
           frame == AppendCRC16(payload)
           e == [i \in Nat |-> IF i \in 1 .. n + 2 THEN Xor(frame[i], packet[i]) ELSE {}]
<1>1. PICK s : Run(s, payload)
  BY RunExists
<1>2. PICK g : Run(g, packet)
  BY RunExists
<1>3. /\ n \in Nat /\ n >= 2 /\ d \in Nat /\ d \in 1 .. n + 2 /\ Len(packet) = n + 2
      /\ \A i \in 1 .. n : payload[i] \in Bytes /\ i \in 1 .. n + 2
      /\ \A i \in 1 .. n + 2 : packet[i] \in Bytes
  OBVIOUS
<1>4. /\ frame \in Seq(Bytes) /\ Len(frame) = n + 2
      /\ \A i \in 1 .. n : frame[i] = payload[i]
      /\ frame[n + 1] = LowOf(s[n]) /\ frame[n + 2] = HighOf(s[n])
      /\ s[n] \in Words
  BY <1>1, AppendedCRC
<1>5. \A i \in 1 .. n + 2 : i \notin {d, d + 1} => packet[i] = frame[i]
  OBVIOUS
<1>6. /\ s \in [0 .. n -> Words] /\ g \in [0 .. n + 2 -> Words] /\ s[0] = crc16Init /\ g[0] = crc16Init
      /\ \A i \in 1 .. n : s[i] = Update(s[i - 1], payload[i])
      /\ \A i \in 1 .. n + 2 : g[i] = Update(g[i - 1], packet[i])
  BY <1>1, <1>2, <1>3 DEF Run
<1> HIDE DEF n, frame
<1>7. ASSUME NEW i \in Nat
      PROVE  /\ e[i] \in Bytes
             /\ i \in 1 .. n + 2 => packet[i] = Xor(frame[i], e[i])
             /\ i \notin {d, d + 1} => e[i] = {}
             /\ i \in 1 .. n + 2 => (e[i] = {} <=> packet[i] = frame[i])
  <2>1. CASE i \notin 1 .. n + 2
    <3>1. {} \in Bytes
      BY DEF Bytes
    <3> QED BY <2>1, <3>1
  <2>2. CASE i \in 1 .. n + 2
    <3>1. frame[i] \in Bytes /\ packet[i] \in Bytes /\ e[i] = Xor(frame[i], packet[i])
      BY <1>3, <1>4, <2>2
    <3>2. e[i] \in Bytes /\ packet[i] = Xor(frame[i], e[i]) /\ (e[i] = {} <=> packet[i] = frame[i])
      BY <3>1, XorType, XorFacts
    <3> QED BY <1>5, <2>2, <3>2
  <2> QED BY <2>1, <2>2
<1> HIDE DEF e
<1>8. packet = frame <=> e[d] = {} /\ e[d + 1] = {}
  <2>1. ASSUME packet = frame PROVE e[d] = {} /\ e[d + 1] = {}
    <3>1. d \in Nat /\ d + 1 \in Nat /\ d \in 1 .. n + 2
      BY <1>3
    <3>2. CASE d + 1 \in 1 .. n + 2
      BY <1>7, <2>1, <3>1, <3>2
    <3>3. CASE d + 1 \notin 1 .. n + 2
      BY <1>7, <2>1, <3>1, <3>3 DEF e
    <3> QED BY <3>2, <3>3
  <2>2. ASSUME e[d] = {}, e[d + 1] = {} PROVE packet = frame
    <3>1. \A i \in 1 .. n + 2 : i \in Nat
      BY <1>3
    <3>2. \A i \in 1 .. n + 2 : packet[i] = frame[i]
      BY <1>7, <2>2, <3>1
    <3> QED BY <1>3, <1>4, <3>2, SeqEqual
  <2> QED BY <2>1, <2>2
<1> DEFINE Related(i) == /\ i < d => g[i] = s[i]
                         /\ i = d => g[i] = Xor(s[i], Shift8(e[d]))
                         /\ i > d => packet = frame \/ g[i] # s[i]
           T == {i \in 0 .. n : Related(i)}
<1>9. ASSUME NEW i \in 0 .. n - 1, i \in T PROVE i + 1 \in T
  <2> DEFINE b == payload[i + 1]
  <2>1. /\ i + 1 \in 1 .. n /\ i + 1 \in 1 .. n + 2 /\ (i + 1) - 1 = i /\ i + 1 \in 0 .. n
        /\ i \in 0 .. n /\ i \in 0 .. n + 2 /\ i \in Nat /\ i + 1 \in Nat
    BY <1>3
  <2>2. /\ b \in Bytes /\ e[i + 1] \in Bytes /\ s[i] \in Words /\ g[i] \in Words
        /\ packet[i + 1] = Xor(b, e[i + 1])
        /\ s[i + 1] = Update(s[i], b) /\ g[i + 1] = Update(g[i], Xor(b, e[i + 1]))
    BY <1>3, <1>4, <1>6, <1>7, <2>1
  <2>3. Related(i)
    BY <1>9
  <2> HIDE DEF b, T
  <2>4. Xor(b, {}) = b
    BY XorFacts
  <2>5. CASE i + 1 < d
    <3>1. i < d /\ i + 1 \notin {d, d + 1}
      BY <1>3, <2>1, <2>5
    <3>2. g[i + 1] = s[i + 1]
      BY <1>7, <2>1, <2>2, <2>3, <2>4, <3>1
    <3>3. ~(i + 1 > d) /\ i + 1 # d
      BY <1>3, <2>1, <2>5
    <3> QED BY <2>1, <3>2, <3>3 DEF T
  <2>6. CASE i + 1 = d
    <3>1. i < d /\ ~(i + 1 > d) /\ ~(i + 1 < d)
      BY <1>3, <2>1, <2>6
    <3>2. g[i + 1] = Xor(s[i + 1], Shift8(e[d]))
      BY <2>2, <2>3, <2>6, <3>1, UpdateDamaged
    <3> QED BY <2>1, <2>6, <3>1, <3>2 DEF T
  <2>7. CASE i = d
    <3> DEFINE f == Shift8(e[d])
    <3>1. e[d] \in Bytes /\ e[d] \in Words /\ f \in Words /\ g[i] = Xor(s[i], f)
      BY <1>3, <1>7, <2>3, <2>7, XorType, Shift8Facts
    <3>2. ASSUME g[i + 1] = s[i + 1] PROVE packet = frame
      <4>1. /\ Xor(b, e[i + 1]) \in Bytes
            /\ Xor(g[i], Xor(b, e[i + 1])) \in Words /\ Xor(s[i], b) \in Words
            /\ Shift8(Xor(g[i], Xor(b, e[i + 1]))) = Shift8(Xor(s[i], b))
        <5>1. Xor(b, e[i + 1]) \in Bytes
          BY ONLY <2>2, XorType
        <5>2. Xor(g[i], Xor(b, e[i + 1])) \in Words /\ Xor(s[i], b) \in Words
          BY ONLY <2>2, <5>1, XorType
        <5>3. /\ g[i + 1] = Shift8(Xor(g[i], Xor(b, e[i + 1])))
              /\ s[i + 1] = Shift8(Xor(s[i], b))
          BY ONLY <2>2, <5>1, TableIsBitwise
        <5> QED BY ONLY <3>2, <5>1, <5>2, <5>3
      <4> HIDE DEF f
      <4>2. Xor(Xor(s[i], f), Xor(b, e[i + 1])) = Xor(s[i], b)
        BY <3>1, <4>1, Shift8Injective
      <4>3. f = e[i + 1]
        BY <4>2 DEF Xor
      <4>4. e[d] = {} /\ e[i + 1] = {}
        BY <2>2, <3>1, <4>3, DamageStays DEF f
      <4> QED BY <1>8, <2>7, <4>4
    <3>3. ~(i + 1 < d) /\ i + 1 # d
      BY <1>3, <2>1, <2>7
    <3> QED BY <2>1, <3>2, <3>3 DEF T
  <2>8. CASE i > d
    <3>1. i + 1 \notin {d, d + 1} /\ ~(i + 1 < d)
      BY <1>3, <2>1, <2>8
    <3>2. g[i + 1] = Update(g[i], b)
      BY <1>7, <2>1, <2>2, <2>4, <3>1
    <3>3. packet = frame \/ g[i + 1] # s[i + 1]
      BY <2>2, <2>3, <2>8, <3>2, UpdateInjective
    <3> QED BY <2>1, <3>1, <3>3 DEF T
  <2>9. i + 1 < d \/ i + 1 = d \/ i = d \/ i > d
    BY <1>3, <2>1
  <2> QED BY <2>5, <2>6, <2>7, <2>8, <2>9
<1>10. Related(n)
  <2>1. 0 \in T
    <3>1. 0 < d /\ 0 # d /\ ~(0 > d) /\ 0 \in 0 .. n
      BY <1>3
    <3> QED BY <1>6, <3>1
  <2>2. 0 \in Int /\ n \in Int /\ n \in 0 .. n
    BY <1>3
  <2> HIDE DEF T
  <2>3. 0 .. n \subseteq T
    BY ONLY <1>9, <2>1, <2>2, IntervalInduction
  <2> QED BY <2>2, <2>3 DEF T
<1> DEFINE lo == LowOf(s[n])
           hi == HighOf(s[n])
<1>11. ValidateCRC16(packet) <=> g[n] = Joined(Xor(lo, e[n + 1]), Xor(hi, e[n + 2]))
  <2>1. ValidateCRC16(packet) <=> g[n] = Joined(packet[n + 1], packet[n + 2])
    BY <1>2, <1>3, ValidExactly
  <2>2. n + 1 \in 1 .. n + 2 /\ n + 2 \in 1 .. n + 2 /\ n + 1 \in Nat /\ n + 2 \in Nat
    BY <1>3
  <2> QED BY <1>4, <1>7, <2>1, <2>2
<1>12. /\ lo \in Bytes /\ hi \in Bytes /\ Joined(lo, hi) = s[n] /\ Xor(lo, {}) = lo /\ Xor(hi, {}) = hi
       /\ e[n + 1] \in Bytes /\ e[n + 2] \in Bytes /\ e[d] \in Bytes /\ e[d + 1] \in Bytes
  <2>1. n + 1 \in Nat /\ n + 2 \in Nat /\ d \in Nat /\ d + 1 \in Nat
    BY <1>3
  <2> QED BY <1>4, <1>7, <2>1, XorType, XorFacts, JoinedFacts
<1> HIDE DEF T, lo, hi
<1>13. CASE d < n
  <2>1. n + 1 \notin {d, d + 1} /\ n + 2 \notin {d, d + 1} /\ n > d /\ n + 1 \in Nat /\ n + 2 \in Nat
    BY <1>3, <1>13
  <2>2. e[n + 1] = {} /\ e[n + 2] = {}
    BY <1>7, <2>1
  <2>3. ValidateCRC16(packet) <=> g[n] = s[n]
    BY <1>11, <1>12, <2>2
  <2>4. packet = frame => g[n] = s[n]
    <3> DEFINE U == {i \in 0 .. n : g[i] = s[i]}
    <3> SUFFICES ASSUME packet = frame PROVE g[n] = s[n]
      OBVIOUS
    <3>1. 0 \in U /\ 0 \in Int /\ n \in Int /\ n \in 0 .. n
      BY <1>3, <1>6
    <3>2. ASSUME NEW i \in 0 .. n - 1, i \in U PROVE i + 1 \in U
      <4>1. i + 1 \in 1 .. n /\ i + 1 \in 1 .. n + 2 /\ (i + 1) - 1 = i /\ i + 1 \in 0 .. n
        BY <1>3
      <4>2. g[i] = s[i] /\ packet[i + 1] = payload[i + 1]
        BY <1>4, <3>2, <4>1
      <4>3. g[i + 1] = Update(g[i], packet[i + 1]) /\ s[i + 1] = Update(s[i], payload[i + 1])
        BY <1>6, <4>1
      <4> QED BY <4>1, <4>2, <4>3
    <3> HIDE DEF U
    <3>3. 0 .. n \subseteq U
      BY ONLY <3>1, <3>2, IntervalInduction
    <3> QED BY <3>1, <3>3 DEF U
  <2> QED BY <1>10, <2>1, <2>3, <2>4 DEF frame
<1>14. \A x \in Bytes : Joined(Xor(lo, x), hi) = Xor(s[n], x)
  BY <1>12 DEF Xor, Joined, LowOf, HighOf, Bytes, Words, Bits
<1>15. CASE d = n
  <2>1. n + 2 \notin {d, d + 1} /\ n + 2 \in Nat
    BY <1>3, <1>15
  <2>2. e[n + 2] = {} /\ g[n] = Xor(s[n], Shift8(e[d]))
    BY <1>7, <1>10, <1>15, <2>1
  <2>3. ValidateCRC16(packet) <=> Xor(s[n], Shift8(e[d])) = Xor(s[n], e[d + 1])
    BY <1>11, <1>12, <1>14, <1>15, <2>2
  <2>4. Xor(s[n], Shift8(e[d])) = Xor(s[n], e[d + 1]) <=> Shift8(e[d]) = e[d + 1]
    BY DEF Xor
  <2>5. Shift8(e[d]) = e[d + 1] <=> e[d] = {} /\ e[d + 1] = {}
    <3>1. {} \in Words /\ LowOf({}) = {} /\ HighOf({}) = {}
      BY DEF Words, LowOf, HighOf
    <3> QED BY <1>12, <3>1, DamageStays, Shift8High
  <2> QED BY <1>8, <2>3, <2>4, <2>5 DEF frame
<1>16. CASE d > n
  <2>1. g[n] = s[n]
    BY <1>3, <1>10, <1>16
  <2>2. Xor(lo, e[n + 1]) \in Bytes /\ Xor(hi, e[n + 2]) \in Bytes
    BY <1>12, XorType
  <2>3. ValidateCRC16(packet) <=> Xor(lo, e[n + 1]) = lo /\ Xor(hi, e[n + 2]) = hi
    BY <1>11, <1>12, <2>1, <2>2, JoinedFacts
  <2>4. ValidateCRC16(packet) <=> e[n + 1] = {} /\ e[n + 2] = {}
    BY <2>3 DEF Xor
  <2>5. CASE d = n + 1
    BY <1>3, <1>8, <2>4, <2>5 DEF frame
  <2>6. CASE d = n + 2
    <3>1. n + 1 \notin {d, d + 1} /\ n + 1 \in Nat /\ d + 1 \notin 1 .. n + 2
      BY <1>3, <2>6
    <3>2. e[n + 1] = {}
      BY <1>7, <3>1
    <3>3. e[d + 1] = {}
      BY <1>3, <3>1 DEF e
    <3> QED BY <1>8, <2>4, <2>6, <3>2, <3>3 DEF frame
  <2> QED BY <1>3, <1>16, <2>5, <2>6
<1> QED BY <1>3, <1>13, <1>15, <1>16

\* Frames that share a packet are all lost: whatever the second one contains, the
\* packet's checksum is not right (crc16.go:32-40, serial.go:150-167).
THEOREM GluedFramesRefused ==
  ASSUME NEW first \in Seq(Bytes), NEW second \in Seq(Bytes)
  PROVE  ~ValidateCRC16(AppendCRC16(first) \o AppendCRC16(second))
<1> DEFINE m == Len(first)
           n == Len(second)
           frame1 == AppendCRC16(first)
           frame2 == AppendCRC16(second)
           packet == frame1 \o frame2
<1>1. PICK r : Run(r, first)
  BY RunExists
<1>2. PICK s : Run(s, second)
  BY RunExists
<1>3. /\ m \in Nat /\ n \in Nat
      /\ frame1 \in Seq(Bytes) /\ Len(frame1) = m + 2 /\ \A i \in 1 .. m : frame1[i] = first[i]
      /\ frame1[m + 1] = LowOf(r[m]) /\ frame1[m + 2] = HighOf(r[m]) /\ r[m] \in Words
      /\ frame2 \in Seq(Bytes) /\ Len(frame2) = n + 2 /\ \A i \in 1 .. n : frame2[i] = second[i]
      /\ frame2[n + 1] = LowOf(s[n]) /\ frame2[n + 2] = HighOf(s[n]) /\ s[n] \in Words
  <2>1. m \in Nat /\ n \in Nat
    OBVIOUS
  <2>2. /\ frame1 \in Seq(Bytes) /\ Len(frame1) = m + 2 /\ \A i \in 1 .. m : frame1[i] = first[i]
        /\ frame1[m + 1] = LowOf(r[m]) /\ frame1[m + 2] = HighOf(r[m]) /\ r[m] \in Words
    <3>1. m = Len(first) /\ Run(r, first) /\ frame1 = AppendCRC16(first)
      BY <1>1
    <3> HIDE DEF m, n, frame1, frame2
    <3> QED BY ONLY <3>1, first \in Seq(Bytes), AppendedCRC
  <2>3. /\ frame2 \in Seq(Bytes) /\ Len(frame2) = n + 2 /\ \A i \in 1 .. n : frame2[i] = second[i]
        /\ frame2[n + 1] = LowOf(s[n]) /\ frame2[n + 2] = HighOf(s[n]) /\ s[n] \in Words
    <3>1. n = Len(second) /\ Run(s, second) /\ frame2 = AppendCRC16(second)
      BY <1>2
    <3> HIDE DEF m, n, frame1, frame2
    <3> QED BY ONLY <3>1, second \in Seq(Bytes), AppendedCRC
  <2> QED BY ONLY <2>1, <2>2, <2>3
<1> HIDE DEF frame1, frame2
<1>4. packet \in Seq(Bytes) /\ Len(packet) = m + n + 4
  <2> HIDE DEF m, n
  <2>1. packet \in Seq(Bytes) /\ Len(packet) = Len(frame1) + Len(frame2)
    BY <1>3, ConcatProperties
  <2> QED BY <1>3, <2>1
<1>5. /\ \A i \in 1 .. m + 2 : packet[i] = frame1[i]
      /\ \A i \in 1 .. n + 2 : packet[m + 2 + i] = frame2[i]
  <2>1. frame1 \in Seq(Bytes) /\ frame2 \in Seq(Bytes)
    BY <1>3
  <2>2. \A i \in 1 .. Len(frame1) + Len(frame2) :
          packet[i] = IF i <= Len(frame1) THEN frame1[i] ELSE frame2[i - Len(frame1)]
    <3> HIDE DEF m, n
    <3> QED BY ONLY <2>1, ConcatProperties
  <2>3. m \in Nat /\ n \in Nat /\ Len(frame1) = m + 2 /\ Len(frame2) = n + 2
    BY <1>3
  <2> HIDE DEF m, n, packet
  <2>4. /\ \A i \in 1 .. m + 2 : i \in 1 .. (m + 2) + (n + 2) /\ i <= m + 2
        /\ \A i \in 1 .. n + 2 : /\ m + 2 + i \in 1 .. (m + 2) + (n + 2)
                                 /\ ~(m + 2 + i <= m + 2) /\ (m + 2 + i) - (m + 2) = i
    BY <2>3
  <2> QED BY ONLY <2>2, <2>3, <2>4
<1>6. PICK g : Run(g, packet)
  BY <1>4, RunExists
<1>7. /\ g \in [0 .. m + n + 4 -> Words] /\ s \in [0 .. n -> Words] /\ s[0] = crc16Init
      /\ \A i \in 1 .. n : s[i] = Update(s[i - 1], second[i])
      /\ \A i \in 1 .. m + n + 4 : g[i] = Update(g[i - 1], packet[i])
      /\ \A i \in 1 .. n : second[i] \in Bytes
  BY <1>2, <1>4, <1>6 DEF Run
<1> HIDE DEF m, n, packet
<1>8. g[m + 2] = {}
  <2>1. /\ m \in 0 .. m + n + 4 /\ m + 1 \in 1 .. m + n + 4 /\ m + 2 \in 1 .. m + n + 4
        /\ (m + 1) - 1 = m /\ (m + 2) - 1 = m + 1 /\ m + 1 \in 1 .. m + 2 /\ m + 2 \in 1 .. m + 2
        /\ \A i \in 1 .. m : i \in 1 .. m + 2
    BY <1>3
  <2>2. g[m] = r[m]
    <3>1. CRC16Modbus(first) = g[m]
      <4>1. \A i \in 1 .. m : first[i] = packet[i]
        BY <1>3, <1>5, <2>1
      <4>2. m \in 0 .. Len(packet) /\ Len(first) = m /\ first \in Seq(Bytes)
        BY <1>4, <2>1 DEF m
      <4> QED BY ONLY <1>4, <1>6, <4>1, <4>2, RunOfBeginning
    <3>2. CRC16Modbus(first) = r[m]
      <4>1. m \in 0 .. Len(first) /\ Len(first) = m
        BY <1>3 DEF m
      <4> QED BY ONLY <1>1, <4>1, first \in Seq(Bytes), RunOfBeginning
    <3> QED BY <3>1, <3>2
  <2>3. g[m + 1] = Update(r[m], LowOf(r[m])) /\ g[m + 2] = Update(g[m + 1], HighOf(r[m]))
    <3>1. g[m + 1] = Update(g[m], packet[m + 1]) /\ g[m + 2] = Update(g[m + 1], packet[m + 2])
      BY ONLY <1>7, <2>1
    <3>2. packet[m + 1] = LowOf(r[m]) /\ packet[m + 2] = HighOf(r[m])
      BY ONLY <1>3, <1>5, <2>1
    <3> QED BY ONLY <2>2, <3>1, <3>2
  <2> QED BY <1>3, <2>3, FrameLeavesZero
<1> DEFINE T == {i \in 0 .. n : g[m + 2 + i] # s[i]}
<1>9. 0 \in T
  <2>1. m + 2 + 0 = m + 2 /\ 0 \in 0 .. n
    BY <1>3
  <2>2. crc16Init # {}
    BY DEF crc16Init, Bits
  <2> QED BY <1>7, <1>8, <2>1, <2>2
<1>10. ASSUME NEW i \in 0 .. n - 1, i \in T PROVE i + 1 \in T
  <2>1. /\ i + 1 \in 0 .. n /\ i + 1 \in 1 .. n /\ (i + 1) - 1 = i /\ i + 1 \in 1 .. n + 2 /\ i \in 0 .. n
        /\ m + 2 + (i + 1) \in 1 .. m + n + 4 /\ (m + 2 + (i + 1)) - 1 = m + 2 + i
        /\ m + 2 + i \in 0 .. m + n + 4
    BY <1>3
  <2>2. /\ s[i + 1] = Update(s[i], second[i + 1])
        /\ g[m + 2 + (i + 1)] = Update(g[m + 2 + i], second[i + 1])
    <3>1. s[i + 1] = Update(s[i], second[i + 1])
      BY ONLY <1>7, <2>1
    <3>2. g[m + 2 + (i + 1)] = Update(g[m + 2 + i], packet[m + 2 + (i + 1)])
      BY ONLY <1>7, <2>1
    <3>3. packet[m + 2 + (i + 1)] = second[i + 1]
      BY ONLY <1>3, <1>5, <2>1
    <3> QED BY ONLY <3>1, <3>2, <3>3
  <2>3. s[i] \in Words /\ g[m + 2 + i] \in Words /\ second[i + 1] \in Bytes
    BY <1>7, <2>1
  <2>4. g[m + 2 + i] # s[i]
    BY <1>10
  <2> HIDE DEF T
  <2>5. g[m + 2 + (i + 1)] # s[i + 1]
    BY <2>2, <2>3, <2>4, UpdateInjective
  <2> QED BY <2>1, <2>5 DEF T
<1>11. g[m + 2 + n] # s[n]
  <2>1. 0 \in Int /\ n \in Int /\ n \in 0 .. n
    BY <1>3
  <2> HIDE DEF T
  <2>2. 0 .. n \subseteq T
    BY ONLY <1>9, <1>10, <2>1, IntervalInduction
  <2> QED BY <2>1, <2>2 DEF T
<1>12. ValidateCRC16(packet) <=> g[m + 2 + n] = Joined(packet[m + 2 + (n + 1)], packet[m + 2 + (n + 2)])
  <2>1. /\ m + 2 + n \in Nat /\ m + 2 + n >= 2 /\ Len(packet) = (m + 2 + n) + 2
        /\ (m + 2 + n) + 1 = m + 2 + (n + 1) /\ (m + 2 + n) + 2 = m + 2 + (n + 2)
    BY <1>3, <1>4
  <2>2. ValidateCRC16(packet) <=> g[m + 2 + n] = Joined(packet[(m + 2 + n) + 1], packet[(m + 2 + n) + 2])
    BY ONLY <1>4, <1>6, <2>1, ValidExactly
  <2> QED BY <2>1, <2>2
<1>13. packet[m + 2 + (n + 1)] = LowOf(s[n]) /\ packet[m + 2 + (n + 2)] = HighOf(s[n])
  <2>1. n + 1 \in 1 .. n + 2 /\ n + 2 \in 1 .. n + 2
    BY <1>3
  <2> QED BY <1>3, <1>5, <2>1
<1> QED BY <1>3, <1>11, <1>12, <1>13, JoinedFacts DEF packet, frame1, frame2
-----------------------------------------------------------------------------
\* What leaves the decoder was sent.

\* A frame with a correct checksum is what AppendCRC16 makes of its payload.
LEMMA ValidIsAppended ==
  ASSUME NEW data \in Seq(Bytes), ValidateCRC16(data)
  PROVE  \E payload \in Seq(Bytes) : /\ Len(payload) >= 2 /\ Len(data) = Len(payload) + 2
                                     /\ data = AppendCRC16(payload)
<1> DEFINE n == Len(data) - 2
           payload == SubSeq(data, 1, n)
<1>1. n \in Nat /\ n >= 2 /\ Len(data) = n + 2 /\ n + 1 \in 1 .. Len(data) /\ n + 2 \in 1 .. Len(data)
  BY DEF ValidateCRC16
<1>2. payload \in Seq(Bytes) /\ Len(payload) = n /\ \A i \in 1 .. n : payload[i] = data[i]
  BY <1>1
<1>3. CRC16Modbus(payload) = Joined(data[n + 1], data[n + 2])
  BY DEF ValidateCRC16
<1> HIDE DEF n, payload
<1>4. PICK s : Run(s, payload) /\ CRC16Modbus(payload) = s[Len(payload)]
  BY <1>2, RunExists
<1>5. /\ AppendCRC16(payload) \in Seq(Bytes) /\ Len(AppendCRC16(payload)) = n + 2
      /\ \A i \in 1 .. n : AppendCRC16(payload)[i] = payload[i]
      /\ AppendCRC16(payload)[n + 1] = LowOf(s[n]) /\ AppendCRC16(payload)[n + 2] = HighOf(s[n])
      /\ s[n] \in Words
  BY <1>2, <1>4, AppendedCRC
<1>6. data[n + 1] = LowOf(s[n]) /\ data[n + 2] = HighOf(s[n])
  <2>1. data[n + 1] \in Bytes /\ data[n + 2] \in Bytes
    BY <1>1
  <2>2. Joined(data[n + 1], data[n + 2]) = Joined(LowOf(s[n]), HighOf(s[n]))
    BY <1>2, <1>3, <1>4, <1>5, JoinedFacts
  <2>3. LowOf(s[n]) \in Bytes /\ HighOf(s[n]) \in Bytes
    BY <1>5, XorType
  <2> QED BY <2>1, <2>2, <2>3, JoinedFacts
<1>7. data = AppendCRC16(payload)
  <2>1. \A i \in 1 .. n + 2 : i \in 1 .. n \/ i = n + 1 \/ i = n + 2
    BY <1>1
  <2>2. \A i \in 1 .. Len(data) : data[i] = AppendCRC16(payload)[i]
    BY <1>1, <1>2, <1>5, <1>6, <2>1
  <2> QED BY <1>1, <1>5, <2>2, SeqEqual
<1> QED BY <1>1, <1>2, <1>7

\* Noise has damaged no frame in more than one byte or two neighbouring ones.
LightlyDamaged ==
  \A k \in DOMAIN Wire : \E d \in DOMAIN Wire[k] : \A i \in DOMAIN Wire[k] \ {d, d + 1} :
    Position(k - 1) + i <= Len(sent) => sent[Position(k - 1) + i] = Wire[k][i]

\* What the decoder accepts of such frames is undamaged.
LEMMA AcceptedIsFrame ==
  ASSUME SoundWire, LightlyDamaged, Stored, NEW k \in DOMAIN Wire,
         NEW data \in Seq(Bytes), Arrived(k, data), ValidateCRC16(data)
  PROVE  data = Wire[k]
<1> DEFINE a == Position(k - 1)
           n == Len(Wire[k])
<1>1. /\ a \in Nat /\ n \in Nat /\ Position(k) = a + n /\ DOMAIN Wire[k] = 1 .. n /\ Wire[k] \in Seq(Bytes)
  BY FrameOnWire
<1>2. Len(data) = n /\ a + n <= Len(sent) /\ \A i \in 1 .. n : data[i] = sent[a + i]
  BY <1>1 DEF Arrived
<1>3. Len(sent) \in Nat
  BY DEF Stored
<1>4. PICK d \in 1 .. n : \A i \in 1 .. n \ {d, d + 1} : a + i <= Len(sent) => sent[a + i] = Wire[k][i]
  BY <1>1 DEF LightlyDamaged
<1>5. PICK payload \in Seq(Bytes) : /\ Len(payload) >= 2 /\ Len(Wire[k]) = Len(payload) + 2
                                    /\ Wire[k] = AppendCRC16(payload)
  BY <1>1, ValidIsAppended DEF SoundWire
<1>6. \A i \in 1 .. n : a + i <= Len(sent)
  <2> HIDE DEF a, n
  <2> QED BY <1>1, <1>2, <1>3
<1>7. \A i \in 1 .. Len(data) : i \notin {d, d + 1} => data[i] = AppendCRC16(payload)[i]
  BY <1>2, <1>4, <1>5, <1>6
<1>8. d \in 1 .. Len(data) /\ Len(data) = Len(payload) + 2
  BY <1>2, <1>5
<1> HIDE DEF a, n
<1> QED BY <1>5, <1>7, <1>8, NoiseIsFiltered

Faithful == InTime /\ LightlyDamaged => IntegrityKept

LEMMA NextFaithful ==
  ASSUME SoundWire, Core, Framed, Faithful, [IngestNext]_allVars
  PROVE  Faithful'
<1> SUFFICES ASSUME InTime', LightlyDamaged' PROVE decoded' \subseteq SentData
  BY DEF Faithful, IntegrityKept, SentData
<1>1. InTime /\ Stored /\ Counted /\ Phased
  BY InTimeBefore DEF Core
<1>2. LightlyDamaged
  <2> SUFFICES ASSUME NEW k \in DOMAIN Wire
               PROVE  \E d \in DOMAIN Wire[k] : \A i \in DOMAIN Wire[k] \ {d, d + 1} :
                        Position(k - 1) + i <= Len(sent) => sent[Position(k - 1) + i] = Wire[k][i]
    BY DEF LightlyDamaged
  <2> DEFINE a == Position(k - 1)
  <2>1. a \in Nat /\ DOMAIN Wire[k] = 1 .. Len(Wire[k]) /\ Len(Wire[k]) \in Nat
    BY FrameOnWire
  <2>2. /\ Len(sent) <= Len(sent') /\ Len(sent) \in Nat /\ Len(sent') \in Nat
        /\ \A i \in 1 .. Len(sent) : sent'[i] = sent[i]
    BY <1>1, SentGrows
  <2>3. PICK d \in DOMAIN Wire[k] : \A i \in DOMAIN Wire[k] \ {d, d + 1} :
                                      a + i <= Len(sent') => sent'[a + i] = Wire[k][i]
    BY DEF LightlyDamaged
  <2> HIDE DEF a
  <2>4. ASSUME NEW i \in DOMAIN Wire[k] \ {d, d + 1}, a + i <= Len(sent) PROVE sent[a + i] = Wire[k][i]
    <3>1. a + i \in 1 .. Len(sent) /\ a + i <= Len(sent')
      BY <2>1, <2>2, <2>4
    <3> QED BY <2>2, <2>3, <3>1
  <2> QED BY <2>4 DEF a
<1>3. decoded \subseteq SentData
  BY <1>1, <1>2 DEF Faithful, IntegrityKept
<1>4. CASE decoderWorker
  <2>1. PICK k \in DOMAIN Wire : Arrived(k, Head(rawData))
    BY <1>1, <1>4, WorkerGetsFrame
  <2>2. Head(rawData) \in Seq(Bytes)
    BY <1>1, <1>4, WorkerGetsFrame
  <2>3. decoded' = IF Extractable(Head(rawData)) THEN decoded \cup {SensorData(Head(rawData))} ELSE decoded
    BY <1>4 DEF decoderWorker, Decode
  <2>4. ASSUME Extractable(Head(rawData)) PROVE SensorData(Head(rawData)) \in SentData
    <3>1. ValidateCRC16(Head(rawData))
      BY <2>4 DEF Extractable, Frame
    <3>2. Head(rawData) = Wire[k]
      BY <1>1, <1>2, <2>1, <2>2, <3>1, AcceptedIsFrame
    <3> QED BY <2>4, <3>2 DEF SentData
  <2> QED BY <1>3, <2>3, <2>4
<1>5. CASE UNCHANGED decoded
  BY <1>3, <1>5
<1> QED BY <1>4, <1>5 DEF IngestNext, allVars, workerVars

\* For every wire of frames that carry their checksum and fit into one packet: as long as
\* nothing is late, whatever noise does to single bytes or to two neighbouring ones of
\* any number of frames, a datum that leaves the decoder was sent (serial.go:98-178,
\* decoder.go:54-109, crc16.go:24-45).
THEOREM TimelyDataIsSent ==
  ASSUME FramesFit, SoundWire
  PROVE  Spec => [](InTime /\ LightlyDamaged => IntegrityKept)
<1>1. IngestInit => Core /\ Frames /\ Framed /\ Faithful
  <2>1. IngestInit => Faithful
    BY DEF IngestInit, Faithful, IntegrityKept
  <2> QED BY <2>1, InitCore, InitFrames, InitFramed
<1>2. Core /\ Frames /\ Framed /\ Faithful /\ [IngestNext]_allVars
        => Core' /\ Frames' /\ Framed' /\ Faithful'
  BY NextCore, NextFrames, NextFramed, NextFaithful
<1>3. Faithful => (InTime /\ LightlyDamaged => IntegrityKept)
  BY DEF Faithful
<1> QED BY <1>1, <1>2, <1>3, PTL DEF Spec

-----------------------------------------------------------------------------
\* No frame is lost.

\* What was put into the channel is still there, or the worker has decoded it.
Handled ==
  \A j \in DOMAIN dispatched : dispatched[j].fate = "sent" =>
    \/ \E m \in DOMAIN rawData : rawData[m] = dispatched[j].data
    \/ Extractable(dispatched[j].data) => SensorData(dispatched[j].data) \in decoded

LEMMA NextHandled ==
  ASSUME Core, Handled, [IngestNext]_allVars
  PROVE  Handled'
<1>1. Stored /\ Phased
  BY DEF Core
<1>2. /\ dispatched \in Seq(Packet) /\ rawData \in Seq(Seq(Bytes)) /\ frameBuffer \in Seq(Bytes)
      /\ Len(rawData) \in Nat /\ DOMAIN rawData = 1 .. Len(rawData)
      /\ Len(dispatched) \in Nat /\ DOMAIN dispatched = 1 .. Len(dispatched)
  BY <1>1 DEF Stored
<1>3. CASE decoderWorker
  <2>1. rawData # <<>> /\ rawData' = Tail(rawData) /\ UNCHANGED dispatched
    BY <1>3 DEF decoderWorker, Receive
  <2>2. decoded' = IF Extractable(Head(rawData)) THEN decoded \cup {SensorData(Head(rawData))} ELSE decoded
    BY <1>3 DEF decoderWorker, Decode
  <2>3. /\ Head(rawData) = rawData[1]
        /\ \A m \in DOMAIN rawData : m # 1 => m - 1 \in DOMAIN rawData' /\ rawData'[m - 1] = rawData[m]
    BY <1>2, <2>1, HeadTailProperties
  <2>4. ASSUME NEW data, (\E m \in DOMAIN rawData : rawData[m] = data) \/ (Extractable(data) => SensorData(data) \in decoded)
        PROVE  (\E m \in DOMAIN rawData' : rawData'[m] = data) \/ (Extractable(data) => SensorData(data) \in decoded')
    <3>1. CASE Extractable(data) => SensorData(data) \in decoded
      BY <2>2, <3>1
    <3>2. CASE \E m \in DOMAIN rawData : rawData[m] = data
      BY <2>2, <2>3, <3>2
    <3> QED BY <2>4, <3>1, <3>2
  <2> QED BY <2>1, <2>4 DEF Handled
<1>4. CASE Hands(frameBuffer) /\ UNCHANGED decoded
  <2>1. PICK fate : /\ dispatched' = Append(dispatched, [data |-> frameBuffer, fate |-> fate])
                    /\ \/ rawData' = rawData /\ fate # "sent"
                       \/ rawData' = Append(rawData, frameBuffer)
    BY <1>4 DEF Hands
  <2>2. /\ DOMAIN dispatched' = 1 .. Len(dispatched) + 1
        /\ \A i \in DOMAIN dispatched : dispatched'[i] = dispatched[i]
        /\ dispatched'[Len(dispatched) + 1] = [data |-> frameBuffer, fate |-> fate]
    BY <1>2, <2>1
  <2>3. /\ \A m \in DOMAIN rawData : m \in DOMAIN rawData' /\ rawData'[m] = rawData[m]
        /\ fate = "sent" => \E m \in DOMAIN rawData' : rawData'[m] = frameBuffer
    <3>1. CASE rawData' = rawData /\ fate # "sent"
      BY <3>1
    <3>2. CASE rawData' = Append(rawData, frameBuffer)
      <4>1. /\ DOMAIN rawData' = 1 .. Len(rawData) + 1 /\ rawData'[Len(rawData) + 1] = frameBuffer
            /\ \A m \in 1 .. Len(rawData) : rawData'[m] = rawData[m]
        BY <1>2, <3>2
      <4>2. Len(rawData) + 1 \in DOMAIN rawData' /\ \A m \in DOMAIN rawData : m \in DOMAIN rawData'
        BY <1>2, <4>1
      <4> QED BY <1>2, <4>1, <4>2
    <3> QED BY <2>1, <3>1, <3>2
  <2>4. ASSUME NEW j \in DOMAIN dispatched', dispatched'[j].fate = "sent"
        PROVE  \/ \E m \in DOMAIN rawData' : rawData'[m] = dispatched'[j].data
               \/ Extractable(dispatched'[j].data) => SensorData(dispatched'[j].data) \in decoded'
    <3>1. CASE j \in DOMAIN dispatched
      <4>1. dispatched'[j] = dispatched[j] /\ decoded' = decoded
        BY <1>4, <2>2, <3>1
      <4> QED BY <2>3, <2>4, <3>1, <4>1 DEF Handled
    <3>2. CASE j = Len(dispatched) + 1
      <4>1. dispatched'[j].data = frameBuffer /\ dispatched'[j].fate = fate
        BY <2>2, <3>2
      <4> QED BY <2>3, <2>4, <4>1
    <3> QED BY <1>2, <2>2, <3>1, <3>2
  <2> QED BY <2>4 DEF Handled
<1>5. CASE UNCHANGED <<dispatched, rawData, decoded>>
  BY <1>5 DEF Handled
<1>6. decoderWorker \/ (UNCHANGED decoded /\ (Hands(frameBuffer) \/ UNCHANGED <<dispatched, rawData>>))
  <2>1. CASE UNCHANGED allVars
    BY <2>1 DEF allVars, vars, chanVars, workerVars
  <2>2. CASE GatewayNext /\ UNCHANGED workerVars
    <3>1. UNCHANGED decoded
      BY <2>2 DEF workerVars
    <3>2. Transmit => UNCHANGED <<dispatched, rawData>>
      BY DEF Transmit, Arrive, chanVars
    <3>3. readLoop => Hands(frameBuffer) \/ UNCHANGED <<dispatched, rawData>>
      BY <1>1, LoopMoves DEF Rests, Reads, Cuts, Joins, Restarts
    <3>4. Start \/ Silence \/ StopClearRunning \/ StopGoesOn => UNCHANGED <<dispatched, rawData>>
      BY OthersRest DEF Rests
    <3> QED BY <2>2, <3>1, <3>2, <3>3, <3>4 DEF GatewayNext
  <2> QED BY <2>1, <2>2 DEF IngestNext
<1> QED BY <1>3, <1>4, <1>5, <1>6

LEMMA InitHandled == IngestInit => Handled
<1> SUFFICES ASSUME IngestInit PROVE DOMAIN dispatched = {}
  BY DEF Handled
<1> QED BY DEF IngestInit, Init

\* Until a byte is late or Stop is called, the packets are the frames that were sent, none
\* left out and in their order, each with the bytes that arrived of it (serial.go:98-178).
THEOREM PacketsAreTheFrames ==
  ASSUME FramesFit
  PROVE  Spec => [](InTime => /\ Len(dispatched) <= Len(Wire)
                              /\ \A j \in DOMAIN dispatched : Arrived(j, dispatched[j].data))
<1>1. IngestInit => Core /\ Frames /\ Framed
  BY InitCore, InitFrames, InitFramed
<1>2. Core /\ Frames /\ Framed /\ [IngestNext]_allVars => Core' /\ Frames' /\ Framed'
  BY NextCore, NextFrames, NextFramed
<1>3. Framed => (InTime => /\ Len(dispatched) <= Len(Wire)
                           /\ \A j \in DOMAIN dispatched : Arrived(j, dispatched[j].data))
  BY DEF Framed
<1> QED BY <1>1, <1>2, <1>3, PTL DEF Spec

\* A packet that the channel took is decoded unless it still waits there, whatever is
\* late, damaged or stopped (pipeline.go:110-160, serial.go:181-198).
THEOREM SentPacketsAreHandled == Spec => []Handled
<1>1. IngestInit => Core /\ Handled
  BY InitCore, InitHandled
<1>2. Core /\ Handled /\ [IngestNext]_allVars => Core' /\ Handled'
  BY NextCore, NextHandled
<1> QED BY <1>1, <1>2, PTL DEF Spec

\* Nothing of what was sent is still on its way.
AllThrough ==
  Len(sent) = Len(Bytestream) /\ line = <<>> /\ buffer = <<>> /\ frameBuffer = <<>> /\ rawData = <<>>

\* When all has come through, each frame has been cut off and decoded.
LEMMA AllDecoded ==
  ASSUME FramesFit, Core, Framed, Undamaged, Handled, Faithful, Undisturbed, AllThrough
  PROVE  decoded = SentData
<1>1. InTime /\ noise = 0 /\ \A i \in DOMAIN dispatched : dispatched[i].fate = "sent"
  BY DEF Undisturbed, InTime, Core, Phased
<1>2. Stored /\ Conserved /\ Clean
  BY <1>1 DEF Core, Undamaged
<1>3. /\ Len(dispatched) \in Nat /\ DOMAIN dispatched = 1 .. Len(dispatched)
      /\ Len(Wire) \in Nat /\ DOMAIN Wire = 1 .. Len(Wire)
  BY <1>2, PacketsTyped, WireFacts
<1>4. /\ Len(dispatched) <= Len(Wire) /\ Cut = Position(Len(dispatched))
      /\ \A j \in DOMAIN dispatched : Arrived(j, dispatched[j].data)
  BY <1>1 DEF Framed
<1>5. Cut = Len(Bytestream)
  <2>1. /\ Len(sent) = Cut + Len(frameBuffer) + Len(buffer) + Len(line)
        /\ Cut \in Nat /\ Len(frameBuffer) = 0 /\ Len(buffer) = 0 /\ Len(line) = 0
    BY <1>2, Positions DEF AllThrough
  <2> QED BY <2>1 DEF AllThrough
<1>6. Len(dispatched) = Len(Wire)
  <2> DEFINE n == Len(Wire)
             d == Len(dispatched)
  <2>1. n \in Nat /\ d \in Nat /\ d <= n
    BY <1>3, <1>4
  <2>2. Position(d) = Position(n) /\ Position(n) \in Nat
    BY <1>4, <1>5, WireFacts
  <2> HIDE DEF n, d
  <2>3. d \in 0 .. n /\ n \in 0 .. n /\ ~(Position(d) < Position(n))
    BY <2>1, <2>2
  <2>4. ~(d < n)
    BY <2>3, PositionsDiffer DEF n
  <2> QED BY <2>1, <2>4 DEF n, d
<1>7. ASSUME NEW j \in DOMAIN Wire, Extractable(Wire[j]) PROVE SensorData(Wire[j]) \in decoded
  <2>1. j \in DOMAIN dispatched
    BY <1>3, <1>6
  <2>2. PICK p \in Packet : p = dispatched[j]
    BY <1>2, <1>3, <2>1 DEF Stored
  <2>3. p.data \in Seq(Bytes) /\ Arrived(j, p.data) /\ p.fate = "sent"
    BY <1>1, <1>4, <2>1, <2>2 DEF Packet
  <2>4. p.data = Wire[j]
    BY <1>2, <2>3, ArrivedIsFrame
  <2>5. DOMAIN rawData = {}
    BY DEF AllThrough
  <2> QED BY <1>7, <2>1, <2>2, <2>3, <2>4, <2>5 DEF Handled
<1>8. decoded \subseteq SentData
  <2>1. ASSUME NEW k \in DOMAIN Wire
        PROVE  \E d \in DOMAIN Wire[k] : \A i \in DOMAIN Wire[k] \ {d, d + 1} :
                 Position(k - 1) + i <= Len(sent) => sent[Position(k - 1) + i] = Wire[k][i]
    <3> DEFINE a == Position(k - 1)
               n == Len(Wire[k])
    <3>1. /\ a \in Nat /\ n \in Nat /\ DOMAIN Wire[k] = 1 .. n /\ Len(sent) \in Nat
          /\ \A i \in 1 .. n : Wire[k][i] = Bytestream[a + i]
      BY <1>2, FrameOnWire DEF Stored
    <3>2. 1 \in 1 .. n
      BY <3>1, SerialAssumption DEF FramesFit
    <3> HIDE DEF a, n
    <3>3. \A i \in 1 .. n : a + i <= Len(sent) => a + i \in 1 .. Len(sent)
      BY <3>1
    <3>4. \A i \in 1 .. n : a + i <= Len(sent) => sent[a + i] = Wire[k][i]
      BY <1>2, <3>1, <3>3 DEF Clean
    <3> QED BY <3>1, <3>2, <3>4 DEF a
  <2>2. LightlyDamaged
    BY <2>1 DEF LightlyDamaged
  <2> QED BY <1>1, <2>2 DEF Faithful, IntegrityKept
<1>9. SentData \subseteq decoded
  BY <1>7 DEF SentData
<1> QED BY <1>8, <1>9

\* The safety half of EveryFrameDecoded: when all that was sent has come through an
\* undisturbed line and nothing was dropped, the data of all frames have left the decoder,
\* and no others; a frame is neither lost nor doubled between two cuts, whatever pieces the
\* reads return and whichever of them fail (serial.go:98-198, decoder.go:54-109).
THEOREM NoFrameIsLost ==
  ASSUME FramesFit, SoundWire
  PROVE  Spec => [](Undisturbed /\ AllThrough => decoded = SentData)
<1>1. IngestInit => Core /\ Frames /\ Framed /\ Undamaged /\ Handled /\ Faithful
  <2>1. IngestInit => Faithful
    BY DEF IngestInit, Faithful, IntegrityKept
  <2> QED BY <2>1, InitCore, InitFrames, InitFramed, InitUndamaged, InitHandled
<1>2. Core /\ Frames /\ Framed /\ Undamaged /\ Handled /\ Faithful /\ [IngestNext]_allVars
        => Core' /\ Frames' /\ Framed' /\ Undamaged' /\ Handled' /\ Faithful'
  BY NextCore, NextFrames, NextFramed, NextUndamaged, NextHandled, NextFaithful
<1>3. Core /\ Framed /\ Undamaged /\ Handled /\ Faithful => (Undisturbed /\ AllThrough => decoded = SentData)
  BY AllDecoded
<1> QED BY <1>1, <1>2, <1>3, PTL DEF Spec

-----------------------------------------------------------------------------
\* Integrity without regard to time.

\* The bytes at D, and no others, are damaged.
DamagedAt(D) ==
  /\ D \subseteq 1 .. Len(sent) /\ IsFiniteSet(D) /\ Cardinality(D) <= noise
  /\ \A i \in D : sent[i] \in Damaged[Bytestream[i]]
  /\ \A i \in 1 .. Len(sent) \ D : sent[i] = Bytestream[i]

\* A packet is a piece of what has arrived.
IsPiece(data) ==
  \E a \in Nat : a + Len(data) <= Len(sent) /\ \A i \in 1 .. Len(data) : data[i] = sent[a + i]

OnStream == \E D : DamagedAt(D)
Pieces   == \A j \in DOMAIN dispatched : IsPiece(dispatched[j].data)

\* What holds without regard to time.
Whole == OnStream /\ Pieces /\ IntegrityKept

\* Noise damages the bytes that arrive, and those once.
LEMMA NextOnStream ==
  ASSUME Core, OnStream, [IngestNext]_allVars
  PROVE  OnStream'
<1>1. Stored /\ Counted /\ Phased
  BY DEF Core
<1>2. PICK D : DamagedAt(D)
  BY DEF OnStream
<1> DEFINE s == Len(sent)
<1>3. sent \in Seq(Bytes) /\ s \in Nat /\ noise \in Nat
  BY <1>1, SerialAssumption DEF Stored, Counted
<1>4. CASE Transmit
  <2>1. PICK x \in Seq(Bytes) :
           /\ sent' = sent \o x /\ Len(sent') = Len(sent) + Len(x)
           /\ \/ noise' = noise /\ \A i \in 1 .. Len(x) : x[i] = Bytestream[Len(sent) + i]
              \/ /\ noise < MaxNoise /\ noise' = noise + 1
                 /\ \E d \in 1 .. Len(x) : /\ x[d] \in Damaged[Bytestream[Len(sent) + d]]
                                          /\ \A i \in 1 .. Len(x) \ {d} : x[i] = Bytestream[Len(sent) + i]
    BY <1>1, <1>4, TransmitFacts
  <2> DEFINE n == Len(x)
  <2>2. n \in Nat /\ Len(sent') = s + n
    BY <2>1
  <2>3. /\ \A i \in 1 .. s : sent'[i] = sent[i]
        /\ \A i \in 1 .. n : sent'[s + i] = x[i]
    <3>1. \A i \in 1 .. s + n : sent'[i] = IF i <= s THEN sent[i] ELSE x[i - s]
      BY <1>3, <2>1, ConcatProperties
    <3> HIDE DEF s, n
    <3>2. /\ \A i \in 1 .. s : i \in 1 .. s + n /\ i <= s
          /\ \A i \in 1 .. n : s + i \in 1 .. s + n /\ ~(s + i <= s) /\ (s + i) - s = i
      BY <1>3, <2>2
    <3> QED BY <3>1, <3>2
  <2>4. \A i \in 1 .. s + n : i \in 1 .. s \/ (i - s \in 1 .. n /\ s + (i - s) = i)
    BY <1>3, <2>2
  <2>5. D \subseteq 1 .. s /\ IsFiniteSet(D) /\ Cardinality(D) \in Nat /\ Cardinality(D) <= noise
    BY <1>2, FS_CardinalityType DEF DamagedAt
  <2>6. /\ \A i \in D : sent[i] \in Damaged[Bytestream[i]]
        /\ \A i \in 1 .. s : i \notin D => sent[i] = Bytestream[i]
    BY <1>2 DEF DamagedAt
  <2>7. 1 .. s \subseteq 1 .. s + n
    BY <1>3, <2>2
  <2> HIDE DEF s, n
  <2>8. CASE noise' = noise /\ \A i \in 1 .. n : x[i] = Bytestream[s + i]
    <3>1. \A i \in 1 .. s + n : i \notin D => sent'[i] = Bytestream[i]
      BY <2>3, <2>4, <2>6, <2>8
    <3>2. \A i \in D : sent'[i] \in Damaged[Bytestream[i]]
      BY <2>3, <2>5, <2>6
    <3>3. DamagedAt(D)'
      BY <2>2, <2>5, <2>7, <2>8, <3>1, <3>2 DEF DamagedAt
    <3> QED BY <3>3 DEF OnStream
  <2>9. ASSUME noise' = noise + 1, NEW d \in 1 .. n, x[d] \in Damaged[Bytestream[s + d]],
               \A i \in 1 .. n \ {d} : x[i] = Bytestream[s + i]
        PROVE  OnStream'
    <3> DEFINE E == D \cup {s + d}
    <3>1. s + d \in 1 .. s + n /\ s + d \notin 1 .. s
      BY <1>3, <2>2
    <3>2. E \subseteq 1 .. s + n /\ IsFiniteSet(E) /\ Cardinality(E) <= noise + 1
      <4>1. IsFiniteSet(E) /\ Cardinality(E) = Cardinality(D) + 1
        BY <2>5, <3>1, FS_AddElement
      <4> QED BY <1>3, <2>5, <2>7, <3>1, <4>1
    <3>3. \A i \in E : sent'[i] \in Damaged[Bytestream[i]]
      BY <2>3, <2>5, <2>6, <2>9
    <3>4. \A i \in 1 .. s + n : i \notin E => sent'[i] = Bytestream[i]
      BY <2>3, <2>4, <2>6, <2>9
    <3> HIDE DEF E
    <3>5. \A i \in (1 .. s + n) \ E : sent'[i] = Bytestream[i]
      BY <3>4
    <3>6. Cardinality(E) <= noise' /\ 1 .. Len(sent') = 1 .. s + n
      BY <2>2, <2>9, <3>2
    <3>7. PICK F : F = E
      OBVIOUS
    <3>8. DamagedAt(F)'
      BY <3>2, <3>3, <3>5, <3>6, <3>7 DEF DamagedAt
    <3> QED BY <3>8 DEF OnStream
  <2> QED BY <2>1, <2>8, <2>9 DEF n, s
<1>5. CASE UNCHANGED <<sent, noise>>
  <2>1. DamagedAt(D)'
    BY <1>2, <1>5 DEF DamagedAt
  <2> QED BY <2>1 DEF OnStream
<1>6. Transmit \/ UNCHANGED <<sent, noise>>
  <2>1. Transmit \/ UNCHANGED sent
    BY <1>1, AllMoves DEF Rests, Drains, Reads, Cuts, Joins, Restarts
  <2>2. Transmit \/ UNCHANGED noise
    BY WhoChanges
  <2> QED BY <2>1, <2>2
<1> QED BY <1>4, <1>5, <1>6

LEMMA NextPieces ==
  ASSUME Core, Pieces, [IngestNext]_allVars
  PROVE  Pieces'
<1>1. Stored /\ Counted /\ Phased
  BY DEF Core
<1>2. /\ \A i \in 1 .. Len(sent) : sent'[i] = sent[i]
      /\ Len(sent) <= Len(sent') /\ Len(sent) \in Nat /\ Len(sent') \in Nat
  BY <1>1, SentGrows
<1>3. ASSUME NEW data \in Seq(Bytes), IsPiece(data) PROVE IsPiece(data)'
  <2> DEFINE n == Len(data)
  <2>1. n \in Nat
    OBVIOUS
  <2>2. PICK a \in Nat : a + n <= Len(sent) /\ \A i \in 1 .. n : data[i] = sent[a + i]
    BY <1>3 DEF IsPiece
  <2>3. a + n <= Len(sent') /\ \A i \in 1 .. n : a + i \in 1 .. Len(sent)
    <3> HIDE DEF n
    <3> QED BY <1>2, <2>1, <2>2
  <2>4. \A i \in 1 .. n : data[i] = sent'[a + i]
    BY <1>2, <2>2, <2>3
  <2> QED BY <2>3, <2>4 DEF IsPiece
<1>4. /\ dispatched \in Seq(Packet) /\ DOMAIN dispatched = 1 .. Len(dispatched) /\ Len(dispatched) \in Nat
      /\ \A i \in DOMAIN dispatched : dispatched[i].data \in Seq(Bytes)
  <2>1. dispatched \in Seq(Packet)
    BY <1>1 DEF Stored
  <2>2. \A p \in Packet : p.data \in Seq(Bytes)
    BY DEF Packet
  <2> QED BY <2>1, <2>2
<1>5. CASE UNCHANGED dispatched
  BY <1>3, <1>4, <1>5 DEF Pieces, IsPiece
<1>6. CASE Cutting
  <2>1. PICK fate : dispatched' = Append(dispatched, [data |-> frameBuffer, fate |-> fate])
    BY <1>6 DEF Cutting, Hands
  <2>2. /\ DOMAIN dispatched' = 1 .. Len(dispatched) + 1 /\ frameBuffer \in Seq(Bytes)
        /\ \A i \in DOMAIN dispatched : dispatched'[i] = dispatched[i]
        /\ dispatched'[Len(dispatched) + 1].data = frameBuffer
    BY <1>1, <2>1, PacketTaken DEF Stored
  <2>3. IsPiece(frameBuffer)
    BY CutIsPiece DEF IsPiece
  <2>4. ASSUME NEW j \in DOMAIN dispatched' PROVE \E data \in Seq(Bytes) : data = dispatched'[j].data /\ IsPiece(data)
    <3>1. j \in DOMAIN dispatched \/ j = Len(dispatched) + 1
      BY <1>4, <2>2
    <3> QED BY <1>4, <2>2, <2>3, <3>1 DEF Pieces
  <2>5. ASSUME NEW j \in DOMAIN dispatched' PROVE IsPiece(dispatched[j].data)'
    <3>1. PICK data \in Seq(Bytes) : data = dispatched'[j].data /\ IsPiece(data)
      BY <2>4
    <3>2. IsPiece(data)'
      BY <1>3, <3>1
    <3> QED BY <3>1, <3>2 DEF IsPiece
  <2> QED BY <2>5 DEF Pieces
<1> QED BY <1>1, <1>5, <1>6, CutsOrKeeps

\* What has arrived is the beginning of a stream that noise may make.
LEMMA SentIsReceived ==
  ASSUME Core, OnStream
  PROVE  \E stream \in Received : /\ DOMAIN stream = 1 .. Len(Bytestream)
                                  /\ \A i \in 1 .. Len(sent) : stream[i] = sent[i]
<1>1. PICK D : DamagedAt(D)
  BY DEF OnStream
<1> DEFINE f == [i \in D |-> sent[i]]
           stream == [i \in DOMAIN Bytestream |-> IF i \in D THEN f[i] ELSE Bytestream[i]]
<1>2. /\ DOMAIN Bytestream = 1 .. Len(Bytestream) /\ Len(sent) \in Nat /\ Len(Bytestream) \in Nat
      /\ Len(sent) <= Len(Bytestream) /\ noise \in Nat /\ noise <= MaxNoise /\ MaxNoise \in Nat
  <2>1. Bytestream \in Seq(Bytes)
    BY WireFacts
  <2>2. sent \in Seq(Bytes) /\ Len(sent) <= Len(Bytestream) /\ noise \in 0 .. MaxNoise
    BY DEF Core, Stored, Counted
  <2>3. MaxNoise \in Nat
    BY SerialAssumption
  <2> QED BY <2>1, <2>2, <2>3
<1>3. 1 .. Len(sent) \subseteq DOMAIN Bytestream
  BY <1>2
<1>4. D \in SUBSET DOMAIN Bytestream /\ Cardinality(D) <= MaxNoise
  <2>1. IsFiniteSet(D) /\ Cardinality(D) \in Nat /\ Cardinality(D) <= noise
    BY <1>1, FS_CardinalityType DEF DamagedAt
  <2> QED BY <1>1, <1>2, <1>3, <2>1 DEF DamagedAt
<1>5. /\ f \in [D -> UNION {Damaged[Bytestream[i]] : i \in D}]
      /\ \A i \in D : f[i] \in Damaged[Bytestream[i]]
  BY <1>1 DEF DamagedAt
<1>6. stream \in Received
  <2> HIDE DEF f
  <2> QED BY <1>4, <1>5 DEF Received
<1>7. \A i \in 1 .. Len(sent) : stream[i] = sent[i]
  BY <1>1, <1>3 DEF DamagedAt
<1>8. DOMAIN stream = 1 .. Len(Bytestream)
  BY <1>2
<1> HIDE DEF stream
<1> QED BY <1>6, <1>7, <1>8

LEMMA PieceIsHarmless ==
  ASSUME CollisionFree, Core, OnStream, NEW data \in Seq(Bytes), IsPiece(data), Extractable(data)
  PROVE  SensorData(data) \in SentData
<1> DEFINE n == Len(data)
<1>1. n \in Nat \ {0}
  BY DecoderAssumption DEF Extractable, TooShort
<1>2. PICK a \in Nat : a + n <= Len(sent) /\ \A i \in 1 .. n : data[i] = sent[a + i]
  BY DEF IsPiece
<1>3. PICK stream \in Received : /\ DOMAIN stream = 1 .. Len(Bytestream)
                                 /\ \A i \in 1 .. Len(sent) : stream[i] = sent[i]
  BY SentIsReceived
<1>4. Len(sent) \in Nat /\ Len(Bytestream) \in Nat /\ Len(sent) <= Len(Bytestream)
  BY WireFacts DEF Core, Stored
<1> HIDE DEF n
<1>5. /\ a + 1 \in 1 .. Len(Bytestream) /\ a + n \in 1 .. Len(Bytestream)
      /\ \A i \in 1 .. n : a + i \in 1 .. Len(sent)
  BY <1>1, <1>2, <1>4
<1>6. SubSeq(stream, a + 1, a + n) = data
  <2>1. SubSeq(stream, a + 1, a + n) = [i \in 1 .. n |-> stream[a + i]]
    <3>1. (a + n) - (a + 1) + 1 = n /\ \A i \in 1 .. n : i + (a + 1) - 1 = a + i
      BY <1>1, <1>2
    <3>2. SubSeq(stream, a + 1, a + n) = [i \in 1 .. (a + n) - (a + 1) + 1 |-> stream[i + (a + 1) - 1]]
      BY <1>1, <1>2
    <3> QED BY <3>1, <3>2
  <2>2. \A i \in 1 .. n : stream[a + i] = data[i]
    BY <1>2, <1>3, <1>5
  <2>3. data = [i \in 1 .. n |-> data[i]]
    BY DEF n
  <2> QED BY <2>1, <2>2, <2>3
<1>7. Extractable(SubSeq(stream, a + 1, a + n)) => SensorData(SubSeq(stream, a + 1, a + n)) \in SentData
  BY <1>3, <1>5 DEF CollisionFree
<1> QED BY <1>6, <1>7

LEMMA NextWhole ==
  ASSUME CollisionFree, Core, Whole, [IngestNext]_allVars
  PROVE  Whole'
<1>1. OnStream' /\ Pieces'
  BY NextOnStream, NextPieces DEF Whole
<1>2. CASE decoderWorker
  <2> DEFINE data == Head(rawData)
  <2>1. rawData # <<>> /\ rawData \in Seq(Seq(Bytes)) /\ PassedOn
    BY <1>2 DEF decoderWorker, Receive, Core, Stored
  <2>2. 1 \in DOMAIN rawData /\ data = rawData[1] /\ data \in Seq(Bytes)
    BY <2>1
  <2>3. IsPiece(data)
    BY <2>1, <2>2 DEF PassedOn, Whole, Pieces
  <2>4. decoded' = IF Extractable(data) THEN decoded \cup {SensorData(data)} ELSE decoded
    BY <1>2 DEF decoderWorker, Decode
  <2> HIDE DEF data
  <2>5. Extractable(data) => SensorData(data) \in SentData
    BY <2>2, <2>3, PieceIsHarmless DEF Whole
  <2>6. IntegrityKept'
    BY <2>4, <2>5 DEF Whole, IntegrityKept
  <2> QED BY <1>1, <2>6 DEF Whole
<1>3. CASE UNCHANGED decoded
  BY <1>1, <1>3 DEF Whole, IntegrityKept
<1> QED BY <1>2, <1>3 DEF IngestNext, allVars, workerVars

LEMMA InitWhole == IngestInit => Whole
<1> SUFFICES ASSUME IngestInit PROVE Whole
  OBVIOUS
<1> USE DEF IngestInit, Init
<1>1. DamagedAt({})
  BY FS_EmptySet DEF DamagedAt
<1> QED BY <1>1 DEF Whole, OnStream, Pieces, IntegrityKept

\* Whatever is late, lost, dropped, cut or glued, and whenever Stop is called: what leaves
\* the decoder was sent, for every wire of which no piece passes for a frame that was
\* not sent.  So no order of the steps can make data, only the checksum can fail
\* (serial.go:98-178, decoder.go:54-165).
THEOREM IntegrityIsKept == ASSUME CollisionFree PROVE Spec => []IntegrityKept
<1>1. IngestInit => Core /\ Whole
  BY InitCore, InitWhole
<1>2. Core /\ Whole /\ [IngestNext]_allVars => Core' /\ Whole'
  BY NextCore, NextWhole
<1>3. Whole => IntegrityKept
  BY DEF Whole
<1> QED BY <1>1, <1>2, <1>3, PTL DEF Spec
=================================================================================
