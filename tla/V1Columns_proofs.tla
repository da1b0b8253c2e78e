--------------------------- MODULE V1Columns_proofs ---------------------------
(***************************************************************************)
(* What the v0.1.0 codecs compute: the bit packed streams, the words of a  *)
(* plain column, variable-length integers, and the typed writes and reads. *)
(***************************************************************************)
EXTENDS V1Columns, SequenceTheorems, FiniteSetTheorems, TLAPS

----------------------------------------------------------------------------
(* Induction over the natural numbers, for a set. *)

\* A set that has 0 and with each number the next one has them all.
LEMMA NatSetInduction ==
  ASSUME NEW T, 0 \in T, \A n \in Nat : n \in T => n + 1 \in T
  PROVE  Nat \subseteq T
<1> DEFINE less == {ss \in Nat \X Nat : ss[1] < ss[2]}
           B == Nat \ T
<1>1. SUFFICES ASSUME B # {} PROVE FALSE
  OBVIOUS
<1>2. IsWellFoundedOn(less, Nat) /\ B \subseteq Nat
  BY NatLessThanWellFounded DEF OpToRel
<1>3. PICK x \in B : \A y \in B : ~ (<<y, x>> \in less)
  <2> HIDE DEF less, B
  <2> QED
    BY <1>1, <1>2, WFMin
<1>4. x \in Nat /\ x # 0
  BY <1>3
<1>5. x - 1 \in Nat /\ x - 1 < x /\ (x - 1) + 1 = x
  BY <1>4
<1>6. x - 1 \in T
  BY <1>3, <1>5
<1> QED
  BY <1>3, <1>5, <1>6

----------------------------------------------------------------------------
(* BitPackEncoder and BitPackDecoder. *)

Block == [1 .. BlockSize -> Nat]
Encoder == [maxbits_ : Nat, inbuf_ : Seq(Nat), buf_ : Seq(Block)]

\* Values in k whole blocks.
Base(k) == k * BlockSize

\* The values of k blocks.
LEMMA BaseFacts ==
  /\ Base(0) = 0
  /\ \A k \in Nat : Base(k) \in Nat /\ Base(k + 1) = Base(k) + BlockSize
  /\ \A k, m \in Nat : k <= m => Base(k) <= Base(m)
<1>1. BlockSize \in Nat
  BY CodecAssumption
<1>2. \A k, m \in Nat : k <= m => k * BlockSize <= m * BlockSize
  <2> TAKE k, m \in Nat
  <2>1. k <= m => m * BlockSize = k * BlockSize + (m - k) * BlockSize
    BY <1>1
  <2>2. k <= m => (m - k) * BlockSize \in Nat
    BY <1>1
  <2>3. k * BlockSize \in Nat
    BY <1>1
  <2> QED
    BY <2>1, <2>2, <2>3
<1> QED
  BY <1>1, <1>2 DEF Base

\* The blocks bf and then the buffer in hold the sequence g.
Packs(in, bf, g) ==
  /\ Len(in) < BlockSize
  /\ Len(g) = Base(Len(bf)) + Len(in)
  /\ \A k \in 1 .. Len(bf) : \A j \in 1 .. BlockSize :
       bf[k][j] = g[Base(k - 1) + j]
  /\ \A j \in 1 .. Len(in) : in[j] = g[Base(Len(bf)) + j]

\* The blocks bf hold the sequence g, padded with zeros.
Pads(bf, g) ==
  /\ Len(g) <= Base(Len(bf))
  /\ \A k \in 1 .. Len(bf) : \A j \in 1 .. BlockSize :
       bf[k][j] = IF Base(k - 1) + j <= Len(g) THEN g[Base(k - 1) + j] ELSE 0

\* The encoder holds the sequence g before commit; a stream whose maximum is 0
\* holds nothing ...
Encodes(e, max, g) ==
  /\ e \in Encoder /\ e.maxbits_ = max
  /\ max = 0 => e.inbuf_ = <<>> /\ e.buf_ = <<>>
  /\ max # 0 => Packs(e.inbuf_, e.buf_, g)

\* ... and after it.
Flushed(e, max, g) ==
  /\ e \in Encoder /\ e.maxbits_ = max /\ e.inbuf_ = <<>>
  /\ max = 0 => e.buf_ = <<>>
  /\ max # 0 => Pads(e.buf_, g)

\* A new bit pack encoder has encoded nothing.
LEMMA EncoderStarts ==
  ASSUME NEW max \in Nat
  PROVE  Encodes(BitPackEncoder(max), max, <<>>)
<1>1. BitPackEncoder(max) = [maxbits_ |-> max, inbuf_ |-> <<>>, buf_ |-> <<>>]
  BY DEF BitPackEncoder
<1>2. BitPackEncoder(max) \in Encoder
  BY <1>1 DEF Encoder
<1>3. Len(<<>>) = 0 /\ BlockSize \in Nat \ {0} /\ Base(0) = 0
  BY CodecAssumption, BaseFacts
<1> QED
  BY <1>1, <1>2, <1>3 DEF Encodes, Packs

\* A value of the first b blocks.
LEMMA InBlocks ==
  ASSUME NEW b \in Nat, NEW k \in 1 .. b, NEW j \in 1 .. BlockSize
  PROVE  Base(k - 1) + j \in 1 .. Base(b)
<1>1. k - 1 \in Nat /\ (k - 1) + 1 = k /\ k \in Nat /\ k <= b
  OBVIOUS
<1>2. /\ Base(k - 1) \in Nat /\ Base(k) = Base(k - 1) + BlockSize
      /\ Base(k) <= Base(b) /\ Base(b) \in Nat /\ BlockSize \in Nat
  BY <1>1, BaseFacts, CodecAssumption
<1> QED
  BY <1>2

\* A sequence with one element more.
LEMMA AppendIs ==
  ASSUME NEW S, NEW s \in Seq(S), NEW v \in S
  PROVE  /\ Append(s, v) \in Seq(S)
         /\ Len(s) \in Nat
         /\ Len(Append(s, v)) = Len(s) + 1
         /\ \A j \in 1 .. Len(s) : Append(s, v)[j] = s[j]
         /\ Append(s, v)[Len(s) + 1] = v
         /\ Append(s, v) # <<>>
  OBVIOUS

\* One sequence behind another.
LEMMA ConcatIs ==
  ASSUME NEW S, NEW s \in Seq(S), NEW t \in Seq(S)
  PROVE  /\ s \o t \in Seq(S)
         /\ Len(s) \in Nat /\ Len(t) \in Nat
         /\ Len(s \o t) = Len(s) + Len(t)
         /\ \A i \in 1 .. Len(s) : (s \o t)[i] = s[i]
         /\ \A q \in 1 .. Len(t) : (s \o t)[Len(s) + q] = t[q]
<1>1. Len(s) \in Nat /\ Len(t) \in Nat
  BY LenProperties
<1>2. /\ s \o t \in Seq(S) /\ Len(s \o t) = Len(s) + Len(t)
      /\ \A i \in 1 .. (Len(s) + Len(t)) :
           (s \o t)[i] = IF i <= Len(s) THEN s[i] ELSE t[i - Len(s)]
  BY ConcatProperties
<1>3. ASSUME NEW i \in 1 .. Len(s) PROVE (s \o t)[i] = s[i]
  BY <1>1, <1>2
<1>4. ASSUME NEW q \in 1 .. Len(t) PROVE (s \o t)[Len(s) + q] = t[q]
  <2>1. /\ Len(s) + q \in 1 .. (Len(s) + Len(t))
        /\ ~ (Len(s) + q <= Len(s)) /\ (Len(s) + q) - Len(s) = q
    BY <1>1
  <2> QED
    BY <1>2, <2>1
<1> QED
  BY <1>1, <1>2, <1>3, <1>4

\* A part of something of length z.
LEMMA Within ==
  ASSUME NEW a \in Nat, NEW b \in Nat, NEW z \in Nat, NEW n \in Nat, b = a + n,
         b <= z, NEW q \in 1 .. n
  PROVE  a + q \in 1 .. z
  OBVIOUS

\* A value is buffered.
LEMMA PackOne ==
  ASSUME NEW in \in Seq(Nat), NEW bf \in Seq(Block), NEW g \in Seq(Nat),
         NEW v \in Nat, Packs(in, bf, g), Len(in) + 1 # BlockSize
  PROVE  Packs(Append(in, v), bf, Append(g, v))
<1>1. PICK h \in Seq(Nat) :
        /\ h = Append(g, v) /\ Len(h) = Len(g) + 1 /\ Len(g) \in Nat
        /\ \A j \in 1 .. Len(g) : h[j] = g[j]
        /\ h[Len(g) + 1] = v
  BY AppendIs, ZenonT(60)
<1>2. PICK m \in Seq(Nat) :
        /\ m = Append(in, v) /\ Len(m) = Len(in) + 1 /\ Len(in) \in Nat
        /\ \A j \in 1 .. Len(in) : m[j] = in[j]
        /\ m[Len(in) + 1] = v
  BY AppendIs, ZenonT(60)
<1>3. Len(bf) \in Nat /\ Base(Len(bf)) \in Nat /\ BlockSize \in Nat
  BY BaseFacts, CodecAssumption, LenProperties
<1>4. Len(m) < BlockSize /\ Len(h) = Base(Len(bf)) + Len(m)
  BY <1>1, <1>2, <1>3 DEF Packs
<1>5. ASSUME NEW k \in 1 .. Len(bf), NEW j \in 1 .. BlockSize
      PROVE  bf[k][j] = h[Base(k - 1) + j]
  <2>1. Base(k - 1) + j \in 1 .. Base(Len(bf))
    BY <1>3, InBlocks
  <2>2. Base(k - 1) + j \in 1 .. Len(g)
    BY <1>2, <1>3, <2>1 DEF Packs
  <2> QED
    BY <1>1, <2>2 DEF Packs
<1>6. ASSUME NEW j \in 1 .. Len(m)
      PROVE  m[j] = h[Base(Len(bf)) + j]
  <2>1. CASE j \in 1 .. Len(in)
    <3>1. Base(Len(bf)) + j \in 1 .. Len(g)
      BY <1>2, <1>3, <2>1, SMTT(60) DEF Packs
    <3> QED
      BY <1>1, <1>2, <2>1, <3>1 DEF Packs
  <2>2. CASE j = Len(in) + 1
    <3>1. Base(Len(bf)) + j = Len(g) + 1
      BY <1>2, <1>3, <2>2 DEF Packs
    <3> QED
      BY <1>1, <1>2, <2>2, <3>1
  <2>3. j \in 1 .. Len(in) \/ j = Len(in) + 1
    BY <1>2
  <2> QED
    BY <2>1, <2>2, <2>3
<1>7. Packs(m, bf, h)
  BY <1>4, <1>5, <1>6 DEF Packs
<1> QED
  BY <1>1, <1>2, <1>7

\* The block that a buffer is padded to.
Padded(in) == [i \in 1 .. BlockSize |-> IF i <= Len(in) THEN in[i] ELSE 0]

\* The padding is zeros.
LEMMA PaddedIs ==
  ASSUME NEW in \in Seq(Nat)
  PROVE  /\ Padded(in) \in Block
         /\ \A j \in 1 .. BlockSize :
              Padded(in)[j] = IF j <= Len(in) THEN in[j] ELSE 0
<1>1. \A i \in 1 .. BlockSize : i <= Len(in) => in[i] \in Nat
  BY CodecAssumption
<1> QED
  BY <1>1 DEF Padded, Block

\* The block of a partial buffer is padded, the one of a full buffer is not.
LEMMA PadOne ==
  ASSUME NEW in \in Seq(Nat), NEW bf \in Seq(Block), NEW g \in Seq(Nat),
         Packs(in, bf, g)
  PROVE  Pads(Append(bf, Padded(in)), g)
<1>1. PICK h \in Seq(Block) :
        /\ h = Append(bf, Padded(in)) /\ Len(h) = Len(bf) + 1
        /\ Len(bf) \in Nat
        /\ \A j \in 1 .. Len(bf) : h[j] = bf[j]
        /\ h[Len(bf) + 1] = Padded(in)
  BY AppendIs, PaddedIs, ZenonT(60)
<1>2. /\ Base(Len(bf)) \in Nat /\ BlockSize \in Nat /\ Len(in) \in Nat
      /\ Base(Len(bf) + 1) = Base(Len(bf)) + BlockSize /\ Len(g) \in Nat
  BY <1>1, BaseFacts, CodecAssumption, LenProperties
<1>3. Len(in) < BlockSize /\ Len(g) = Base(Len(bf)) + Len(in)
  BY DEF Packs
<1>4. Len(g) <= Base(Len(h))
  BY <1>1, <1>2, <1>3
<1>5. ASSUME NEW k \in 1 .. Len(h), NEW j \in 1 .. BlockSize
      PROVE  h[k][j] = IF Base(k - 1) + j <= Len(g)
                       THEN g[Base(k - 1) + j] ELSE 0
  <2>1. CASE k \in 1 .. Len(bf)
    <3>1. Base(k - 1) + j \in 1 .. Base(Len(bf))
      BY <1>1, <2>1, InBlocks
    <3>2. Base(k - 1) + j <= Len(g)
      BY <1>2, <1>3, <3>1
    <3>3. bf[k][j] = g[Base(k - 1) + j]
      BY <2>1 DEF Packs
    <3> QED
      BY <1>1, <2>1, <3>2, <3>3
  <2>2. CASE k = Len(bf) + 1
    <3>1. k - 1 = Len(bf) /\ h[k][j] = IF j <= Len(in) THEN in[j] ELSE 0
      BY <1>1, <2>2, PaddedIs
    <3>2. Base(k - 1) + j <= Len(g) <=> j <= Len(in)
      BY <1>2, <1>3, <3>1
    <3>3. ASSUME j <= Len(in) PROVE in[j] = g[Base(k - 1) + j]
      <4>1. j \in 1 .. Len(in)
        BY <1>2, <3>3
      <4> QED
        BY <3>1, <4>1 DEF Packs
    <3> QED
      BY <3>1, <3>2, <3>3
  <2> QED
    BY <1>1, <2>1, <2>2
<1>6. Pads(h, g)
  BY <1>4, <1>5 DEF Pads
<1> QED
  BY <1>1, <1>6

\* An index behind a prefix of length b.
LEMMA Shift ==
  ASSUME NEW b \in Nat, NEW n \in Nat, NEW j \in 1 .. n
  PROVE  b + j \in 1 .. (b + n)
  OBVIOUS

\* The value that fills the buffer: it becomes a block.
LEMMA PackLast ==
  ASSUME NEW in \in Seq(Nat), NEW bf \in Seq(Block), NEW g \in Seq(Nat),
         NEW v \in Nat, Packs(in, bf, g), Len(in) + 1 = BlockSize
  PROVE  Packs(<<>>, Append(bf, Padded(Append(in, v))), Append(g, v))
<1>1. PICK h \in Seq(Nat) :
        /\ h = Append(g, v) /\ Len(h) = Len(g) + 1 /\ Len(g) \in Nat
        /\ \A j \in 1 .. Len(g) : h[j] = g[j]
        /\ h[Len(g) + 1] = v
  BY AppendIs
<1>2. PICK m \in Seq(Nat) :
        /\ m = Append(in, v) /\ Len(m) = Len(in) + 1 /\ Len(in) \in Nat
        /\ \A j \in 1 .. Len(in) : m[j] = in[j]
        /\ m[Len(in) + 1] = v
  BY AppendIs, ZenonT(60)
<1>3. Padded(m) \in Block /\ \A j \in 1 .. BlockSize :
        Padded(m)[j] = IF j <= Len(m) THEN m[j] ELSE 0
  BY PaddedIs
<1>4. PICK b2 \in Seq(Block) :
        /\ b2 = Append(bf, Padded(m)) /\ Len(b2) = Len(bf) + 1
        /\ Len(bf) \in Nat
        /\ \A j \in 1 .. Len(bf) : b2[j] = bf[j]
        /\ b2[Len(bf) + 1] = Padded(m)
  BY <1>3, AppendIs, ZenonT(60)
<1>5. /\ Base(Len(bf)) \in Nat /\ BlockSize \in Nat \ {0}
      /\ Base(Len(bf) + 1) = Base(Len(bf)) + BlockSize
  BY <1>4, BaseFacts, CodecAssumption
<1>6. Len(g) = Base(Len(bf)) + Len(in)
  BY DEF Packs
<1>7. Len(<<>>) = 0 /\ Len(h) = Base(Len(b2)) + Len(<<>>)
  BY <1>1, <1>2, <1>4, <1>5, <1>6
<1>8. ASSUME NEW k \in 1 .. Len(b2), NEW j \in 1 .. BlockSize
      PROVE  b2[k][j] = h[Base(k - 1) + j]
  <2>1. CASE k \in 1 .. Len(bf)
    <3>1. Base(k - 1) + j \in 1 .. Base(Len(bf))
      BY <1>4, <2>1, InBlocks
    <3>2. Base(k - 1) + j \in 1 .. Len(g)
      BY <1>2, <1>5, <1>6, <3>1
    <3>3. bf[k][j] = g[Base(k - 1) + j]
      BY <2>1 DEF Packs
    <3> QED
      BY <1>1, <1>4, <2>1, <3>2, <3>3
  <2>2. CASE k = Len(bf) + 1
    <3>1. k - 1 = Len(bf) /\ j <= Len(m) /\ b2[k][j] = m[j]
      BY <1>2, <1>3, <1>4, <2>2
    <3>2. CASE j \in 1 .. Len(in)
      <4>1. Base(Len(bf)) + j \in 1 .. Len(g)
        BY <1>2, <1>5, <1>6, <3>2, Shift
      <4>2. in[j] = g[Base(k - 1) + j]
        BY <3>1, <3>2 DEF Packs
      <4> QED
        BY <1>1, <1>2, <3>1, <3>2, <4>1, <4>2
    <3>3. CASE j = Len(in) + 1
      <4>1. Base(k - 1) + j = Len(g) + 1
        BY <1>2, <1>5, <1>6, <3>1, <3>3
      <4> QED
        BY <1>1, <1>2, <3>1, <3>3, <4>1
    <3>4. j \in 1 .. Len(in) \/ j = Len(in) + 1
      BY <1>2
    <3> QED
      BY <3>2, <3>3, <3>4
  <2>3. k \in 1 .. Len(bf) \/ k = Len(bf) + 1
    BY <1>4
  <2> QED
    BY <2>1, <2>2, <2>3
<1>9. Packs(<<>>, b2, h)
  <2>1. \A j \in 1 .. Len(<<>>) : <<>>[j] = h[Base(Len(b2)) + j]
    BY <1>7
  <2> QED
    BY <1>5, <1>7, <1>8, <2>1 DEF Packs
<1> QED
  BY <1>1, <1>2, <1>4, <1>9

\* Whole blocks need no padding.
LEMMA PacksIsPads ==
  ASSUME NEW bf \in Seq(Block), NEW g \in Seq(Nat), Packs(<<>>, bf, g)
  PROVE  Pads(bf, g)
<1>1. Len(<<>>) = 0 /\ Len(bf) \in Nat /\ Base(Len(bf)) \in Nat
  BY BaseFacts, LenProperties
<1>2. Len(g) = Base(Len(bf))
  BY <1>1 DEF Packs
<1>3. ASSUME NEW k \in 1 .. Len(bf), NEW j \in 1 .. BlockSize
      PROVE  /\ bf[k][j] = g[Base(k - 1) + j]
             /\ Base(k - 1) + j <= Len(g)
  <2>1. Base(k - 1) + j \in 1 .. Base(Len(bf))
    BY <1>1, InBlocks
  <2> QED
    BY <1>1, <1>2, <2>1 DEF Packs
<1> QED
  BY <1>1, <1>2, <1>3 DEF Pads

\* encode: the stream holds one value more.
LEMMA EncodeStep ==
  ASSUME NEW max \in Nat, NEW g \in Seq(Nat), NEW v \in Nat, NEW e,
         Encodes(e, max, g)
  PROVE  Encodes(encode(e, v), max, Append(g, v))
<1>1. e \in Encoder /\ e.maxbits_ = max
  BY DEF Encodes
<1>2. CASE max = 0
  BY <1>1, <1>2 DEF Encodes, encode
<1>3. CASE max # 0
  <2>1. PICK in \in Seq(Nat), bf \in Seq(Block) :
          e = [maxbits_ |-> max, inbuf_ |-> in, buf_ |-> bf]
    BY <1>1 DEF Encoder
  <2>2. Packs(in, bf, g)
    BY <1>3, <2>1 DEF Encodes
  <2>3. PICK m \in Seq(Nat) : m = Append(in, v) /\ m # <<>>
                              /\ Len(m) = Len(in) + 1 /\ Len(in) \in Nat
    BY AppendIs
  <2>4. encode(e, v) =
          IF Len(m) = BlockSize
          THEN flush([maxbits_ |-> max, inbuf_ |-> m, buf_ |-> bf])
          ELSE [maxbits_ |-> max, inbuf_ |-> m, buf_ |-> bf]
    <3>1. PICK f : f = [e EXCEPT !.inbuf_ = Append(@, v)]
      OBVIOUS
    <3>2. f = [maxbits_ |-> max, inbuf_ |-> m, buf_ |-> bf] /\ f.inbuf_ = m
      BY <2>1, <2>3, <3>1
    <3> QED
      BY <1>1, <1>3, <3>1, <3>2 DEF encode
  <2>5. CASE Len(m) # BlockSize
    <3>1. Packs(m, bf, Append(g, v))
      BY <2>2, <2>3, <2>5, PackOne
    <3>2. encode(e, v) = [maxbits_ |-> max, inbuf_ |-> m, buf_ |-> bf]
      BY <2>4, <2>5
    <3> QED
      BY <1>3, <3>1, <3>2 DEF Encodes, Encoder
  <2>6. CASE Len(m) = BlockSize
    <3>1. encode(e, v) = [maxbits_ |-> max, inbuf_ |-> <<>>,
                          buf_ |-> Append(bf, Padded(m))]
      <4>0. PICK f : f = [maxbits_ |-> max, inbuf_ |-> m, buf_ |-> bf]
        OBVIOUS
      <4>1. PICK h : h = [f EXCEPT !.buf_ = Append(@, Padded(m)),
                                   !.inbuf_ = <<>>]
        OBVIOUS
      <4>2. h = [maxbits_ |-> max, inbuf_ |-> <<>>,
                 buf_ |-> Append(bf, Padded(m))]
        BY <4>0, <4>1
      <4>3. flush(f) = h
        <5>1. f.inbuf_ = m
          BY <4>0
        <5> QED
          BY <2>3, <4>1, <5>1 DEF flush, Padded
      <4> QED
        BY <2>4, <2>6, <4>0, <4>2, <4>3
    <3>2. Padded(m) \in Block /\ Append(bf, Padded(m)) \in Seq(Block)
      BY PaddedIs, AppendIs
    <3>3. Packs(<<>>, Append(bf, Padded(m)), Append(g, v))
      BY <2>2, <2>3, <2>6, PackLast
    <3> QED
      BY <1>3, <3>1, <3>2, <3>3 DEF Encodes, Encoder
  <2> QED
    BY <2>5, <2>6
<1> QED
  BY <1>2, <1>3

\* flush: a partial block is padded, and a second flush changes nothing.
LEMMA FlushStep ==
  ASSUME NEW max \in Nat, NEW g \in Seq(Nat), NEW e, Encodes(e, max, g)
  PROVE  Flushed(flush(e), max, g)
<1>1. PICK in \in Seq(Nat), bf \in Seq(Block) :
        e = [maxbits_ |-> max, inbuf_ |-> in, buf_ |-> bf]
  BY DEF Encodes, Encoder
<1>2. CASE in = <<>>
  <2>1. flush(e) = e
    BY <1>1, <1>2 DEF flush
  <2>2. CASE max = 0
    BY <1>1, <1>2, <2>1, <2>2 DEF Encodes, Flushed
  <2>3. CASE max # 0
    <3>1. Packs(in, bf, g)
      BY <1>1, <2>3 DEF Encodes
    <3>2. Pads(bf, g)
      BY <1>2, <3>1, PacksIsPads
    <3> QED
      BY <1>1, <1>2, <2>1, <2>3, <3>2 DEF Encodes, Flushed
  <2> QED
    BY <2>2, <2>3
<1>3. CASE in # <<>>
  <2>1. max # 0
    BY <1>1, <1>3 DEF Encodes
  <2>2. flush(e) = [maxbits_ |-> max, inbuf_ |-> <<>>,
                    buf_ |-> Append(bf, Padded(in))]
    BY <1>1, <1>3 DEF flush, Padded
  <2>3. Padded(in) \in Block /\ Append(bf, Padded(in)) \in Seq(Block)
    BY PaddedIs, AppendIs
  <2>4. Pads(Append(bf, Padded(in)), g)
    BY <1>1, <2>1, PadOne DEF Encodes
  <2> QED
    BY <2>1, <2>2, <2>3, <2>4 DEF Flushed, Encoder
<1> QED
  BY <1>2, <1>3

\* A flushed encoder is flushed without another block.
LEMMA FlushAgain ==
  ASSUME NEW max, NEW g, NEW e, Flushed(e, max, g)
  PROVE  flush(e) = e
  BY DEF Flushed, flush

Decoder ==
  [base : Nat, size_ : Nat, maxbits_ : Nat, pos_ : Nat,
   outbuf_ : Block \cup {<<>>}, outbuf_pos_ : 0 .. BlockSize]

\* The words of file f from o on are the sequence s.
Holds(f, o, s) == \A q \in 1 .. Len(s) : f[o + q - 1] = s[q]

\* The decoder of the blocks bf at word o has yielded v values.
DecoderAt(dec, o, bf, max, v) ==
  /\ dec \in Decoder
  /\ dec.base = o /\ dec.size_ = Len(bf) /\ dec.maxbits_ = max
  /\ dec.pos_ <= Len(bf)
  /\ max # 0 => Base(dec.pos_) + dec.outbuf_pos_ = v + BlockSize
  /\ dec.outbuf_pos_ < BlockSize => dec.pos_ > 0 /\ dec.outbuf_ = bf[dec.pos_]

\* A new bit pack decoder stands before the first value.
LEMMA DecoderStarts ==
  ASSUME NEW bf \in Seq(Block), NEW max \in Nat, NEW o \in Nat
  PROVE  DecoderAt(BitPackDecoder(o, Len(bf), max), o, bf, max, 0)
<1>1. Len(bf) \in Nat /\ BlockSize \in Nat \ {0} /\ Base(0) = 0
  BY CodecAssumption, BaseFacts, LenProperties
<1>2. PICK dec : dec = BitPackDecoder(o, Len(bf), max)
  OBVIOUS
<1>3. /\ dec \in Decoder /\ dec.base = o /\ dec.size_ = Len(bf)
      /\ dec.maxbits_ = max /\ dec.pos_ = 0 /\ dec.outbuf_pos_ = BlockSize
  BY <1>1, <1>2 DEF BitPackDecoder, Decoder
<1>4. DecoderAt(dec, o, bf, max, 0)
  BY <1>1, <1>3 DEF DecoderAt
<1> QED
  BY <1>2, <1>4

\* fetch: the next block is decoded when the last one is used up.
LEMMA UnpackStep ==
  ASSUME NEW bf \in Seq(Block), NEW max \in Nat \ {0}, NEW o \in Nat,
         NEW v \in Nat, NEW f, NEW dec, Holds(f, o, bf),
         DecoderAt(dec, o, bf, max, v), ~ AtEnd(dec)
  PROVE  /\ DecoderAt(unpacked(f, dec), o, bf, max, v)
         /\ unpacked(f, dec).outbuf_pos_ < BlockSize
<1>1. Len(bf) \in Nat /\ BlockSize \in Nat \ {0}
  BY CodecAssumption, LenProperties
<1>2. /\ dec \in Decoder /\ dec.pos_ \in Nat /\ dec.outbuf_pos_ \in 0 .. BlockSize
      /\ dec.base = o /\ dec.size_ = Len(bf) /\ dec.maxbits_ = max
  BY DEF DecoderAt, Decoder
<1>3. CASE dec.outbuf_pos_ # BlockSize
  <2>1. unpacked(f, dec) = dec
    BY <1>3 DEF unpacked
  <2> QED
    BY <1>1, <1>2, <1>3, <2>1
<1>4. CASE dec.outbuf_pos_ = BlockSize
  <2>1. dec.pos_ < Len(bf)
    BY <1>1, <1>2, <1>4 DEF AtEnd
  <2>2. PICK p \in Nat : p = dec.pos_ /\ p + 1 \in 1 .. Len(bf)
    BY <1>1, <1>2, <2>1
  <2>3. f[dec.base + dec.pos_] = bf[p + 1]
    <3>1. f[o + (p + 1) - 1] = bf[p + 1] /\ o + (p + 1) - 1 = o + p
      BY <2>2 DEF Holds
    <3> QED
      BY <1>2, <2>2, <3>1
  <2>4. bf[p + 1] \in Block
    BY <2>2, ElementOfSeq
  <2>5. PICK u : u = [dec EXCEPT !.outbuf_ = f[dec.base + dec.pos_],
                                 !.pos_ = @ + 1, !.outbuf_pos_ = 0]
    OBVIOUS
  <2>6. unpacked(f, dec) = u
    BY <1>4, <2>5 DEF unpacked
  <2>7. /\ u \in Decoder /\ u.base = o /\ u.size_ = Len(bf)
        /\ u.maxbits_ = max /\ u.outbuf_ = bf[p + 1] /\ u.pos_ = p + 1
        /\ u.outbuf_pos_ = 0
    <3>1. PICK blk \in Block : blk = bf[p + 1]
      BY <2>4
    <3>2. u = [dec EXCEPT !.outbuf_ = blk, !.pos_ = p + 1, !.outbuf_pos_ = 0]
      BY <2>2, <2>3, <2>5, <3>1
    <3>3. p + 1 \in Nat /\ 0 \in 0 .. BlockSize
      BY <1>1
    <3>4. dec \in Decoder
      BY <1>2
    <3>5. /\ u \in Decoder /\ u.base = dec.base /\ u.size_ = dec.size_
          /\ u.maxbits_ = dec.maxbits_ /\ u.outbuf_ = blk /\ u.pos_ = p + 1
          /\ u.outbuf_pos_ = 0
      BY <3>2, <3>3, <3>4 DEF Decoder
    <3> QED
      BY <1>2, <3>1, <3>5
  <2>8. Base(p) + BlockSize = v + BlockSize
    BY <1>4, <2>2 DEF DecoderAt
  <2>9. Base(u.pos_) + u.outbuf_pos_ = v + BlockSize
    <3>1. Base(p + 1) = Base(p) + BlockSize /\ Base(p) \in Nat
      BY BaseFacts
    <3> QED
      BY <1>1, <2>7, <2>8, <3>1
  <2>10. DecoderAt(u, o, bf, max, v)
    BY <1>1, <2>2, <2>7, <2>9 DEF DecoderAt
  <2> QED
    BY <1>1, <2>6, <2>7, <2>10
<1> QED
  BY <1>3, <1>4

\* A decoder that has values left does not report the end of its buffer.
LEMMA NotAtEnd ==
  ASSUME NEW bf \in Seq(Block), NEW max \in Nat \ {0}, NEW o \in Nat,
         NEW g \in Seq(Nat), NEW v \in Nat, NEW dec, Pads(bf, g),
         DecoderAt(dec, o, bf, max, v), v < Len(g)
  PROVE  ~ AtEnd(dec)
<1>1. Len(bf) \in Nat /\ BlockSize \in Nat \ {0} /\ Len(g) \in Nat
  BY CodecAssumption, LenProperties
<1>2. SUFFICES ASSUME dec.outbuf_pos_ = BlockSize, dec.pos_ >= Len(bf)
               PROVE  FALSE
  BY DEF AtEnd, DecoderAt
<1>3. dec.pos_ = Len(bf)
  BY <1>1, <1>2 DEF DecoderAt, Decoder
<1>4. Base(Len(bf)) + BlockSize = v + BlockSize /\ Base(Len(bf)) \in Nat
  BY <1>1, <1>2, <1>3, BaseFacts DEF DecoderAt
<1>5. Len(g) <= Base(Len(bf))
  BY DEF Pads
<1> QED
  BY <1>1, <1>4, <1>5

\* The index of a value in its block.
LEMMA BlockBefore ==
  ASSUME NEW p \in Nat \ {0}, NEW q \in Nat, NEW v \in Nat,
         Base(p) + q = v + BlockSize
  PROVE  /\ Base(p - 1) + (q + 1) = v + 1
         /\ Base(p) + (q + 1) = (v + 1) + BlockSize
<1>1. PICK m \in Nat : m + 1 = p /\ m = p - 1
  OBVIOUS
<1>2. Base(m + 1) = Base(m) + BlockSize /\ Base(m) \in Nat /\ BlockSize \in Nat
  BY BaseFacts, CodecAssumption
<1>3. Base(p) = Base(m) + BlockSize /\ Base(p - 1) = Base(m)
  BY <1>1, <1>2
<1> QED
  BY <1>2, <1>3

\* next and peek: the value, and the decoder they leave behind.
LEMMA DecodeStep ==
  ASSUME NEW bf \in Seq(Block), NEW max \in Nat \ {0}, NEW o \in Nat,
         NEW g \in Seq(Nat), NEW v \in Nat, NEW f, NEW dec,
         Holds(f, o, bf), Pads(bf, g), DecoderAt(dec, o, bf, max, v),
         v <= Len(g)
  PROVE  /\ value(f, dec) = IF v < Len(g) THEN g[v + 1] ELSE 0
         /\ v < Len(g) => DecoderAt(afterNext(f, dec), o, bf, max, v + 1)
         /\ DecoderAt(afterPeek(f, dec), o, bf, max, v)
<1>1. Len(bf) \in Nat /\ BlockSize \in Nat \ {0} /\ Len(g) \in Nat
  BY CodecAssumption, LenProperties
<1>2. dec.maxbits_ = max
  BY DEF DecoderAt
<1>3. CASE AtEnd(dec)
  <2>1. ~ (v < Len(g))
    BY <1>3, NotAtEnd
  <2>2. value(f, dec) = 0 /\ afterPeek(f, dec) = dec
    BY <1>3 DEF value, afterPeek
  <2> QED
    BY <2>1, <2>2
<1>4. CASE ~ AtEnd(dec)
  <2>1. PICK u : u = unpacked(f, dec)
    OBVIOUS
  <2>2. DecoderAt(u, o, bf, max, v) /\ u.outbuf_pos_ < BlockSize
    BY <1>4, <2>1, UnpackStep
  <2>3. /\ u \in Decoder /\ u.base = o /\ u.size_ = Len(bf)
        /\ u.maxbits_ = max /\ u.pos_ \in 1 .. Len(bf)
        /\ u.outbuf_ = bf[u.pos_] /\ u.outbuf_pos_ \in 0 .. (BlockSize - 1)
        /\ Base(u.pos_) + u.outbuf_pos_ = v + BlockSize
    BY <1>1, <2>2 DEF DecoderAt, Decoder
  <2>4. PICK p \in 1 .. Len(bf), q \in 0 .. (BlockSize - 1) :
          p = u.pos_ /\ q = u.outbuf_pos_
    BY <2>3
  <2>5. /\ p \in Nat \ {0} /\ q \in Nat /\ q + 1 \in 1 .. BlockSize
        /\ Base(p) + q = v + BlockSize
    BY <1>1, <2>3, <2>4, SMTT(60)
  <2>12. /\ Base(p - 1) + (q + 1) = v + 1
         /\ Base(p) + (q + 1) = (v + 1) + BlockSize
    BY <1>1, <2>5, BlockBefore
  <2>6. bf[p] \in Block /\ bf[p] # Garbage
    <3>1. bf[p] \in Block
      BY ElementOfSeq
    <3> QED
      BY <3>1, CodecAssumption DEF Block
  <2>7. value(f, dec) = bf[p][q + 1]
    <3>1. value(f, dec) = IF u.outbuf_ = Garbage THEN Garbage
                          ELSE u.outbuf_[u.outbuf_pos_ + 1]
      BY <1>2, <1>4, <2>1 DEF value
    <3> QED
      BY <2>3, <2>4, <2>6, <3>1
  <2>8. bf[p][q + 1] = IF v + 1 <= Len(g) THEN g[v + 1] ELSE 0
    BY <2>5, <2>12 DEF Pads
  <2>9. afterPeek(f, dec) = u
    BY <1>2, <1>4, <2>1 DEF afterPeek
  <2>10. DecoderAt(afterNext(f, dec), o, bf, max, v + 1)
    <3>1. PICK n : n = [u EXCEPT !.outbuf_pos_ = @ + 1]
      OBVIOUS
    <3>2. afterNext(f, dec) = n
      BY <1>2, <2>1, <3>1 DEF afterNext
    <3>3. /\ u \in Decoder /\ q + 1 \in 0 .. BlockSize
          /\ n = [u EXCEPT !.outbuf_pos_ = q + 1]
      BY <1>1, <2>3, <2>4, <2>5, <3>1
    <3>4. /\ n \in Decoder /\ n.base = u.base /\ n.size_ = u.size_
          /\ n.maxbits_ = u.maxbits_ /\ n.pos_ = u.pos_
          /\ n.outbuf_ = u.outbuf_ /\ n.outbuf_pos_ = q + 1
      BY <3>3 DEF Decoder
    <3>5. Base(p) + (q + 1) = (v + 1) + BlockSize /\ p <= Len(bf) /\ p > 0
      <4>1. p <= Len(bf) /\ p > 0
        BY <1>1
      <4> QED
        BY <2>12, <4>1
    <3> QED
      BY <2>3, <2>4, <3>2, <3>4, <3>5 DEF DecoderAt
  <2>11. v < Len(g) <=> v + 1 <= Len(g)
    BY <1>1
  <2> QED
    BY <2>2, <2>7, <2>8, <2>9, <2>10, <2>11
<1> QED
  BY <1>3, <1>4

----------------------------------------------------------------------------
(* Variable-length integers. *)

\* A number is its lowest group and the rest.
LEMMA DivMod ==
  ASSUME NEW m \in Nat
  PROVE  /\ m \div Group \in Nat /\ m % Group \in 0 .. (Group - 1)
         /\ m = (m % Group) + Group * (m \div Group)
         /\ m >= Group => m \div Group < m
<1>1. Group \in Nat \ {0, 1}
  BY CodecAssumption
<1>2. PICK d \in Nat, r \in 0 .. (Group - 1) :
        d = m \div Group /\ r = m % Group /\ m = r + Group * d
  BY <1>1
<1>3. ASSUME m >= Group PROVE d < m
  <2>1. SUFFICES ASSUME d >= m PROVE FALSE
    OBVIOUS
  <2>2. Group * d >= 2 * d
    BY <1>1
  <2> QED
    BY <1>1, <1>2, <1>3, <2>1, <2>2
<1> QED
  BY <1>2, <1>3

\* The continuation bit does not change the group.
LEMMA ModGroup ==
  ASSUME NEW r \in 0 .. (Group - 1)
  PROVE  (r + Group) % Group = r /\ r % Group = r
<1>1. Group \in Nat \ {0, 1} /\ r \in Nat /\ r + Group \in Nat
  BY CodecAssumption
<1>2. PICK q \in Nat, t \in 0 .. (Group - 1) :
        t = (r + Group) % Group /\ r + Group = t + Group * q
  BY <1>1, DivMod
<1>3. q # 0
  BY <1>1, <1>2
<1>4. q < 2
  <2>1. SUFFICES ASSUME q >= 2 PROVE FALSE
    OBVIOUS
  <2>2. Group * q >= Group * 2
    BY <1>1, <2>1
  <2> QED
    BY <1>1, <1>2, <2>2
<1>5. q = 1 /\ Group * 1 = Group
  BY <1>1, <1>3, <1>4
<1>6. r % Group = r
  BY <1>1
<1> QED
  BY <1>1, <1>2, <1>5, <1>6

\* The function of appendVarUInt.
LebFcn(h, v) ==
  h = [n \in 0 .. v |-> IF n < Group THEN <<n>>
                        ELSE <<(n % Group) + Group>> \o h[n \div Group]]

\* The recursion of appendVarUInt is well founded.
LEMMA LebExists == \A v \in Nat : \E h : LebFcn(h, v)
<1> DEFINE T == {v \in Nat : \E h : LebFcn(h, v)}
<1>1. 0 \in T
  <2>1. LebFcn([n \in 0 .. 0 |-> <<0>>], 0)
    BY CodecAssumption DEF LebFcn
  <2> QED
    BY <2>1
<1>2. ASSUME NEW v \in Nat, v \in T PROVE v + 1 \in T
  <2>1. PICK h : LebFcn(h, v)
    BY <1>2
  <2> DEFINE e == IF v + 1 < Group THEN <<v + 1>>
                  ELSE <<((v + 1) % Group) + Group>> \o h[(v + 1) \div Group]
  <2>2. PICK k : k = [n \in 0 .. (v + 1) |-> IF n = v + 1 THEN e ELSE h[n]]
    OBVIOUS
  <2>3. ASSUME NEW n \in 0 .. (v + 1), ~ (n < Group)
        PROVE  k[n \div Group] = h[n \div Group]
    <3>1. n \div Group \in 0 .. v /\ n \div Group # v + 1
      <4>1. n \in Nat /\ n >= Group
        BY <2>3, CodecAssumption
      <4>2. n \div Group \in Nat /\ n \div Group < n
        BY <4>1, DivMod
      <4> QED
        BY <4>2
    <3> QED
      BY <2>2, <3>1
  <2>4. ASSUME NEW n \in 0 .. (v + 1)
        PROVE  k[n] = IF n < Group THEN <<n>>
                      ELSE <<(n % Group) + Group>> \o k[n \div Group]
    <3>1. CASE n = v + 1
      BY <2>2, <2>3, <3>1
    <3>2. CASE n # v + 1
      <4>1. n \in 0 .. v /\ k[n] = h[n]
        BY <2>2, <3>2
      <4> QED
        BY <2>1, <2>3, <4>1 DEF LebFcn
    <3> QED
      BY <3>1, <3>2
  <2>5. LebFcn(k, v + 1)
    <3> HIDE DEF e
    <3> QED
      BY <2>2, <2>4 DEF LebFcn
  <2> QED
    BY <2>5
<1>3. Nat \subseteq T
  <2> HIDE DEF T
  <2> QED
    BY <1>1, <1>2, NatSetInduction
<1> QED
  BY <1>3

\* appendVarUInt unfolds.
LEMMA AppendVarUInt ==
  ASSUME NEW v \in Nat
  PROVE  \E h : LebFcn(h, v) /\ appendVarUInt(v) = h[v]
<1> DEFINE leb == CHOOSE h : LebFcn(h, v)
<1>1. LebFcn(leb, v)
  BY LebExists, Zenon
<1>2. appendVarUInt(v) = leb[v]
  BY DEF appendVarUInt, LebFcn
<1> QED
  BY <1>1, <1>2, Zenon

\* The bytes of a number: all but the last carry the continuation bit, and the
\* function of readVarUInt makes the number of them again.
ValFcn(val, f, e, n) ==
  \A k \in 0 .. n :
    val[k] = IF k = 0 THEN 0 ELSE (f[e - k] % Group) + Group * val[k - 1]

LebIs(s, v) ==
  /\ s \in Seq(Nat) /\ Len(s) > 0 /\ s[Len(s)] < Group
  /\ \A j \in 1 .. (Len(s) - 1) : s[j] >= Group
  /\ \A f, val : \A o \in Nat :
       Holds(f, o, s) /\ ValFcn(val, f, o + Len(s), Len(s))
         => val[Len(s)] = v

\* A number of one group.
LEMMA LebOne ==
  ASSUME NEW v \in Nat, v < Group
  PROVE  LebIs(<<v>>, v)
<1>1. <<v>> \in Seq(Nat) /\ Len(<<v>>) = 1 /\ <<v>>[1] = v
  OBVIOUS
<1>2. ASSUME NEW f, NEW val, NEW o \in Nat, Holds(f, o, <<v>>),
             ValFcn(val, f, o + 1, 1)
      PROVE  val[1] = v
  <2>1. f[o + 1 - 1] = v
    BY <1>1, <1>2 DEF Holds
  <2>2. val[0] = 0
    BY <1>2 DEF ValFcn
  <2>3. val[1] = (f[o + 1 - 1] % Group) + Group * val[1 - 1]
    BY <1>2 DEF ValFcn
  <2>4. v % Group = v /\ Group * 0 = 0 /\ 1 - 1 = 0
    BY ModGroup, CodecAssumption
  <2> QED
    BY <2>1, <2>2, <2>3, <2>4
<1> QED
  BY <1>1, <1>2 DEF LebIs

\* A number of several groups: the lowest comes first, with its continuation
\* bit.
LEMMA LebMore ==
  ASSUME NEW v \in Nat, v >= Group, NEW s, LebIs(s, v \div Group)
  PROVE  LebIs(<<(v % Group) + Group>> \o s, v)
<1>1. /\ v % Group \in 0 .. (Group - 1) /\ v \div Group \in Nat
      /\ v = (v % Group) + Group * (v \div Group)
      /\ Group \in Nat \ {0, 1}
  BY DivMod, CodecAssumption
<1>2. PICK b \in Nat : b = (v % Group) + Group /\ b >= Group /\ b % Group = v % Group
  BY <1>1, ModGroup, SMTT(60)
<1>3. s \in Seq(Nat) /\ Len(s) \in Nat \ {0}
  BY LenProperties DEF LebIs
<1>4. PICK t \in Seq(Nat) :
        /\ t = <<b>> \o s /\ Len(t) = Len(s) + 1 /\ t[1] = b
        /\ \A j \in 1 .. Len(s) : t[j + 1] = s[j]
  <2>1. <<b>> \in Seq(Nat) /\ Len(<<b>>) = 1 /\ <<b>>[1] = b
    OBVIOUS
  <2>2. PICK t : t = <<b>> \o s
    OBVIOUS
  <2>3. t \in Seq(Nat) /\ Len(t) = 1 + Len(s)
    BY <1>3, <2>1, <2>2, ConcatProperties
  <2>4. \A i \in 1 .. Len(t) : t[i] = IF i <= 1 THEN <<b>>[i] ELSE s[i - 1]
    BY <1>3, <2>1, <2>2, <2>3, ConcatProperties
  <2>5. t[1] = b
    BY <1>3, <2>1, <2>3, <2>4
  <2>6. ASSUME NEW j \in 1 .. Len(s) PROVE t[j + 1] = s[j]
    <3>1. j + 1 \in 1 .. Len(t) /\ ~ (j + 1 <= 1) /\ (j + 1) - 1 = j
      BY <1>3, <2>3
    <3> QED
      BY <2>4, <3>1
  <2>7. Len(t) = Len(s) + 1
    BY <1>3, <2>3
  <2> QED
    BY <2>2, <2>3, <2>5, <2>6, <2>7
<1>5. t[Len(t)] < Group
  BY <1>3, <1>4 DEF LebIs
<1>6. ASSUME NEW j \in 1 .. (Len(t) - 1) PROVE t[j] >= Group
  <2>1. CASE j = 1
    BY <1>2, <1>4, <2>1
  <2>2. CASE j # 1
    <3>1. PICK i \in 1 .. (Len(s) - 1) : j = i + 1
      BY <1>3, <1>4, <2>2
    <3> QED
      BY <1>3, <1>4, <3>1 DEF LebIs
  <2> QED
    BY <2>1, <2>2
<1>7. ASSUME NEW f, NEW val, NEW o \in Nat, Holds(f, o, t),
             ValFcn(val, f, o + Len(t), Len(t))
      PROVE  val[Len(t)] = v
  <2>1. Holds(f, o + 1, s)
    <3>1. ASSUME NEW q \in 1 .. Len(s) PROVE f[(o + 1) + q - 1] = s[q]
      <4>1. q + 1 \in 1 .. Len(t) /\ o + (q + 1) - 1 = (o + 1) + q - 1
        BY <1>3, <1>4
      <4> QED
        BY <1>4, <1>7, <4>1 DEF Holds
    <3> QED
      BY <3>1 DEF Holds
  <2>2. ValFcn(val, f, (o + 1) + Len(s), Len(s))
    <3>1. (o + 1) + Len(s) = o + Len(t) /\ 0 .. Len(s) \subseteq 0 .. Len(t)
      BY <1>3, <1>4
    <3> QED
      BY <1>7, <3>1 DEF ValFcn
  <2>3. val[Len(s)] = v \div Group
    BY <2>1, <2>2 DEF LebIs
  <2>4. f[o] = b
    <3>1. 1 \in 1 .. Len(t) /\ o + 1 - 1 = o
      BY <1>3, <1>4
    <3> QED
      BY <1>4, <1>7, <3>1 DEF Holds
  <2>5. val[Len(t)] = (f[o + Len(t) - Len(t)] % Group) + Group * val[Len(t) - 1]
    <3>1. Len(t) \in 0 .. Len(t) /\ Len(t) # 0
      BY <1>3, <1>4
    <3> QED
      BY <1>7, <3>1 DEF ValFcn
  <2>6. o + Len(t) - Len(t) = o /\ Len(t) - 1 = Len(s)
    BY <1>3, <1>4
  <2> QED
    BY <1>1, <1>2, <2>3, <2>4, <2>5, <2>6
<1>8. LebIs(t, v)
  BY <1>3, <1>4, <1>5, <1>6, <1>7 DEF LebIs
<1> QED
  BY <1>2, <1>4, <1>8

\* What appendVarUInt makes of any number.
LEMMA LebEncodes ==
  ASSUME NEW v \in Nat
  PROVE  LebIs(appendVarUInt(v), v)
<1>1. PICK h : LebFcn(h, v) /\ appendVarUInt(v) = h[v]
  BY AppendVarUInt
<1> DEFINE T == {m \in Nat : \A n \in 0 .. m : n <= v => LebIs(h[n], n)}
<1>2. ASSUME NEW n \in 0 .. v
      PROVE  h[n] = IF n < Group THEN <<n>>
                    ELSE <<(n % Group) + Group>> \o h[n \div Group]
  BY <1>1 DEF LebFcn
<1>3. 0 \in T
  <2>1. h[0] = <<0>>
    <3>1. 0 \in 0 .. v /\ 0 < Group
      BY CodecAssumption
    <3> QED
      BY <1>2, <3>1
  <2>2. LebIs(h[0], 0)
    BY <2>1, LebOne, CodecAssumption
  <2> QED
    BY <2>2
<1>4. ASSUME NEW m \in Nat, m \in T PROVE m + 1 \in T
  <2>1. SUFFICES ASSUME m + 1 <= v PROVE LebIs(h[m + 1], m + 1)
    BY <1>4
  <2>2. PICK n \in 0 .. v : n = m + 1 /\ n \in Nat
    BY <2>1
  <2>3. CASE n < Group
    BY <1>2, <2>2, <2>3, LebOne
  <2>4. CASE n >= Group
    <3>1. n \div Group \in Nat /\ n \div Group < n
      BY <2>2, <2>4, DivMod
    <3>2. n \div Group \in 0 .. m /\ n \div Group <= v
      BY <2>2, <3>1
    <3>3. LebIs(h[n \div Group], n \div Group)
      BY <1>4, <3>2
    <3>4. h[n] = <<(n % Group) + Group>> \o h[n \div Group]
      <4>1. ~ (n < Group)
        BY <2>2, <2>4, CodecAssumption
      <4> QED
        BY <1>2, <4>1
    <3>5. LebIs(h[n], n)
      BY <2>2, <2>4, <3>3, <3>4, LebMore
    <3> QED
      BY <2>2, <3>5
  <2> QED
    BY <2>2, <2>3, <2>4, CodecAssumption
<1>5. v \in T
  <2> HIDE DEF T
  <2> QED
    BY <1>3, <1>4, NatSetInduction
<1> QED
  BY <1>1, <1>5

\* The function of readVarUInt for n bytes that end in front of word e.
SumFcn(val, f, e, n) ==
  val = [k \in 0 .. n |-> IF k = 0 THEN 0
                          ELSE (f[e - k] % Group) + Group * val[k - 1]]

\* The recursion of readVarUInt is well founded.
LEMMA SumExists ==
  ASSUME NEW f, NEW e
  PROVE  \A n \in Nat : \E val : SumFcn(val, f, e, n)
<1> DEFINE T == {n \in Nat : \E val : SumFcn(val, f, e, n)}
<1>1. 0 \in T
  <2>1. SumFcn([k \in 0 .. 0 |-> 0], f, e, 0)
    BY DEF SumFcn
  <2> QED
    BY <2>1
<1>2. ASSUME NEW n \in Nat, n \in T PROVE n + 1 \in T
  <2>1. PICK h : SumFcn(h, f, e, n)
    BY <1>2
  <2>2. PICK x : x = (f[e - (n + 1)] % Group) + Group * h[n]
    OBVIOUS
  <2>3. PICK val : val = [k \in 0 .. (n + 1) |-> IF k = n + 1 THEN x ELSE h[k]]
    OBVIOUS
  <2>4. ASSUME NEW k \in 0 .. (n + 1)
        PROVE  val[k] = IF k = 0 THEN 0
                        ELSE (f[e - k] % Group) + Group * val[k - 1]
    <3>1. CASE k = n + 1
      <4>1. k - 1 = n /\ k # 0 /\ n \in 0 .. (n + 1) /\ n # n + 1
        BY <3>1
      <4>2. val[k] = x /\ val[n] = h[n]
        BY <2>3, <3>1, <4>1
      <4> QED
        BY <2>2, <3>1, <4>1, <4>2
    <3>2. CASE k # n + 1
      <4>1. k \in 0 .. n
        BY <3>2
      <4>2. val[k] = h[k] /\ (k # 0 => val[k - 1] = h[k - 1])
        <5>1. k # 0 => k - 1 \in 0 .. (n + 1) /\ k - 1 # n + 1
          BY <4>1
        <5> QED
          BY <2>3, <3>2, <5>1
      <4> QED
        BY <2>1, <4>1, <4>2 DEF SumFcn
    <3> QED
      BY <3>1, <3>2
  <2>5. SumFcn(val, f, e, n + 1)
    BY <2>3, <2>4 DEF SumFcn
  <2> QED
    BY <2>5
<1>3. Nat \subseteq T
  <2> HIDE DEF T
  <2> QED
    BY <1>1, <1>2, NatSetInduction
<1> QED
  BY <1>3

\* readVarUInt adds up the groups from the last to the first.
LEMMA SumIsVal ==
  ASSUME NEW f, NEW e, NEW n \in Nat, NEW val, SumFcn(val, f, e, n)
  PROVE  ValFcn(val, f, e, n)
  BY DEF SumFcn, ValFcn

\* readVarUInt yields the number that was appended.
LEMMA ReadVarUInt ==
  ASSUME NEW f, NEW o \in Nat, NEW v \in Nat, NEW s, LebIs(s, v), Holds(f, o, s)
  PROVE  readVarUInt(f, o, Len(s)) = v
<1>1. Len(s) \in Nat
  BY LenProperties DEF LebIs
<1>2. PICK n \in Nat : n = Len(s)
  BY <1>1
<1>3. PICK val : SumFcn(val, f, o + n, n) /\ readVarUInt(f, o, n) = val[n]
  <2> DEFINE val == CHOOSE x : SumFcn(x, f, o + n, n)
  <2>1. SumFcn(val, f, o + n, n)
    BY SumExists, Zenon
  <2>2. readVarUInt(f, o, n) = val[n]
    BY Zenon DEF readVarUInt, SumFcn
  <2> QED
    BY <2>1, <2>2, Zenon
<1>4. ValFcn(val, f, o + n, n)
  BY <1>3, SumIsVal
<1> QED
  BY <1>2, <1>3, <1>4 DEF LebIs

----------------------------------------------------------------------------
(* The words of a plain column. *)

\* What a column keeps is kept unchanged when it is written again.
LEMMA StoredTwice ==
  ASSUME NEW c, c.storage_type \in Encodings, NEW u \in Nat
  PROVE  stored(c, u) \in Nat /\ stored(c, stored(c, u)) = stored(c, u)
<1>1. \A n \in Nat : n % Max32 \in Nat /\ (n % Max32) % Max32 = n % Max32
  BY WidthAssumption
<1> QED
  BY <1>1 DEF stored, Encodings, BooleanColumnWriter, BitPackedIntColumnWriter,
     UInt32ColumnWriter, UInt64ColumnWriter, LEB128ColumnWriter,
     DoubleColumnWriter, StringColumnWriter

\* The words s of file f from position dec.pos_ on are read as the value u.
ReadsAs(c, s, u) ==
  \A f : \A dec \in Decoder :
    Holds(f, dec.base + dec.pos_, s) /\ Len(s) <= Left(dec)
      => readLength(c, f, dec) = Len(s) /\ plainValue(c, f, dec) = u

\* A variable-length integer reads back.
LEMMA LebReads ==
  ASSUME NEW c, c.storage_type = "UINT64_LEB128", NEW u \in Nat
  PROVE  /\ words(c, u) \in Seq(Nat)
         /\ ReadsAs(c, words(c, u), u)
<1>1. PICK s : s = appendVarUInt(u)
  OBVIOUS
<1>2. LebIs(s, u) /\ words(c, u) = s
  BY <1>1, LebEncodes DEF words
<1>3. s \in Seq(Nat) /\ Len(s) \in Nat \ {0}
  BY <1>2, LenProperties DEF LebIs
<1>4. ASSUME NEW f, NEW dec \in Decoder,
             Holds(f, dec.base + dec.pos_, s), Len(s) <= Left(dec)
      PROVE  readLength(c, f, dec) = Len(s) /\ plainValue(c, f, dec) = u
  <2>1. PICK o \in Nat : o = dec.base + dec.pos_
    BY DEF Decoder
  <2>2. PICK n \in Int : n = Left(dec)
    BY DEF Left, Decoder
  <2>3. PICK L \in Nat \ {0} : L = Len(s)
    BY <1>3
  <2> DEFINE ends == {k \in 1 .. n : f[o + k - 1] < Group}
  <2>4. ASSUME NEW k \in 1 .. L PROVE f[o + k - 1] = s[k]
    BY <1>4, <2>1, <2>3 DEF Holds
  <2>5. L \in ends
    <3>1. L \in 1 .. L /\ L \in 1 .. n
      BY <1>4, <2>2, <2>3
    <3>2. s[L] < Group
      BY <1>2, <2>3 DEF LebIs
    <3> QED
      BY <2>4, <3>1, <3>2
  <2>6. ASSUME NEW k \in ends PROVE L <= k
    <3>1. SUFFICES ASSUME k < L PROVE FALSE
      OBVIOUS
    <3>2. k \in 1 .. (L - 1) /\ k \in 1 .. L
      BY <3>1
    <3>3. s[k] >= Group
      BY <1>2, <2>3, <3>2 DEF LebIs
    <3>4. s[k] \in Nat
      BY <1>3, <2>3, <3>2, ElementOfSeq
    <3>5. f[o + k - 1] < Group
      OBVIOUS
    <3> QED
      BY <2>4, <3>2, <3>3, <3>4, <3>5, CodecAssumption
  <2>7. readLength(c, f, dec) = Min(ends)
    BY <2>1, <2>2, <2>5 DEF readLength
  <2>8. Min(ends) = L
    <3>1. ends \subseteq Int
      OBVIOUS
    <3> HIDE DEF ends
    <3>2. Min(ends) \in ends /\ Min(ends) <= L
      BY <2>5, <2>6, Zenon DEF Min
    <3>3. PICK x \in Int : x = Min(ends)
      BY <3>1, <3>2
    <3>4. x <= L /\ L <= x
      BY <2>6, <3>2, <3>3
    <3> QED
      BY <3>3, <3>4
  <2>9. plainValue(c, f, dec) = readVarUInt(f, o, L)
    <3> HIDE DEF ends
    <3> QED
      BY <2>1, <2>7, <2>8 DEF plainValue
  <2>10. readVarUInt(f, o, L) = u
    BY <1>2, <1>4, <2>1, <2>3, ReadVarUInt
  <2> QED
    BY <2>3, <2>7, <2>8, <2>9, <2>10
<1> QED
  BY <1>2, <1>3, <1>4 DEF ReadsAs

\* A string with its length reads back.
LEMMA StringReads ==
  ASSUME NEW c, c.storage_type = "STRING_PLAIN", NEW u \in Nat
  PROVE  /\ words(c, u) \in Seq(Nat)
         /\ ReadsAs(c, words(c, u), u)
<1>1. PICK t : t = [i \in 1 .. u |-> u] /\ t \in Seq(Nat) /\ Len(t) = u
  <2>1. [i \in 1 .. u |-> u] \in Seq(Nat) /\ Len([i \in 1 .. u |-> u]) = u
    OBVIOUS
  <2> QED
    BY <2>1
<1>2. <<u>> \in Seq(Nat) /\ Len(<<u>>) = 1 /\ <<u>>[1] = u
  OBVIOUS
<1>3. PICK s : s = <<u>> \o t
  OBVIOUS
<1>4. words(c, u) = s
  BY <1>1, <1>3 DEF words
<1>5. s \in Seq(Nat) /\ Len(s) = 1 + u
  BY <1>1, <1>2, <1>3, ConcatProperties
<1>6. ASSUME NEW i \in 1 .. (1 + u) PROVE s[i] = u
  <2>1. s[i] = IF i <= 1 THEN <<u>>[i] ELSE t[i - 1]
    BY <1>1, <1>2, <1>3, ConcatProperties
  <2>2. CASE i = 1
    BY <1>2, <2>1, <2>2
  <2>3. CASE i # 1
    <3>1. i - 1 \in 1 .. u /\ ~ (i <= 1)
      BY <2>3
    <3> QED
      BY <1>1, <2>1, <3>1
  <2> QED
    BY <2>2, <2>3
<1>7. ASSUME NEW f, NEW dec \in Decoder,
             Holds(f, dec.base + dec.pos_, s), Len(s) <= Left(dec)
      PROVE  readLength(c, f, dec) = Len(s) /\ plainValue(c, f, dec) = u
  <2>1. PICK o \in Nat : o = dec.base + dec.pos_
    BY DEF Decoder
  <2>2. Left(dec) \in Int /\ Left(dec) > 0
    BY <1>5, <1>7 DEF Left, Decoder
  <2>3. ASSUME NEW k \in 0 .. u PROVE f[o + k] = u
    <3>1. k + 1 \in 1 .. Len(s) /\ o + (k + 1) - 1 = o + k
      BY <1>5, <2>1
    <3>2. f[o + (k + 1) - 1] = s[k + 1]
      BY <1>7, <2>1, <3>1 DEF Holds
    <3>3. s[k + 1] = u
      BY <1>5, <1>6, <3>1
    <3> QED
      BY <3>1, <3>2, <3>3
  <2>4. f[o] = u
    <3>1. 0 \in 0 .. u /\ o + 0 = o
      OBVIOUS
    <3> QED
      BY <2>3, <3>1
  <2>5. readLength(c, f, dec) = 1 + f[o]
    BY <2>1, <2>2 DEF readLength
  <2>6. readLength(c, f, dec) = 1 + u
    BY <2>4, <2>5
  <2>7. plainValue(c, f, dec) =
          IF \A k \in 1 .. (readLength(c, f, dec) - 1) : f[o + k] = f[o]
          THEN f[o] ELSE Garbage
    BY <2>1 DEF plainValue
  <2>8. readLength(c, f, dec) - 1 = u
    BY <2>6
  <2>9. \A k \in 1 .. u : f[o + k] = f[o]
    BY <2>3, <2>4
  <2>10. plainValue(c, f, dec) = f[o]
    BY <2>7, <2>8, <2>9
  <2> QED
    BY <1>5, <2>4, <2>6, <2>10
<1> QED
  BY <1>4, <1>5, <1>7 DEF ReadsAs

\* A word of fixed size reads back.
LEMMA FixedReads ==
  ASSUME NEW c, NEW u \in Nat, stored(c, u) = u,
         c.storage_type \in {"UINT32_PLAIN", "UINT64_PLAIN", "FLOAT_IEEE754"}
  PROVE  /\ words(c, u) \in Seq(Nat)
         /\ ReadsAs(c, words(c, u), u)
<1>1. words(c, u) = <<u>>
  BY DEF words
<1>2. <<u>> \in Seq(Nat) /\ Len(<<u>>) = 1 /\ <<u>>[1] = u
  OBVIOUS
<1>3. ASSUME NEW f, NEW dec \in Decoder,
             Holds(f, dec.base + dec.pos_, <<u>>), Len(<<u>>) <= Left(dec)
      PROVE  readLength(c, f, dec) = 1 /\ plainValue(c, f, dec) = u
  <2>1. PICK o \in Nat : o = dec.base + dec.pos_
    BY DEF Decoder
  <2>2. f[o] = u
    <3>1. 1 \in 1 .. Len(<<u>>) /\ o + 1 - 1 = o
      BY <1>2
    <3> QED
      BY <1>2, <1>3, <2>1, <3>1 DEF Holds
  <2> QED
    BY <2>1, <2>2 DEF readLength, plainValue
<1> QED
  BY <1>1, <1>2, <1>3 DEF ReadsAs

\* A value that a plain column keeps is read from the words it appends.
LEMMA PlainReads ==
  ASSUME NEW c, c.storage_type \in Encodings, ~ IsPacked(c),
         NEW u \in Nat, stored(c, u) = u
  PROVE  /\ words(c, u) \in Seq(Nat)
         /\ ReadsAs(c, words(c, u), u)
  BY LebReads, StringReads, FixedReads DEF Encodings, IsPacked

\* The words of a value are the words of what the column keeps of it.
LEMMA WordsOfStored ==
  ASSUME NEW c, c.storage_type \in Encodings, NEW u \in Nat
  PROVE  words(c, stored(c, u)) = words(c, u)
<1>1. stored(c, stored(c, u)) = stored(c, u)
  BY StoredTwice
<1>2. c.storage_type \in {"UINT64_LEB128", "STRING_PLAIN"} => stored(c, u) = u
  BY DEF stored, LEB128ColumnWriter, StringColumnWriter
<1> QED
  BY <1>1, <1>2 DEF words

----------------------------------------------------------------------------
(* What a column writer holds. *)

IsColumn(c) ==
  c.storage_type \in Encodings /\ c.rlevel_max \in Nat /\ c.dlevel_max \in Nat

Entry == [rlvl : Nat, dlvl : Nat, val : BOOLEAN \cup Int]

\* What a column keeps of a value of its type.
Keeps(c, v) == stored(c, datum(c.logical_type, v))

Entries(c, g) ==
  /\ g \in Seq(Entry)
  /\ \A k \in 1 .. Len(g) : /\ g[k].rlvl <= c.rlevel_max
                            /\ g[k].dlvl <= c.dlevel_max

\* The values d that a column keeps are those of the defined entries of g:
\* cnt[k] of them belong to the first k entries.
Numbers(c, g, cnt, d) ==
  /\ d \in Seq(Nat) /\ cnt \in [0 .. Len(g) -> Nat]
  /\ cnt[0] = 0 /\ cnt[Len(g)] = Len(d)
  /\ \A k \in 0 .. Len(g) : cnt[k] <= Len(d)
  /\ \A k \in 1 .. Len(g) :
       IF g[k].dlvl = c.dlevel_max
       THEN cnt[k] = cnt[k - 1] + 1 /\ d[cnt[k]] = Keeps(c, g[k].val)
       ELSE cnt[k] = cnt[k - 1]
  /\ \A m \in 1 .. Len(d) : stored(c, d[m]) = d[m]

\* A plain column holds the words of the values d: the words of value m end
\* at st[m].
Lays(c, data, d, st) ==
  /\ data \in Seq(Nat) /\ st \in [0 .. Len(d) -> Nat]
  /\ st[0] = 0 /\ st[Len(d)] = Len(data)
  /\ \A m \in 1 .. Len(d) :
       /\ st[m] = st[m - 1] + Len(words(c, d[m])) /\ st[m] <= Len(data)
       /\ \A q \in 1 .. Len(words(c, d[m])) :
            data[st[m - 1] + q] = words(c, d[m])[q]

\* No entries, no values.
LEMMA NumbersStart ==
  ASSUME NEW c
  PROVE  Numbers(c, <<>>, [k \in 0 .. 0 |-> 0], <<>>)
<1>1. PICK cnt : cnt = [k \in 0 .. 0 |-> 0]
  OBVIOUS
<1>2. cnt \in [0 .. 0 -> Nat] /\ cnt[0] = 0 /\ Len(<<>>) = 0 /\ <<>> \in Seq(Nat)
  BY <1>1
<1>3. \A k \in 0 .. 0 : cnt[k] <= 0
  BY <1>1
<1>4. Numbers(c, <<>>, cnt, <<>>)
  BY <1>2, <1>3 DEF Numbers
<1> QED
  BY <1>1, <1>4

\* No values, no words.
LEMMA LaysStart ==
  ASSUME NEW c
  PROVE  Lays(c, <<>>, <<>>, [k \in 0 .. 0 |-> 0])
<1>1. PICK st : st = [k \in 0 .. 0 |-> 0]
  OBVIOUS
<1>2. st \in [0 .. 0 -> Nat] /\ st[0] = 0 /\ Len(<<>>) = 0 /\ <<>> \in Seq(Nat)
  BY <1>1
<1>3. Lays(c, <<>>, <<>>, st)
  BY <1>2 DEF Lays
<1> QED
  BY <1>1, <1>3

\* A null: no value more.
LEMMA NumbersNull ==
  ASSUME NEW c, NEW g, NEW cnt, NEW d, g \in Seq(Entry),
         Numbers(c, g, cnt, d), NEW e \in Entry, e.dlvl # c.dlevel_max
  PROVE  \E cnt2 : Numbers(c, Append(g, e), cnt2, d)
<1>1. PICK n \in Nat : n = Len(g)
  BY LenProperties
<1>2. PICK h \in Seq(Entry) :
        /\ h = Append(g, e) /\ Len(h) = n + 1
        /\ \A j \in 1 .. n : h[j] = g[j]
        /\ h[n + 1] = e
  BY <1>1, AppendIs, ZenonT(60)
<1>3. /\ d \in Seq(Nat) /\ cnt \in [0 .. n -> Nat] /\ cnt[0] = 0
      /\ cnt[n] = Len(d) /\ Len(d) \in Nat
      /\ \A k \in 0 .. n : cnt[k] <= Len(d)
  BY <1>1, LenProperties DEF Numbers
<1>4. PICK cnt2 : cnt2 = [k \in 0 .. (n + 1) |-> IF k = n + 1 THEN cnt[n] ELSE cnt[k]]
  OBVIOUS
<1>5. /\ \A k \in 0 .. n : cnt2[k] = cnt[k]
      /\ cnt2[n + 1] = Len(d) /\ cnt2 \in [0 .. (n + 1) -> Nat]
  BY <1>3, <1>4
<1>6. ASSUME NEW k \in 1 .. (n + 1)
      PROVE  IF h[k].dlvl = c.dlevel_max
             THEN cnt2[k] = cnt2[k - 1] + 1 /\ d[cnt2[k]] = Keeps(c, h[k].val)
             ELSE cnt2[k] = cnt2[k - 1]
  <2>1. CASE k = n + 1
    <3>1. k - 1 = n /\ n \in 0 .. n
      BY <2>1
    <3> QED
      BY <1>2, <1>3, <1>5, <2>1, <3>1
  <2>2. CASE k \in 1 .. n
    <3>1. k - 1 \in 0 .. n /\ k \in 0 .. n
      BY <2>2
    <3>2. h[k] = g[k] /\ cnt2[k] = cnt[k] /\ cnt2[k - 1] = cnt[k - 1]
      BY <1>2, <1>5, <2>2, <3>1
    <3>3. IF g[k].dlvl = c.dlevel_max
          THEN cnt[k] = cnt[k - 1] + 1 /\ d[cnt[k]] = Keeps(c, g[k].val)
          ELSE cnt[k] = cnt[k - 1]
      BY <1>1, <2>2 DEF Numbers
    <3> QED
      BY <3>2, <3>3
  <2> QED
    BY <2>1, <2>2
<1>7. \A k \in 0 .. (n + 1) : cnt2[k] <= Len(d)
  BY <1>3, <1>5
<1>8. cnt2[0] = 0 /\ \A m \in 1 .. Len(d) : stored(c, d[m]) = d[m]
  BY <1>3, <1>5 DEF Numbers
<1>9. Numbers(c, h, cnt2, d)
  BY <1>2, <1>3, <1>5, <1>6, <1>7, <1>8 DEF Numbers
<1> QED
  BY <1>2, <1>9

\* A defined entry: one value more.
LEMMA NumbersValue ==
  ASSUME NEW c, NEW g, NEW cnt, NEW d, g \in Seq(Entry),
         Numbers(c, g, cnt, d), NEW e \in Entry, e.dlvl = c.dlevel_max,
         NEW u \in Nat, u = Keeps(c, e.val), stored(c, u) = u
  PROVE  \E cnt2 : Numbers(c, Append(g, e), cnt2, Append(d, u))
<1>1. PICK n \in Nat : n = Len(g)
  BY LenProperties
<1>2. PICK h \in Seq(Entry) :
        /\ h = Append(g, e) /\ Len(h) = n + 1
        /\ \A j \in 1 .. n : h[j] = g[j]
        /\ h[n + 1] = e
  BY <1>1, AppendIs, ZenonT(60)
<1>3. /\ d \in Seq(Nat) /\ cnt \in [0 .. n -> Nat] /\ cnt[0] = 0
      /\ cnt[n] = Len(d) /\ Len(d) \in Nat
      /\ \A k \in 0 .. n : cnt[k] <= Len(d)
  BY <1>1, LenProperties DEF Numbers
<1>4. PICK p \in Nat : p = Len(d)
  BY <1>3
<1>5. PICK d2 \in Seq(Nat) :
        /\ d2 = Append(d, u) /\ Len(d2) = p + 1
        /\ \A j \in 1 .. p : d2[j] = d[j]
        /\ d2[p + 1] = u
  <2>1. Append(d, u) \in Seq(Nat) /\ Len(Append(d, u)) = p + 1
    BY <1>3, <1>4, AppendIs
  <2>2. \A j \in 1 .. p : Append(d, u)[j] = d[j]
    BY <1>3, <1>4, AppendIs
  <2>3. Append(d, u)[p + 1] = u
    BY <1>3, <1>4, AppendIs
  <2> QED
    BY <2>1, <2>2, <2>3
<1>6. PICK cnt2 : cnt2 = [k \in 0 .. (n + 1) |-> IF k = n + 1 THEN p + 1 ELSE cnt[k]]
  OBVIOUS
<1>7. /\ \A k \in 0 .. n : cnt2[k] = cnt[k]
      /\ cnt2[n + 1] = p + 1 /\ cnt2 \in [0 .. (n + 1) -> Nat]
  BY <1>3, <1>4, <1>6
<1>8. ASSUME NEW k \in 1 .. (n + 1)
      PROVE  IF h[k].dlvl = c.dlevel_max
             THEN cnt2[k] = cnt2[k - 1] + 1 /\ d2[cnt2[k]] = Keeps(c, h[k].val)
             ELSE cnt2[k] = cnt2[k - 1]
  <2>1. CASE k = n + 1
    <3>1. k - 1 = n /\ n \in 0 .. n
      BY <2>1
    <3> QED
      BY <1>2, <1>3, <1>4, <1>5, <1>7, <2>1, <3>1
  <2>2. CASE k \in 1 .. n
    <3>1. k - 1 \in 0 .. n /\ k \in 0 .. n
      BY <2>2
    <3>2. h[k] = g[k] /\ cnt2[k] = cnt[k] /\ cnt2[k - 1] = cnt[k - 1]
      BY <1>2, <1>7, <2>2, <3>1
    <3>3. IF g[k].dlvl = c.dlevel_max
          THEN cnt[k] = cnt[k - 1] + 1 /\ d[cnt[k]] = Keeps(c, g[k].val)
          ELSE cnt[k] = cnt[k - 1]
      BY <1>1, <2>2 DEF Numbers
    <3>4. cnt[k] = cnt[k - 1] + 1 => d2[cnt[k]] = d[cnt[k]]
      <4>1. cnt[k] \in Nat /\ cnt[k - 1] \in Nat /\ cnt[k] <= p
        BY <1>3, <1>4, <3>1
      <4>2. cnt[k] = cnt[k - 1] + 1 => cnt[k] \in 1 .. p
        BY <4>1
      <4> QED
        BY <1>5, <4>2
    <3> QED
      BY <3>2, <3>3, <3>4
  <2> QED
    BY <2>1, <2>2
<1>9. \A k \in 0 .. (n + 1) : cnt2[k] <= p + 1
  <2>1. \A k \in 0 .. n : cnt2[k] \in Nat /\ cnt2[k] <= p
    BY <1>3, <1>4, <1>7
  <2>2. \A k \in 0 .. (n + 1) : k \in 0 .. n \/ k = n + 1
    OBVIOUS
  <2> QED
    BY <1>7, <2>1, <2>2
<1>10. cnt2[0] = 0
  BY <1>3, <1>7
<1>11. \A m \in 1 .. (p + 1) : stored(c, d2[m]) = d2[m]
  <2>1. \A m \in 1 .. p : stored(c, d[m]) = d[m]
    BY <1>4 DEF Numbers
  <2>2. \A m \in 1 .. (p + 1) : m \in 1 .. p \/ m = p + 1
    OBVIOUS
  <2> QED
    BY <1>5, <2>1, <2>2
<1>12. Numbers(c, h, cnt2, d2)
  BY <1>2, <1>5, <1>7, <1>8, <1>9, <1>10, <1>11 DEF Numbers
<1> QED
  BY <1>2, <1>5, <1>12

\* A plain column appends the words of the value.
LEMMA LaysValue ==
  ASSUME NEW c, NEW data, NEW d \in Seq(Nat), NEW st, Lays(c, data, d, st),
         NEW u \in Nat, words(c, u) \in Seq(Nat)
  PROVE  \E st2 : Lays(c, data \o words(c, u), Append(d, u), st2)
<1>1. PICK ws \in Seq(Nat), L \in Nat : ws = words(c, u) /\ L = Len(ws)
  BY LenProperties
<1>2. PICK p \in Nat, z \in Nat : p = Len(d) /\ z = Len(data)
  BY LenProperties DEF Lays
<1>3. /\ data \in Seq(Nat) /\ st \in [0 .. p -> Nat] /\ st[0] = 0 /\ st[p] = z
  BY <1>2 DEF Lays
<1>4. PICK d2 \in Seq(Nat) :
        /\ d2 = Append(d, u) /\ Len(d2) = p + 1
        /\ \A j \in 1 .. p : d2[j] = d[j]
        /\ d2[p + 1] = u
  BY <1>2, AppendIs
<1>5. PICK data2 \in Seq(Nat) :
        /\ data2 = data \o ws /\ Len(data2) = z + L
        /\ \A i \in 1 .. z : data2[i] = data[i]
        /\ \A q \in 1 .. L : data2[z + q] = ws[q]
  <2>1. data \o ws \in Seq(Nat) /\ Len(data \o ws) = z + L
    BY <1>1, <1>2, <1>3, ConcatIs
  <2>2. \A i \in 1 .. z : (data \o ws)[i] = data[i]
    BY <1>1, <1>2, <1>3, ConcatIs
  <2>3. \A q \in 1 .. L : (data \o ws)[z + q] = ws[q]
    BY <1>1, <1>2, <1>3, ConcatIs
  <2> QED
    BY <2>1, <2>2, <2>3
<1>6. PICK st2 : st2 = [m \in 0 .. (p + 1) |-> IF m = p + 1 THEN z + L ELSE st[m]]
  OBVIOUS
<1>7. /\ \A m \in 0 .. p : st2[m] = st[m]
      /\ st2[p + 1] = z + L /\ st2 \in [0 .. (p + 1) -> Nat]
  BY <1>3, <1>6
<1>8. ASSUME NEW m \in 1 .. (p + 1)
      PROVE  /\ st2[m] = st2[m - 1] + Len(words(c, d2[m])) /\ st2[m] <= z + L
             /\ \A q \in 1 .. Len(words(c, d2[m])) :
                  data2[st2[m - 1] + q] = words(c, d2[m])[q]
  <2>1. CASE m = p + 1
    <3>1. m - 1 = p /\ p \in 0 .. p
      BY <2>1
    <3>2. d2[m] = u /\ st2[m - 1] = z /\ st2[m] = z + L
      BY <1>3, <1>4, <1>7, <2>1, <3>1
    <3>3. words(c, d2[m]) = ws /\ Len(words(c, d2[m])) = L
      BY <1>1, <3>2
    <3>4. \A q \in 1 .. L : data2[z + q] = ws[q]
      BY <1>5
    <3>5. \A q \in 1 .. L : data2[st2[m - 1] + q] = ws[q]
      BY <3>2, <3>4
    <3>6. st2[m] = st2[m - 1] + L /\ st2[m] <= z + L
      BY <3>2
    <3> QED
      BY <3>3, <3>5, <3>6
  <2>2. CASE m \in 1 .. p
    <3>1. m - 1 \in 0 .. p /\ m \in 0 .. p
      BY <2>2
    <3>2. d2[m] = d[m] /\ st2[m] = st[m] /\ st2[m - 1] = st[m - 1]
      BY <1>4, <1>7, <2>2, <3>1
    <3>3. /\ st[m] = st[m - 1] + Len(words(c, d[m])) /\ st[m] <= z
          /\ \A q \in 1 .. Len(words(c, d[m])) :
               data[st[m - 1] + q] = words(c, d[m])[q]
      BY <1>2, <2>2 DEF Lays
    <3>4. st[m] \in Nat /\ st[m - 1] \in Nat
      BY <1>3, <3>1
    <3>5. ASSUME NEW q \in 1 .. Len(words(c, d[m]))
          PROVE  data2[st[m - 1] + q] = words(c, d[m])[q]
      <4>1. PICK K \in Nat : K = Len(words(c, d[m]))
        BY <3>3, <3>4
      <4>2. st[m] = st[m - 1] + K /\ st[m] <= z /\ q \in 1 .. K
        BY <3>3, <4>1
      <4>3. st[m - 1] + q \in 1 .. z
        BY <3>4, <4>2, Within
      <4> QED
        BY <1>5, <3>3, <4>3
    <3>6. st[m] <= z + L
      BY <3>3, <3>4
    <3> QED
      BY <3>2, <3>3, <3>5, <3>6
  <2> QED
    BY <2>1, <2>2
<1>9. st2[0] = 0
  BY <1>3, <1>7
<1>10. Lays(c, data2, d2, st2)
  BY <1>4, <1>5, <1>7, <1>8, <1>9, ZenonT(60) DEF Lays
<1> QED
  BY <1>1, <1>4, <1>5, <1>10

Writer ==
  [rlvl_writer_ : Encoder, dlvl_writer_ : Encoder,
   data_writer_ : Encoder \cup Seq(Nat), num_vals_ : Nat]

Rlvls(g) == [k \in 1 .. Len(g) |-> g[k].rlvl]
Dlvls(g) == [k \in 1 .. Len(g) |-> g[k].dlvl]

\* The writer w of column c holds the entries g, before commit ...
OpenWith(c, w, g, cnt, d, st) ==
  /\ w \in Writer /\ w.num_vals_ = Len(g)
  /\ Entries(c, g) /\ Numbers(c, g, cnt, d)
  /\ Encodes(w.rlvl_writer_, c.rlevel_max, Rlvls(g))
  /\ Encodes(w.dlvl_writer_, c.dlevel_max, Dlvls(g))
  /\ IsPacked(c) => Encodes(w.data_writer_, 1, d)
  /\ ~ IsPacked(c) => Lays(c, w.data_writer_, d, st)
ColumnOpen(c, w, g) == \E cnt, d, st : OpenWith(c, w, g, cnt, d, st)

\* ... and after it.
DoneWith(c, w, g, x) ==
  /\ w \in Writer /\ w.num_vals_ = Len(g)
  /\ Entries(c, g) /\ Numbers(c, g, x.cnt, x.d)
  /\ Flushed(w.rlvl_writer_, c.rlevel_max, Rlvls(g))
  /\ Flushed(w.dlvl_writer_, c.dlevel_max, Dlvls(g))
  /\ IsPacked(c) => Flushed(w.data_writer_, 1, x.d)
  /\ ~ IsPacked(c) => Lays(c, w.data_writer_, x.d, x.st)
ColumnDone(c, w, g) == \E x : DoneWith(c, w, g, x)

\* The levels of a list of entries.
LEMMA LvlsAre ==
  ASSUME NEW g \in Seq(Entry)
  PROVE  /\ Rlvls(g) \in Seq(Nat) /\ Len(Rlvls(g)) = Len(g)
         /\ Dlvls(g) \in Seq(Nat) /\ Len(Dlvls(g)) = Len(g)
         /\ \A k \in 1 .. Len(g) : Rlvls(g)[k] = g[k].rlvl /\ Dlvls(g)[k] = g[k].dlvl
<1>1. PICK n \in Nat : n = Len(g)
  BY LenProperties
<1>2. \A k \in 1 .. n : g[k] \in Entry
  BY <1>1, ElementOfSeq
<1>3. \A k \in 1 .. n : g[k].rlvl \in Nat /\ g[k].dlvl \in Nat
  BY <1>2 DEF Entry
<1>4. /\ Rlvls(g) \in Seq(Nat) /\ Len(Rlvls(g)) = n
      /\ \A k \in 1 .. n : Rlvls(g)[k] = g[k].rlvl
  BY <1>1, <1>3 DEF Rlvls
<1>5. /\ Dlvls(g) \in Seq(Nat) /\ Len(Dlvls(g)) = n
      /\ \A k \in 1 .. n : Dlvls(g)[k] = g[k].dlvl
  BY <1>1, <1>3 DEF Dlvls
<1> QED
  BY <1>1, <1>4, <1>5

\* An entry more is a level more in each stream.
LEMMA LvlsAppend ==
  ASSUME NEW g \in Seq(Entry), NEW e \in Entry
  PROVE  /\ Rlvls(Append(g, e)) = Append(Rlvls(g), e.rlvl)
         /\ Dlvls(Append(g, e)) = Append(Dlvls(g), e.dlvl)
<1>1. PICK n \in Nat : n = Len(g)
  BY LenProperties
<1>3. PICK h \in Seq(Entry) :
        /\ h = Append(g, e) /\ Len(h) = n + 1
        /\ \A j \in 1 .. n : h[j] = g[j]
        /\ h[n + 1] = e
  BY <1>1, AppendIs
<1>4. /\ Rlvls(g) \in Seq(Nat) /\ Len(Rlvls(g)) = n
      /\ \A k \in 1 .. n : Rlvls(g)[k] = g[k].rlvl
  BY <1>1, LvlsAre
<1>5. /\ Dlvls(g) \in Seq(Nat) /\ Len(Dlvls(g)) = n
      /\ \A k \in 1 .. n : Dlvls(g)[k] = g[k].dlvl
  BY <1>1, LvlsAre
<1>6. Rlvls(h) = Append(Rlvls(g), e.rlvl)
  <2>1. e.rlvl \in Nat
    BY DEF Entry
  <2>2. PICK s : s = Append(Rlvls(g), e.rlvl)
    OBVIOUS
  <2>3. s \in Seq(Nat) /\ Len(s) = n + 1 /\ (\A j \in 1 .. n : s[j] = Rlvls(g)[j])
        /\ s[n + 1] = e.rlvl
    BY <1>4, <2>1, <2>2, AppendIs
  <2>4. \A k \in 1 .. (n + 1) : s[k] = h[k].rlvl
    <3>1. \A k \in 1 .. (n + 1) : k \in 1 .. n \/ k = n + 1
      OBVIOUS
    <3> QED
      BY <1>3, <1>4, <2>3, <3>1
  <2>5. s = [k \in 1 .. (n + 1) |-> s[k]]
    BY <2>3
  <2> QED
    BY <1>3, <2>2, <2>4, <2>5 DEF Rlvls
<1>7. Dlvls(h) = Append(Dlvls(g), e.dlvl)
  <2>1. e.dlvl \in Nat
    BY DEF Entry
  <2>2. PICK s : s = Append(Dlvls(g), e.dlvl)
    OBVIOUS
  <2>3. s \in Seq(Nat) /\ Len(s) = n + 1 /\ (\A j \in 1 .. n : s[j] = Dlvls(g)[j])
        /\ s[n + 1] = e.dlvl
    BY <1>5, <2>1, <2>2, AppendIs
  <2>4. \A k \in 1 .. (n + 1) : s[k] = h[k].dlvl
    <3>1. \A k \in 1 .. (n + 1) : k \in 1 .. n \/ k = n + 1
      OBVIOUS
    <3> QED
      BY <1>3, <1>5, <2>3, <3>1
  <2>5. s = [k \in 1 .. (n + 1) |-> s[k]]
    BY <2>3
  <2> QED
    BY <1>3, <2>2, <2>4, <2>5 DEF Dlvls
<1> QED
  BY <1>3, <1>6, <1>7

\* Both level streams hold one entry more.
LEMMA LvlsStep ==
  ASSUME NEW g \in Seq(Entry), NEW e \in Entry, NEW m \in Nat, NEW n \in Nat,
         NEW x, NEW y, Encodes(x, m, Rlvls(g)), Encodes(y, n, Dlvls(g))
  PROVE  /\ Encodes(encode(x, e.rlvl), m, Rlvls(Append(g, e)))
         /\ Encodes(encode(y, e.dlvl), n, Dlvls(Append(g, e)))
<1>1. e.rlvl \in Nat /\ e.dlvl \in Nat
  BY DEF Entry
<1>2. Rlvls(g) \in Seq(Nat) /\ Dlvls(g) \in Seq(Nat)
  BY LvlsAre
<1>3. Encodes(encode(x, e.rlvl), m, Append(Rlvls(g), e.rlvl))
  BY <1>1, <1>2, EncodeStep
<1>4. Encodes(encode(y, e.dlvl), n, Append(Dlvls(g), e.dlvl))
  BY <1>1, <1>2, EncodeStep
<1> QED
  BY <1>3, <1>4, LvlsAppend

\* An entry within the bounds of the column.
LEMMA EntriesAppend ==
  ASSUME NEW c, NEW g, Entries(c, g), NEW e \in Entry,
         e.rlvl <= c.rlevel_max, e.dlvl <= c.dlevel_max
  PROVE  Entries(c, Append(g, e))
<1>1. g \in Seq(Entry)
  BY DEF Entries
<1>2. PICK n \in Nat : n = Len(g)
  BY <1>1, LenProperties
<1>3. PICK h \in Seq(Entry) :
        /\ h = Append(g, e) /\ Len(h) = n + 1
        /\ \A j \in 1 .. n : h[j] = g[j]
        /\ h[n + 1] = e
  BY <1>1, <1>2, AppendIs
<1>4. \A k \in 1 .. (n + 1) : k \in 1 .. n \/ k = n + 1
  OBVIOUS
<1>5. \A k \in 1 .. (n + 1) : h[k].rlvl <= c.rlevel_max /\ h[k].dlvl <= c.dlevel_max
  BY <1>2, <1>3, <1>4 DEF Entries
<1> QED
  BY <1>3, <1>5 DEF Entries

\* A new column writer holds no entries.
LEMMA ColumnStarts ==
  ASSUME NEW c, IsColumn(c)
  PROVE  ColumnOpen(c, ColumnWriter(c), <<>>)
<1>1. PICK w : w = ColumnWriter(c)
  OBVIOUS
<1>2. PICK r, q, b : /\ r = BitPackEncoder(c.rlevel_max)
                     /\ q = BitPackEncoder(c.dlevel_max)
                     /\ b = BitPackEncoder(1)
  OBVIOUS
<1>3. /\ Encodes(r, c.rlevel_max, <<>>) /\ Encodes(q, c.dlevel_max, <<>>)
      /\ Encodes(b, 1, <<>>)
  BY <1>2, EncoderStarts DEF IsColumn
<1>4. r \in Encoder /\ q \in Encoder /\ b \in Encoder
  BY <1>3 DEF Encodes
<1>5. w = [rlvl_writer_ |-> r, dlvl_writer_ |-> q,
           data_writer_ |-> IF IsPacked(c) THEN b ELSE <<>>, num_vals_ |-> 0]
  BY <1>1, <1>2 DEF ColumnWriter
<1>6. /\ w \in Writer /\ w.num_vals_ = 0 /\ w.rlvl_writer_ = r
      /\ w.dlvl_writer_ = q
      /\ w.data_writer_ = IF IsPacked(c) THEN b ELSE <<>>
  BY <1>4, <1>5 DEF Writer
<1>7. Rlvls(<<>>) = <<>> /\ Dlvls(<<>>) = <<>> /\ Len(<<>>) = 0
  BY DEF Rlvls, Dlvls
<1>8. Entries(c, <<>>)
  BY DEF Entries
<1>9. OpenWith(c, w, <<>>, [k \in 0 .. 0 |-> 0], <<>>, [k \in 0 .. 0 |-> 0])
  BY <1>3, <1>6, <1>7, <1>8, NumbersStart, LaysStart DEF OpenWith
<1> QED
  BY <1>1, <1>9 DEF ColumnOpen

\* The typed writes: a value with the full definition level ...
LEMMA ColumnAddDatum ==
  ASSUME NEW c, IsColumn(c), NEW w, NEW g, ColumnOpen(c, w, g),
         NEW rlvl \in 0 .. c.rlevel_max, NEW v \in BOOLEAN \cup Int,
         NEW u \in Nat, u = datum(c.logical_type, v)
  PROVE  ColumnOpen(c, addDatum(c, w, rlvl, c.dlevel_max, u),
                    Append(g, [rlvl |-> rlvl, dlvl |-> c.dlevel_max, val |-> v]))
<1>1. PICK cnt, d, st : OpenWith(c, w, g, cnt, d, st)
  BY DEF ColumnOpen
<1>2. PICK e : e = [rlvl |-> rlvl, dlvl |-> c.dlevel_max, val |-> v]
  OBVIOUS
<1>3. /\ e \in Entry /\ e.rlvl = rlvl /\ e.dlvl = c.dlevel_max /\ e.val = v
      /\ e.rlvl <= c.rlevel_max /\ e.dlvl <= c.dlevel_max
      /\ rlvl \in Nat /\ c.rlevel_max \in Nat /\ c.dlevel_max \in Nat
  BY <1>2 DEF Entry, IsColumn
<1>4. g \in Seq(Entry) /\ Len(g) \in Nat /\ d \in Seq(Nat)
  BY <1>1, LenProperties DEF OpenWith, Entries, Numbers
<1>5. PICK s \in Nat : s = stored(c, u) /\ stored(c, s) = s /\ s = Keeps(c, e.val)
  BY <1>3, StoredTwice DEF Keeps, IsColumn
<1>6. PICK cnt2 : Numbers(c, Append(g, e), cnt2, Append(d, s))
  BY <1>1, <1>3, <1>4, <1>5, NumbersValue DEF OpenWith
<1>7. PICK r, q : /\ r = encode(w.rlvl_writer_, rlvl)
                  /\ q = encode(w.dlvl_writer_, c.dlevel_max)
  OBVIOUS
<1>8. /\ Encodes(r, c.rlevel_max, Rlvls(Append(g, e)))
      /\ Encodes(q, c.dlevel_max, Dlvls(Append(g, e)))
  BY <1>1, <1>3, <1>4, <1>7, LvlsStep DEF OpenWith
<1>9. PICK b, st2 :
        /\ b = IF IsPacked(c) THEN encode(w.data_writer_, s)
                              ELSE w.data_writer_ \o words(c, u)
        /\ IsPacked(c) => Encodes(b, 1, Append(d, s))
        /\ ~ IsPacked(c) => Lays(c, b, Append(d, s), st2)
  <2>1. CASE IsPacked(c)
    <3>1. Encodes(encode(w.data_writer_, s), 1, Append(d, s))
      BY <1>1, <1>4, <2>1, EncodeStep DEF OpenWith
    <3> QED
      BY <2>1, <3>1
  <2>2. CASE ~ IsPacked(c)
    <3>1. words(c, s) = words(c, u) /\ words(c, s) \in Seq(Nat)
      BY <1>5, <2>2, WordsOfStored, PlainReads DEF IsColumn
    <3>2. Lays(c, w.data_writer_, d, st)
      BY <1>1, <2>2 DEF OpenWith
    <3>3. PICK st2 : Lays(c, w.data_writer_ \o words(c, s), Append(d, s), st2)
      BY <1>4, <3>1, <3>2, LaysValue
    <3> QED
      BY <2>2, <3>1, <3>3
  <2> QED
    BY <2>1, <2>2
<1>10. /\ r \in Encoder /\ q \in Encoder /\ b \in Encoder \cup Seq(Nat)
  BY <1>8, <1>9 DEF Encodes, Lays
<1>11. PICK w2 : w2 = addDatum(c, w, rlvl, c.dlevel_max, u)
  OBVIOUS
<1>12. w2 = [w EXCEPT !.rlvl_writer_ = r, !.dlvl_writer_ = q,
                      !.data_writer_ = b, !.num_vals_ = w.num_vals_ + 1]
  BY <1>5, <1>7, <1>9, <1>11 DEF addDatum
<1>13. w \in Writer /\ w.num_vals_ = Len(g) /\ w.num_vals_ + 1 \in Nat
  BY <1>1, <1>4 DEF OpenWith
<1>14. /\ w2 \in Writer /\ w2.rlvl_writer_ = r /\ w2.dlvl_writer_ = q
       /\ w2.data_writer_ = b /\ w2.num_vals_ = w.num_vals_ + 1
  BY <1>10, <1>12, <1>13 DEF Writer
<1>15. w2.num_vals_ = Len(Append(g, e))
  BY <1>3, <1>4, <1>13, <1>14, AppendIs
<1>16. Entries(c, Append(g, e))
  BY <1>1, <1>3, EntriesAppend DEF OpenWith
<1>17. OpenWith(c, w2, Append(g, e), cnt2, Append(d, s), st2)
  BY <1>6, <1>8, <1>9, <1>14, <1>15, <1>16 DEF OpenWith
<1> QED
  BY <1>2, <1>11, <1>17 DEF ColumnOpen

\* ... or a null.
LEMMA ColumnWriteNull ==
  ASSUME NEW c, IsColumn(c), NEW w, NEW g, ColumnOpen(c, w, g),
         NEW rlvl \in 0 .. c.rlevel_max, NEW dlvl \in 0 .. (c.dlevel_max - 1)
  PROVE  ColumnOpen(c, writeNull(w, rlvl, dlvl),
                    Append(g, [rlvl |-> rlvl, dlvl |-> dlvl, val |-> 0]))
<1>1. PICK cnt, d, st : OpenWith(c, w, g, cnt, d, st)
  BY DEF ColumnOpen
<1>2. PICK e : e = [rlvl |-> rlvl, dlvl |-> dlvl, val |-> 0]
  OBVIOUS
<1>3. /\ e \in Entry /\ e.rlvl = rlvl /\ e.dlvl = dlvl
      /\ e.rlvl <= c.rlevel_max /\ e.dlvl <= c.dlevel_max
      /\ e.dlvl # c.dlevel_max /\ rlvl \in Nat /\ dlvl \in Nat
      /\ c.rlevel_max \in Nat /\ c.dlevel_max \in Nat
  BY <1>2 DEF Entry, IsColumn
<1>4. g \in Seq(Entry) /\ Len(g) \in Nat /\ d \in Seq(Nat)
  BY <1>1, LenProperties DEF OpenWith, Entries, Numbers
<1>5. PICK cnt2 : Numbers(c, Append(g, e), cnt2, d)
  BY <1>1, <1>3, <1>4, NumbersNull DEF OpenWith
<1>6. PICK r, q : /\ r = encode(w.rlvl_writer_, rlvl)
                  /\ q = encode(w.dlvl_writer_, dlvl)
  OBVIOUS
<1>7. /\ Encodes(r, c.rlevel_max, Rlvls(Append(g, e)))
      /\ Encodes(q, c.dlevel_max, Dlvls(Append(g, e)))
  BY <1>1, <1>3, <1>4, <1>6, LvlsStep DEF OpenWith
<1>8. r \in Encoder /\ q \in Encoder
  BY <1>7 DEF Encodes
<1>9. PICK w2 : w2 = writeNull(w, rlvl, dlvl)
  OBVIOUS
<1>10. w2 = [w EXCEPT !.rlvl_writer_ = r, !.dlvl_writer_ = q,
                      !.num_vals_ = w.num_vals_ + 1]
  BY <1>6, <1>9 DEF writeNull
<1>11. w \in Writer /\ w.num_vals_ = Len(g) /\ w.num_vals_ + 1 \in Nat
  BY <1>1, <1>4 DEF OpenWith
<1>12. /\ w2 \in Writer /\ w2.rlvl_writer_ = r /\ w2.dlvl_writer_ = q
       /\ w2.data_writer_ = w.data_writer_ /\ w2.num_vals_ = w.num_vals_ + 1
  BY <1>8, <1>10, <1>11 DEF Writer
<1>13. w2.num_vals_ = Len(Append(g, e))
  BY <1>3, <1>4, <1>11, <1>12, AppendIs
<1>14. Entries(c, Append(g, e))
  BY <1>1, <1>3, EntriesAppend DEF OpenWith
<1>15. OpenWith(c, w2, Append(g, e), cnt2, d, st)
  BY <1>1, <1>5, <1>7, <1>12, <1>13, <1>14 DEF OpenWith
<1> QED
  BY <1>2, <1>9, <1>15 DEF ColumnOpen

\* commit pads the streams; called again, it changes nothing.
LEMMA ColumnCommit ==
  ASSUME NEW c, IsColumn(c), NEW w, NEW g, ColumnOpen(c, w, g)
  PROVE  ColumnDone(c, commitColumn(c, w), g)
<1>1. PICK cnt, d, st : OpenWith(c, w, g, cnt, d, st)
  BY DEF ColumnOpen
<1>2. PICK x : x = [cnt |-> cnt, d |-> d, st |-> st]
  OBVIOUS
<1>3. g \in Seq(Entry) /\ d \in Seq(Nat)
  BY <1>1 DEF OpenWith, Entries, Numbers
<1>4. Rlvls(g) \in Seq(Nat) /\ Dlvls(g) \in Seq(Nat)
  BY <1>3, LvlsAre
<1>5. PICK r, q, b : /\ r = flush(w.rlvl_writer_) /\ q = flush(w.dlvl_writer_)
                     /\ b = IF IsPacked(c) THEN flush(w.data_writer_)
                                           ELSE w.data_writer_
  OBVIOUS
<1>6. /\ Flushed(r, c.rlevel_max, Rlvls(g)) /\ Flushed(q, c.dlevel_max, Dlvls(g))
      /\ IsPacked(c) => Flushed(b, 1, d)
      /\ ~ IsPacked(c) => Lays(c, b, d, st)
  BY <1>1, <1>3, <1>4, <1>5, FlushStep DEF OpenWith, IsColumn
<1>7. r \in Encoder /\ q \in Encoder /\ b \in Encoder \cup Seq(Nat)
  BY <1>6 DEF Flushed, Lays
<1>8. PICK w2 : w2 = commitColumn(c, w)
  OBVIOUS
<1>9. w2 = [w EXCEPT !.rlvl_writer_ = r, !.dlvl_writer_ = q, !.data_writer_ = b]
  BY <1>5, <1>8 DEF commitColumn
<1>10. w \in Writer
  BY <1>1 DEF OpenWith
<1>11. /\ w2 \in Writer /\ w2.rlvl_writer_ = r /\ w2.dlvl_writer_ = q
       /\ w2.data_writer_ = b /\ w2.num_vals_ = w.num_vals_
  BY <1>7, <1>9, <1>10 DEF Writer
<1>12. DoneWith(c, w2, g, x)
  BY <1>1, <1>2, <1>6, <1>11 DEF OpenWith, DoneWith
<1> QED
  BY <1>8, <1>12 DEF ColumnDone

\* A column that is committed again is left as it is.
LEMMA ColumnCommitAgain ==
  ASSUME NEW c, NEW w, NEW g, ColumnDone(c, w, g)
  PROVE  commitColumn(c, w) = w
<1>1. PICK x : DoneWith(c, w, g, x)
  BY DEF ColumnDone
<1>2. /\ flush(w.rlvl_writer_) = w.rlvl_writer_
      /\ flush(w.dlvl_writer_) = w.dlvl_writer_
      /\ IsPacked(c) => flush(w.data_writer_) = w.data_writer_
  BY <1>1, FlushAgain DEF DoneWith
<1>3. PICK w2 : w2 = commitColumn(c, w)
  OBVIOUS
<1>4. w2 = [w EXCEPT !.rlvl_writer_ = w.rlvl_writer_,
                     !.dlvl_writer_ = w.dlvl_writer_,
                     !.data_writer_ = w.data_writer_]
  BY <1>2, <1>3 DEF commitColumn
<1>5. w \in Writer
  BY <1>1 DEF DoneWith
<1>6. w2 = w
  BY <1>4, <1>5 DEF Writer
<1> QED
  BY <1>3, <1>6

----------------------------------------------------------------------------
(* The body of a column and its reader. *)

AtMost(g, max) == \A k \in 1 .. Len(g) : g[k] <= max

\* The decoder dec, which has yielded v values of the sequence g, yields the
\* next one, and 0 behind the last.
Yields(f, dec, o, bf, max, g, v) ==
  /\ value(f, dec) = IF v < Len(g) THEN g[v + 1] ELSE 0
  /\ v < Len(g) => ~ AtEnd(dec)
  /\ v < Len(g) => DecoderAt(afterNext(f, dec), o, bf, max, v + 1)
  /\ DecoderAt(afterPeek(f, dec), o, bf, max, v)

\* A stream of levels, whatever its maximum.
LEMMA StreamStep ==
  ASSUME NEW max \in Nat, NEW g \in Seq(Nat), AtMost(g, max),
         NEW e, Flushed(e, max, g), NEW o \in Nat, NEW v \in Nat, v <= Len(g),
         NEW f, Holds(f, o, e.buf_), NEW dec, DecoderAt(dec, o, e.buf_, max, v)
  PROVE  Yields(f, dec, o, e.buf_, max, g, v)
<1>1. e.buf_ \in Seq(Block)
  BY DEF Flushed, Encoder
<1>2. CASE max # 0
  <2>1. Pads(e.buf_, g)
    BY <1>2 DEF Flushed
  <2> QED
    BY <1>1, <1>2, <2>1, DecodeStep, NotAtEnd DEF Yields
<1>3. CASE max = 0
  <2>1. dec.maxbits_ = 0
    BY <1>3 DEF DecoderAt
  <2>2. value(f, dec) = 0 /\ afterNext(f, dec) = dec /\ afterPeek(f, dec) = dec
        /\ ~ AtEnd(dec)
    BY <2>1 DEF value, afterNext, afterPeek, AtEnd
  <2>3. DecoderAt(dec, o, e.buf_, max, v + 1)
    BY <1>3 DEF DecoderAt
  <2>4. v < Len(g) => g[v + 1] = 0
    <3>1. SUFFICES ASSUME v < Len(g) PROVE g[v + 1] = 0
      OBVIOUS
    <3>2. v + 1 \in 1 .. Len(g)
      BY <3>1, LenProperties
    <3>3. g[v + 1] \in Nat /\ g[v + 1] <= 0
      BY <1>3, <3>2, ElementOfSeq DEF AtMost
    <3> QED
      BY <3>3
  <2> QED
    BY <2>2, <2>3, <2>4 DEF Yields
<1> QED
  BY <1>2, <1>3

Word == Nat \cup Block

\* The parts of a body, one behind the other.
LEMMA WordConcat ==
  ASSUME NEW s \in Seq(Word), NEW t \in Seq(Word)
  PROVE  /\ s \o t \in Seq(Word) /\ Len(s \o t) = Len(s) + Len(t)
         /\ \A i \in 1 .. Len(s) : (s \o t)[i] = s[i]
         /\ \A q \in 1 .. Len(t) : (s \o t)[Len(s) + q] = t[q]
<1>1. s \o t \in Seq(Word) /\ Len(s \o t) = Len(s) + Len(t)
  BY ConcatIs
<1>2. \A i \in 1 .. Len(s) : (s \o t)[i] = s[i]
  BY ConcatIs
<1>3. \A q \in 1 .. Len(t) : (s \o t)[Len(s) + q] = t[q]
  BY ConcatIs
<1> QED
  BY <1>1, <1>2, <1>3

\* A bit packed integer column has one word in front of its data.
Skip(c) == IF c.storage_type = "UINT32_BITPACKED" THEN 1 ELSE 0

\* The data of a column.
Data(c, w) == IF IsPacked(c) THEN w.data_writer_.buf_ ELSE w.data_writer_

\* The three streams of a committed column and their lengths.
LEMMA DataIs ==
  ASSUME NEW c, IsColumn(c), NEW w, NEW g, ColumnDone(c, w, g)
  PROVE  /\ Data(c, w) \in Seq(Word)
         /\ w.rlvl_writer_.buf_ \in Seq(Block) /\ w.rlvl_writer_.buf_ \in Seq(Word)
         /\ w.dlvl_writer_.buf_ \in Seq(Block) /\ w.dlvl_writer_.buf_ \in Seq(Word)
         /\ Len(g) \in Nat /\ w.num_vals_ = Len(g)
         /\ dataWords(c, w) \in Seq(Word)
         /\ Len(dataWords(c, w)) = Skip(c) + Len(Data(c, w))
         /\ \A q \in 1 .. Len(Data(c, w)) :
              dataWords(c, w)[Skip(c) + q] = Data(c, w)[q]
<1>1. PICK x : DoneWith(c, w, g, x)
  BY DEF ColumnDone
<1>2. \A b : b \in Seq(Block) => b \in Seq(Word)
  BY DEF Word
<1>3. \A b : b \in Seq(Nat) => b \in Seq(Word)
  BY DEF Word
<1>4. /\ w.rlvl_writer_.buf_ \in Seq(Block) /\ w.dlvl_writer_.buf_ \in Seq(Block)
      /\ IsPacked(c) => w.data_writer_.buf_ \in Seq(Block)
      /\ ~ IsPacked(c) => w.data_writer_ \in Seq(Nat)
  BY <1>1 DEF DoneWith, Flushed, Encoder, Lays
<1>5. PICK dd \in Seq(Word) : dd = Data(c, w)
  BY <1>2, <1>3, <1>4 DEF Data
<1>0. PICK p :
        p = IF c.storage_type = "UINT32_BITPACKED" THEN <<Max32 - 1>> ELSE <<>>
  OBVIOUS
<1>6. p \in Seq(Word) /\ Len(p) = Skip(c)
  <2>1. CASE c.storage_type = "UINT32_BITPACKED"
    <3>1. p = <<Max32 - 1>> /\ Skip(c) = 1 /\ Max32 - 1 \in Word
      BY <1>0, <2>1, WidthAssumption DEF Skip, Word
    <3> QED
      BY <3>1
  <2>2. CASE c.storage_type # "UINT32_BITPACKED"
    <3>1. p = <<>> /\ Skip(c) = 0
      BY <1>0, <2>2 DEF Skip
    <3> QED
      BY <3>1
  <2> QED
    BY <2>1, <2>2
<1>7. dataWords(c, w) = p \o dd
  BY <1>0, <1>5 DEF dataWords, Data
<1>8. /\ p \o dd \in Seq(Word) /\ Len(p \o dd) = Skip(c) + Len(dd)
      /\ \A q \in 1 .. Len(dd) : (p \o dd)[Skip(c) + q] = dd[q]
  <2>1. /\ p \o dd \in Seq(Word) /\ Len(p \o dd) = Len(p) + Len(dd)
        /\ \A q \in 1 .. Len(dd) : (p \o dd)[Len(p) + q] = dd[q]
    BY <1>6, WordConcat
  <2> QED
    BY <1>6, <2>1
<1>9. Len(g) \in Nat /\ w.num_vals_ = Len(g)
  BY <1>1, LenProperties DEF DoneWith, Entries
<1> QED
  BY <1>2, <1>4, <1>5, <1>7, <1>8, <1>9

\* The words b are the parts h, r, q and d, one behind the other.
InParts(b, h, r, q, d) ==
  /\ b \in Seq(Word) /\ Len(b) = Len(h) + Len(r) + Len(q) + Len(d)
  /\ \A i \in 1 .. Len(h) : b[i] = h[i]
  /\ \A i \in 1 .. Len(r) : b[Len(h) + i] = r[i]
  /\ \A i \in 1 .. Len(q) : b[Len(h) + Len(r) + i] = q[i]
  /\ \A i \in 1 .. Len(d) : b[Len(h) + Len(r) + Len(q) + i] = d[i]

\* The four parts of a body.
LEMMA BodyIs ==
  ASSUME NEW h, NEW r, NEW q, NEW d, h \in Seq(Word),
         r \in Seq(Word), q \in Seq(Word), d \in Seq(Word)
  PROVE  InParts(h \o r \o q \o d, h, r, q, d)
<1>1. PICK lh \in Nat, lr \in Nat, lq \in Nat, ld \in Nat :
        lh = Len(h) /\ lr = Len(r) /\ lq = Len(q) /\ ld = Len(d)
  BY LenProperties
<1>2. PICK a : a = h \o r
  OBVIOUS
<1>3. /\ a \in Seq(Word) /\ Len(a) = lh + lr
      /\ \A i \in 1 .. lh : a[i] = h[i]
      /\ \A i \in 1 .. lr : a[lh + i] = r[i]
  <2>1. /\ a \in Seq(Word) /\ Len(a) = Len(h) + Len(r)
        /\ \A i \in 1 .. Len(h) : a[i] = h[i]
        /\ \A i \in 1 .. Len(r) : a[Len(h) + i] = r[i]
    BY <1>2, WordConcat
  <2> QED
    BY <1>1, <2>1
<1>4. PICK b : b = a \o q
  OBVIOUS
<1>5. /\ b \in Seq(Word) /\ Len(b) = lh + lr + lq
      /\ \A i \in 1 .. (lh + lr) : b[i] = a[i]
      /\ \A i \in 1 .. lq : b[lh + lr + i] = q[i]
  <2>1. /\ b \in Seq(Word) /\ Len(b) = Len(a) + Len(q)
        /\ \A i \in 1 .. Len(a) : b[i] = a[i]
        /\ \A i \in 1 .. Len(q) : b[Len(a) + i] = q[i]
    <3>1. a \in Seq(Word)
      BY <1>3
    <3> QED
      BY <1>4, <3>1, WordConcat
  <2> QED
    BY <1>1, <1>3, <2>1
<1>6. PICK e : e = b \o d
  OBVIOUS
<1>7. /\ e \in Seq(Word) /\ Len(e) = lh + lr + lq + ld
      /\ \A i \in 1 .. (lh + lr + lq) : e[i] = b[i]
      /\ \A i \in 1 .. ld : e[lh + lr + lq + i] = d[i]
  <2>1. /\ e \in Seq(Word) /\ Len(e) = Len(b) + Len(d)
        /\ \A i \in 1 .. Len(b) : e[i] = b[i]
        /\ \A i \in 1 .. Len(d) : e[Len(b) + i] = d[i]
    <3>1. b \in Seq(Word)
      BY <1>5
    <3> QED
      BY <1>6, <3>1, WordConcat
  <2> QED
    BY <1>1, <1>5, <2>1
<1>8. ASSUME NEW i \in 1 .. lh PROVE e[i] = h[i]
  <2>1. i \in 1 .. (lh + lr) /\ i \in 1 .. (lh + lr + lq)
    OBVIOUS
  <2> QED
    BY <1>3, <1>5, <1>7, <2>1
<1>9. ASSUME NEW i \in 1 .. lr PROVE e[lh + i] = r[i]
  <2>1. lh + i \in 1 .. (lh + lr) /\ lh + i \in 1 .. (lh + lr + lq)
    OBVIOUS
  <2> QED
    BY <1>3, <1>5, <1>7, <2>1
<1>10. ASSUME NEW i \in 1 .. lq PROVE e[lh + lr + i] = q[i]
  <2>1. lh + lr + i \in 1 .. (lh + lr + lq)
    OBVIOUS
  <2> QED
    BY <1>5, <1>7, <2>1
<1>11. InParts(e, h, r, q, d)
  BY <1>1, <1>7, <1>8, <1>9, <1>10 DEF InParts
<1> QED
  BY <1>2, <1>4, <1>6, <1>11

RBlocks(w) == w.rlvl_writer_.buf_
DBlocks(w) == w.dlvl_writer_.buf_

\* Where the parts of the body at word o begin.
DlvlsAt(w, o) == o + Preamble + Len(RBlocks(w))
DataAt(c, w, o) == o + Preamble + Len(RBlocks(w)) + Len(DBlocks(w)) + Skip(c)

\* The length fields and the parts of the body of a column in file f.
LEMMA BodyHolds ==
  ASSUME NEW c, IsColumn(c), NEW w, NEW g, ColumnDone(c, w, g), NEW o \in Nat,
         NEW f, Holds(f, o, writeBody(c, w))
  PROVE  /\ f[o] = Len(g) /\ f[o + 1] = Len(RBlocks(w)) /\ f[o + 2] = Len(DBlocks(w))
         /\ f[o + 3] = Skip(c) + Len(Data(c, w)) + slack(c)
         /\ Holds(f, o + Preamble, RBlocks(w))
         /\ Holds(f, DlvlsAt(w, o), DBlocks(w))
         /\ Holds(f, DataAt(c, w, o), Data(c, w))
<1>1. PICK r, q, d, n, s :
        /\ r = RBlocks(w) /\ q = DBlocks(w) /\ d = dataWords(c, w)
        /\ n = w.num_vals_ /\ s = dataSize(c, w)
  OBVIOUS
<1>2. /\ r \in Seq(Word) /\ q \in Seq(Word) /\ d \in Seq(Word)
      /\ n = Len(g) /\ n \in Nat /\ Data(c, w) \in Seq(Word)
  BY <1>1, DataIs DEF RBlocks, DBlocks
<1>3. PICK lr \in Nat, lq \in Nat, ld \in Nat, k \in Nat :
        /\ lr = Len(r) /\ lq = Len(q) /\ ld = Len(d) /\ k = Skip(c)
        /\ s = ld + slack(c) /\ s \in Nat
  BY <1>1, <1>2, LenProperties DEF dataSize, slack, Skip
<1>4. PICK h : h = <<n, lr, lq, s>>
  OBVIOUS
<1>5. /\ h \in Seq(Word) /\ Len(h) = 4 /\ h[1] = n /\ h[2] = lr /\ h[3] = lq
      /\ h[4] = s
  <2>1. n \in Word /\ lr \in Word /\ lq \in Word /\ s \in Word
    BY <1>2, <1>3 DEF Word
  <2> QED
    BY <1>4, <2>1
<1>6. PICK b : b = h \o r \o q \o d
  OBVIOUS
<1>7. writeBody(c, w) = b
  BY <1>1, <1>3, <1>4, <1>6 DEF writeBody, RBlocks, DBlocks
<1>8. /\ b \in Seq(Word) /\ Len(b) = 4 + lr + lq + ld
      /\ \A i \in 1 .. 4 : b[i] = h[i]
      /\ \A i \in 1 .. lr : b[4 + i] = r[i]
      /\ \A i \in 1 .. lq : b[4 + lr + i] = q[i]
      /\ \A i \in 1 .. ld : b[4 + lr + lq + i] = d[i]
  <2>1. h \in Seq(Word)
    BY <1>5
  <2>2. /\ b \in Seq(Word) /\ Len(b) = Len(h) + Len(r) + Len(q) + Len(d)
        /\ \A i \in 1 .. Len(h) : b[i] = h[i]
        /\ \A i \in 1 .. Len(r) : b[Len(h) + i] = r[i]
        /\ \A i \in 1 .. Len(q) : b[Len(h) + Len(r) + i] = q[i]
        /\ \A i \in 1 .. Len(d) : b[Len(h) + Len(r) + Len(q) + i] = d[i]
    <3>1. r \in Seq(Word) /\ q \in Seq(Word) /\ d \in Seq(Word)
      BY <1>2
    <3>2. InParts(h \o r \o q \o d, h, r, q, d)
      BY <2>1, <3>1, BodyIs, Zenon
    <3>3. InParts(b, h, r, q, d)
      BY <1>6, <3>2, Zenon
    <3> QED
      BY <3>3 DEF InParts
  <2>3. Len(h) = 4
    BY <1>5
  <2>4. b \in Seq(Word) /\ Len(b) = 4 + lr + lq + ld
    BY <1>3, <2>2, <2>3
  <2>5. \A i \in 1 .. 4 : b[i] = h[i]
    BY <2>2, <2>3
  <2>6. \A i \in 1 .. lr : b[4 + i] = r[i]
    BY <1>3, <2>2, <2>3
  <2>7. \A i \in 1 .. lq : b[4 + lr + i] = q[i]
    BY <1>3, <2>2, <2>3
  <2>8. \A i \in 1 .. ld : b[4 + lr + lq + i] = d[i]
    BY <1>3, <2>2, <2>3
  <2> QED
    BY <2>4, <2>5, <2>6, <2>7, <2>8
<1>9. \A i \in 1 .. (4 + lr + lq + ld) : f[o + i - 1] = b[i]
  BY <1>7, <1>8 DEF Holds
<1>10. f[o] = n /\ f[o + 1] = lr /\ f[o + 2] = lq /\ f[o + 3] = s
  <2>1. \A i \in 1 .. 4 : i \in 1 .. (4 + lr + lq + ld)
    OBVIOUS
  <2>2. \A i \in 1 .. 4 : f[o + i - 1] = h[i]
    BY <1>8, <1>9, <2>1
  <2>3. /\ f[o + 1 - 1] = h[1] /\ f[o + 2 - 1] = h[2] /\ f[o + 3 - 1] = h[3]
        /\ f[o + 4 - 1] = h[4]
    BY <2>2
  <2>4. /\ o + 1 - 1 = o /\ o + 2 - 1 = o + 1 /\ o + 3 - 1 = o + 2
        /\ o + 4 - 1 = o + 3
    OBVIOUS
  <2> QED
    BY <1>5, <2>3, <2>4
<1>11. ASSUME NEW i \in 1 .. lr PROVE f[(o + 4) + i - 1] = r[i]
  <2>1. 4 + i \in 1 .. (4 + lr + lq + ld) /\ o + (4 + i) - 1 = (o + 4) + i - 1
    OBVIOUS
  <2> QED
    BY <1>8, <1>9, <2>1
<1>12. ASSUME NEW i \in 1 .. lq PROVE f[(o + 4 + lr) + i - 1] = q[i]
  <2>1. /\ 4 + lr + i \in 1 .. (4 + lr + lq + ld)
        /\ o + (4 + lr + i) - 1 = (o + 4 + lr) + i - 1
    OBVIOUS
  <2> QED
    BY <1>8, <1>9, <2>1
<1>13. ASSUME NEW i \in 1 .. ld PROVE f[o + (4 + lr + lq + i) - 1] = d[i]
  <2>1. 4 + lr + lq + i \in 1 .. (4 + lr + lq + ld)
    OBVIOUS
  <2> QED
    BY <1>8, <1>9, <2>1
<1>0. PICK x : x = Data(c, w)
  OBVIOUS
<1>14. PICK lx \in Nat : lx = Len(x)
  BY <1>0, <1>2, LenProperties
<1>15. ld = k + lx /\ \A i \in 1 .. lx : d[k + i] = x[i]
  <2>1. /\ Len(dataWords(c, w)) = Skip(c) + Len(Data(c, w))
        /\ \A i \in 1 .. Len(Data(c, w)) :
              dataWords(c, w)[Skip(c) + i] = Data(c, w)[i]
    BY DataIs
  <2>2. d = dataWords(c, w) /\ k = Skip(c) /\ ld = Len(d)
    BY <1>1, <1>3
  <2> QED
    BY <1>0, <1>14, <2>1, <2>2
<1>16. ASSUME NEW i \in 1 .. lx PROVE f[(o + 4 + lr + lq + k) + i - 1] = x[i]
  <2>1. /\ k + i \in 1 .. ld
        /\ o + (4 + lr + lq + (k + i)) - 1 = (o + 4 + lr + lq + k) + i - 1
    BY <1>15
  <2>2. f[o + (4 + lr + lq + (k + i)) - 1] = d[k + i]
    BY <1>13, <2>1
  <2> QED
    BY <1>15, <2>1, <2>2
<1>17. s = Skip(c) + Len(Data(c, w)) + slack(c)
  <2>1. slack(c) \in Nat
    BY DEF slack
  <2> QED
    BY <1>3, <1>0, <1>14, <1>15, <2>1
<1>18. Holds(f, o + Preamble, RBlocks(w))
  BY <1>1, <1>3, <1>11 DEF Holds, Preamble
<1>19. Holds(f, DlvlsAt(w, o), DBlocks(w))
  <2>1. PICK p : p = o + 4 + lr
    OBVIOUS
  <2>2. \A i \in 1 .. lq : f[p + i - 1] = q[i]
    BY <1>12, <2>1
  <2>3. DlvlsAt(w, o) = p
    BY <1>1, <1>3, <2>1 DEF Preamble, DlvlsAt
  <2> QED
    BY <1>1, <1>3, <2>2, <2>3 DEF Holds
<1>20. Holds(f, DataAt(c, w, o), Data(c, w))
  <2>1. PICK p : p = o + 4 + lr + lq + k
    OBVIOUS
  <2>2. \A i \in 1 .. lx : f[p + i - 1] = x[i]
    BY <1>16, <2>1
  <2>3. DataAt(c, w, o) = p
    BY <1>1, <1>3, <2>1 DEF Preamble, DataAt
  <2> QED
    BY <1>0, <1>14, <2>2, <2>3 DEF Holds
<1> QED
  BY <1>1, <1>2, <1>3, <1>10, <1>17, <1>18, <1>19, <1>20

\* The words of value m are read from a plain column, and its position moves
\* on to the next value.
LEMMA PlainStep ==
  ASSUME NEW c, c.storage_type \in Encodings, ~ IsPacked(c), NEW data,
         NEW d \in Seq(Nat), NEW st, Lays(c, data, d, st), NEW m \in 1 .. Len(d),
         stored(c, d[m]) = d[m], NEW o \in Nat, NEW f, Holds(f, o, data),
         NEW dec \in Decoder, dec.base = o, dec.size_ = Len(data) + slack(c),
         dec.pos_ = st[m - 1]
  PROVE  /\ readLength(c, f, dec) \in Nat /\ Left(dec) \in Int
         /\ readLength(c, f, dec) <= Left(dec)
         /\ plainValue(c, f, dec) = d[m]
         /\ dec.pos_ + readLength(c, f, dec) = st[m]
<1>1. PICK u \in Nat : u = d[m]
  OBVIOUS
<1>2. PICK s \in Seq(Nat) : s = words(c, u) /\ ReadsAs(c, s, u)
  BY <1>1, PlainReads
<1>3. PICK a \in Nat, b \in Nat, n \in Nat, z \in Nat :
        /\ a = st[m - 1] /\ b = st[m] /\ n = Len(s) /\ z = Len(data)
        /\ b = a + n /\ b <= z
  <2>1. m - 1 \in 0 .. Len(d) /\ m \in 0 .. Len(d)
    OBVIOUS
  <2>2. st[m - 1] \in Nat /\ st[m] \in Nat /\ Len(data) \in Nat /\ Len(s) \in Nat
    BY <2>1, LenProperties DEF Lays
  <2>3. st[m] = st[m - 1] + Len(s) /\ st[m] <= Len(data)
    BY <1>1, <1>2 DEF Lays
  <2> QED
    BY <2>2, <2>3
<1>4. \A q \in 1 .. n : data[a + q] = s[q]
  BY <1>1, <1>2, <1>3 DEF Lays
<1>5. ASSUME NEW q \in 1 .. n PROVE f[(o + a) + q - 1] = s[q]
  <2>1. a + q \in 1 .. z /\ o + (a + q) - 1 = (o + a) + q - 1
    <3>1. b = a + n /\ b <= z
      BY <1>3
    <3> QED
      BY <3>1
  <2>2. f[o + (a + q) - 1] = data[a + q]
    BY <1>3, <2>1 DEF Holds
  <2> QED
    BY <1>4, <2>1, <2>2
<1>6. Holds(f, dec.base + dec.pos_, s)
  BY <1>3, <1>5 DEF Holds
<1>7. n <= Left(dec) /\ Left(dec) \in Int
  <2>1. slack(c) \in Nat
    BY DEF slack
  <2>2. PICK sl \in Nat : sl = slack(c)
    BY <2>1
  <2>3. Left(dec) = (z + sl) - a
    BY <1>3, <2>2 DEF Left
  <2>4. a + n <= z
    BY <1>3
  <2> QED
    BY <2>3, <2>4, SMTT(60)
<1>8. readLength(c, f, dec) = n /\ plainValue(c, f, dec) = u
  BY <1>2, <1>3, <1>6, <1>7 DEF ReadsAs
<1> QED
  BY <1>1, <1>3, <1>7, <1>8

Reader ==
  [vals_total_ : Nat, vals_read_ : Nat, rlvl_reader_ : Decoder,
   dlvl_reader_ : Decoder, data_reader_ : Decoder]

\* The data reader dec of a column whose data begin at word o has yielded m of
\* the values x.d.
DataAfter(c, w, x, o, m, dec) ==
  /\ dec \in Decoder
  /\ IsPacked(c) => DecoderAt(dec, o, w.data_writer_.buf_, 1, m)
  /\ ~ IsPacked(c) => /\ dec.base = o
                      /\ dec.size_ = Len(w.data_writer_) + slack(c)
                      /\ dec.pos_ = x.st[m]

\* The reader cr of the body at word o, of the column c that w wrote with the
\* entries g, stands behind entry vals_read_.
ReaderWith(c, w, g, o, x, cr) ==
  /\ DoneWith(c, w, g, x)
  /\ cr \in Reader
  /\ cr.vals_total_ = Len(g) /\ cr.vals_read_ <= Len(g)
  /\ DecoderAt(cr.rlvl_reader_, o + Preamble, RBlocks(w), c.rlevel_max,
               cr.vals_read_)
  /\ DecoderAt(cr.dlvl_reader_, DlvlsAt(w, o), DBlocks(w), c.dlevel_max,
               cr.vals_read_)
  /\ DataAfter(c, w, x, DataAt(c, w, o), x.cnt[cr.vals_read_], cr.data_reader_)
ReaderAt(c, w, g, o, cr) == \E x : ReaderWith(c, w, g, o, x, cr)

\* A value of the data is read.
LEMMA DataStep ==
  ASSUME NEW c, IsColumn(c), NEW w, NEW g, NEW x, DoneWith(c, w, g, x),
         NEW o \in Nat, NEW f, Holds(f, o, Data(c, w)), NEW m \in 1 .. Len(x.d),
         NEW dec, DataAfter(c, w, x, o, m - 1, dec)
  PROVE  /\ IsPacked(c) => /\ ~ AtEnd(dec) /\ value(f, dec) = x.d[m]
                           /\ DataAfter(c, w, x, o, m, afterNext(f, dec))
         /\ ~ IsPacked(c) =>
              /\ ~ (readLength(c, f, dec) > Left(dec))
              /\ plainValue(c, f, dec) = x.d[m]
              /\ DataAfter(c, w, x, o, m,
                           advanced(dec, readLength(c, f, dec)))
<1>1. PICK d \in Seq(Nat) : d = x.d
  BY DEF DoneWith, Numbers
<1>2. m \in 1 .. Len(d) /\ Len(d) \in Nat /\ m - 1 \in Nat /\ m - 1 < Len(d)
      /\ (m - 1) + 1 = m
  BY <1>1, LenProperties
<1>3. ASSUME IsPacked(c)
      PROVE  /\ ~ AtEnd(dec) /\ value(f, dec) = x.d[m]
             /\ DataAfter(c, w, x, o, m, afterNext(f, dec))
  <2>1. PICK bf \in Seq(Block) : bf = w.data_writer_.buf_ /\ Pads(bf, d)
    BY <1>1, <1>3, SMTT(60) DEF DoneWith, Flushed, Encoder
  <2>2. Holds(f, o, bf) /\ DecoderAt(dec, o, bf, 1, m - 1)
    BY <1>3, <2>1 DEF Data, DataAfter
  <2>3. ~ AtEnd(dec)
    <3>1. 1 \in Nat \ {0}
      OBVIOUS
    <3> QED
      BY <1>2, <2>1, <2>2, <3>1, NotAtEnd
  <2>4. /\ value(f, dec) = d[m]
        /\ DecoderAt(afterNext(f, dec), o, bf, 1, m)
    <3>1. 1 \in Nat \ {0} /\ m - 1 <= Len(d)
      BY <1>2
    <3>2. /\ value(f, dec) = IF m - 1 < Len(d) THEN d[(m - 1) + 1] ELSE 0
          /\ m - 1 < Len(d) => DecoderAt(afterNext(f, dec), o, bf, 1, (m - 1) + 1)
      BY <1>2, <2>1, <2>2, <3>1, DecodeStep
    <3> QED
      BY <1>2, <3>2
  <2> QED
    BY <1>1, <1>3, <2>1, <2>3, <2>4 DEF DataAfter, DecoderAt
<1>4. ASSUME ~ IsPacked(c)
      PROVE  /\ ~ (readLength(c, f, dec) > Left(dec))
             /\ plainValue(c, f, dec) = x.d[m]
             /\ DataAfter(c, w, x, o, m,
                          advanced(dec, readLength(c, f, dec)))
  <2>1. PICK data, st : data = w.data_writer_ /\ st = x.st /\ Lays(c, data, d, st)
    BY <1>1, <1>4 DEF DoneWith
  <2>2. /\ Holds(f, o, data) /\ dec \in Decoder /\ dec.base = o
        /\ dec.size_ = Len(data) + slack(c) /\ dec.pos_ = st[m - 1]
    BY <1>4, <2>1 DEF Data, DataAfter
  <2>3. stored(c, d[m]) = d[m] /\ c.storage_type \in Encodings
    BY <1>1, <1>2 DEF DoneWith, Numbers, IsColumn
  <2>4. /\ ~ (readLength(c, f, dec) > Left(dec)) /\ plainValue(c, f, dec) = d[m]
        /\ dec.pos_ + readLength(c, f, dec) = st[m]
    <3>1. /\ readLength(c, f, dec) \in Nat /\ Left(dec) \in Int
          /\ readLength(c, f, dec) <= Left(dec)
          /\ plainValue(c, f, dec) = d[m]
          /\ dec.pos_ + readLength(c, f, dec) = st[m]
      BY <1>2, <1>4, <2>1, <2>2, <2>3, PlainStep, SMTT(60)
    <3> QED
      BY <3>1
  <2>5. PICK z : z = advanced(dec, readLength(c, f, dec))
    OBVIOUS
  <2>6. z \in Decoder /\ z.base = o /\ z.size_ = dec.size_ /\ z.pos_ = st[m]
    <3>1. st \in [0 .. Len(d) -> Nat]
      BY <2>1 DEF Lays
    <3>2. m \in 0 .. Len(d)
      BY <1>2
    <3>3. st[m] \in Nat
      BY <3>1, <3>2
    <3> QED
      BY <2>2, <2>4, <2>5, <3>3 DEF Decoder, advanced
  <2> QED
    BY <1>1, <1>4, <2>1, <2>2, <2>4, <2>5, <2>6 DEF DataAfter
<1> QED
  BY <1>3, <1>4

\* The constructor of a reader of a complete body.
LEMMA ReaderOpens ==
  ASSUME NEW c, IsColumn(c), NEW w, NEW g, ColumnDone(c, w, g), NEW o \in Nat,
         NEW f, Holds(f, o, writeBody(c, w))
  PROVE  /\ ReaderAt(c, w, g, o, ColumnReader(c, f, o))
         /\ ColumnReader(c, f, o).vals_read_ = 0
<1>1. PICK x : DoneWith(c, w, g, x)
  BY DEF ColumnDone
<1>2. PICK r \in Seq(Block), q \in Seq(Block), data \in Seq(Word) :
        r = RBlocks(w) /\ q = DBlocks(w) /\ data = Data(c, w)
  BY DataIs DEF RBlocks, DBlocks
<1>3. PICK lr \in Nat, lq \in Nat, n \in Nat, ld \in Nat, k \in Nat, sl \in Nat :
        /\ lr = Len(r) /\ lq = Len(q) /\ ld = Len(data) /\ n = Len(g)
        /\ k = Skip(c) /\ sl = slack(c)
  <2>1. Len(g) \in Nat /\ Skip(c) \in Nat /\ slack(c) \in Nat
    BY DataIs DEF Skip, slack
  <2> QED
    BY <2>1, LenProperties
<1>4. f[o] = n /\ f[o + 1] = lr /\ f[o + 2] = lq /\ f[o + 3] = k + ld + sl
  <2>1. /\ f[o] = Len(g) /\ f[o + 1] = Len(RBlocks(w))
        /\ f[o + 2] = Len(DBlocks(w))
        /\ f[o + 3] = Skip(c) + Len(Data(c, w)) + slack(c)
    BY BodyHolds
  <2> QED
    BY <1>2, <1>3, <2>1
<1>5. PICK a \in Nat, b \in Nat, e \in Nat :
        a = o + 4 /\ b = o + 4 + lr /\ e = o + 4 + lr + lq + k
  OBVIOUS
<1>6. a = o + Preamble /\ b = DlvlsAt(w, o) /\ e = DataAt(c, w, o)
  BY <1>2, <1>3, <1>5 DEF Preamble, DlvlsAt, DataAt
<1>7. PICK cr : cr = [vals_total_ |-> n, vals_read_ |-> 0,
                     rlvl_reader_ |-> BitPackDecoder(a, lr, c.rlevel_max),
                     dlvl_reader_ |-> BitPackDecoder(b, lq, c.dlevel_max),
                     data_reader_ |-> BitPackDecoder(e, ld + sl, 1)]
  OBVIOUS
<1>8. ColumnReader(c, f, o) = cr
  <2>1. (k + ld + sl) - k = ld + sl
    OBVIOUS
  <2>2. a = o + 4 /\ b = (o + 4) + lr /\ e = (((o + 4) + lr) + lq) + k
    BY <1>5
  <2> QED
    BY <1>3, <1>4, <1>7, <2>1, <2>2 DEF ColumnReader, Preamble, Skip
<1>9. c.rlevel_max \in Nat /\ c.dlevel_max \in Nat
  BY DEF IsColumn
<1>10. /\ DecoderAt(cr.rlvl_reader_, a, r, c.rlevel_max, 0)
       /\ DecoderAt(cr.dlvl_reader_, b, q, c.dlevel_max, 0)
  BY <1>3, <1>7, <1>9, DecoderStarts
<1>11. PICK dd : dd = cr.data_reader_
  OBVIOUS
<1>12. dd = BitPackDecoder(e, ld + sl, 1)
  BY <1>7, <1>11
<1>13. dd \in Decoder /\ dd.base = e /\ dd.size_ = ld + sl /\ dd.pos_ = 0
  <2>1. ld + sl \in Nat /\ BlockSize \in 0 .. BlockSize /\ 1 \in Nat
    BY CodecAssumption
  <2> QED
    BY <1>12, <2>1 DEF BitPackDecoder, Decoder
<1>14. DataAfter(c, w, x, e, 0, dd)
  <2>1. ASSUME IsPacked(c) PROVE DecoderAt(dd, e, w.data_writer_.buf_, 1, 0)
    <3>1. w.data_writer_.buf_ \in Seq(Block) /\ data = w.data_writer_.buf_
      BY <1>1, <1>2, <2>1 DEF DoneWith, Flushed, Encoder, Data
    <3>2. sl = 0
      BY <1>3, <2>1 DEF IsPacked, slack
    <3>3. dd = BitPackDecoder(e, Len(data), 1)
      BY <1>3, <1>12, <3>2
    <3> QED
      BY <3>1, <3>3, DecoderStarts
  <2>2. ASSUME ~ IsPacked(c)
        PROVE  dd.size_ = Len(w.data_writer_) + slack(c) /\ x.st[0] = 0
    BY <1>1, <1>2, <1>3, <1>13, <2>2 DEF Data, DoneWith, Lays
  <2> QED
    BY <1>13, <2>1, <2>2 DEF DataAfter
<1>15. x.cnt[0] = 0
  BY <1>1 DEF DoneWith, Numbers
<1>16. cr \in Reader /\ cr.vals_read_ = 0 /\ cr.vals_total_ = n
  <2>1. /\ cr.vals_read_ = 0 /\ cr.vals_total_ = n
        /\ cr.rlvl_reader_ \in Decoder /\ cr.dlvl_reader_ \in Decoder
        /\ cr.data_reader_ \in Decoder
    BY <1>7, <1>10, <1>11, <1>13 DEF DecoderAt
  <2> QED
    BY <1>7, <2>1 DEF Reader
<1>17. 0 <= n
  OBVIOUS
<1>18. DataAfter(c, w, x, DataAt(c, w, o), x.cnt[cr.vals_read_], cr.data_reader_)
  BY <1>6, <1>11, <1>14, <1>15, <1>16
<1>19. ReaderWith(c, w, g, o, x, cr)
  BY <1>1, <1>2, <1>3, <1>6, <1>10, <1>16, <1>17, <1>18 DEF ReaderWith
<1> QED
  BY <1>8, <1>16, <1>19 DEF ReaderAt

\* Both level streams of a reader yield the levels of the next entry, and 0
\* behind the last one.
LevelsNext(c, w, g, o, f, cr, n) ==
  /\ n <= Len(g) /\ Len(g) \in Nat
  /\ value(f, cr.rlvl_reader_) = IF n < Len(g) THEN g[n + 1].rlvl ELSE 0
  /\ value(f, cr.dlvl_reader_) = IF n < Len(g) THEN g[n + 1].dlvl ELSE 0
  /\ n < Len(g) =>
       /\ ~ AtEnd(cr.rlvl_reader_) /\ ~ AtEnd(cr.dlvl_reader_)
       /\ DecoderAt(afterNext(f, cr.rlvl_reader_), o + Preamble, RBlocks(w),
                    c.rlevel_max, n + 1)
       /\ DecoderAt(afterNext(f, cr.dlvl_reader_), DlvlsAt(w, o), DBlocks(w),
                    c.dlevel_max, n + 1)
  /\ DecoderAt(afterPeek(f, cr.rlvl_reader_), o + Preamble, RBlocks(w),
               c.rlevel_max, n)

\* A reader that stands at an entry finds its two levels.
LEMMA LevelsAt ==
  ASSUME NEW c, IsColumn(c), NEW w, NEW g, NEW o \in Nat, NEW f,
         Holds(f, o, writeBody(c, w)), NEW x, NEW cr,
         ReaderWith(c, w, g, o, x, cr), NEW n \in Nat, n = cr.vals_read_
  PROVE  LevelsNext(c, w, g, o, f, cr, n)
<1>1. ColumnDone(c, w, g) /\ DoneWith(c, w, g, x)
  BY DEF ReaderWith, ColumnDone
<1>2. g \in Seq(Entry) /\ Len(g) \in Nat /\ n <= Len(g)
  BY <1>1, LenProperties DEF DoneWith, Entries, ReaderWith
<1>3. PICK p \in Seq(Nat), q \in Seq(Nat) :
        /\ p = Rlvls(g) /\ q = Dlvls(g) /\ Len(p) = Len(g) /\ Len(q) = Len(g)
        /\ \A k \in 1 .. Len(g) : p[k] = g[k].rlvl /\ q[k] = g[k].dlvl
  BY <1>2, LvlsAre
<1>4. AtMost(p, c.rlevel_max) /\ AtMost(q, c.dlevel_max)
  BY <1>1, <1>3 DEF DoneWith, Entries, AtMost
<1>5. PICK ew, dw : /\ ew = w.rlvl_writer_ /\ dw = w.dlvl_writer_
                    /\ Flushed(ew, c.rlevel_max, p) /\ Flushed(dw, c.dlevel_max, q)
  BY <1>1, <1>3 DEF DoneWith
<1>6. PICK a \in Nat, b \in Nat : a = o + Preamble /\ b = DlvlsAt(w, o)
  <2>1. Len(RBlocks(w)) \in Nat
    BY <1>1, DataIs, LenProperties DEF RBlocks
  <2>2. o + Preamble \in Nat /\ DlvlsAt(w, o) \in Nat
    BY <2>1 DEF Preamble, DlvlsAt
  <2> QED
    BY <2>2
<1>7. Holds(f, a, ew.buf_) /\ Holds(f, b, dw.buf_)
  BY <1>1, <1>5, <1>6, BodyHolds DEF RBlocks, DBlocks
<1>8. /\ DecoderAt(cr.rlvl_reader_, a, ew.buf_, c.rlevel_max, n)
      /\ DecoderAt(cr.dlvl_reader_, b, dw.buf_, c.dlevel_max, n)
  BY <1>5, <1>6 DEF ReaderWith, RBlocks, DBlocks
<1>9. c.rlevel_max \in Nat /\ c.dlevel_max \in Nat
  BY DEF IsColumn
<1>10. n <= Len(p) /\ n <= Len(q)
  BY <1>2, <1>3
<1>11. Yields(f, cr.rlvl_reader_, a, ew.buf_, c.rlevel_max, p, n)
  BY <1>4, <1>5, <1>7, <1>8, <1>9, <1>10, StreamStep
<1>12. Yields(f, cr.dlvl_reader_, b, dw.buf_, c.dlevel_max, q, n)
  BY <1>4, <1>5, <1>7, <1>8, <1>9, <1>10, StreamStep
<1>13. n < Len(g) => p[n + 1] = g[n + 1].rlvl /\ q[n + 1] = g[n + 1].dlvl
  <2>1. n < Len(g) => n + 1 \in 1 .. Len(g)
    BY <1>2
  <2> QED
    BY <1>3, <2>1
<1>14. ew.buf_ = RBlocks(w) /\ dw.buf_ = DBlocks(w)
  BY <1>5 DEF RBlocks, DBlocks
<1>15. value(f, cr.rlvl_reader_) = IF n < Len(g) THEN g[n + 1].rlvl ELSE 0
  BY <1>3, <1>11, <1>13 DEF Yields
<1>16. value(f, cr.dlvl_reader_) = IF n < Len(g) THEN g[n + 1].dlvl ELSE 0
  BY <1>3, <1>12, <1>13 DEF Yields
<1> QED
  BY <1>2, <1>3, <1>6, <1>11, <1>12, <1>14, <1>15, <1>16 DEF Yields, LevelsNext

\* A read before eofReached stays in its buffers and yields the next entry.
LEMMA ReaderReads ==
  ASSUME NEW c, IsColumn(c), NEW w, NEW g, NEW o \in Nat, NEW f,
         Holds(f, o, writeBody(c, w)), NEW cr, ReaderAt(c, w, g, o, cr),
         NEW n \in Nat, n = cr.vals_read_, n < Len(g)
  PROVE  /\ ~ readRaises(c, f, cr)
         /\ defined(c, f, cr) <=> g[n + 1].dlvl = c.dlevel_max
         /\ readEntry(c, f, cr).rlvl = g[n + 1].rlvl
         /\ readEntry(c, f, cr).dlvl = g[n + 1].dlvl
         /\ g[n + 1].dlvl = c.dlevel_max
              => readEntry(c, f, cr).val = Keeps(c, g[n + 1].val)
         /\ ReaderAt(c, w, g, o, afterRead(c, f, cr))
         /\ afterRead(c, f, cr).vals_read_ = n + 1
<1>1. PICK x : ReaderWith(c, w, g, o, x, cr)
  BY DEF ReaderAt
<1>2. DoneWith(c, w, g, x) /\ ColumnDone(c, w, g) /\ cr \in Reader
      /\ cr.vals_total_ = Len(g)
  BY <1>1 DEF ReaderWith, ColumnDone
<1>3. PICK e : e = g[n + 1]
  OBVIOUS
<1>4. /\ Len(g) \in Nat
      /\ value(f, cr.rlvl_reader_) = e.rlvl /\ value(f, cr.dlvl_reader_) = e.dlvl
      /\ ~ AtEnd(cr.rlvl_reader_) /\ ~ AtEnd(cr.dlvl_reader_)
      /\ DecoderAt(afterNext(f, cr.rlvl_reader_), o + Preamble, RBlocks(w),
                   c.rlevel_max, n + 1)
      /\ DecoderAt(afterNext(f, cr.dlvl_reader_), DlvlsAt(w, o), DBlocks(w),
                   c.dlevel_max, n + 1)
  <2>1. LevelsNext(c, w, g, o, f, cr, n)
    BY <1>1, LevelsAt
  <2> QED
    BY <1>3, <2>1 DEF LevelsNext
<1>5. n + 1 \in 1 .. Len(g) /\ (n + 1) - 1 = n /\ n + 1 <= Len(g)
  BY <1>4
<1>6. defined(c, f, cr) <=> e.dlvl = c.dlevel_max
  BY <1>4 DEF defined
<1>0. PICK dec, m : dec = cr.data_reader_ /\ m = x.cnt[n]
  OBVIOUS
<1>7. PICK a \in Nat :
        /\ a = DataAt(c, w, o)
        /\ DataAfter(c, w, x, a, m, dec) /\ Holds(f, a, Data(c, w))
  <2>1. DataAt(c, w, o) \in Nat
    <3>1. Len(RBlocks(w)) \in Nat /\ Len(DBlocks(w)) \in Nat /\ Skip(c) \in Nat
      BY <1>2, DataIs, LenProperties DEF RBlocks, DBlocks, Skip
    <3> QED
      BY <3>1 DEF DataAt, Preamble
  <2>2. Holds(f, DataAt(c, w, o), Data(c, w))
    BY <1>2, BodyHolds
  <2>3. DataAfter(c, w, x, DataAt(c, w, o), x.cnt[n], cr.data_reader_)
    BY <1>1 DEF ReaderWith
  <2> QED
    BY <1>0, <2>1, <2>2, <2>3
<1>8. PICK z : z = afterRead(c, f, cr)
  OBVIOUS
<1>9. /\ z.vals_total_ = Len(g) /\ z.vals_read_ = n + 1
      /\ z.rlvl_reader_ = afterNext(f, cr.rlvl_reader_)
      /\ z.dlvl_reader_ = afterNext(f, cr.dlvl_reader_)
      /\ ~ defined(c, f, cr) => z.data_reader_ = dec
      /\ defined(c, f, cr) /\ IsPacked(c) => z.data_reader_ = afterNext(f, dec)
      /\ defined(c, f, cr) /\ ~ IsPacked(c)
           => z.data_reader_ = advanced(dec, readLength(c, f, dec))
      /\ z = [vals_total_ |-> z.vals_total_, vals_read_ |-> z.vals_read_,
              rlvl_reader_ |-> z.rlvl_reader_, dlvl_reader_ |-> z.dlvl_reader_,
              data_reader_ |-> z.data_reader_]
  <2>1. PICK dr : dr = IF ~ defined(c, f, cr) THEN dec
                       ELSE IF IsPacked(c) THEN afterNext(f, dec)
                       ELSE advanced(dec, readLength(c, f, dec))
    OBVIOUS
  <2>2. z = [cr EXCEPT !.rlvl_reader_ = afterNext(f, @),
                       !.dlvl_reader_ = afterNext(f, @),
                       !.vals_read_ = @ + 1, !.data_reader_ = dr]
    BY <1>0, <1>8, <2>1, Zenon DEF afterRead
  <2>3. /\ z.vals_total_ = Len(g) /\ z.vals_read_ = n + 1
        /\ z.rlvl_reader_ = afterNext(f, cr.rlvl_reader_)
        /\ z.dlvl_reader_ = afterNext(f, cr.dlvl_reader_)
        /\ z.data_reader_ = dr
        /\ z = [vals_total_ |-> z.vals_total_, vals_read_ |-> z.vals_read_,
                rlvl_reader_ |-> z.rlvl_reader_, dlvl_reader_ |-> z.dlvl_reader_,
                data_reader_ |-> z.data_reader_]
    BY <1>2, <2>2 DEF Reader
  <2> QED
    BY <2>1, <2>3
<1>10. Numbers(c, g, x.cnt, x.d)
  BY <1>2 DEF DoneWith
<1>11. ASSUME e.dlvl = c.dlevel_max
       PROVE  /\ m + 1 \in 1 .. Len(x.d) /\ (m + 1) - 1 = m
              /\ x.cnt[n + 1] = m + 1 /\ x.d[m + 1] = Keeps(c, e.val)
  <2>1. n \in 0 .. Len(g) /\ n + 1 \in 0 .. Len(g)
    BY <1>5
  <2>2. m \in Nat /\ Len(x.d) \in Nat /\ x.cnt[n + 1] <= Len(x.d)
    BY <1>0, <1>7, <1>10, <2>1, LenProperties DEF Numbers
  <2>3. x.cnt[n + 1] = m + 1 /\ x.d[x.cnt[n + 1]] = Keeps(c, e.val)
    BY <1>3, <1>5, <1>0, <1>7, <1>10, <1>11 DEF Numbers
  <2> QED
    BY <2>2, <2>3
<1>12. /\ e.dlvl = c.dlevel_max /\ IsPacked(c) =>
            /\ ~ AtEnd(dec) /\ value(f, dec) = Keeps(c, e.val)
            /\ DataAfter(c, w, x, a, x.cnt[n + 1], afterNext(f, dec))
       /\ e.dlvl = c.dlevel_max /\ ~ IsPacked(c) =>
            /\ ~ (readLength(c, f, dec) > Left(dec))
            /\ plainValue(c, f, dec) = Keeps(c, e.val)
            /\ DataAfter(c, w, x, a, x.cnt[n + 1],
                         advanced(dec, readLength(c, f, dec)))
  <2> SUFFICES ASSUME e.dlvl = c.dlevel_max
               PROVE  /\ IsPacked(c) =>
                           /\ ~ AtEnd(dec) /\ value(f, dec) = Keeps(c, e.val)
                           /\ DataAfter(c, w, x, a, x.cnt[n + 1], afterNext(f, dec))
                      /\ ~ IsPacked(c) =>
                           /\ ~ (readLength(c, f, dec) > Left(dec))
                           /\ plainValue(c, f, dec) = Keeps(c, e.val)
                           /\ DataAfter(c, w, x, a, x.cnt[n + 1],
                                advanced(dec, readLength(c, f, dec)))
    OBVIOUS
  <2>1. PICK k \in 1 .. Len(x.d) : k = m + 1 /\ k - 1 = m /\ x.cnt[n + 1] = k
                                   /\ x.d[k] = Keeps(c, e.val)
    BY <1>11
  <2>2. DataAfter(c, w, x, a, k - 1, dec)
    BY <1>0, <1>7, <2>1
  <2>3. /\ IsPacked(c) => /\ ~ AtEnd(dec) /\ value(f, dec) = x.d[k]
                          /\ DataAfter(c, w, x, a, k, afterNext(f, dec))
        /\ ~ IsPacked(c) =>
             /\ ~ (readLength(c, f, dec) > Left(dec))
             /\ plainValue(c, f, dec) = x.d[k]
             /\ DataAfter(c, w, x, a, k,
                          advanced(dec, readLength(c, f, dec)))
    BY <1>2, <1>0, <1>7, <2>2, DataStep
  <2> QED
    BY <2>1, <2>3
<1>13. DataAfter(c, w, x, a, x.cnt[n + 1], z.data_reader_)
  <2>1. CASE e.dlvl = c.dlevel_max
    BY <1>6, <1>9, <1>12, <2>1
  <2>2. CASE e.dlvl # c.dlevel_max
    <3>1. x.cnt[n + 1] = m
      BY <1>3, <1>5, <1>0, <1>7, <1>10, <2>2 DEF Numbers
    <3> QED
      BY <1>6, <1>0, <1>7, <1>9, <2>2, <3>1
  <2> QED
    BY <2>1, <2>2
<1>14. z \in Reader
  <2>1. /\ z.rlvl_reader_ \in Decoder /\ z.dlvl_reader_ \in Decoder
        /\ z.data_reader_ \in Decoder
    BY <1>4, <1>9, <1>13 DEF DecoderAt, DataAfter
  <2>2. z.vals_total_ \in Nat /\ z.vals_read_ \in Nat
    BY <1>4, <1>9
  <2> QED
    BY <1>9, <2>1, <2>2 DEF Reader
<1>15. ReaderWith(c, w, g, o, x, z)
  BY <1>2, <1>4, <1>5, <1>0, <1>7, <1>9, <1>13, <1>14 DEF ReaderWith
<1>16. ~ readRaises(c, f, cr)
  BY <1>4, <1>6, <1>0, <1>7, <1>12 DEF readRaises
<1>17. /\ readEntry(c, f, cr).rlvl = e.rlvl /\ readEntry(c, f, cr).dlvl = e.dlvl
       /\ e.dlvl = c.dlevel_max => readEntry(c, f, cr).val = Keeps(c, e.val)
  BY <1>4, <1>6, <1>0, <1>7, <1>12 DEF readEntry
<1> QED
  BY <1>3, <1>6, <1>8, <1>9, <1>15, <1>16, <1>17 DEF ReaderAt

\* nextRepetitionLevel foretells the next level and disturbs no read.
LEMMA ReaderPeeks ==
  ASSUME NEW c, IsColumn(c), NEW w, NEW g, NEW o \in Nat, NEW f,
         Holds(f, o, writeBody(c, w)), NEW cr, ReaderAt(c, w, g, o, cr),
         NEW n \in Nat, n = cr.vals_read_
  PROVE  /\ nextRepetitionLevel(f, cr) = IF n < Len(g) THEN g[n + 1].rlvl ELSE 0
         /\ ReaderAt(c, w, g, o, afterNextRepetitionLevel(f, cr))
         /\ afterNextRepetitionLevel(f, cr).vals_read_ = n
<1>1. PICK x : ReaderWith(c, w, g, o, x, cr)
  BY DEF ReaderAt
<1>2. /\ value(f, cr.rlvl_reader_) = IF n < Len(g) THEN g[n + 1].rlvl ELSE 0
      /\ DecoderAt(afterPeek(f, cr.rlvl_reader_), o + Preamble, RBlocks(w),
                   c.rlevel_max, n)
  <2>1. LevelsNext(c, w, g, o, f, cr, n)
    BY <1>1, LevelsAt
  <2> QED
    BY <2>1 DEF LevelsNext
<1>3. PICK z : z = afterNextRepetitionLevel(f, cr)
  OBVIOUS
<1>4. cr \in Reader
  BY <1>1 DEF ReaderWith
<1>5. /\ z.rlvl_reader_ = afterPeek(f, cr.rlvl_reader_)
      /\ z.vals_total_ = cr.vals_total_ /\ z.vals_read_ = cr.vals_read_
      /\ z.dlvl_reader_ = cr.dlvl_reader_ /\ z.data_reader_ = cr.data_reader_
      /\ z = [vals_total_ |-> z.vals_total_, vals_read_ |-> z.vals_read_,
              rlvl_reader_ |-> z.rlvl_reader_, dlvl_reader_ |-> z.dlvl_reader_,
              data_reader_ |-> z.data_reader_]
  BY <1>3, <1>4 DEF afterNextRepetitionLevel, Reader
<1>6. z \in Reader
  <2>1. z.rlvl_reader_ \in Decoder
    BY <1>2, <1>5 DEF DecoderAt
  <2> QED
    BY <1>4, <1>5, <2>1 DEF Reader
<1>7. ReaderWith(c, w, g, o, x, z)
  BY <1>1, <1>2, <1>5, <1>6 DEF ReaderWith
<1> QED
  BY <1>2, <1>3, <1>5, <1>7 DEF ReaderAt, nextRepetitionLevel

\* The size that a column announces for its body covers the words it writes
\* and the slack.
LEMMA BodyLength ==
  ASSUME NEW c, IsColumn(c), NEW w, NEW g, ColumnDone(c, w, g)
  PROVE  /\ writeBody(c, w) \in Seq(Word) /\ Len(writeBody(c, w)) \in Nat
         /\ slack(c) \in {0, 1}
         /\ Len(writeBody(c, w)) >= Preamble
         /\ Len(writeBody(c, w)) = Preamble + Len(RBlocks(w)) + Len(DBlocks(w))
                                     + Skip(c) + Len(Data(c, w))
         /\ bodySize(c, w) = Len(writeBody(c, w)) + slack(c)
<1>1. PICK r, q, d, n, s :
        /\ r = RBlocks(w) /\ q = DBlocks(w) /\ d = dataWords(c, w)
        /\ n = w.num_vals_ /\ s = dataSize(c, w)
  OBVIOUS
<1>2. /\ r \in Seq(Word) /\ q \in Seq(Word) /\ d \in Seq(Word) /\ n \in Nat
      /\ Len(Data(c, w)) \in Nat
  <2>1. /\ w.rlvl_writer_.buf_ \in Seq(Word) /\ w.dlvl_writer_.buf_ \in Seq(Word)
        /\ dataWords(c, w) \in Seq(Word) /\ Len(g) \in Nat
        /\ w.num_vals_ = Len(g) /\ Data(c, w) \in Seq(Word)
    BY DataIs
  <2> QED
    BY <1>1, <2>1, LenProperties DEF RBlocks, DBlocks
<1>3. PICK lr \in Nat, lq \in Nat, ld \in Nat, sl \in {0, 1} :
        /\ lr = Len(r) /\ lq = Len(q) /\ ld = Len(d) /\ sl = slack(c)
  BY <1>2, LenProperties DEF slack
<1>4. s = ld + sl /\ s \in Nat
  BY <1>1, <1>3 DEF dataSize
<1>5. PICK h : h = <<n, lr, lq, s>>
  OBVIOUS
<1>6. h \in Seq(Word) /\ Len(h) = 4
  <2>1. n \in Word /\ lr \in Word /\ lq \in Word /\ s \in Word
    BY <1>2, <1>4 DEF Word
  <2> QED
    BY <1>5, <2>1
<1>7. PICK b : b = h \o r \o q \o d
  OBVIOUS
<1>8. writeBody(c, w) = b
  BY <1>1, <1>3, <1>5, <1>7 DEF writeBody, RBlocks, DBlocks
<1>9. b \in Seq(Word) /\ Len(b) = Len(h) + Len(r) + Len(q) + Len(d)
  <2>1. InParts(h \o r \o q \o d, h, r, q, d)
    <3>1. h \in Seq(Word)
      BY <1>6
    <3> QED
      BY <1>2, <3>1, BodyIs, Zenon
  <2>2. InParts(b, h, r, q, d)
    BY <1>7, <2>1, Zenon
  <2> QED
    BY <2>2 DEF InParts
<1>10. Len(b) = 4 + lr + lq + ld
  <2>1. Len(h) = 4
    BY <1>6
  <2> QED
    BY <1>3, <1>9, <2>1
<1>11. PICK k \in Nat, lx \in Nat : k = Skip(c) /\ lx = Len(Data(c, w))
  BY <1>2 DEF Skip
<1>12. ld = k + lx
  <2>1. Len(dataWords(c, w)) = Skip(c) + Len(Data(c, w))
    BY DataIs
  <2> QED
    BY <1>1, <1>3, <1>11, <2>1
<1>13. bodySize(c, w) = 4 + lr + lq + (ld + sl)
  BY <1>1, <1>3, <1>4 DEF bodySize, Preamble, RBlocks, DBlocks
<1>14. Len(b) = 4 + lr + lq + k + lx
  BY <1>10, <1>12
<1>15. slack(c) \in {0, 1}
  BY <1>3
<1>16. bodySize(c, w) = Len(b) + sl
  BY <1>10, <1>13
<1>17. Len(b) \in Nat /\ Len(b) >= 4
  BY <1>10
<1> QED
  BY <1>1, <1>3, <1>8, <1>9, <1>11, <1>14, <1>15, <1>16, <1>17 DEF Preamble

----------------------------------------------------------------------------
(* Typed values. *)

\* What copyValue hands to a column is what the reader's column keeps.
LEMMA CopyDatum ==
  ASSUME NEW c, c.storage_type \in Encodings, NEW u \in Nat, stored(c, u) = u
  PROVE  datum(readerType(c), readAs(c, readerType(c), u)) = u
<1>1. CASE c.storage_type = "BOOLEAN_BITPACKED"
  <2>1. u = 0 \/ u = 1
    BY <1>1 DEF stored, BooleanColumnWriter
  <2>2. readerType(c) = "BOOLEAN" /\ readAs(c, readerType(c), u) = (u > 0)
    BY <1>1 DEF readerType, readAs, BooleanColumnReader
  <2>3. datum("BOOLEAN", TRUE) = 1 /\ datum("BOOLEAN", FALSE) = 0
    BY DEF datum
  <2>4. CASE u = 0
    <3>1. (u > 0) = FALSE
      BY <2>4
    <3> QED
      BY <2>2, <2>3, <2>4, <3>1
  <2>5. CASE u = 1
    <3>1. (u > 0) = TRUE
      BY <2>5
    <3> QED
      BY <2>2, <2>3, <2>5, <3>1
  <2> QED
    BY <2>1, <2>4, <2>5
<1>2. CASE c.storage_type # "BOOLEAN_BITPACKED"
  <2>1. /\ readerType(c) \in {"UNSIGNED_INT", "FLOAT", "STRING"}
        /\ readAs(c, readerType(c), u) = u
    BY <1>2 DEF readerType, readAs, Encodings, asInteger, BitPackedIntColumnReader,
       UInt32ColumnReader, UInt64ColumnReader, LEB128ColumnReader,
       DoubleColumnReader, StringColumnReader
  <2> QED
    BY <2>1 DEF datum
<1> QED
  BY <1>1, <1>2

\* Booleans, and only they, are kept in one bit (a boolean in an integer
\* column does not read back), signed integers in an integer encoding.
WellEncoded(c) ==
  /\ c.logical_type = "BOOLEAN" <=> c.storage_type = "BOOLEAN_BITPACKED"
  /\ c.logical_type = "SIGNED_INT"
       => c.storage_type \notin {"FLOAT_IEEE754", "STRING_PLAIN"}

Signed64 == {v \in Int : 2 * v < Max64 /\ 2 * v >= - Max64}

\* Two's complement.
LEMMA SignedMod ==
  ASSUME NEW v \in Signed64
  PROVE  v % Max64 \in Nat /\ toSigned(v % Max64) = v
<1>1. Max64 \in Nat \ {0} /\ v \in Int /\ 2 * v < Max64 /\ 2 * v >= - Max64
  BY WidthAssumption DEF Signed64
<1>2. CASE v >= 0
  <2>1. v % Max64 = v
    BY <1>1, <1>2
  <2> QED
    BY <1>1, <1>2, <2>1 DEF toSigned
<1>3. CASE v < 0
  <2>1. v % Max64 = v + Max64
    BY <1>1, <1>3
  <2> QED
    BY <1>1, <1>3, <2>1 DEF toSigned
<1> QED
  BY <1>1, <1>2, <1>3

\* A typed read yields what a typed write was given, if the encoding can hold
\* it.
LEMMA TypedRoundTrip ==
  ASSUME NEW c, IsColumn(c), WellEncoded(c), NEW v,
         c.logical_type = "BOOLEAN" => v \in BOOLEAN,
         c.logical_type = "SIGNED_INT" => v \in Signed64,
         c.logical_type \notin {"BOOLEAN", "SIGNED_INT"} => v \in Nat,
         c.storage_type \in {"UINT32_BITPACKED", "UINT32_PLAIN"}
           => datum(c.logical_type, v) < Max32
  PROVE  readAs(c, c.logical_type, Keeps(c, v)) = v
<1>1. \A u \in Nat : u < Max32 => u % Max32 = u
  BY WidthAssumption
<1>2. CASE c.logical_type = "BOOLEAN"
  <2>1. c.storage_type = "BOOLEAN_BITPACKED" /\ v \in BOOLEAN
    BY <1>2 DEF WellEncoded
  <2>2. Keeps(c, v) = IF v THEN 1 ELSE 0
    BY <1>2, <2>1 DEF Keeps, stored, datum, BooleanColumnWriter
  <2>3. readAs(c, c.logical_type, Keeps(c, v)) = (Keeps(c, v) > 0)
    BY <1>2, <2>1 DEF readAs, BooleanColumnReader
  <2> QED
    BY <2>1, <2>2, <2>3
<1>3. CASE c.logical_type = "SIGNED_INT"
  <2>1. PICK u \in Nat : u = datum(c.logical_type, v) /\ toSigned(u) = v
    BY <1>3, SignedMod DEF datum
  <2>2. c.storage_type \in {"UINT32_BITPACKED", "UINT32_PLAIN", "UINT64_PLAIN",
                            "UINT64_LEB128"}
    BY <1>3 DEF IsColumn, Encodings, WellEncoded
  <2>3. Keeps(c, v) = u
    BY <1>1, <2>1, <2>2 DEF Keeps, stored, BitPackedIntColumnWriter,
       UInt32ColumnWriter, UInt64ColumnWriter, LEB128ColumnWriter
  <2>4. readAs(c, "SIGNED_INT", u) = toSigned(u)
    BY <2>2 DEF readAs, asInteger, BitPackedIntColumnReader, UInt32ColumnReader,
       UInt64ColumnReader, LEB128ColumnReader
  <2> QED
    BY <1>3, <2>1, <2>3, <2>4
<1>4. CASE c.logical_type \notin {"BOOLEAN", "SIGNED_INT"}
  <2>1. v \in Nat /\ datum(c.logical_type, v) = v
    BY <1>4 DEF datum
  <2>2. c.storage_type \in Encodings \ {"BOOLEAN_BITPACKED"}
    BY <1>4 DEF IsColumn, WellEncoded
  <2>3. Keeps(c, v) = v
    BY <1>1, <2>1, <2>2 DEF Encodings, Keeps, stored, BitPackedIntColumnWriter,
       UInt32ColumnWriter, UInt64ColumnWriter, LEB128ColumnWriter,
       DoubleColumnWriter, StringColumnWriter
  <2>4. readAs(c, c.logical_type, v) = v
    BY <1>4, <2>2 DEF Encodings, readAs, asInteger, BitPackedIntColumnReader,
       UInt32ColumnReader, UInt64ColumnReader, LEB128ColumnReader,
       DoubleColumnReader, StringColumnReader
  <2> QED
    BY <2>3, <2>4
<1> QED
  BY <1>2, <1>3, <1>4

\* The entry e of column c, written to the writer y of column t.
EntryTo(c, t, y, e) ==
  IF e.dlvl = c.dlevel_max
  THEN addDatum(t, y, e.rlvl, e.dlvl, Keeps(c, e.val))
  ELSE writeNull(y, e.rlvl, e.dlvl)

\* copyValue writes the entry it reads to the other column.
LEMMA ReaderCopies ==
  ASSUME NEW c, IsColumn(c), NEW w, NEW g, NEW o \in Nat, NEW f,
         Holds(f, o, writeBody(c, w)), NEW cr, ReaderAt(c, w, g, o, cr),
         NEW n \in Nat, n = cr.vals_read_, n < Len(g), NEW t, NEW y,
         NEW e, e = g[n + 1]
  PROVE  copyValue(c, f, cr, t, y) = EntryTo(c, t, y, e)
<1>1. /\ defined(c, f, cr) <=> e.dlvl = c.dlevel_max
      /\ readEntry(c, f, cr).rlvl = e.rlvl
      /\ readEntry(c, f, cr).dlvl = e.dlvl
      /\ e.dlvl = c.dlevel_max => readEntry(c, f, cr).val = Keeps(c, e.val)
  BY ReaderReads
<1>2. ASSUME e.dlvl = c.dlevel_max
      PROVE  Keeps(c, e.val) \in Nat /\ stored(c, Keeps(c, e.val)) = Keeps(c, e.val)
  <2>1. PICK x : ReaderWith(c, w, g, o, x, cr)
    BY DEF ReaderAt
  <2>2. Numbers(c, g, x.cnt, x.d) /\ Len(g) \in Nat
    BY <2>1, LenProperties DEF ReaderWith, DoneWith, Entries
  <2>3. n + 1 \in 1 .. Len(g) /\ n + 1 \in 0 .. Len(g) /\ n \in 0 .. Len(g)
        /\ (n + 1) - 1 = n
    BY <2>2
  <2>4. PICK m : m = x.cnt[n + 1]
    OBVIOUS
  <2>5. x.d[m] = Keeps(c, e.val) /\ m = x.cnt[n] + 1 /\ x.cnt[n] \in Nat
        /\ m <= Len(x.d) /\ x.d \in Seq(Nat)
    BY <1>2, <2>2, <2>3, <2>4 DEF Numbers
  <2>6. m \in 1 .. Len(x.d)
    BY <2>5, LenProperties, SMTT(60)
  <2>7. x.d[m] \in Nat /\ stored(c, x.d[m]) = x.d[m]
    <3>1. \A k \in 1 .. Len(x.d) : stored(c, x.d[k]) = x.d[k]
      BY <2>2 DEF Numbers
    <3>2. x.d[m] \in Nat
      BY <2>5, <2>6, ElementOfSeq
    <3> QED
      BY <2>6, <3>1, <3>2
  <2> QED
    BY <2>5, <2>7
<1>3. e.dlvl = c.dlevel_max
        => datum(readerType(c), readAs(c, readerType(c), Keeps(c, e.val)))
             = Keeps(c, e.val)
  BY <1>2, CopyDatum DEF IsColumn
<1> QED
  BY <1>1, <1>3 DEF copyValue, EntryTo
=============================================================================
