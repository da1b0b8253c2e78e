--------------------------- MODULE CSTableV1_proofs ---------------------------
(***************************************************************************)
(* The theorems about a v0.1.0 table: what its readers see, for every      *)
(* block size, schema, number of entries and of commits.                   *)
(***************************************************************************)
EXTENDS CSTableV1, V1Columns_proofs

----------------------------------------------------------------------------
(* Where the bodies are placed. *)

\* The function of bodyOffset, for the first m columns.
OffFcn(h, cols, ws, m) ==
  h = [k \in 1 .. m |->
         IF k = 1 THEN kHeaderSize + Len(ws) * kColumnHeaderSize
         ELSE h[k - 1] + bodySize(cols[k - 1].config, ws[k - 1])]

\* The recursive definition in bodyOffset has a solution.
LEMMA OffExists ==
  ASSUME NEW cols, NEW ws
  PROVE  \A m \in Nat : \E h : OffFcn(h, cols, ws, m)
<1> DEFINE T == {m \in Nat : \E h : OffFcn(h, cols, ws, m)}
<1>1. 0 \in T
  <2>1. OffFcn([k \in 1 .. 0 |-> 0], cols, ws, 0)
    BY DEF OffFcn
  <2> QED
    BY <2>1
<1>2. ASSUME NEW n \in Nat, n \in T PROVE n + 1 \in T
  <2>1. PICK h : OffFcn(h, cols, ws, n)
    BY <1>2
  <2>2. PICK x : x = IF n = 0 THEN kHeaderSize + Len(ws) * kColumnHeaderSize
                     ELSE h[n] + bodySize(cols[n].config, ws[n])
    OBVIOUS
  <2>3. PICK val : val = [k \in 1 .. (n + 1) |-> IF k = n + 1 THEN x ELSE h[k]]
    OBVIOUS
  <2>4. ASSUME NEW k \in 1 .. (n + 1)
        PROVE  val[k] = IF k = 1 THEN kHeaderSize + Len(ws) * kColumnHeaderSize
                        ELSE val[k - 1] + bodySize(cols[k - 1].config, ws[k - 1])
    <3>1. CASE k = n + 1
      <4>1. k - 1 = n /\ (k = 1 <=> n = 0)
            /\ (n # 0 => n \in 1 .. (n + 1) /\ n # n + 1)
        BY <3>1
      <4>2. val[k] = x /\ (n # 0 => val[n] = h[n])
        BY <2>3, <3>1, <4>1
      <4> QED
        BY <2>2, <3>1, <4>1, <4>2
    <3>2. CASE k # n + 1
      <4>1. k \in 1 .. n
        BY <3>2
      <4>2. val[k] = h[k] /\ (k # 1 => val[k - 1] = h[k - 1])
        <5>1. k # 1 => k - 1 \in 1 .. (n + 1) /\ k - 1 # n + 1
          BY <4>1
        <5> QED
          BY <2>3, <3>2, <5>1
      <4>3. h[k] = IF k = 1 THEN kHeaderSize + Len(ws) * kColumnHeaderSize
                   ELSE h[k - 1] + bodySize(cols[k - 1].config, ws[k - 1])
        BY <2>1, <4>1 DEF OffFcn
      <4> QED
        BY <4>2, <4>3
    <3> QED
      BY <3>1, <3>2
  <2>5. OffFcn(val, cols, ws, n + 1)
    BY <2>3, <2>4 DEF OffFcn
  <2> QED
    BY <2>5
<1>3. Nat \subseteq T
  <2> HIDE DEF T
  <2> QED
    BY <1>1, <1>2, NatSetInduction
<1> QED
  BY <1>3

\* The first body lies behind the header, every other one behind the one
\* before it.
LEMMA BodyOffset ==
  ASSUME NEW cols, NEW ws, Len(ws) \in Nat, NEW i \in 1 .. Len(ws)
  PROVE  bodyOffset(cols, ws, i)
           = IF i = 1 THEN kHeaderSize + Len(ws) * kColumnHeaderSize
             ELSE bodyOffset(cols, ws, i - 1)
                    + bodySize(cols[i - 1].config, ws[i - 1])
<1> DEFINE x == CHOOSE h : OffFcn(h, cols, ws, Len(ws))
<1>1. OffFcn(x, cols, ws, Len(ws))
  BY OffExists, Zenon
<1>2. \A k : bodyOffset(cols, ws, k) = x[k]
  BY DEF bodyOffset, OffFcn
<1> HIDE DEF x
<1>3. x[i] = IF i = 1 THEN kHeaderSize + Len(ws) * kColumnHeaderSize
             ELSE x[i - 1] + bodySize(cols[i - 1].config, ws[i - 1])
  BY <1>1 DEF OffFcn
<1> QED
  BY <1>2, <1>3

\* Offsets a that follow the rule are the ones of bodyOffset.
LEMMA OffsetsAgree ==
  ASSUME NEW cols, NEW ws, Len(ws) \in Nat, NEW a,
         \A i \in 1 .. Len(ws) :
           a[i] = IF i = 1 THEN kHeaderSize + Len(ws) * kColumnHeaderSize
                  ELSE a[i - 1] + bodySize(cols[i - 1].config, ws[i - 1])
  PROVE  \A i \in 1 .. Len(ws) : a[i] = bodyOffset(cols, ws, i)
<1> DEFINE T == {n \in Nat : n \in 1 .. Len(ws) => a[n] = bodyOffset(cols, ws, n)}
<1>1. 0 \in T
  OBVIOUS
<1>2. ASSUME NEW n \in Nat, n \in T PROVE n + 1 \in T
  <2>1. SUFFICES ASSUME n + 1 \in 1 .. Len(ws)
                 PROVE  a[n + 1] = bodyOffset(cols, ws, n + 1)
    OBVIOUS
  <2>2. (n + 1) - 1 = n /\ (n + 1 # 1 => n \in 1 .. Len(ws))
    BY <2>1
  <2>3. /\ a[n + 1] = IF n + 1 = 1 THEN kHeaderSize + Len(ws) * kColumnHeaderSize
                      ELSE a[n] + bodySize(cols[n].config, ws[n])
        /\ bodyOffset(cols, ws, n + 1)
             = IF n + 1 = 1 THEN kHeaderSize + Len(ws) * kColumnHeaderSize
               ELSE bodyOffset(cols, ws, n) + bodySize(cols[n].config, ws[n])
    BY <2>1, <2>2, BodyOffset
  <2>4. n + 1 # 1 => a[n] = bodyOffset(cols, ws, n)
    BY <1>2, <2>2
  <2> QED
    BY <2>3, <2>4
<1>3. Nat \subseteq T
  <2> HIDE DEF T
  <2> QED
    BY <1>1, <1>2, NatSetInduction
<1> QED
  BY <1>3

\* With sizes that are numbers the offsets are numbers.
LEMMA OffsetsAreNumbers ==
  ASSUME NEW cols, NEW ws, Len(ws) \in Nat,
         \A i \in 1 .. Len(ws) : bodySize(cols[i].config, ws[i]) \in Nat
  PROVE  \A i \in 1 .. Len(ws) : bodyOffset(cols, ws, i) \in Nat
<1> DEFINE T == {n \in Nat : n \in 1 .. Len(ws) => bodyOffset(cols, ws, n) \in Nat}
<1>1. 0 \in T
  OBVIOUS
<1>2. ASSUME NEW n \in Nat, n \in T PROVE n + 1 \in T
  <2>1. SUFFICES ASSUME n + 1 \in 1 .. Len(ws)
                 PROVE  bodyOffset(cols, ws, n + 1) \in Nat
    OBVIOUS
  <2>2. (n + 1) - 1 = n /\ (n + 1 # 1 => n \in 1 .. Len(ws))
    BY <2>1
  <2>3. bodyOffset(cols, ws, n + 1)
             = IF n + 1 = 1 THEN kHeaderSize + Len(ws) * kColumnHeaderSize
               ELSE bodyOffset(cols, ws, n) + bodySize(cols[n].config, ws[n])
    BY <2>1, <2>2, BodyOffset
  <2>4. n + 1 # 1 => /\ bodyOffset(cols, ws, n) \in Nat
                     /\ bodySize(cols[n].config, ws[n]) \in Nat
    BY <1>2, <2>2
  <2> QED
    BY <2>3, <2>4 DEF kHeaderSize, kColumnHeaderSize
<1>3. Nat \subseteq T
  <2> HIDE DEF T
  <2> QED
    BY <1>1, <1>2, NatSetInduction
<1> QED
  BY <1>3

\* Bodies that follow each other do not overlap.
LEMMA InOrder ==
  ASSUME NEW n \in Nat, NEW off, NEW size,
         \A i \in 1 .. n : off[i] \in Nat /\ size[i] \in Nat,
         \A i \in 1 .. n : i # 1 => off[i] = off[i - 1] + size[i - 1]
  PROVE  \A i, j \in 1 .. n : i < j => off[i] + size[i] <= off[j]
<1> DEFINE T == {m \in Nat : \A i, j \in 1 .. n :
                               i < j /\ j <= m => off[i] + size[i] <= off[j]}
<1>1. 0 \in T
  OBVIOUS
<1>2. ASSUME NEW m \in Nat, m \in T PROVE m + 1 \in T
  <2>1. SUFFICES ASSUME NEW i \in 1 .. n, NEW j \in 1 .. n, i < j, j = m + 1
                 PROVE  off[i] + size[i] <= off[j]
    BY <1>2
  <2>2. j # 1 /\ j - 1 = m /\ m \in 1 .. n
    BY <2>1
  <2>3. off[j] = off[m] + size[m]
    BY <2>2
  <2>4. CASE i = m
    BY <2>1, <2>3, <2>4
  <2>5. CASE i # m
    <3>1. i < m /\ m <= m
      BY <2>1, <2>5
    <3>2. off[i] + size[i] <= off[m]
      BY <1>2, <2>2, <3>1
    <3>3. /\ off[i] \in Nat /\ size[i] \in Nat /\ off[m] \in Nat
          /\ size[m] \in Nat
      BY <2>2
    <3> QED
      BY <2>3, <3>2, <3>3
  <2> QED
    BY <2>4, <2>5
<1>3. Nat \subseteq T
  <2> HIDE DEF T
  <2> QED
    BY <1>1, <1>2, NatSetInduction
<1> QED
  BY <1>3

----------------------------------------------------------------------------
(* What copying makes. *)

\* The function of WrittenDirectly, for the first m entries of ks.
DirectFcn(h, c, g, ks, m) ==
  h = [n \in 0 .. m |-> IF n = 0 THEN ColumnWriter(copyConfig(c))
                        ELSE WrittenEntry(c, h[n - 1], g[ks[n]])]

\* The recursive definition in WrittenDirectly has a solution.
LEMMA DirectExists ==
  ASSUME NEW c, NEW g, NEW ks
  PROVE  \A m \in Nat : \E h : DirectFcn(h, c, g, ks, m)
<1> DEFINE T == {m \in Nat : \E h : DirectFcn(h, c, g, ks, m)}
<1>1. 0 \in T
  <2>1. DirectFcn([k \in 0 .. 0 |-> ColumnWriter(copyConfig(c))], c, g, ks, 0)
    BY DEF DirectFcn
  <2> QED
    BY <2>1
<1>2. ASSUME NEW n \in Nat, n \in T PROVE n + 1 \in T
  <2>1. PICK h : DirectFcn(h, c, g, ks, n)
    BY <1>2
  <2>2. PICK x : x = WrittenEntry(c, h[n], g[ks[n + 1]])
    OBVIOUS
  <2>3. PICK val : val = [k \in 0 .. (n + 1) |-> IF k = n + 1 THEN x ELSE h[k]]
    OBVIOUS
  <2>4. ASSUME NEW k \in 0 .. (n + 1)
        PROVE  val[k] = IF k = 0 THEN ColumnWriter(copyConfig(c))
                        ELSE WrittenEntry(c, val[k - 1], g[ks[k]])
    <3>1. CASE k = n + 1
      <4>1. k - 1 = n /\ k # 0 /\ n \in 0 .. (n + 1) /\ n # n + 1
        BY <3>1
      <4>2. val[k] = x /\ val[n] = h[n]
        BY <2>3, <3>1, <4>1
      <4> QED
        BY <2>2, <3>1, <4>1, <4>2
    <3>2. CASE k # n + 1
      <4>1. k \in 0 .. n
        BY <3>2
      <4>2. val[k] = h[k] /\ (k # 0 => val[k - 1] = h[k - 1])
        <5>1. k # 0 => k - 1 \in 0 .. (n + 1) /\ k - 1 # n + 1
          BY <4>1
        <5> QED
          BY <2>3, <3>2, <5>1
      <4> QED
        BY <2>1, <4>1, <4>2 DEF DirectFcn
    <3> QED
      BY <3>1, <3>2
  <2>5. DirectFcn(val, c, g, ks, n + 1)
    BY <2>3, <2>4 DEF DirectFcn
  <2> QED
    BY <2>5
<1>3. Nat \subseteq T
  <2> HIDE DEF T
  <2> QED
    BY <1>1, <1>2, NatSetInduction
<1> QED
  BY <1>3

DirectBy(h, c, g, ks) ==
  /\ WrittenDirectly(c, g, ks) = h[Len(ks)]
  /\ \A n \in 0 .. Len(ks) :
       h[n] = IF n = 0 THEN ColumnWriter(copyConfig(c))
              ELSE WrittenEntry(c, h[n - 1], g[ks[n]])

\* WrittenDirectly is the last value of its function.
LEMMA DirectIs ==
  ASSUME NEW c, NEW g, NEW ks, Len(ks) \in Nat
  PROVE  \E h : DirectBy(h, c, g, ks)
<1> DEFINE x == CHOOSE h : DirectFcn(h, c, g, ks, Len(ks))
<1>1. DirectFcn(x, c, g, ks, Len(ks))
  BY DirectExists, Zenon
<1>2. WrittenDirectly(c, g, ks) = x[Len(ks)]
  BY DEF WrittenDirectly, DirectFcn
<1> HIDE DEF x
<1>3. \A n \in 0 .. Len(ks) :
         x[n] = IF n = 0 THEN ColumnWriter(copyConfig(c))
                ELSE WrittenEntry(c, x[n - 1], g[ks[n]])
  BY <1>1 DEF DirectFcn
<1> QED
  BY <1>2, <1>3 DEF DirectBy

\* Nothing is copied yet.
LEMMA DirectStart ==
  ASSUME NEW c, NEW g
  PROVE  WrittenDirectly(c, g, <<>>) = ColumnWriter(copyConfig(c))
<1>1. PICK ks : ks = <<>> /\ Len(ks) = 0
  OBVIOUS
<1>2. PICK h : DirectBy(h, c, g, ks)
  BY <1>1, DirectIs
<1> QED
  BY <1>1, <1>2 DEF DirectBy

\* One entry more is copied.
LEMMA DirectStep ==
  ASSUME NEW c, NEW g, NEW ks \in Seq(Nat), NEW k \in Nat
  PROVE  WrittenDirectly(c, g, Append(ks, k))
           = WrittenEntry(c, WrittenDirectly(c, g, ks), g[k])
<1>1. PICK m \in Nat, kt \in Seq(Nat) :
        /\ m = Len(ks) /\ kt = Append(ks, k) /\ Len(kt) = m + 1 /\ kt[m + 1] = k
        /\ \A n \in 1 .. m : kt[n] = ks[n]
  <2>1. /\ Append(ks, k) \in Seq(Nat) /\ Len(ks) \in Nat
        /\ Len(Append(ks, k)) = Len(ks) + 1 /\ Append(ks, k)[Len(ks) + 1] = k
        /\ \A n \in 1 .. Len(ks) : Append(ks, k)[n] = ks[n]
    BY AppendIs
  <2> QED
    BY <2>1
<1>2. PICK h : /\ WrittenDirectly(c, g, ks) = h[m]
               /\ \A n \in 0 .. m :
                     h[n] = IF n = 0 THEN ColumnWriter(copyConfig(c))
                            ELSE WrittenEntry(c, h[n - 1], g[ks[n]])
  <2>1. \E h : DirectBy(h, c, g, ks)
    BY <1>1, DirectIs
  <2> QED
    BY <1>1, <2>1 DEF DirectBy
<1>3. PICK y : /\ WrittenDirectly(c, g, kt) = y[m + 1]
               /\ \A n \in 0 .. (m + 1) :
                     y[n] = IF n = 0 THEN ColumnWriter(copyConfig(c))
                            ELSE WrittenEntry(c, y[n - 1], g[kt[n]])
  <2>1. Len(kt) \in Nat
    BY <1>1
  <2>2. PICK y : DirectBy(y, c, g, kt)
    BY <2>1, DirectIs
  <2>3. Len(kt) = m + 1
    BY <1>1
  <2>4. /\ WrittenDirectly(c, g, kt) = y[m + 1]
        /\ \A n \in 0 .. (m + 1) :
             y[n] = IF n = 0 THEN ColumnWriter(copyConfig(c))
                    ELSE WrittenEntry(c, y[n - 1], g[kt[n]])
    BY <2>2, <2>3 DEF DirectBy
  <2> QED
    BY <2>4
<1> DEFINE T == {n \in Nat : n <= m => h[n] = y[n]}
<1>4. 0 \in T
  <2>1. 0 \in 0 .. m /\ 0 \in 0 .. (m + 1)
    OBVIOUS
  <2> QED
    BY <1>2, <1>3, <2>1
<1>5. ASSUME NEW n \in Nat, n \in T PROVE n + 1 \in T
  <2>1. SUFFICES ASSUME n + 1 <= m PROVE h[n + 1] = y[n + 1]
    OBVIOUS
  <2>2. /\ n + 1 \in 0 .. m /\ n + 1 \in 0 .. (m + 1) /\ n + 1 \in 1 .. m
        /\ (n + 1) - 1 = n /\ n + 1 # 0 /\ n <= m
    BY <2>1
  <2>3. h[n] = y[n] /\ kt[n + 1] = ks[n + 1]
    BY <1>1, <1>5, <2>2
  <2>4. h[n + 1] = WrittenEntry(c, h[n], g[ks[n + 1]])
    BY <1>2, <2>2
  <2>5. y[n + 1] = WrittenEntry(c, y[n], g[kt[n + 1]])
    BY <1>3, <2>2
  <2> QED
    BY <2>3, <2>4, <2>5
<1>6. Nat \subseteq T
  <2> HIDE DEF T
  <2> QED
    BY <1>4, <1>5, NatSetInduction
<1>7. h[m] = y[m]
  BY <1>6
<1>8. y[m + 1] = WrittenEntry(c, y[m], g[kt[m + 1]])
  <2>1. m + 1 \in 0 .. (m + 1) /\ m + 1 # 0 /\ (m + 1) - 1 = m
    OBVIOUS
  <2> QED
    BY <1>3, <2>1
<1> QED
  BY <1>1, <1>2, <1>3, <1>7, <1>8

----------------------------------------------------------------------------
(* What a reader holds of one column. *)

Column == [config : ColumnConfig, body_offset : Nat, body_size : Nat]

\* A column of a table is one that the lemmas about columns are for.
LEMMA ConfigIsColumn ==
  ASSUME NEW col \in Column
  PROVE  IsColumn(col.config) /\ col.body_offset \in Nat
  BY DEF Column, ColumnConfig, IsColumn

\* The words of the body of column col, which w wrote, are in file f.
Complete(col, w, f) ==
  \A q \in 1 .. Len(writeBody(col.config, w)) :
    /\ col.body_offset + q - 1 \in Addr
    /\ f[col.body_offset + q - 1] = writeBody(col.config, w)[q]

GotRight(c, g, x) ==
  x.got # NoReader =>
    LET k == x.reader.vals_read_
    IN  /\ k \in 1 .. Len(g)
        /\ x.got.rlvl = g[k].rlvl /\ x.got.dlvl = g[k].dlvl
        /\ g[k].dlvl = c.dlevel_max => x.got.val = Keeps(c, g[k].val)

PeekRight(g, x) ==
  x.peeked # NoReader =>
    x.peeked = IF x.reader.vals_read_ < Len(g)
               THEN g[x.reader.vals_read_ + 1].rlvl ELSE 0

IsReading(x) ==
  x = [config |-> x.config, reader |-> x.reader, got |-> x.got,
       peeked |-> x.peeked, copy |-> x.copy, copied |-> x.copied]

\* What x holds of column col, to which w wrote the entries g, is right.
Reading(col, w, g, f, x) ==
  /\ IsReading(x) /\ x.config = col.config
  /\ Complete(col, w, f)
  /\ ReaderAt(col.config, w, g, col.body_offset, x.reader)
  /\ GotRight(col.config, g, x)
  /\ PeekRight(g, x)
  /\ x.copied \in Seq(Nat)
  /\ x.copy = WrittenDirectly(col.config, g, x.copied)

\* A reader counts up to the number of entries.
LEMMA ReaderCounts ==
  ASSUME NEW c, NEW w, NEW g, NEW o, NEW cr, ReaderAt(c, w, g, o, cr)
  PROVE  /\ Len(g) \in Nat /\ cr.vals_total_ = Len(g)
         /\ cr.vals_read_ \in Nat /\ cr.vals_read_ <= Len(g)
         /\ ~ eofReached(cr) <=> cr.vals_read_ < Len(g)
         /\ ColumnDone(c, w, g)
<1>1. PICK x : ReaderWith(c, w, g, o, x, cr)
  BY DEF ReaderAt
<1>2. DoneWith(c, w, g, x) /\ cr \in Reader /\ cr.vals_total_ = Len(g)
      /\ cr.vals_read_ <= Len(g)
  BY <1>1 DEF ReaderWith
<1>3. Len(g) \in Nat
  BY <1>2, LenProperties DEF DoneWith, Entries
<1>4. cr.vals_read_ \in Nat
  BY <1>2 DEF Reader
<1>5. ~ eofReached(cr) <=> cr.vals_read_ < Len(g)
  BY <1>2, <1>3, <1>4 DEF eofReached
<1> QED
  BY <1>2, <1>3, <1>4, <1>5 DEF ColumnDone

\* The body is where the lemmas about its reader expect it.
LEMMA CompleteHolds ==
  ASSUME NEW col, NEW w, NEW f, Complete(col, w, f)
  PROVE  Holds(f, col.body_offset, writeBody(col.config, w))
  BY DEF Complete, Holds

\* A reader of a complete body is opened.
LEMMA OpenRight ==
  ASSUME NEW col \in Column, NEW w, NEW g, ColumnDone(col.config, w, g),
         Complete(col, w, file)
  PROVE  Reading(col, w, g, file, OpenColumnV1(col))
<1>1. IsColumn(col.config) /\ col.body_offset \in Nat
  BY ConfigIsColumn
<1>2. Holds(file, col.body_offset, writeBody(col.config, w))
  BY CompleteHolds
<1>3. PICK x : x = OpenColumnV1(col)
  OBVIOUS
<1>4. /\ x.config = col.config /\ x.got = NoReader /\ x.peeked = NoReader
      /\ x.reader = ColumnReader(col.config, file, col.body_offset)
      /\ x.copy = ColumnWriter(copyConfig(col.config)) /\ x.copied = <<>>
      /\ IsReading(x)
  BY <1>3 DEF OpenColumnV1, IsReading
<1>5. ReaderAt(col.config, w, g, col.body_offset, x.reader)
  BY <1>1, <1>2, <1>4, ReaderOpens
<1>6. x.copied \in Seq(Nat)
  BY <1>4
<1>7. x.copy = WrittenDirectly(col.config, g, x.copied)
  BY <1>4, DirectStart
<1>8. GotRight(col.config, g, x) /\ PeekRight(g, x)
  BY <1>4 DEF GotRight, PeekRight
<1> QED
  BY <1>3, <1>4, <1>5, <1>6, <1>7, <1>8 DEF Reading

\* A read: nothing raises before eofReached, and the next entry is yielded.
LEMMA ReadRight ==
  ASSUME NEW col \in Column, NEW w, NEW g, NEW x, Reading(col, w, g, file, x),
         ~ eofReached(x.reader)
  PROVE  /\ ~ readRaises(x.config, file, x.reader)
         /\ Reading(col, w, g, file, Consumed(x))
<1>1. IsColumn(col.config) /\ col.body_offset \in Nat
  BY ConfigIsColumn
<1>2. Holds(file, col.body_offset, writeBody(col.config, w))
  BY CompleteHolds DEF Reading
<1>3. PICK c, o, cr : /\ c = col.config /\ o = col.body_offset /\ cr = x.reader
                      /\ x.config = c /\ ReaderAt(c, w, g, o, cr)
  BY DEF Reading
<1>4. PICK n \in Nat : n = cr.vals_read_ /\ n < Len(g) /\ Len(g) \in Nat
  BY <1>3, ReaderCounts
<1>5. PICK y : y = Consumed(x)
  OBVIOUS
<1>6. /\ IsReading(y) /\ y.config = c /\ y.reader = afterRead(c, file, cr)
      /\ y.got = readEntry(c, file, cr) /\ y.peeked = NoReader
      /\ y.copy = x.copy /\ y.copied = x.copied
  BY <1>3, <1>5 DEF Consumed, IsReading, Reading
<1>7. /\ ~ readRaises(c, file, cr)
      /\ readEntry(c, file, cr).rlvl = g[n + 1].rlvl
      /\ readEntry(c, file, cr).dlvl = g[n + 1].dlvl
      /\ g[n + 1].dlvl = c.dlevel_max
           => readEntry(c, file, cr).val = Keeps(c, g[n + 1].val)
      /\ ReaderAt(c, w, g, o, afterRead(c, file, cr))
      /\ afterRead(c, file, cr).vals_read_ = n + 1
  BY <1>1, <1>2, <1>3, <1>4, ReaderReads
<1>8. n + 1 \in 1 .. Len(g)
  BY <1>4
<1>9. GotRight(c, g, y)
  BY <1>6, <1>7, <1>8 DEF GotRight
<1>10. PeekRight(g, y)
  BY <1>6 DEF PeekRight
<1>11. Reading(col, w, g, file, y)
  BY <1>3, <1>6, <1>7, <1>9, <1>10 DEF Reading
<1> QED
  BY <1>3, <1>5, <1>7, <1>11

\* A copy: the entry that is read is written to the other column.
LEMMA CopyRight ==
  ASSUME NEW col \in Column, NEW w, NEW g, NEW x, Reading(col, w, g, file, x),
         ~ eofReached(x.reader), NEW t, t = copyConfig(x.config)
  PROVE  Reading(col, w, g, file,
                 [Consumed(x) EXCEPT
                    !.copy = copyValue(x.config, file, x.reader, t, @),
                    !.copied = Append(@, x.reader.vals_read_ + 1)])
<1>1. IsColumn(col.config) /\ col.body_offset \in Nat
  BY ConfigIsColumn
<1>2. Holds(file, col.body_offset, writeBody(col.config, w))
  BY CompleteHolds DEF Reading
<1>3. PICK c, o, cr : /\ c = col.config /\ o = col.body_offset /\ cr = x.reader
                      /\ x.config = c /\ ReaderAt(c, w, g, o, cr)
  BY DEF Reading
<1>4. PICK n \in Nat : n = cr.vals_read_ /\ n < Len(g) /\ Len(g) \in Nat
  BY <1>3, ReaderCounts
<1>5. PICK y : y = Consumed(x)
  OBVIOUS
<1>6. Reading(col, w, g, file, y)
  BY <1>5, ReadRight
<1>7. y.copy = x.copy /\ y.copied = x.copied /\ IsReading(y)
  BY <1>5 DEF Consumed, IsReading, Reading
<1>8. PICK z : z = [y EXCEPT !.copy = copyValue(c, file, cr, t, @),
                             !.copied = Append(@, n + 1)]
  OBVIOUS
<1>9. /\ IsReading(z) /\ z.config = y.config /\ z.reader = y.reader
      /\ z.got = y.got /\ z.peeked = y.peeked
      /\ z.copy = copyValue(c, file, cr, t, x.copy)
      /\ z.copied = Append(x.copied, n + 1)
  BY <1>7, <1>8 DEF IsReading
<1>10. PICK e, cp, ks : /\ e = g[n + 1] /\ cp = x.copy /\ ks = x.copied
                        /\ ks \in Seq(Nat)
  BY DEF Reading
<1>11. cp = WrittenDirectly(c, g, ks)
  BY <1>3, <1>10 DEF Reading
<1>12. copyValue(c, file, cr, t, cp) = EntryTo(c, t, cp, e)
  <2>1. IsColumn(c) /\ o \in Nat /\ Holds(file, o, writeBody(c, w))
        /\ ReaderAt(c, w, g, o, cr) /\ n = cr.vals_read_ /\ n < Len(g)
        /\ e = g[n + 1]
    BY <1>1, <1>2, <1>3, <1>4, <1>10
  <2> QED
    BY <2>1, ReaderCopies
<1>13. copyValue(c, file, cr, t, cp) = WrittenEntry(c, cp, e)
  BY <1>3, <1>12 DEF WrittenEntry, EntryTo, Keeps
<1>14. WrittenDirectly(c, g, Append(ks, n + 1)) = WrittenEntry(c, cp, e)
  <2>1. n + 1 \in Nat
    OBVIOUS
  <2> QED
    BY <1>10, <1>11, <2>1, DirectStep
<1>15. z.copied \in Seq(Nat) /\ z.copy = WrittenDirectly(c, g, z.copied)
  <2>1. Append(ks, n + 1) \in Seq(Nat)
    BY <1>10
  <2> QED
    BY <1>9, <1>10, <1>13, <1>14, <2>1
<1>16. GotRight(c, g, z) /\ PeekRight(g, z)
  BY <1>3, <1>6, <1>9 DEF GotRight, PeekRight, Reading
<1>17. Reading(col, w, g, file, z)
  BY <1>3, <1>6, <1>9, <1>15, <1>16 DEF Reading
<1> QED
  BY <1>3, <1>4, <1>5, <1>8, <1>17

\* A peek.
LEMMA PeekedRight ==
  ASSUME NEW col \in Column, NEW w, NEW g, NEW x, Reading(col, w, g, file, x)
  PROVE  Reading(col, w, g, file,
                 [x EXCEPT !.reader = afterNextRepetitionLevel(file, @),
                           !.peeked = nextRepetitionLevel(file, x.reader)])
<1>1. IsColumn(col.config) /\ col.body_offset \in Nat
  BY ConfigIsColumn
<1>2. Holds(file, col.body_offset, writeBody(col.config, w))
  BY CompleteHolds DEF Reading
<1>3. PICK c, o, cr : /\ c = col.config /\ o = col.body_offset /\ cr = x.reader
                      /\ x.config = c /\ ReaderAt(c, w, g, o, cr)
  BY DEF Reading
<1>4. PICK n \in Nat : n = cr.vals_read_
  BY <1>3, ReaderCounts
<1>5. PICK z : z = [x EXCEPT !.reader = afterNextRepetitionLevel(file, @),
                             !.peeked = nextRepetitionLevel(file, x.reader)]
  OBVIOUS
<1>6. /\ IsReading(z) /\ z.config = c /\ z.got = x.got /\ z.copy = x.copy
      /\ z.copied = x.copied /\ z.reader = afterNextRepetitionLevel(file, cr)
      /\ z.peeked = nextRepetitionLevel(file, cr)
  BY <1>3, <1>5 DEF IsReading, Reading
<1>7. /\ nextRepetitionLevel(file, cr) = IF n < Len(g) THEN g[n + 1].rlvl ELSE 0
      /\ ReaderAt(c, w, g, o, afterNextRepetitionLevel(file, cr))
      /\ afterNextRepetitionLevel(file, cr).vals_read_ = n
  BY <1>1, <1>2, <1>3, <1>4, ReaderPeeks
<1>8. GotRight(c, g, z)
  BY <1>3, <1>4, <1>6, <1>7 DEF GotRight, Reading
<1>9. PeekRight(g, z)
  BY <1>6, <1>7 DEF PeekRight
<1>10. Reading(col, w, g, file, z)
  BY <1>3, <1>6, <1>7, <1>8, <1>9 DEF Reading
<1> QED
  BY <1>5, <1>10

----------------------------------------------------------------------------
(* The inductive invariant. *)

ShapeInv ==
  /\ pc \in {"absent", "idle", "header", "body", "dead"}
  /\ columns_ \in Seq(Column) /\ column_writers_ \in Seq(Writer)
  /\ wrote \in Seq(Seq(Entry))
  /\ Len(column_writers_) = Len(columns_) /\ Len(wrote) = Len(columns_)
  /\ num_rows_ \in 0 .. MaxRows
  /\ next \in 0 .. (Len(columns_) + 1)
  /\ commits \in 0 .. MaxCommits
  /\ committed \in BOOLEAN
  /\ file \in [Addr -> Word \cup {Garbage}]
  /\ commits = 0 => next = 0
  /\ pc = "absent" => commits = 0

\* After n commits the writer w of column col holds the entries g.
Content(n, col, w, g) ==
  /\ n = 0 => ColumnOpen(col.config, w, g)
  /\ n > 0 => ColumnDone(col.config, w, g)

ContentInv ==
  \A i \in 1 .. Len(columns_) :
    Content(commits, columns_[i], column_writers_[i], wrote[i])

\* The reader x holds what it should of all the n columns.
AllReading(cols, ws, gs, f, x) ==
  /\ x = [i \in 1 .. Len(cols) |-> x[i]]
  /\ \A i \in 1 .. Len(cols) : Reading(cols[i], ws[i], gs[i], f, x[i])

ReadersInv ==
  /\ rd = [r \in Readers |-> rd[r]]
  /\ \A r \in Readers :
       Open(r) => /\ commits > 0
                  /\ AllReading(columns_, column_writers_, wrote, file, rd[r])

IInv ==
  ShapeInv /\ ContentInv /\ LayoutInv /\ FileInv /\ HeaderInv /\ ReadersInv

\* A function on 1 .. n is a sequence.
LEMMA SeqOf ==
  ASSUME NEW S, NEW n \in Nat, NEW s \in [1 .. n -> S]
  PROVE  s \in Seq(S) /\ Len(s) = n /\ DOMAIN s = 1 .. n
  OBVIOUS

\* What a column holds has the types of the writer and of the entries.
LEMMA ContentTyped ==
  ASSUME NEW c, NEW w, NEW g
  PROVE  /\ ColumnOpen(c, w, g) => w \in Writer /\ g \in Seq(Entry)
         /\ ColumnDone(c, w, g) => w \in Writer /\ g \in Seq(Entry)
<1>1. ASSUME ColumnOpen(c, w, g) PROVE w \in Writer /\ g \in Seq(Entry)
  <2>1. PICK cnt, d, st : OpenWith(c, w, g, cnt, d, st)
    BY <1>1 DEF ColumnOpen
  <2> QED
    BY <2>1 DEF OpenWith, Entries
<1>2. ASSUME ColumnDone(c, w, g) PROVE w \in Writer /\ g \in Seq(Entry)
  <2>1. PICK x : DoneWith(c, w, g, x)
    BY <1>2 DEF ColumnDone
  <2> QED
    BY <2>1 DEF DoneWith, Entries
<1> QED
  BY <1>1, <1>2

\* The writer is not created yet, the file is empty.
LEMMA InitInv == Init => IInv
<1> SUFFICES ASSUME Init PROVE IInv
  OBVIOUS
<1>1. columns_ = <<>> /\ Len(columns_) = 0 /\ DOMAIN columns_ = {}
  BY DEF Init
<1>2. ShapeInv
  <2>1. file \in [Addr -> Word \cup {Garbage}]
    BY DEF Init
  <2>2. /\ column_writers_ = <<>> /\ wrote = <<>> /\ columns_ = <<>>
        /\ pc = "absent" /\ num_rows_ = 0 /\ next = 0 /\ commits = 0
        /\ committed = FALSE
    BY DEF Init
  <2>3. /\ columns_ \in Seq(Column) /\ column_writers_ \in Seq(Writer)
        /\ wrote \in Seq(Seq(Entry))
        /\ Len(column_writers_) = 0 /\ Len(wrote) = 0 /\ Len(columns_) = 0
    BY <2>2
  <2>4. 0 \in 0 .. MaxRows /\ 0 \in 0 .. MaxCommits
    BY TableAssumption
  <2> QED
    <3>1. pc \in {"absent", "idle", "header", "body", "dead"}
      BY <2>2
    <3>2. committed \in BOOLEAN
      BY <2>2
    <3>3. next \in 0 .. (Len(columns_) + 1)
      BY <2>2, <2>3
    <3>4. num_rows_ \in 0 .. MaxRows /\ commits \in 0 .. MaxCommits
      BY <2>2, <2>4
    <3> QED
      BY <2>1, <2>2, <2>3, <3>1, <3>2, <3>3, <3>4 DEF ShapeInv
<1>3. ContentInv
  BY <1>1 DEF ContentInv
<1>4. LayoutInv /\ FileInv /\ HeaderInv
  BY DEF Init, LayoutInv, FileInv, HeaderInv
<1>5. ReadersInv
  BY DEF Init, ReadersInv, Open
<1> QED
  BY <1>2, <1>3, <1>4, <1>5 DEF IInv

\* While the first transaction is open the file is empty and nobody reads it.
LEMMA FillFrame ==
  ASSUME IInv, commits = 0, commits' = commits, pc' \notin {"header", "body"},
         UNCHANGED <<committed, hdr, file, rd>>
  PROVE  LayoutInv' /\ FileInv' /\ HeaderInv' /\ ReadersInv'
<1>1. committed' = FALSE /\ hdr' = NoHeader /\ ~ (commits > 0)
  BY DEF IInv, ShapeInv, HeaderInv
<1>2. LayoutInv'
  BY <1>1 DEF LayoutInv
<1>3. FileInv'
  BY <1>1 DEF IInv, FileInv
<1>4. HeaderInv'
  BY <1>1 DEF HeaderInv
<1>5. ReadersInv'
  BY <1>1 DEF IInv, ReadersInv, Open
<1> QED
  BY <1>2, <1>3, <1>4, <1>5

\* createFile makes one empty writer per column of the schema.
LEMMA CreateFileInv == IInv /\ CreateFile => IInv'
<1> SUFFICES ASSUME IInv, CreateFile PROVE IInv'
  OBVIOUS
<1>1. commits = 0 /\ commits' = commits /\ pc' = "idle"
      /\ UNCHANGED <<committed, hdr, file, rd>>
  BY DEF CreateFile, IInv, ShapeInv
<1>2. PICK s \in Schemas :
        /\ columns_' = [i \in DOMAIN s |->
                          [config |-> s[i], body_offset |-> 0, body_size |-> 0]]
        /\ column_writers_' = [i \in DOMAIN s |-> ColumnWriter(s[i])]
        /\ wrote' = [i \in DOMAIN s |-> <<>>]
  BY DEF CreateFile
<1>3. PICK n \in Nat : n = Len(s) /\ DOMAIN s = 1 .. n
  BY TableAssumption, LenProperties
<1>4. \A i \in 1 .. n : s[i] \in ColumnConfig
  BY <1>3, TableAssumption
<1>5. ASSUME NEW i \in 1 .. n
      PROVE  /\ columns_'[i] \in Column /\ columns_'[i].config = s[i]
             /\ ColumnOpen(s[i], column_writers_'[i], wrote'[i])
  <2>1. columns_'[i] = [config |-> s[i], body_offset |-> 0, body_size |-> 0]
        /\ column_writers_'[i] = ColumnWriter(s[i]) /\ wrote'[i] = <<>>
    BY <1>2, <1>3
  <2>2. columns_'[i] \in Column /\ columns_'[i].config = s[i]
    BY <1>4, <2>1 DEF Column
  <2>3. IsColumn(s[i])
    BY <2>2, ConfigIsColumn
  <2> QED
    BY <2>1, <2>2, <2>3, ColumnStarts
<1>6. \A i \in 1 .. n : column_writers_'[i] \in Writer /\ wrote'[i] \in Seq(Entry)
  BY <1>5, ContentTyped
<1>7. /\ columns_' \in Seq(Column) /\ Len(columns_') = n
      /\ column_writers_' \in Seq(Writer) /\ Len(column_writers_') = n
      /\ wrote' \in Seq(Seq(Entry)) /\ Len(wrote') = n
  <2>1. columns_' \in [1 .. n -> Column]
    BY <1>2, <1>3, <1>5
  <2>2. column_writers_' \in [1 .. n -> Writer]
    BY <1>2, <1>3, <1>6
  <2>3. wrote' \in [1 .. n -> Seq(Entry)]
    BY <1>2, <1>3, <1>6
  <2> QED
    BY <2>1, <2>2, <2>3, SeqOf
<1>8. ShapeInv'
  <2>1. next' = 0 /\ num_rows_' = num_rows_
    BY <1>1 DEF CreateFile, IInv, ShapeInv
  <2> QED
    BY <1>1, <1>7, <2>1 DEF IInv, ShapeInv
<1>9. ContentInv'
  <2>1. ~ (commits' > 0)
    BY <1>1
  <2> QED
    BY <1>5, <1>7, <2>1 DEF ContentInv, Content
<1> QED
  BY <1>1, <1>8, <1>9, FillFrame DEF IInv

\* Every typed write hands a number to its column.
LEMMA DatumIsNat ==
  ASSUME NEW type, NEW v \in ValuesOf(type)
  PROVE  datum(type, v) \in Nat /\ v \in BOOLEAN \cup Int
<1>1. CASE type = "BOOLEAN"
  BY <1>1 DEF ValuesOf, datum
<1>2. CASE type = "SIGNED_INT"
  <2>1. v \in Int
    BY <1>2, TableAssumption DEF ValuesOf
  <2>2. v % Max64 \in Nat
    BY <2>1, WidthAssumption
  <2> QED
    BY <1>2, <2>1, <2>2 DEF datum
<1>3. CASE type \notin {"BOOLEAN", "SIGNED_INT"}
  BY <1>3, TableAssumption DEF ValuesOf, datum
<1> QED
  BY <1>1, <1>2, <1>3

\* One column gets one entry more.
LEMMA FillOne ==
  ASSUME IInv, commits = 0, NEW i \in 1 .. Len(columns_), NEW w, NEW rlvl,
         NEW dlvl, NEW v, Write(i, w, rlvl, dlvl, v),
         ColumnOpen(columns_[i].config, w,
                    Append(wrote[i], [rlvl |-> rlvl, dlvl |-> dlvl, val |-> v])),
         UNCHANGED <<pc, columns_, num_rows_, next, commits, committed, hdr,
                     file, rd>>,
         pc = "idle"
  PROVE  IInv'
<1>1. PICK n \in Nat : n = Len(columns_) /\ Len(column_writers_) = n
                       /\ Len(wrote) = n
  BY LenProperties DEF IInv, ShapeInv
<1>2. PICK g : g = Append(wrote[i], [rlvl |-> rlvl, dlvl |-> dlvl, val |-> v])
  OBVIOUS
<1>3. w \in Writer /\ g \in Seq(Entry) /\ ColumnOpen(columns_[i].config, w, g)
  BY <1>2, ContentTyped
<1>4. column_writers_ \in Seq(Writer) /\ wrote \in Seq(Seq(Entry))
  BY DEF IInv, ShapeInv
<1>5. /\ column_writers_' = [column_writers_ EXCEPT ![i] = w]
      /\ wrote' = [wrote EXCEPT ![i] = g]
  BY <1>2 DEF Write
<1>6. /\ column_writers_' \in Seq(Writer) /\ Len(column_writers_') = n
      /\ column_writers_'[i] = w
      /\ \A j \in 1 .. n : j # i => column_writers_'[j] = column_writers_[j]
  BY <1>1, <1>3, <1>4, <1>5
<1>7. /\ wrote' \in Seq(Seq(Entry)) /\ Len(wrote') = n /\ wrote'[i] = g
      /\ \A j \in 1 .. n : j # i => wrote'[j] = wrote[j]
  BY <1>1, <1>3, <1>4, <1>5
<1>8. ShapeInv'
  BY <1>1, <1>6, <1>7 DEF IInv, ShapeInv
<1>9. ContentInv'
  <2>1. SUFFICES ASSUME NEW j \in 1 .. n
                 PROVE  Content(0, columns_[j], column_writers_'[j], wrote'[j])
    BY <1>1 DEF ContentInv
  <2>2. CASE j = i
    BY <1>3, <1>6, <1>7, <2>2 DEF Content
  <2>3. CASE j # i
    BY <1>1, <1>6, <1>7, <2>3 DEF IInv, ContentInv
  <2> QED
    BY <2>2, <2>3
<1> QED
  BY <1>8, <1>9, FillFrame DEF IInv

\* A typed write or a null is one entry more in the column it goes to.
LEMMA WriteColumnInv == IInv /\ WriteColumn => IInv'
<1> SUFFICES ASSUME IInv, WriteColumn PROVE IInv'
  OBVIOUS
<1>1. pc = "idle" /\ commits = 0
      /\ UNCHANGED <<pc, columns_, num_rows_, next, commits, committed, hdr,
                     file, rd>>
  BY DEF WriteColumn, Filling
<1>2. DOMAIN columns_ = 1 .. Len(columns_)
  BY DEF IInv, ShapeInv
<1>0. PICK i \in 1 .. Len(columns_) :
        \E rlvl \in 0 .. columns_[i].config.rlevel_max :
          \/ \E v \in ValuesOf(columns_[i].config.logical_type) :
               Write(i, addDatum(columns_[i].config, column_writers_[i], rlvl,
                                 columns_[i].config.dlevel_max,
                                 datum(columns_[i].config.logical_type, v)),
                     rlvl, columns_[i].config.dlevel_max, v)
          \/ \E dlvl \in 0 .. (columns_[i].config.dlevel_max - 1) :
               Write(i, writeNull(column_writers_[i], rlvl, dlvl), rlvl, dlvl, 0)
  BY <1>2 DEF WriteColumn
<1>3. PICK rlvl \in 0 .. columns_[i].config.rlevel_max :
        \/ \E v \in ValuesOf(columns_[i].config.logical_type) :
             Write(i, addDatum(columns_[i].config, column_writers_[i], rlvl,
                               columns_[i].config.dlevel_max,
                               datum(columns_[i].config.logical_type, v)),
                   rlvl, columns_[i].config.dlevel_max, v)
        \/ \E dlvl \in 0 .. (columns_[i].config.dlevel_max - 1) :
             Write(i, writeNull(column_writers_[i], rlvl, dlvl), rlvl, dlvl, 0)
  BY <1>0
<1>4. PICK c, w, g : c = columns_[i].config /\ w = column_writers_[i]
                     /\ g = wrote[i]
  OBVIOUS
<1>5. IsColumn(c) /\ ColumnOpen(c, w, g)
  <2>1. columns_[i] \in Column
    BY DEF IInv, ShapeInv
  <2> QED
    BY <1>1, <1>4, <2>1, ConfigIsColumn DEF IInv, ContentInv, Content
<1>6. ASSUME NEW v \in ValuesOf(c.logical_type),
             Write(i, addDatum(c, w, rlvl, c.dlevel_max, datum(c.logical_type, v)),
                   rlvl, c.dlevel_max, v)
      PROVE  IInv'
  <2>1. datum(c.logical_type, v) \in Nat /\ v \in BOOLEAN \cup Int
    BY DatumIsNat
  <2>2. PICK u \in Nat : u = datum(c.logical_type, v)
    BY <2>1
  <2>3. rlvl \in 0 .. c.rlevel_max
    BY <1>4
  <2>4. ColumnOpen(c, addDatum(c, w, rlvl, c.dlevel_max, u),
                   Append(g, [rlvl |-> rlvl, dlvl |-> c.dlevel_max, val |-> v]))
    BY <1>5, <2>1, <2>2, <2>3, ColumnAddDatum
  <2>5. PICK y, dlvl : y = addDatum(c, w, rlvl, c.dlevel_max, u)
                       /\ dlvl = c.dlevel_max
    OBVIOUS
  <2>6. /\ Write(i, y, rlvl, dlvl, v)
        /\ ColumnOpen(columns_[i].config, y,
                      Append(wrote[i], [rlvl |-> rlvl, dlvl |-> dlvl, val |-> v]))
    BY <1>4, <1>6, <2>2, <2>4, <2>5
  <2> QED
    BY <1>1, <2>6, FillOne
<1>7. ASSUME NEW dlvl \in 0 .. (c.dlevel_max - 1),
             Write(i, writeNull(w, rlvl, dlvl), rlvl, dlvl, 0)
      PROVE  IInv'
  <2>1. rlvl \in 0 .. c.rlevel_max
    BY <1>4
  <2>2. ColumnOpen(c, writeNull(w, rlvl, dlvl),
                   Append(g, [rlvl |-> rlvl, dlvl |-> dlvl, val |-> 0]))
    BY <1>5, <2>1, ColumnWriteNull
  <2>3. PICK y : y = writeNull(w, rlvl, dlvl)
    OBVIOUS
  <2>4. /\ Write(i, y, rlvl, dlvl, 0)
        /\ ColumnOpen(columns_[i].config, y,
                      Append(wrote[i], [rlvl |-> rlvl, dlvl |-> dlvl, val |-> 0]))
    BY <1>4, <1>7, <2>2, <2>3
  <2> QED
    BY <1>1, <2>4, FillOne
<1> QED
  BY <1>3, <1>4, <1>6, <1>7

\* addRow and addRows count rows and do nothing else.
LEMMA AddRowsInv == IInv /\ AddRows => IInv'
<1> SUFFICES ASSUME IInv, AddRows PROVE IInv'
  OBVIOUS
<1>1. /\ pc = "idle" /\ commits = 0
      /\ UNCHANGED <<pc, columns_, column_writers_, next, commits, committed, hdr,
                     file, rd, wrote>>
  BY DEF AddRows, Filling
<1>2. num_rows_' \in 0 .. MaxRows
  BY TableAssumption DEF AddRows, IInv, ShapeInv
<1>3. ShapeInv'
  BY <1>1, <1>2 DEF IInv, ShapeInv
<1>4. ContentInv'
  BY <1>1 DEF IInv, ContentInv
<1> QED
  BY <1>1, <1>3, <1>4, FillFrame DEF IInv

----------------------------------------------------------------------------
(* commitV1. *)

\* The columns that commitV1 flushes and the layout it computes.
Flushing(ws) ==
  /\ ws = [i \in DOMAIN columns_ |->
             commitColumn(columns_[i].config, column_writers_[i])]
  /\ column_writers_' = ws
  /\ columns_' = [i \in DOMAIN columns_ |->
                    [columns_[i] EXCEPT
                       !.body_offset = bodyOffset(columns_, ws, i),
                       !.body_size = bodySize(columns_[i].config, ws[i])]]

\* What commitV1 computes for one column.
LEMMA FlushedIs ==
  ASSUME IInv, NEW ws, Flushing(ws)
  PROVE  \A i \in 1 .. Len(columns_) :
           /\ ws[i] = commitColumn(columns_[i].config, column_writers_[i])
           /\ columns_'[i].config = columns_[i].config
           /\ columns_'[i].body_offset = bodyOffset(columns_, ws, i)
           /\ columns_'[i].body_size = bodySize(columns_[i].config, ws[i])
           /\ columns_'[i] = [config |-> columns_[i].config,
                              body_offset |-> bodyOffset(columns_, ws, i),
                              body_size |-> bodySize(columns_[i].config, ws[i])]
<1>1. DOMAIN columns_ = 1 .. Len(columns_)
  BY DEF IInv, ShapeInv
<1> SUFFICES ASSUME NEW i \in 1 .. Len(columns_)
             PROVE  /\ ws[i] = commitColumn(columns_[i].config, column_writers_[i])
                    /\ columns_'[i].config = columns_[i].config
                    /\ columns_'[i].body_offset = bodyOffset(columns_, ws, i)
                    /\ columns_'[i].body_size = bodySize(columns_[i].config, ws[i])
                    /\ columns_'[i]
                         = [config |-> columns_[i].config,
                            body_offset |-> bodyOffset(columns_, ws, i),
                            body_size |-> bodySize(columns_[i].config, ws[i])]
  OBVIOUS
<1>2. PICK col \in Column : col = columns_[i]
  BY DEF IInv, ShapeInv
<1>3. PICK x, y : x = bodyOffset(columns_, ws, i)
                  /\ y = bodySize(columns_[i].config, ws[i])
  OBVIOUS
<1>4. columns_'[i] = [col EXCEPT !.body_offset = x, !.body_size = y]
  BY <1>1, <1>2, <1>3 DEF Flushing
<1>5. PICK z : z = columns_'[i]
  OBVIOUS
<1>6. z = [config |-> col.config, body_offset |-> x, body_size |-> y]
  BY <1>2, <1>4, <1>5 DEF Column
<1>7. ws[i] = commitColumn(columns_[i].config, column_writers_[i])
  BY <1>1 DEF Flushing
<1>8. z.config = col.config /\ z.body_offset = x /\ z.body_size = y
  BY <1>6
<1> QED
  BY <1>2, <1>3, <1>5, <1>6, <1>7, <1>8

\* A commit that is called again flushes nothing and computes the same layout.
LEMMA FlushedAgain ==
  ASSUME IInv, commits > 0, NEW ws, Flushing(ws)
  PROVE  columns_' = columns_ /\ column_writers_' = column_writers_
<1>1. PICK n \in Nat : /\ n = Len(columns_) /\ Len(column_writers_) = n
                       /\ DOMAIN columns_ = 1 .. n /\ DOMAIN column_writers_ = 1 .. n
  BY LenProperties DEF IInv, ShapeInv
<1>2. \A i \in 1 .. n : commitColumn(columns_[i].config, column_writers_[i])
                          = column_writers_[i]
  BY <1>1, ColumnCommitAgain DEF IInv, ContentInv, Content
<1>3. ws = column_writers_
  <2>1. column_writers_ = [i \in 1 .. n |-> column_writers_[i]]
    BY <1>1 DEF IInv, ShapeInv
  <2> QED
    BY <1>1, <1>2, <2>1 DEF Flushing
<1>4. Len(ws) = n
  BY <1>1, <1>3
<1>5. PICK a : a = [i \in 1 .. n |-> columns_[i].body_offset]
  OBVIOUS
<1>6. ASSUME NEW i \in 1 .. n
      PROVE  a[i] = IF i = 1 THEN kHeaderSize + n * kColumnHeaderSize
                    ELSE a[i - 1] + bodySize(columns_[i - 1].config, ws[i - 1])
  <2>1. i # 1 => i - 1 \in 1 .. n
    OBVIOUS
  <2>2. /\ Off(i) = IF i = 1 THEN kHeaderSize + n * kColumnHeaderSize
                    ELSE Off(i - 1) + Size(i - 1)
        /\ i # 1 => Size(i - 1)
                      = bodySize(columns_[i - 1].config, column_writers_[i - 1])
    BY <1>1, <2>1 DEF IInv, LayoutInv
  <2>3. a[i] = Off(i) /\ (i # 1 => a[i - 1] = Off(i - 1))
    BY <1>5, <2>1 DEF Off
  <2> QED
    BY <1>3, <2>2, <2>3
<1>7. \A i \in 1 .. n : a[i] = bodyOffset(columns_, ws, i)
  <2>1. \A i \in 1 .. Len(ws) :
          a[i] = IF i = 1 THEN kHeaderSize + Len(ws) * kColumnHeaderSize
                 ELSE a[i - 1] + bodySize(columns_[i - 1].config, ws[i - 1])
    BY <1>4, <1>6
  <2>2. \A i \in 1 .. Len(ws) : a[i] = bodyOffset(columns_, ws, i)
    BY <1>4, <2>1, OffsetsAgree, ZenonT(60)
  <2> QED
    BY <1>4, <2>2
<1>8. ASSUME NEW i \in 1 .. n PROVE columns_'[i] = columns_[i]
  <2>1. PICK col \in Column : col = columns_[i]
    BY <1>1 DEF IInv, ShapeInv
  <2>2. /\ col.body_offset = bodyOffset(columns_, ws, i)
        /\ col.body_size = bodySize(columns_[i].config, ws[i])
    BY <1>1, <1>3, <1>5, <1>7, <2>1 DEF IInv, LayoutInv, Size
  <2>3. columns_'[i] = [config |-> col.config, body_offset |-> col.body_offset,
                        body_size |-> col.body_size]
    BY <1>1, <2>1, <2>2, FlushedIs
  <2>4. col = [config |-> col.config, body_offset |-> col.body_offset,
               body_size |-> col.body_size]
    BY DEF Column
  <2> QED
    BY <2>1, <2>3, <2>4
<1>9. columns_' = columns_
  <2>1. columns_ = [i \in 1 .. n |-> columns_[i]]
    BY <1>1 DEF IInv, ShapeInv
  <2>2. columns_' = [i \in 1 .. n |-> columns_'[i]]
    BY <1>1 DEF Flushing
  <2> QED
    BY <1>8, <2>1, <2>2
<1> QED
  BY <1>3, <1>9 DEF Flushing

\* The first commit flushes all columns and lays out the file.
LEMMA FlushedFirst ==
  ASSUME IInv, commits = 0, NEW ws, Flushing(ws)
  PROVE  /\ columns_' \in Seq(Column) /\ Len(columns_') = Len(columns_)
         /\ column_writers_' \in Seq(Writer)
         /\ Len(column_writers_') = Len(columns_)
         /\ \A i \in 1 .. Len(columns_) :
              /\ ColumnDone(columns_'[i].config, column_writers_'[i], wrote[i])
              /\ columns_'[i].body_offset \in Nat
              /\ columns_'[i].body_size
                   = bodySize(columns_'[i].config, column_writers_'[i])
              /\ columns_'[i].body_offset
                   = IF i = 1 THEN kHeaderSize + Len(columns_) * kColumnHeaderSize
                     ELSE columns_'[i - 1].body_offset + columns_'[i - 1].body_size
<1>1. PICK n \in Nat : /\ n = Len(columns_) /\ DOMAIN columns_ = 1 .. n
  BY LenProperties DEF IInv, ShapeInv
<1>2. ASSUME NEW i \in 1 .. n
      PROVE  /\ ColumnDone(columns_[i].config, ws[i], wrote[i])
             /\ IsColumn(columns_[i].config) /\ columns_[i].config \in ColumnConfig
  <2>1. columns_[i] \in Column
    BY <1>1 DEF IInv, ShapeInv
  <2>2. IsColumn(columns_[i].config)
    BY <2>1, ConfigIsColumn
  <2>3. ColumnOpen(columns_[i].config, column_writers_[i], wrote[i])
    BY <1>1 DEF IInv, ContentInv, Content
  <2>4. ws[i] = commitColumn(columns_[i].config, column_writers_[i])
    BY <1>1, FlushedIs
  <2> QED
    BY <2>1, <2>2, <2>3, <2>4, ColumnCommit DEF Column
<1>3. \A i \in 1 .. n : /\ bodySize(columns_[i].config, ws[i]) \in Nat
                        /\ ws[i] \in Writer
  <2> SUFFICES ASSUME NEW i \in 1 .. n
               PROVE  bodySize(columns_[i].config, ws[i]) \in Nat /\ ws[i] \in Writer
    OBVIOUS
  <2>1. /\ Len(writeBody(columns_[i].config, ws[i])) \in Nat
        /\ slack(columns_[i].config) \in {0, 1}
        /\ bodySize(columns_[i].config, ws[i])
             = Len(writeBody(columns_[i].config, ws[i])) + slack(columns_[i].config)
    BY <1>2, BodyLength
  <2> QED
    BY <1>2, <2>1, ContentTyped
<1>4. ws \in Seq(Writer) /\ Len(ws) = n
  <2>1. ws \in [1 .. n -> Writer]
    BY <1>1, <1>3 DEF Flushing
  <2> QED
    BY <2>1, SeqOf
<1>5. \A i \in 1 .. n : bodyOffset(columns_, ws, i) \in Nat
  BY <1>3, <1>4, OffsetsAreNumbers
<1>6. ASSUME NEW i \in 1 .. n
      PROVE  /\ columns_'[i] \in Column
             /\ columns_'[i].config = columns_[i].config
             /\ columns_'[i].body_offset = bodyOffset(columns_, ws, i)
             /\ columns_'[i].body_size = bodySize(columns_[i].config, ws[i])
  <2>1. /\ columns_'[i].config = columns_[i].config
        /\ columns_'[i].body_offset = bodyOffset(columns_, ws, i)
        /\ columns_'[i].body_size = bodySize(columns_[i].config, ws[i])
        /\ columns_'[i] = [config |-> columns_[i].config,
                           body_offset |-> bodyOffset(columns_, ws, i),
                           body_size |-> bodySize(columns_[i].config, ws[i])]
    BY <1>1, FlushedIs
  <2> QED
    BY <1>2, <1>3, <1>5, <2>1 DEF Column
<1>7. columns_' \in Seq(Column) /\ Len(columns_') = n
  <2>1. columns_' \in [1 .. n -> Column]
    BY <1>1, <1>6 DEF Flushing
  <2> QED
    BY <2>1, SeqOf
<1>8. column_writers_' = ws
  BY DEF Flushing
<1>9. ASSUME NEW i \in 1 .. n
      PROVE  columns_'[i].body_offset
               = IF i = 1 THEN kHeaderSize + n * kColumnHeaderSize
                 ELSE columns_'[i - 1].body_offset + columns_'[i - 1].body_size
  <2>1. i # 1 => i - 1 \in 1 .. n
    OBVIOUS
  <2>2. bodyOffset(columns_, ws, i)
           = IF i = 1 THEN kHeaderSize + n * kColumnHeaderSize
             ELSE bodyOffset(columns_, ws, i - 1)
                    + bodySize(columns_[i - 1].config, ws[i - 1])
    BY <1>4, BodyOffset
  <2> QED
    BY <1>6, <2>1, <2>2
<1> QED
  BY <1>1, <1>2, <1>4, <1>5, <1>6, <1>7, <1>8, <1>9

\* Behind the first commit: the bodies are disjoint parts of the file.
LEMMA Regions ==
  ASSUME IInv, commits > 0, NEW n \in Nat, n = Len(columns_)
  PROVE  /\ \A i \in 1 .. n :
              /\ columns_[i] \in Column /\ IsColumn(columns_[i].config)
              /\ ColumnDone(columns_[i].config, column_writers_[i], wrote[i])
              /\ Off(i) \in Nat /\ Size(i) \in Nat /\ Body(i) \in Seq(Word)
              /\ Len(Body(i)) \in Nat /\ Len(Body(i)) >= Preamble
              /\ Size(i) = Len(Body(i)) + slack(columns_[i].config)
              /\ Len(Body(i)) <= Size(i) /\ Size(i) <= Len(Body(i)) + 1
         /\ \A i, j \in 1 .. n : i < j => Off(i) + Size(i) <= Off(j)
<1>1. DOMAIN columns_ = 1 .. n
  BY DEF IInv, ShapeInv
<1>2. ASSUME NEW i \in 1 .. n
      PROVE  /\ columns_[i] \in Column /\ IsColumn(columns_[i].config)
             /\ ColumnDone(columns_[i].config, column_writers_[i], wrote[i])
             /\ Off(i) \in Nat /\ Size(i) \in Nat /\ Body(i) \in Seq(Word)
             /\ Len(Body(i)) \in Nat /\ Len(Body(i)) >= Preamble
             /\ Size(i) = Len(Body(i)) + slack(columns_[i].config)
             /\ Len(Body(i)) <= Size(i) /\ Size(i) <= Len(Body(i)) + 1
  <2>1. columns_[i] \in Column
    BY DEF IInv, ShapeInv
  <2>2. IsColumn(columns_[i].config)
    BY <2>1, ConfigIsColumn
  <2>3. ColumnDone(columns_[i].config, column_writers_[i], wrote[i])
    BY DEF IInv, ContentInv, Content
  <2>4. Off(i) \in Nat /\ Size(i) = bodySize(columns_[i].config, column_writers_[i])
    BY <1>1 DEF IInv, LayoutInv
  <2>5. PICK b, s : b = Body(i) /\ s = slack(columns_[i].config)
    OBVIOUS
  <2>6. /\ b \in Seq(Word) /\ Len(b) \in Nat /\ Len(b) >= Preamble
        /\ s \in {0, 1} /\ Size(i) = Len(b) + s
    BY <2>2, <2>3, <2>4, <2>5, BodyLength DEF Body
  <2>7. Size(i) \in Nat /\ Len(b) <= Size(i) /\ Size(i) <= Len(b) + 1
    BY <2>6
  <2> QED
    BY <2>1, <2>2, <2>3, <2>4, <2>5, <2>6, <2>7
<1>3. PICK o, s : /\ o = [i \in 1 .. n |-> Off(i)]
                  /\ s = [i \in 1 .. n |-> Size(i)]
  OBVIOUS
<1>4. \A i \in 1 .. n : o[i] \in Nat /\ s[i] \in Nat
  BY <1>2, <1>3
<1>5. ASSUME NEW i \in 1 .. n, i # 1 PROVE o[i] = o[i - 1] + s[i - 1]
  <2>1. i - 1 \in 1 .. n
    BY <1>5
  <2>2. Off(i) = Off(i - 1) + Size(i - 1)
    BY <1>1, <1>5 DEF IInv, LayoutInv
  <2> QED
    BY <1>3, <2>1, <2>2
<1>6. \A i, j \in 1 .. n : i < j => o[i] + s[i] <= o[j]
  BY <1>4, <1>5, InOrder
<1>7. \A i, j \in 1 .. n : i < j => Off(i) + Size(i) <= Off(j)
  BY <1>3, <1>6
<1> QED
  BY <1>2, <1>7

\* Writing a part of a body puts nothing but the right words in place.
LEMMA FileStep ==
  ASSUME IInv, commits > 0, NEW n \in Nat, n = Len(columns_), NEW j \in 1 .. n,
         NEW m \in Nat, m <= Size(j), file' = BodyWritten(j, m)
  PROVE  /\ file' \in [Addr -> Word \cup {Garbage}]
         /\ \A a \in Addr : file'[a] = IF a \in Off(j) .. (Off(j) + m - 1)
                                       THEN BodyWord(j, a) ELSE file[a]
         /\ \A i \in 1 .. n : \A a \in Off(i) .. (Off(i) + Size(i) - 1) :
              a \in Addr => file'[a] \in {file[a], BodyWord(i, a)}
<1>1. \A a \in Addr : file'[a] = IF a \in Off(j) .. (Off(j) + m - 1)
                                 THEN BodyWord(j, a) ELSE file[a]
  BY DEF BodyWritten, BodyWord, Off, Body
<1>2. /\ Off(j) \in Nat /\ Size(j) \in Nat /\ Body(j) \in Seq(Word)
      /\ Len(Body(j)) \in Nat
  BY Regions
<1>3. ASSUME NEW a \in Addr, a \in Off(j) .. (Off(j) + m - 1)
      PROVE  BodyWord(j, a) \in Word \cup {Garbage}
  <2>1. CASE a - Off(j) < Len(Body(j))
    <3>1. a - Off(j) + 1 \in 1 .. Len(Body(j))
      BY <1>2, <1>3, <2>1
    <3>2. Body(j)[a - Off(j) + 1] \in Word
      BY <1>2, <3>1, ElementOfSeq
    <3> QED
      BY <2>1, <3>2 DEF BodyWord
  <2>2. CASE ~ (a - Off(j) < Len(Body(j)))
    BY <2>2 DEF BodyWord
  <2> QED
    BY <2>1, <2>2
<1>4. file' \in [Addr -> Word \cup {Garbage}]
  <2>1. \A a \in Addr : file[a] \in Word \cup {Garbage}
    BY DEF IInv, ShapeInv
  <2>2. \A a \in Addr : file'[a] \in Word \cup {Garbage}
    BY <1>1, <1>3, <2>1
  <2>3. file' = [a \in Addr |-> file'[a]]
    BY DEF BodyWritten
  <2> QED
    BY <2>2, <2>3
<1>5. ASSUME NEW i \in 1 .. n, NEW a \in Off(i) .. (Off(i) + Size(i) - 1), a \in Addr
      PROVE  file'[a] \in {file[a], BodyWord(i, a)}
  <2>1. CASE a \notin Off(j) .. (Off(j) + m - 1)
    BY <1>1, <1>5, <2>1
  <2>2. CASE a \in Off(j) .. (Off(j) + m - 1)
    <3>1. i = j
      <4>1. Off(i) \in Nat /\ Size(i) \in Nat
        BY Regions
      <4>2. /\ i < j => Off(i) + Size(i) <= Off(j)
            /\ j < i => Off(j) + Size(j) <= Off(i)
        BY Regions
      <4>3. ~ (i < j) /\ ~ (j < i)
        BY <1>2, <2>2, <4>1, <4>2, SMTT(60)
      <4> QED
        BY <4>3
    <3> QED
      BY <1>1, <1>5, <2>2, <3>1
  <2> QED
    BY <2>1, <2>2
<1> QED
  BY <1>1, <1>4, <1>5

\* Words are only ever replaced by the right ones.
FileGrows(n) ==
  \A i \in 1 .. n : \A a \in Off(i) .. (Off(i) + Size(i) - 1) :
    a \in Addr => file'[a] \in {file[a], BodyWord(i, a)}

\* What such a step leaves alone.
LEMMA GrowFrame ==
  ASSUME IInv, commits > 0, commits' > 0, NEW n \in Nat, n = Len(columns_),
         UNCHANGED <<columns_, column_writers_, wrote, rd>>, FileGrows(n)
  PROVE  /\ ContentInv' /\ LayoutInv' /\ ReadersInv'
         /\ \A i \in 1 .. n : BodyIn(i) => BodyIn(i)'
         /\ \A i \in 1 .. n : \A a \in Off(i) .. (Off(i) + Size(i) - 1) :
              a \in Addr => file'[a] \in {Garbage, BodyWord(i, a)}
<1>1. ContentInv'
  <2>1. ~ (commits = 0) /\ ~ (commits' = 0)
    BY DEF IInv, ShapeInv
  <2> QED
    BY <2>1 DEF IInv, ContentInv, Content
<1>2. LayoutInv'
  BY DEF IInv, LayoutInv, Off, Size
<1>3. ASSUME NEW i \in 1 .. n, BodyIn(i) PROVE BodyIn(i)'
  BY <1>3 DEF FileGrows, BodyIn, BodyWord, Off, Size, Body
<1>4. ASSUME NEW i \in 1 .. n, NEW a \in Off(i) .. (Off(i) + Size(i) - 1), a \in Addr
      PROVE  file'[a] \in {Garbage, BodyWord(i, a)}
  <2>1. i \in DOMAIN columns_
    BY DEF IInv, ShapeInv
  <2>2. file[a] \in {Garbage, BodyWord(i, a)}
    BY <1>4, <2>1 DEF IInv, FileInv
  <2>3. file'[a] \in {file[a], BodyWord(i, a)}
    BY <1>4 DEF FileGrows
  <2> QED
    BY <2>2, <2>3
<1>5. ASSUME NEW i \in 1 .. n, Complete(columns_[i], column_writers_[i], file)
      PROVE  Complete(columns_[i], column_writers_[i], file')
  <2>1. /\ Off(i) \in Nat /\ Size(i) \in Nat /\ Len(Body(i)) \in Nat
        /\ Len(Body(i)) <= Size(i)
    BY Regions
  <2>2. SUFFICES ASSUME NEW q \in 1 .. Len(Body(i))
                 PROVE  /\ Off(i) + q - 1 \in Addr
                        /\ file'[Off(i) + q - 1] = Body(i)[q]
    BY DEF Complete, Off, Body
  <2>3. PICK a : a = Off(i) + q - 1
    OBVIOUS
  <2>4. a \in Addr /\ file[a] = Body(i)[q]
    BY <1>5, <2>3 DEF Complete, Off, Body
  <2>5. /\ a \in Off(i) .. (Off(i) + Size(i) - 1) /\ a - Off(i) + 1 = q
        /\ a - Off(i) < Len(Body(i))
    BY <2>1, <2>3
  <2>6. BodyWord(i, a) = Body(i)[q]
    BY <2>5 DEF BodyWord
  <2>7. file'[a] \in {file[a], BodyWord(i, a)}
    BY <2>4, <2>5 DEF FileGrows
  <2> QED
    BY <2>3, <2>4, <2>6, <2>7
<1>6. ReadersInv'
  <2>1. SUFFICES ASSUME NEW r \in Readers, Open(r)
                 PROVE  AllReading(columns_, column_writers_, wrote, file', rd[r])
    BY DEF IInv, ReadersInv, Open
  <2>2. AllReading(columns_, column_writers_, wrote, file, rd[r])
    BY <2>1 DEF IInv, ReadersInv
  <2>3. ASSUME NEW i \in 1 .. n
        PROVE  Reading(columns_[i], column_writers_[i], wrote[i], file', rd[r][i])
    <3>1. Reading(columns_[i], column_writers_[i], wrote[i], file, rd[r][i])
      BY <2>2 DEF AllReading
    <3> QED
      BY <1>5, <3>1 DEF Reading
  <2> QED
    BY <2>2, <2>3 DEF AllReading
<1> QED
  BY <1>1, <1>2, <1>3, <1>4, <1>6

\* A step that writes nothing after the first commit began.
LEMMA StillFrame ==
  ASSUME IInv, commits > 0, commits' > 0,
         UNCHANGED <<columns_, column_writers_, wrote, rd, file>>
  PROVE  /\ ContentInv' /\ LayoutInv' /\ ReadersInv'
         /\ \A i \in DOMAIN columns_ : BodyIn(i) => BodyIn(i)'
         /\ \A i \in DOMAIN columns_ : \A a \in Off(i) .. (Off(i) + Size(i) - 1) :
              a \in Addr => file'[a] \in {Garbage, BodyWord(i, a)}'
<1>1. PICK n \in Nat : n = Len(columns_) /\ DOMAIN columns_ = 1 .. n
  BY LenProperties DEF IInv, ShapeInv
<1>2. FileGrows(n)
  BY DEF FileGrows
<1>3. /\ ContentInv' /\ LayoutInv' /\ ReadersInv'
      /\ \A i \in 1 .. n : BodyIn(i) => BodyIn(i)'
      /\ \A i \in 1 .. n : \A a \in Off(i) .. (Off(i) + Size(i) - 1) :
           a \in Addr => file'[a] \in {Garbage, BodyWord(i, a)}
  BY <1>1, <1>2, GrowFrame
<1>4. \A i, a : BodyWord(i, a)' = BodyWord(i, a)
  BY DEF BodyWord, Off, Body
<1> QED
  BY <1>1, <1>3, <1>4

\* commitV1 up to the first write.
LEMMA CommitBeginInv == IInv /\ CommitBegin => IInv'
<1> SUFFICES ASSUME IInv, CommitBegin PROVE IInv'
  OBVIOUS
<1>1. PICK ws : Flushing(ws)
  BY DEF CommitBegin, Flushing
<1>2. /\ pc = "idle" /\ pc' = "header" /\ commits' = commits + 1
      /\ commits < MaxCommits
      /\ UNCHANGED <<num_rows_, next, committed, hdr, file, rd, wrote>>
  BY DEF CommitBegin
<1>3. commits \in Nat /\ commits' > 0 /\ commits' \in 0 .. MaxCommits
  BY <1>2, TableAssumption DEF IInv, ShapeInv
<1>4. CASE commits > 0
  <2>1. columns_' = columns_ /\ column_writers_' = column_writers_
    BY <1>1, <1>4, FlushedAgain
  <2>2. ShapeInv'
    BY <1>2, <1>3, <2>1 DEF IInv, ShapeInv
  <2>3. ContentInv' /\ LayoutInv' /\ ReadersInv'
    BY <1>2, <1>3, <1>4, <2>1, StillFrame
  <2>4. /\ \A i \in DOMAIN columns_ : BodyIn(i) => BodyIn(i)'
        /\ \A i \in DOMAIN columns_ : \A a \in Off(i) .. (Off(i) + Size(i) - 1) :
             a \in Addr => file'[a] \in {Garbage, BodyWord(i, a)'}
    BY <1>2, <1>3, <1>4, <2>1, StillFrame
  <2>5. \A i : Off(i)' = Off(i) /\ Size(i)' = Size(i)
    BY <2>1 DEF Off, Size
  <2>6. FileInv'
    BY <1>2, <1>3, <2>1, <2>4, <2>5 DEF IInv, FileInv
  <2>7. HeaderInv'
    BY <1>2, <1>3, <2>1 DEF IInv, HeaderInv
  <2> QED
    BY <2>2, <2>3, <2>6, <2>7 DEF IInv
<1>5. CASE commits = 0
  <2>1. PICK n \in Nat : n = Len(columns_) /\ n = Len(wrote)
    BY LenProperties DEF IInv, ShapeInv
  <2>2. /\ columns_' \in Seq(Column) /\ Len(columns_') = n
        /\ column_writers_' \in Seq(Writer) /\ Len(column_writers_') = n
        /\ \A i \in 1 .. n :
             /\ ColumnDone(columns_'[i].config, column_writers_'[i], wrote[i])
             /\ columns_'[i].body_offset \in Nat
             /\ columns_'[i].body_size
                  = bodySize(columns_'[i].config, column_writers_'[i])
             /\ columns_'[i].body_offset
                  = IF i = 1 THEN kHeaderSize + n * kColumnHeaderSize
                    ELSE columns_'[i - 1].body_offset + columns_'[i - 1].body_size
    BY <1>1, <1>5, <2>1, FlushedFirst
  <2>3. DOMAIN columns_' = 1 .. n
    BY <2>2
  <2>4. ShapeInv'
    BY <1>2, <1>3, <1>5, <2>1, <2>2 DEF IInv, ShapeInv
  <2>5. ContentInv'
    <3>1. ~ (commits' = 0)
      BY <1>3
    <3> QED
      BY <1>2, <2>2, <3>1 DEF ContentInv, Content
  <2>6. LayoutInv'
    BY <2>2, <2>3 DEF LayoutInv, Off, Size
  <2>7. committed = FALSE /\ hdr = NoHeader
    BY <1>5, <1>2 DEF IInv, HeaderInv, ShapeInv
  <2>8. FileInv'
    BY <1>2, <1>3, <1>5, <2>7 DEF IInv, FileInv
  <2>9. HeaderInv'
    BY <1>2, <1>3, <2>7 DEF HeaderInv
  <2>10. ReadersInv'
    BY <1>2, <1>5 DEF IInv, ReadersInv, Open
  <2> QED
    BY <2>4, <2>5, <2>6, <2>8, <2>9, <2>10 DEF IInv
<1> QED
  BY <1>3, <1>4, <1>5

\* The frame of a step that writes no body and begins no commit.
LEMMA StillFile ==
  ASSUME IInv, commits > 0,
         UNCHANGED <<columns_, column_writers_, num_rows_, commits, wrote, rd, file>>,
         committed' => \A i \in DOMAIN columns_ : BodyIn(i),
         pc' = "body" => /\ next' \in DOMAIN columns_
                         /\ \A i \in 1 .. (next' - 1) : BodyIn(i)
  PROVE  ContentInv' /\ LayoutInv' /\ ReadersInv' /\ FileInv'
<1>1. commits' > 0
  OBVIOUS
<1>2. /\ ContentInv' /\ LayoutInv' /\ ReadersInv'
      /\ \A i \in DOMAIN columns_ : \A a \in Off(i) .. (Off(i) + Size(i) - 1) :
           a \in Addr => file'[a] \in {Garbage, BodyWord(i, a)'}
  BY <1>1, StillFrame
<1>3. \A i : Off(i)' = Off(i) /\ Size(i)' = Size(i)
  BY DEF Off, Size
<1>4. \A i : BodyIn(i) => BodyIn(i)'
  BY DEF BodyIn, BodyWord, Off, Size, Body
<1>5. ~ (commits' = 0)
  BY DEF IInv, ShapeInv
<1>6. FileInv'
  BY <1>2, <1>3, <1>4, <1>5 DEF FileInv
<1> QED
  BY <1>2, <1>6

\* writeHeader: the header of an empty table is the whole of its file.
LEMMA WriteHeaderInv == IInv /\ WriteHeader => IInv'
<1> SUFFICES ASSUME IInv, WriteHeader PROVE IInv'
  OBVIOUS
<1>1. /\ pc = "header" /\ next' = 1
      /\ hdr' = [num_rows |-> num_rows_, columns |-> columns_]
      /\ UNCHANGED <<columns_, column_writers_, num_rows_, commits, file, rd, wrote>>
  BY DEF WriteHeader
<1>2. commits > 0
  BY <1>1 DEF IInv, HeaderInv
<1>3. PICK n \in Nat : n = Len(columns_) /\ DOMAIN columns_ = 1 .. n
  BY LenProperties DEF IInv, ShapeInv
<1>4. CASE columns_ = <<>>
  <2>1. pc' = "idle" /\ committed' = TRUE
    BY <1>4 DEF WriteHeader
  <2>2. DOMAIN columns_ = {}
    BY <1>4
  <2>3. ContentInv' /\ LayoutInv' /\ ReadersInv' /\ FileInv'
    BY <1>1, <1>2, <2>1, <2>2, StillFile
  <2>4. ShapeInv'
    BY <1>1, <1>2, <1>3, <2>1 DEF IInv, ShapeInv
  <2>5. HeaderInv'
    BY <1>1, <1>2, <2>1 DEF HeaderInv
  <2> QED
    BY <2>3, <2>4, <2>5 DEF IInv
<1>5. CASE columns_ # <<>>
  <2>1. pc' = "body" /\ committed' = committed
    BY <1>5 DEF WriteHeader
  <2>2. 1 \in DOMAIN columns_
    <3>1. n # 0
      BY <1>3, <1>5, EmptySeq DEF IInv, ShapeInv
    <3> QED
      BY <1>3, <3>1
  <2>3. 1 .. (next' - 1) = {}
    BY <1>1
  <2>4. committed' => \A i \in DOMAIN columns_ : BodyIn(i)
    BY <2>1 DEF IInv, FileInv
  <2>5. ContentInv' /\ LayoutInv' /\ ReadersInv' /\ FileInv'
    BY <1>1, <1>2, <2>1, <2>2, <2>3, <2>4, StillFile
  <2>6. ShapeInv'
    BY <1>1, <1>2, <1>3, <2>1 DEF IInv, ShapeInv
  <2>7. HeaderInv'
    BY <1>1, <1>2, <2>1 DEF HeaderInv
  <2> QED
    BY <2>5, <2>6, <2>7 DEF IInv
<1> QED
  BY <1>4, <1>5

\* A header that could not be written.
LEMMA WriteHeaderRaisesInv == IInv /\ WriteHeaderRaises => IInv'
<1> SUFFICES ASSUME IInv, WriteHeaderRaises PROVE IInv'
  OBVIOUS
<1>1. pc = "header" /\ pc' = "idle" /\ UNCHANGED <<writerVars, hdr, file, rd, wrote>>
  BY DEF WriteHeaderRaises
<1>2. commits > 0
  BY <1>1 DEF IInv, HeaderInv
<1>3. ContentInv' /\ LayoutInv' /\ ReadersInv' /\ FileInv'
  <2>1. committed' => \A i \in DOMAIN columns_ : BodyIn(i)
    BY <1>1 DEF IInv, FileInv, writerVars
  <2> QED
    BY <1>1, <1>2, <2>1, StillFile DEF writerVars
<1>4. ShapeInv'
  BY <1>1 DEF IInv, ShapeInv, writerVars
<1>5. HeaderInv'
  BY <1>1 DEF IInv, HeaderInv, writerVars
<1> QED
  BY <1>3, <1>4, <1>5 DEF IInv

\* The writer is gone, before, during or after a commit.
LEMMA WriterEndsInv == IInv /\ WriterEnds => IInv'
<1> SUFFICES ASSUME IInv, WriterEnds PROVE IInv'
  OBVIOUS
<1>1. pc' = "dead" /\ UNCHANGED <<writerVars, hdr, file, rd, wrote>>
  BY DEF WriterEnds
<1>2. ShapeInv'
  BY <1>1 DEF IInv, ShapeInv, writerVars
<1>3. CASE commits = 0
  <2>1. LayoutInv' /\ FileInv' /\ HeaderInv' /\ ReadersInv'
    BY <1>1, <1>3, FillFrame DEF writerVars
  <2>2. ContentInv'
    BY <1>1 DEF IInv, ContentInv, writerVars
  <2> QED
    BY <1>2, <2>1, <2>2 DEF IInv
<1>4. CASE commits > 0
  <2>1. ContentInv' /\ LayoutInv' /\ ReadersInv' /\ FileInv'
    <3>1. committed' => \A i \in DOMAIN columns_ : BodyIn(i)
      BY <1>1 DEF IInv, FileInv, writerVars
    <3> QED
      BY <1>1, <1>4, <3>1, StillFile DEF writerVars
  <2>2. HeaderInv'
    BY <1>1 DEF IInv, HeaderInv, writerVars
  <2> QED
    BY <1>2, <2>1, <2>2 DEF IInv
<1> QED
  BY <1>3, <1>4 DEF IInv, ShapeInv

\* Nothing happens.
LEMMA StutterInv == IInv /\ UNCHANGED vars => IInv'
<1> SUFFICES ASSUME IInv, UNCHANGED vars PROVE IInv'
  OBVIOUS
<1>1. ShapeInv'
  BY DEF IInv, ShapeInv, vars
<1>2. ContentInv' /\ LayoutInv'
  BY DEF IInv, ContentInv, LayoutInv, Off, Size, vars
<1>3. FileInv'
  BY DEF IInv, FileInv, BodyIn, BodyWord, Off, Size, Body, vars
<1>4. HeaderInv' /\ ReadersInv'
  BY DEF IInv, HeaderInv, ReadersInv, Open, vars
<1> QED
  BY <1>1, <1>2, <1>3, <1>4 DEF IInv

\* What a step of commitV1 that writes the first m words of body next keeps.
LEMMA BodyStep ==
  ASSUME IInv, pc = "body", NEW m \in Nat, m <= Size(next),
         file' = BodyWritten(next, m),
         UNCHANGED <<columns_, column_writers_, num_rows_, commits, hdr, rd, wrote>>,
         pc' \in {"idle", "body"}, next' \in 0 .. (Len(columns_) + 1),
         committed' \in BOOLEAN,
         committed' => \A i \in DOMAIN columns_ : BodyIn(i)',
         pc' = "body" => /\ next' \in DOMAIN columns_
                         /\ \A i \in 1 .. (next' - 1) : BodyIn(i)'
  PROVE  IInv'
<1>1. commits > 0 /\ commits' > 0 /\ hdr = [num_rows |-> num_rows_, columns |-> columns_]
  BY DEF IInv, HeaderInv
<1>2. PICK n \in Nat : n = Len(columns_) /\ DOMAIN columns_ = 1 .. n
  BY LenProperties DEF IInv, ShapeInv
<1>3. next \in 1 .. n
  BY <1>2 DEF IInv, FileInv
<1>4. /\ file' \in [Addr -> Word \cup {Garbage}]
      /\ FileGrows(n)
  BY <1>1, <1>2, <1>3, FileStep DEF FileGrows
<1>5. /\ ContentInv' /\ LayoutInv' /\ ReadersInv'
      /\ \A i \in 1 .. n : \A a \in Off(i) .. (Off(i) + Size(i) - 1) :
           a \in Addr => file'[a] \in {Garbage, BodyWord(i, a)}
  BY <1>1, <1>2, <1>4, GrowFrame
<1>6. ShapeInv'
  <2>1. ~ (commits = 0) /\ pc' \notin {"absent"}
    BY <1>1 DEF IInv, ShapeInv
  <2> QED
    BY <1>2, <1>4, <2>1 DEF IInv, ShapeInv
<1>7. \A i : Off(i)' = Off(i) /\ Size(i)' = Size(i)
  BY DEF Off, Size
<1>8. \A i, a : BodyWord(i, a)' = BodyWord(i, a)
  BY DEF BodyWord, Off, Body
<1>9. FileInv'
  <2>1. ~ (commits' = 0)
    BY <1>1 DEF IInv, ShapeInv
  <2> QED
    BY <1>2, <1>5, <1>7, <1>8, <2>1 DEF FileInv
<1>10. HeaderInv'
  BY <1>1 DEF HeaderInv
<1> QED
  BY <1>5, <1>6, <1>9, <1>10 DEF IInv

\* The bodies that were complete before such a step still are.
LEMMA BodiesStay ==
  ASSUME IInv, pc = "body", NEW m \in Nat, m <= Size(next),
         file' = BodyWritten(next, m),
         UNCHANGED <<columns_, column_writers_, commits, rd, wrote>>
  PROVE  \A i \in DOMAIN columns_ : BodyIn(i) => BodyIn(i)'
<1>1. commits > 0 /\ commits' > 0
  BY DEF IInv, HeaderInv
<1>2. PICK n \in Nat : n = Len(columns_) /\ DOMAIN columns_ = 1 .. n
  BY LenProperties DEF IInv, ShapeInv
<1>3. next \in 1 .. n
  BY <1>2 DEF IInv, FileInv
<1>4. FileGrows(n)
  BY <1>1, <1>2, <1>3, FileStep DEF FileGrows
<1> QED
  BY <1>1, <1>2, <1>4, GrowFrame

\* One body more is in the file; with the last one the commit returns.
LEMMA WriteBodyInv == IInv /\ WriteBody => IInv'
<1> SUFFICES ASSUME IInv, WriteBody PROVE IInv'
  OBVIOUS
<1>1. /\ pc = "body" /\ Off(next) + Size(next) <= Capacity
      /\ file' = BodyWritten(next, Size(next)) /\ next' = next + 1
      /\ UNCHANGED <<columns_, column_writers_, num_rows_, commits, hdr, rd, wrote>>
  BY DEF WriteBody, Off, Size
<1>2. PICK n \in Nat : n = Len(columns_) /\ DOMAIN columns_ = 1 .. n
  BY LenProperties DEF IInv, ShapeInv
<1>3. next \in 1 .. n /\ \A i \in 1 .. (next - 1) : BodyIn(i)
  BY <1>1, <1>2 DEF IInv, FileInv
<1>4. commits > 0
  BY <1>1 DEF IInv, HeaderInv
<1>5. PICK j \in 1 .. n : j = next
  BY <1>3
<1>6. PICK m \in Nat : m = Size(j)
  BY <1>2, <1>4, Regions
<1>7. Off(j) \in Nat
  BY <1>2, <1>4, Regions
<1>8. file' = BodyWritten(j, m)
  BY <1>1, <1>5, <1>6
<1>9. BodyIn(j)'
  <2>1. \A a \in Addr : file'[a] = IF a \in Off(j) .. (Off(j) + m - 1)
                                   THEN BodyWord(j, a) ELSE file[a]
    BY <1>2, <1>4, <1>6, <1>8, FileStep
  <2>2. \A a \in Off(j) .. (Off(j) + Size(j) - 1) : a \in Addr
    BY <1>1, <1>5, <1>6, <1>7, TableAssumption DEF Addr
  <2>3. \A a \in Off(j) .. (Off(j) + Size(j) - 1) :
          a \in Addr /\ file'[a] = BodyWord(j, a)
    BY <1>6, <2>1, <2>2
  <2> QED
    BY <1>1, <2>3 DEF BodyIn, BodyWord, Off, Size, Body
<1>10. m <= Size(next) /\ file' = BodyWritten(next, m)
  BY <1>5, <1>6, <1>8
<1>11. \A i \in 1 .. n : BodyIn(i) => BodyIn(i)'
  BY <1>1, <1>2, <1>10, BodiesStay
<1>12. \A i \in 1 .. j : BodyIn(i)'
  <2> SUFFICES ASSUME NEW i \in 1 .. j PROVE BodyIn(i)'
    OBVIOUS
  <2>1. CASE i = j
    BY <1>9, <2>1
  <2>2. CASE i # j
    <3>1. i \in 1 .. (next - 1) /\ i \in 1 .. n
      BY <1>5, <2>2
    <3> QED
      BY <1>3, <1>11, <3>1
  <2> QED
    BY <2>1, <2>2
<1>13. next' \in 0 .. (Len(columns_) + 1) /\ next' - 1 = j
  BY <1>1, <1>2, <1>5
<1>14. CASE j = n
  <2>1. pc' = "idle" /\ committed' = TRUE
    BY <1>2, <1>5, <1>14 DEF WriteBody
  <2>2. \A i \in DOMAIN columns_ : BodyIn(i)'
    BY <1>2, <1>12, <1>14
  <2> QED
    BY <1>1, <1>10, <1>13, <2>1, <2>2, BodyStep
<1>15. CASE j # n
  <2>1. pc' = "body" /\ committed' = committed
    BY <1>1, <1>2, <1>5, <1>15 DEF WriteBody
  <2>2. next' \in DOMAIN columns_
    BY <1>1, <1>2, <1>5, <1>15
  <2>3. committed' => \A i \in DOMAIN columns_ : BodyIn(i)'
    BY <1>2, <1>11, <2>1 DEF IInv, FileInv
  <2>4. \A i \in 1 .. (next' - 1) : BodyIn(i)'
    BY <1>12, <1>13
  <2>5. committed' \in BOOLEAN
    BY <2>1 DEF IInv, ShapeInv
  <2>6. pc' \in {"idle", "body"}
    BY <2>1
  <2> QED
    BY <1>1, <1>10, <1>13, <2>2, <2>3, <2>4, <2>5, <2>6, BodyStep
<1> QED
  BY <1>14, <1>15

\* A body of which only a part was written.
LEMMA WriteBodyRaisesInv == IInv /\ WriteBodyRaises => IInv'
<1> SUFFICES ASSUME IInv, WriteBodyRaises PROVE IInv'
  OBVIOUS
<1>1. /\ pc = "body" /\ pc' = "idle"
      /\ UNCHANGED <<columns_, column_writers_, num_rows_, next, commits, committed,
                     hdr, rd, wrote>>
  BY DEF WriteBodyRaises, writerVars
<1>2. PICK n \in Nat : n = Len(columns_) /\ DOMAIN columns_ = 1 .. n
  BY LenProperties DEF IInv, ShapeInv
<1>3. commits > 0 /\ next \in 1 .. n
  BY <1>1, <1>2 DEF IInv, HeaderInv, FileInv
<1>4. Size(next) \in Nat
  BY <1>2, <1>3, Regions
<1>5. PICK m \in 0 .. (Size(next) - 1) : file' = BodyWritten(next, m)
  BY DEF WriteBodyRaises, Size
<1>6. m \in Nat /\ m <= Size(next)
  BY <1>4, <1>5
<1>7. committed' => \A i \in DOMAIN columns_ : BodyIn(i)'
  <2>1. \A i \in DOMAIN columns_ : BodyIn(i) => BodyIn(i)'
    BY <1>1, <1>5, <1>6, BodiesStay
  <2> QED
    BY <1>1, <2>1 DEF IInv, FileInv
<1>8. next' \in 0 .. (Len(columns_) + 1) /\ committed' \in BOOLEAN
  BY <1>1 DEF IInv, ShapeInv
<1>9. pc' \in {"idle", "body"} /\ ~ (pc' = "body")
  BY <1>1
<1> QED
  BY <1>1, <1>5, <1>6, <1>7, <1>8, <1>9, BodyStep

----------------------------------------------------------------------------
(* CSTableReader. *)

\* The preamble of a body says how long the body is.
LEMMA PreambleIs ==
  ASSUME NEW c, IsColumn(c), NEW w, NEW g, ColumnDone(c, w, g), NEW b,
         b = writeBody(c, w)
  PROVE  /\ b[2] \in Nat /\ b[3] \in Nat /\ b[4] \in Nat
         /\ Preamble + b[2] + b[3] + b[4] - slack(c) = Len(b)
<1>1. /\ b \in Seq(Word) /\ Len(b) \in Nat /\ slack(c) \in {0, 1}
      /\ Len(b) >= Preamble
      /\ Len(b) = Preamble + Len(RBlocks(w)) + Len(DBlocks(w)) + Skip(c)
                    + Len(Data(c, w))
  BY BodyLength
<1>2. PICK f : f = [a \in Nat |-> b[a + 1]]
  OBVIOUS
<1>3. Holds(f, 0, b)
  <2>1. ASSUME NEW q \in 1 .. Len(b) PROVE f[0 + q - 1] = b[q]
    BY <1>1, <1>2, <2>1
  <2> QED
    BY <2>1 DEF Holds
<1>4. PICK lr, lq, ld, k, s :
        /\ lr = Len(RBlocks(w)) /\ lq = Len(DBlocks(w)) /\ ld = Len(Data(c, w))
        /\ k = Skip(c) /\ s = slack(c)
  OBVIOUS
<1>5. lr \in Nat /\ lq \in Nat /\ ld \in Nat /\ k \in Nat /\ s \in {0, 1}
  <2>1. /\ RBlocks(w) \in Seq(Word) /\ DBlocks(w) \in Seq(Word)
        /\ Data(c, w) \in Seq(Word)
    BY DataIs DEF RBlocks, DBlocks
  <2>2. Skip(c) \in Nat
    BY DEF Skip
  <2> QED
    BY <1>1, <1>4, <2>1, <2>2, LenProperties
<1>6. f[0 + 1] = lr /\ f[0 + 2] = lq /\ f[0 + 3] = k + ld + s
  BY <1>3, <1>4, BodyHolds
<1>7. b[2] = lr /\ b[3] = lq /\ b[4] = k + ld + s
  BY <1>2, <1>6
<1>8. Len(b) = Preamble + lr + lq + k + ld
  BY <1>1, <1>4
<1>9. b[2] \in Nat /\ b[3] \in Nat /\ b[4] \in Nat
  BY <1>5, <1>7
<1>10. 4 + lr + lq + (k + ld + s) - s = 4 + lr + lq + k + ld
  BY <1>5
<1> QED
  BY <1>4, <1>7, <1>8, <1>9, <1>10 DEF Preamble

\* A word of a body that is not garbage is right.
LEMMA RightWord ==
  ASSUME IInv, commits > 0, NEW n \in Nat, n = Len(columns_), NEW i \in 1 .. n,
         NEW q \in 1 .. Len(Body(i)), Off(i) + q - 1 \in Addr,
         file[Off(i) + q - 1] # Garbage
  PROVE  file[Off(i) + q - 1] = Body(i)[q]
<1>1. /\ Off(i) \in Nat /\ Size(i) \in Nat /\ Len(Body(i)) \in Nat
      /\ Len(Body(i)) <= Size(i)
  BY Regions
<1>2. PICK a : a = Off(i) + q - 1
  OBVIOUS
<1>3. /\ a \in Off(i) .. (Off(i) + Size(i) - 1) /\ a - Off(i) + 1 = q
      /\ a - Off(i) < Len(Body(i))
  BY <1>1, <1>2
<1>4. BodyWord(i, a) = Body(i)[q]
  BY <1>3 DEF BodyWord
<1>5. i \in DOMAIN columns_
  BY DEF IInv, ShapeInv
<1>6. file[a] \in {Garbage, BodyWord(i, a)}
  BY <1>2, <1>3, <1>5 DEF IInv, FileInv
<1> QED
  BY <1>2, <1>4, <1>6

\* What a reader may look at of a body is all that was written of it.
LEMMA BodyCompleteIs ==
  ASSUME IInv, commits > 0, NEW n \in Nat, n = Len(columns_), NEW i \in 1 .. n,
         BodyComplete(columns_[i])
  PROVE  Complete(columns_[i], column_writers_[i], file)
<1>1. PICK o \in Nat : o = Off(i)
  BY Regions
<1>2. PICK b : b = Body(i)
  OBVIOUS
<1>3. /\ IsColumn(columns_[i].config) /\ Len(b) \in Nat /\ Len(b) >= Preamble
      /\ ColumnDone(columns_[i].config, column_writers_[i], wrote[i])
      /\ b = writeBody(columns_[i].config, column_writers_[i])
  BY <1>2, Regions DEF Body
<1>4. /\ b[2] \in Nat /\ b[3] \in Nat /\ b[4] \in Nat
      /\ Preamble + b[2] + b[3] + b[4] - slack(columns_[i].config) = Len(b)
  BY <1>3, PreambleIs
<1>5. /\ \A a \in o .. (o + Preamble - 1) : a \in Addr /\ file[a] # Garbage
      /\ \A a \in o .. (o + Preamble + file[o + 1] + file[o + 2] + file[o + 3]
                          - slack(columns_[i].config) - 1) :
           a \in Addr /\ file[a] # Garbage
  BY <1>1 DEF BodyComplete, Off
<1>6. ASSUME NEW q \in 2 .. 4 PROVE file[o + q - 1] = b[q]
  <2>1. q \in 1 .. Len(b) /\ o + q - 1 \in o .. (o + Preamble - 1)
    BY <1>3, <1>6 DEF Preamble
  <2>2. o + q - 1 \in Addr /\ file[o + q - 1] # Garbage
    BY <1>5, <2>1
  <2> QED
    BY <1>1, <1>2, <2>1, <2>2, RightWord
<1>7. file[o + 1] = b[2] /\ file[o + 2] = b[3] /\ file[o + 3] = b[4]
  <2>1. file[o + 2 - 1] = b[2] /\ file[o + 3 - 1] = b[3] /\ file[o + 4 - 1] = b[4]
    BY <1>6
  <2>2. o + 2 - 1 = o + 1 /\ o + 3 - 1 = o + 2 /\ o + 4 - 1 = o + 3
    OBVIOUS
  <2> QED
    BY <2>1, <2>2
<1>8. o + Preamble + b[2] + b[3] + b[4] - slack(columns_[i].config) - 1
        = o + Len(b) - 1
  <2>1. PICK s \in Nat : s = slack(columns_[i].config)
    BY DEF slack
  <2>2. PICK x \in Nat, y \in Nat, z \in Nat : x = b[2] /\ y = b[3] /\ z = b[4]
    BY <1>4
  <2>3. 4 + x + y + z - s = Len(b)
    BY <1>4, <2>1, <2>2 DEF Preamble
  <2>4. o + 4 + x + y + z - s - 1 = o + Len(b) - 1
    BY <1>3, <2>3
  <2> QED
    BY <2>1, <2>2, <2>4 DEF Preamble
<1>9. ASSUME NEW q \in 1 .. Len(b)
      PROVE  o + q - 1 \in Addr /\ file[o + q - 1] = b[q]
  <2>1. o + q - 1 \in o .. (o + Len(b) - 1)
    BY <1>3
  <2>2. o + q - 1 \in Addr /\ file[o + q - 1] # Garbage
    BY <1>5, <1>7, <1>8, <2>1
  <2> QED
    BY <1>1, <1>2, <2>2, RightWord
<1> QED
  BY <1>1, <1>3, <1>9 DEF Complete, Off

\* A body all of whose words are in the file is complete.
LEMMA BodyInIsComplete ==
  ASSUME IInv, commits > 0, NEW n \in Nat, n = Len(columns_), NEW i \in 1 .. n,
         BodyIn(i)
  PROVE  BodyComplete(columns_[i])
<1>1. PICK o \in Nat : o = Off(i)
  BY Regions
<1>2. PICK b : b = Body(i)
  OBVIOUS
<1>3. /\ IsColumn(columns_[i].config) /\ b \in Seq(Word) /\ Len(b) \in Nat
      /\ Len(b) >= Preamble /\ Len(b) <= Size(i) /\ Size(i) \in Nat
      /\ ColumnDone(columns_[i].config, column_writers_[i], wrote[i])
      /\ b = writeBody(columns_[i].config, column_writers_[i])
  BY <1>2, Regions DEF Body
<1>4. /\ b[2] \in Nat /\ b[3] \in Nat /\ b[4] \in Nat
      /\ Preamble + b[2] + b[3] + b[4] - slack(columns_[i].config) = Len(b)
  BY <1>3, PreambleIs
<1>5. ASSUME NEW a \in o .. (o + Len(b) - 1)
      PROVE  a \in Addr /\ file[a] = b[a - o + 1] /\ file[a] # Garbage
  <2>1. a \in o .. (o + Size(i) - 1) /\ a - o < Len(b) /\ a - o + 1 \in 1 .. Len(b)
    BY <1>3
  <2>2. a \in Addr /\ file[a] = BodyWord(i, a)
    BY <1>1, <2>1 DEF BodyIn
  <2>3. BodyWord(i, a) = b[a - o + 1]
    BY <1>1, <1>2, <2>1 DEF BodyWord
  <2>4. b[a - o + 1] \in Word
    BY <1>3, <2>1, ElementOfSeq
  <2> QED
    BY <2>2, <2>3, <2>4, CodecAssumption DEF Word, Block
<1>6. file[o + 1] = b[2] /\ file[o + 2] = b[3] /\ file[o + 3] = b[4]
  <2>1. \A q \in 1 .. 3 : o + q \in o .. (o + Len(b) - 1) /\ o + q - o + 1 = q + 1
    BY <1>3 DEF Preamble
  <2>2. ASSUME NEW q \in 1 .. 3 PROVE file[o + q] = b[q + 1]
    <3>1. PICK a \in o .. (o + Len(b) - 1) : a = o + q /\ a - o + 1 = q + 1
      BY <2>1
    <3>2. file[a] = b[a - o + 1]
      BY <1>5
    <3> QED
      BY <3>1, <3>2
  <2>3. file[o + 1] = b[1 + 1] /\ file[o + 2] = b[2 + 1] /\ file[o + 3] = b[3 + 1]
    BY <2>2
  <2> QED
    BY <2>3
<1>7. o + Preamble + b[2] + b[3] + b[4] - slack(columns_[i].config) - 1
        = o + Len(b) - 1
  <2>1. PICK s \in Nat : s = slack(columns_[i].config)
    BY DEF slack
  <2>2. PICK x \in Nat, y \in Nat, z \in Nat : x = b[2] /\ y = b[3] /\ z = b[4]
    BY <1>4
  <2>3. 4 + x + y + z - s = Len(b)
    BY <1>4, <2>1, <2>2 DEF Preamble
  <2>4. o + 4 + x + y + z - s - 1 = o + Len(b) - 1
    BY <1>3, <2>3
  <2> QED
    BY <2>1, <2>2, <2>4 DEF Preamble
<1>8. \A a \in o .. (o + Preamble - 1) : a \in o .. (o + Len(b) - 1)
  BY <1>3 DEF Preamble
<1>9. /\ \A a \in o .. (o + Preamble - 1) : a \in Addr /\ file[a] # Garbage
      /\ \A a \in o .. (o + Preamble + file[o + 1] + file[o + 2] + file[o + 3]
                          - slack(columns_[i].config) - 1) :
           a \in Addr /\ file[a] # Garbage
  BY <1>5, <1>6, <1>7, <1>8
<1> QED
  BY <1>1, <1>9 DEF BodyComplete, Off

\* A step of a reader leaves the writer and the file alone.
LEMMA ReaderFrame ==
  ASSUME IInv, UNCHANGED <<pc, writerVars, hdr, file, wrote>>, ReadersInv'
  PROVE  IInv'
<1>1. ShapeInv'
  BY DEF IInv, ShapeInv, writerVars
<1>2. ContentInv' /\ LayoutInv'
  BY DEF IInv, ContentInv, LayoutInv, Off, Size, writerVars
<1>3. FileInv'
  BY DEF IInv, FileInv, BodyIn, BodyWord, Off, Size, Body, writerVars
<1>4. HeaderInv'
  BY DEF IInv, HeaderInv, writerVars
<1> QED
  BY <1>1, <1>2, <1>3, <1>4 DEF IInv

\* What a step does to one reader.
LEMMA ReaderStep ==
  ASSUME IInv, NEW r \in Readers, NEW x, rd' = [rd EXCEPT ![r] = x],
         UNCHANGED <<pc, writerVars, hdr, file, wrote>>,
         x \notin {NoReader, Corrupt} =>
           commits > 0 /\ AllReading(columns_, column_writers_, wrote, file, x)
  PROVE  IInv'
<1>1. UNCHANGED <<columns_, column_writers_, commits, file, wrote>>
  BY DEF writerVars
<1>2. rd = [q \in Readers |-> rd[q]]
  BY DEF IInv, ReadersInv
<1>3. rd' = [q \in Readers |-> rd'[q]] /\ rd'[r] = x
      /\ \A q \in Readers : q # r => rd'[q] = rd[q]
  BY <1>2
<1>4. ASSUME NEW q \in Readers, Open(q)'
      PROVE  commits > 0 /\ AllReading(columns_, column_writers_, wrote, file, rd'[q])
  <2>1. CASE q = r
    BY <1>3, <1>4, <2>1 DEF Open
  <2>2. CASE q # r
    <3>1. rd'[q] = rd[q]
      BY <1>3, <2>2
    <3>2. Open(q)
      BY <1>4, <3>1 DEF Open
    <3> QED
      BY <3>1, <3>2 DEF IInv, ReadersInv
  <2> QED
    BY <2>1, <2>2
<1>5. ReadersInv'
  BY <1>1, <1>3, <1>4 DEF ReadersInv
<1> QED
  BY <1>5, ReaderFrame

\* A reader starts all the columns of a complete file at their first entry.
LEMMA OpenFileInv ==
  ASSUME IInv, NEW r \in Readers, OpenFile(r) PROVE IInv'
<1>1. hdr # NoHeader /\ UNCHANGED <<pc, writerVars, hdr, file, wrote>>
  BY DEF OpenFile
<1>2. commits > 0 /\ hdr = [num_rows |-> num_rows_, columns |-> columns_]
  BY <1>1 DEF IInv, HeaderInv
<1>3. hdr.columns = columns_
  BY <1>2
<1>4. PICK n \in Nat : n = Len(columns_) /\ DOMAIN columns_ = 1 .. n
  BY LenProperties DEF IInv, ShapeInv
<1>5. PICK x : /\ rd' = [rd EXCEPT ![r] = x]
               /\ x = IF FileComplete THEN [i \in 1 .. n |-> OpenColumnV1(columns_[i])]
                                      ELSE Corrupt
  BY <1>3, <1>4 DEF OpenFile
<1>6. CASE FileComplete
  <2>1. x = [i \in 1 .. n |-> OpenColumnV1(columns_[i])]
    BY <1>5, <1>6
  <2>2. ASSUME NEW i \in 1 .. n
        PROVE  Reading(columns_[i], column_writers_[i], wrote[i], file, x[i])
    <3>1. BodyComplete(columns_[i])
      BY <1>3, <1>4, <1>6 DEF FileComplete
    <3>2. Complete(columns_[i], column_writers_[i], file)
      BY <1>2, <1>4, <3>1, BodyCompleteIs
    <3>3. /\ columns_[i] \in Column
          /\ ColumnDone(columns_[i].config, column_writers_[i], wrote[i])
      BY <1>2, <1>4, Regions
    <3>4. Reading(columns_[i], column_writers_[i], wrote[i], file,
                  OpenColumnV1(columns_[i]))
      BY <3>2, <3>3, OpenRight
    <3> QED
      BY <2>1, <3>4
  <2>3. x = [i \in 1 .. n |-> x[i]]
    BY <2>1
  <2>4. AllReading(columns_, column_writers_, wrote, file, x)
    BY <1>4, <2>2, <2>3 DEF AllReading
  <2> QED
    BY <1>1, <1>2, <1>5, <2>4, ReaderStep
<1>7. CASE ~ FileComplete
  <2>1. x = Corrupt
    BY <1>5, <1>7
  <2> QED
    BY <1>1, <1>5, <2>1, ReaderStep
<1> QED
  BY <1>6, <1>7

\* A reader closes the file.
LEMMA CloseFileInv ==
  ASSUME IInv, NEW r \in Readers, CloseFile(r) PROVE IInv'
<1>1. PICK x : x = NoReader /\ rd' = [rd EXCEPT ![r] = x]
               /\ UNCHANGED <<pc, writerVars, hdr, file, wrote>>
  BY DEF CloseFile
<1> QED
  BY <1>1, ReaderStep

\* What a step does to one column of a reader.
LEMMA ReaderColumnStep ==
  ASSUME IInv, NEW r \in Readers, Open(r), NEW i \in DOMAIN rd[r], NEW y,
         rd' = [rd EXCEPT ![r][i] = y],
         UNCHANGED <<pc, writerVars, hdr, file, wrote>>,
         Reading(columns_[i], column_writers_[i], wrote[i], file, rd[r][i])
           => Reading(columns_[i], column_writers_[i], wrote[i], file, y)
  PROVE  IInv'
<1>1. PICK x : x = [rd[r] EXCEPT ![i] = y]
  OBVIOUS
<1>2. rd' = [rd EXCEPT ![r] = x]
  BY <1>1
<1>3. commits > 0 /\ AllReading(columns_, column_writers_, wrote, file, rd[r])
  BY DEF IInv, ReadersInv
<1>4. PICK n \in Nat : n = Len(columns_)
  BY LenProperties DEF IInv, ShapeInv
<1>5. /\ rd[r] = [k \in 1 .. n |-> rd[r][k]] /\ i \in 1 .. n
      /\ \A k \in 1 .. n :
           Reading(columns_[k], column_writers_[k], wrote[k], file, rd[r][k])
  BY <1>3, <1>4 DEF AllReading
<1>6. x = [k \in 1 .. n |-> x[k]] /\ x[i] = y
      /\ \A k \in 1 .. n : k # i => x[k] = rd[r][k]
  BY <1>1, <1>5
<1>7. \A k \in 1 .. n : Reading(columns_[k], column_writers_[k], wrote[k], file, x[k])
  BY <1>5, <1>6
<1>8. AllReading(columns_, column_writers_, wrote, file, x)
  BY <1>4, <1>6, <1>7 DEF AllReading
<1> QED
  BY <1>2, <1>3, <1>8, ReaderStep

\* The columns of a reader are those of the table.
LEMMA ReaderColumn ==
  ASSUME IInv, NEW r \in Readers, Open(r), NEW i \in DOMAIN rd[r]
  PROVE  /\ i \in 1 .. Len(columns_) /\ columns_[i] \in Column
         /\ Reading(columns_[i], column_writers_[i], wrote[i], file, rd[r][i])
<1>1. AllReading(columns_, column_writers_, wrote, file, rd[r])
  BY DEF IInv, ReadersInv
<1>2. i \in 1 .. Len(columns_)
  BY <1>1 DEF AllReading
<1>3. columns_[i] \in Column
  BY <1>2 DEF IInv, ShapeInv
<1> QED
  BY <1>1, <1>2, <1>3 DEF AllReading

\* A typed read, or skipValue, of one column of one reader.
LEMMA ReadValueInv ==
  ASSUME IInv, NEW r \in Readers, Open(r), NEW i \in DOMAIN rd[r], ReadValue(r, i)
  PROVE  IInv'
<1>1. PICK y : y = Consumed(rd[r][i])
  OBVIOUS
<1>2. /\ rd' = [rd EXCEPT ![r][i] = y] /\ ~ eofReached(rd[r][i].reader)
      /\ UNCHANGED <<pc, writerVars, hdr, file, wrote>>
  BY <1>1 DEF ReadValue, CanRead
<1>3. columns_[i] \in Column
      /\ Reading(columns_[i], column_writers_[i], wrote[i], file, rd[r][i])
  BY ReaderColumn
<1>4. Reading(columns_[i], column_writers_[i], wrote[i], file, y)
  BY <1>1, <1>2, <1>3, ReadRight
<1> QED
  BY <1>2, <1>4, ReaderColumnStep

\* copyValue of one column of one reader.
LEMMA CopyValueInv ==
  ASSUME IInv, NEW r \in Readers, Open(r), NEW i \in DOMAIN rd[r], CopyValue(r, i)
  PROVE  IInv'
<1>1. PICK x, t : x = rd[r][i] /\ t = copyConfig(x.config)
  OBVIOUS
<1>2. PICK y : y = [Consumed(x) EXCEPT
                      !.copy = copyValue(x.config, file, x.reader, t, @),
                      !.copied = Append(@, x.reader.vals_read_ + 1)]
  OBVIOUS
<1>3. /\ rd' = [rd EXCEPT ![r][i] = y] /\ ~ eofReached(x.reader)
      /\ UNCHANGED <<pc, writerVars, hdr, file, wrote>>
  BY <1>1, <1>2 DEF CopyValue, CanRead
<1>4. columns_[i] \in Column
      /\ Reading(columns_[i], column_writers_[i], wrote[i], file, x)
  BY <1>1, ReaderColumn
<1>5. Reading(columns_[i], column_writers_[i], wrote[i], file, y)
  BY <1>1, <1>2, <1>3, <1>4, CopyRight
<1> QED
  BY <1>3, <1>5, ReaderColumnStep

\* nextRepetitionLevel of one column of one reader.
LEMMA NextRepetitionLevelInv ==
  ASSUME IInv, NEW r \in Readers, Open(r), NEW i \in DOMAIN rd[r],
         NextRepetitionLevel(r, i)
  PROVE  IInv'
<1>1. PICK x : x = rd[r][i]
  OBVIOUS
<1>2. PICK y : y = [x EXCEPT !.reader = afterNextRepetitionLevel(file, @),
                             !.peeked = nextRepetitionLevel(file, x.reader)]
  OBVIOUS
<1>3. /\ rd' = [rd EXCEPT ![r][i] = y]
      /\ UNCHANGED <<pc, writerVars, hdr, file, wrote>>
  BY <1>1, <1>2 DEF NextRepetitionLevel
<1>4. columns_[i] \in Column
      /\ Reading(columns_[i], column_writers_[i], wrote[i], file, x)
  BY <1>1, ReaderColumn
<1>5. Reading(columns_[i], column_writers_[i], wrote[i], file, y)
  BY <1>2, <1>4, PeekedRight
<1> QED
  BY <1>3, <1>5, ReaderColumnStep

\* Every step keeps the invariant.
LEMMA NextInv == IInv /\ [Next]_vars => IInv'
<1> SUFFICES ASSUME IInv, [Next]_vars PROVE IInv'
  OBVIOUS
<1>1. CASE CreateFile
  BY <1>1, CreateFileInv
<1>2. CASE WriteColumn
  BY <1>2, WriteColumnInv
<1>3. CASE AddRows
  BY <1>3, AddRowsInv
<1>4. CASE CommitBegin
  BY <1>4, CommitBeginInv
<1>5. CASE CommitStep
  BY <1>5, WriteHeaderInv, WriteHeaderRaisesInv, WriteBodyInv, WriteBodyRaisesInv
     DEF CommitStep
<1>6. CASE WriterEnds
  BY <1>6, WriterEndsInv
<1>7. ASSUME NEW r \in Readers, OpenFile(r) PROVE IInv'
  BY <1>7, OpenFileInv
<1>8. ASSUME NEW r \in Readers, CloseFile(r) PROVE IInv'
  BY <1>8, CloseFileInv
<1>9. ASSUME NEW r \in Readers, Open(r), NEW i \in DOMAIN rd[r],
             ReadValue(r, i) \/ CopyValue(r, i) \/ NextRepetitionLevel(r, i)
      PROVE  IInv'
  BY <1>9, ReadValueInv, CopyValueInv, NextRepetitionLevelInv
<1>10. CASE UNCHANGED vars
  BY <1>10, StutterInv
<1> QED
  BY <1>1, <1>2, <1>3, <1>4, <1>5, <1>6, <1>7, <1>8, <1>9, <1>10 DEF Next

\* The table: at every step of the writer, of a commit that may raise at any
\* word and be called again, and of the readers of the file, the columns hold
\* the entries that were written, every body lies at its place, and every
\* reader is at an entry boundary of all three streams of its columns.
THEOREM TableInvariant == Spec => []IInv
<1>1. Init => IInv
  BY InitInv
<1>2. IInv /\ [Next]_vars => IInv'
  BY NextInv
<1> QED
  BY <1>1, <1>2, PTL DEF Spec

----------------------------------------------------------------------------
(* What the table promises. *)

\* The writer's members keep their types, the layout, the writers and the
\* columns stay as many as the schema has columns, and no reader ever counts
\* beyond the entries its column header announces.
THEOREM TypesKept == Spec => []TypeOK
<1>1. IInv => TypeOK
  <2> SUFFICES ASSUME IInv PROVE TypeOK
    OBVIOUS
  <2>1. ASSUME NEW r \in Readers, Open(r), NEW i \in DOMAIN rd[r]
        PROVE  rd[r][i].reader.vals_read_ \in 0 .. rd[r][i].reader.vals_total_
    <3>1. Reading(columns_[i], column_writers_[i], wrote[i], file, rd[r][i])
      BY <2>1, ReaderColumn
    <3>2. PICK x : x = rd[r][i].reader
      OBVIOUS
    <3>3. ReaderAt(columns_[i].config, column_writers_[i], wrote[i],
                   columns_[i].body_offset, x)
      BY <3>1, <3>2 DEF Reading
    <3>4. /\ x.vals_read_ \in Nat /\ x.vals_total_ \in Nat
          /\ x.vals_read_ <= x.vals_total_
      BY <3>3, ReaderCounts
    <3> QED
      BY <3>2, <3>4
  <2>2. DOMAIN file = Addr
    BY DEF IInv, ShapeInv
  <2> QED
    BY <2>1, <2>2 DEF IInv, ShapeInv, TypeOK
<1> QED
  BY <1>1, TableInvariant, PTL

\* Whoever opens a complete file reads from every column, whatever its
\* encoding and its levels, exactly the entries that were written, in order
\* and to the last one, and no read before eofReached raises.
THEOREM TableReadsBack == Spec => []ReadsBack
<1>1. IInv => ReadsBack
  <2> SUFFICES ASSUME IInv, NEW r \in Readers, Open(r), NEW i \in DOMAIN rd[r],
                      NEW x, x = rd[r][i], NEW k, k = x.reader.vals_read_
               PROVE  /\ x.reader.vals_total_ = Len(wrote[i])
                      /\ ~ eofReached(x.reader)
                           => ~ readRaises(x.config, file, x.reader)
                      /\ x.got # NoReader =>
                           /\ x.got.rlvl = wrote[i][k].rlvl
                           /\ x.got.dlvl = wrote[i][k].dlvl
                           /\ Defined(i, k) => x.got.val = Kept(i, k)
    BY DEF ReadsBack
  <2>1. /\ columns_[i] \in Column
        /\ Reading(columns_[i], column_writers_[i], wrote[i], file, x)
    BY ReaderColumn
  <2>2. x.reader.vals_total_ = Len(wrote[i])
    BY <2>1, ReaderCounts DEF Reading
  <2>3. ~ eofReached(x.reader) => ~ readRaises(x.config, file, x.reader)
    BY <2>1, ReadRight
  <2>4. GotRight(columns_[i].config, wrote[i], x)
    BY <2>1 DEF Reading
  <2> QED
    BY <2>2, <2>3, <2>4 DEF GotRight, Keeps, Kept, Defined
<1> QED
  BY <1>1, TableInvariant, PTL

\* nextRepetitionLevel foretells the repetition level of the entry that the
\* next read yields, and 0 behind the last one.
THEOREM PeeksAgree == Spec => []PeekAgrees
<1>1. IInv => PeekAgrees
  <2> SUFFICES ASSUME IInv, NEW r \in Readers, Open(r), NEW i \in DOMAIN rd[r],
                      NEW x, x = rd[r][i], NEW k, k = x.reader.vals_read_
               PROVE  x.peeked # NoReader
                        => x.peeked = IF k < Len(wrote[i]) THEN wrote[i][k + 1].rlvl
                                      ELSE 0
    BY DEF PeekAgrees
  <2>1. Reading(columns_[i], column_writers_[i], wrote[i], file, x)
    BY ReaderColumn
  <2> QED
    BY <2>1 DEF Reading, PeekRight
<1> QED
  BY <1>1, TableInvariant, PTL

\* copyValue makes of any choice of entries the column that writing them
\* directly makes, block for block and bit for bit.
THEOREM CopiesAreFaithful == Spec => []CopiesFaithfully
<1>1. IInv => CopiesFaithfully
  <2> SUFFICES ASSUME IInv, NEW r \in Readers, Open(r), NEW i \in DOMAIN rd[r]
               PROVE  rd[r][i].copy = WrittenDirectly(columns_[i].config, wrote[i],
                                                      rd[r][i].copied)
    BY DEF CopiesFaithfully
  <2>1. Reading(columns_[i], column_writers_[i], wrote[i], file, rd[r][i])
    BY ReaderColumn
  <2> QED
    BY <2>1 DEF Reading
<1> QED
  BY <1>1, TableInvariant, PTL

\* Behind a commit that has returned the file is complete.
LEMMA CommittedIsComplete == IInv /\ committed => FileComplete
<1> SUFFICES ASSUME IInv, committed PROVE FileComplete
  OBVIOUS
<1>1. commits > 0 /\ hdr = [num_rows |-> num_rows_, columns |-> columns_]
  BY DEF IInv, HeaderInv
<1>2. hdr.columns = columns_
  BY <1>1
<1>3. PICK n \in Nat : n = Len(columns_) /\ DOMAIN columns_ = 1 .. n
  BY LenProperties DEF IInv, ShapeInv
<1>4. ASSUME NEW i \in 1 .. n PROVE BodyComplete(columns_[i])
  <2>1. BodyIn(i)
    BY <1>3 DEF IInv, FileInv
  <2> QED
    BY <1>1, <1>3, <2>1, BodyInIsComplete
<1> QED
  BY <1>2, <1>3, <1>4 DEF FileComplete

\* A body that is in the file is written over by itself.
LEMMA WrittenAgain ==
  ASSUME IInv, committed, pc = "body", NEW m \in Nat, m <= Size(next),
         file' = BodyWritten(next, m)
  PROVE  file' = file
<1>1. PICK n \in Nat : n = Len(columns_) /\ DOMAIN columns_ = 1 .. n
  BY LenProperties DEF IInv, ShapeInv
<1>2. commits > 0 /\ next \in 1 .. n
  BY <1>1 DEF IInv, HeaderInv, FileInv
<1>3. PICK j \in 1 .. n : j = next
  BY <1>2
<1>4. \A a \in Addr : file'[a] = IF a \in Off(j) .. (Off(j) + m - 1)
                                 THEN BodyWord(j, a) ELSE file[a]
  BY <1>1, <1>2, <1>3, FileStep
<1>5. Off(j) \in Nat /\ Size(j) \in Nat
  BY <1>1, <1>2, Regions
<1>6. \A a \in Off(j) .. (Off(j) + m - 1) : a \in Off(j) .. (Off(j) + Size(j) - 1)
  BY <1>3, <1>5
<1>7. \A a \in Off(j) .. (Off(j) + Size(j) - 1) : file[a] = BodyWord(j, a)
  BY <1>1 DEF IInv, FileInv, BodyIn
<1>8. \A a \in Addr : file'[a] = file[a]
  BY <1>4, <1>6, <1>7
<1>9. file = [a \in Addr |-> file[a]]
  BY DEF IInv, ShapeInv
<1>10. file' = [a \in Addr |-> file'[a]]
  BY DEF BodyWritten
<1> QED
  BY <1>8, <1>9, <1>10

\* A commit after one that has returned writes what is there.
LEMMA CommittedIsFinal ==
  ASSUME IInv, committed, [Next]_vars PROVE UNCHANGED <<hdr, file>>
<1>1. CASE WriteHeader
  BY <1>1 DEF WriteHeader, IInv, HeaderInv
<1>2. CASE WriteBody
  <2>1. pc = "body" /\ hdr' = hdr /\ file' = BodyWritten(next, Size(next))
    BY <1>2 DEF WriteBody, Size
  <2>2. PICK n \in Nat : n = Len(columns_) /\ next \in 1 .. n /\ commits > 0
    BY <2>1, LenProperties DEF IInv, ShapeInv, FileInv, HeaderInv
  <2>3. Size(next) \in Nat /\ Size(next) <= Size(next)
    BY <2>2, Regions
  <2> QED
    BY <2>1, <2>3, WrittenAgain
<1>3. CASE WriteBodyRaises
  <2>1. pc = "body" /\ hdr' = hdr
    BY <1>3 DEF WriteBodyRaises
  <2>2. PICK n \in Nat : n = Len(columns_) /\ next \in 1 .. n /\ commits > 0
    BY <2>1, LenProperties DEF IInv, ShapeInv, FileInv, HeaderInv
  <2>3. Size(next) \in Nat
    BY <2>2, Regions
  <2>4. PICK m \in 0 .. (Size(next) - 1) : file' = BodyWritten(next, m)
    BY <1>3 DEF WriteBodyRaises, Size
  <2>5. m \in Nat /\ m <= Size(next)
    BY <2>3, <2>4
  <2> QED
    BY <2>1, <2>4, <2>5, WrittenAgain
<1>4. CASE CreateFile \/ WriteColumn \/ AddRows \/ CommitBegin \/ WriterEnds
           \/ WriteHeaderRaises
  BY <1>4 DEF CreateFile, WriteColumn, AddRows, CommitBegin, WriterEnds,
              WriteHeaderRaises
<1>5. ASSUME NEW r \in Readers, OpenFile(r) \/ CloseFile(r)
      PROVE  UNCHANGED <<hdr, file>>
  BY <1>5 DEF OpenFile, CloseFile
<1>6. ASSUME NEW r \in Readers, NEW i \in DOMAIN rd[r],
             ReadValue(r, i) \/ CopyValue(r, i) \/ NextRepetitionLevel(r, i)
      PROVE  UNCHANGED <<hdr, file>>
  BY <1>6 DEF ReadValue, CopyValue, NextRepetitionLevel
<1>7. CASE UNCHANGED vars
  BY <1>7 DEF vars
<1> QED
  BY <1>1, <1>2, <1>3, <1>4, <1>5, <1>6, <1>7 DEF Next, CommitStep

\* commit may be called again: whenever some commit has returned the file is
\* complete, and no later commit, also one that raises halfway through a body,
\* changes a word of it.
THEOREM CommitRepeats == Spec => CommitIsRepeatable
<1>1. IInv /\ committed => FileComplete
  BY CommittedIsComplete
<1>2. IInv /\ [Next]_vars => (committed => UNCHANGED <<hdr, file>>)
  BY CommittedIsFinal
<1> QED
  BY <1>1, <1>2, TableInvariant, PTL DEF Spec, CommitIsRepeatable

----------------------------------------------------------------------------
(* Typed reads. *)

\* Every schema gives its columns an encoding that suits their type, and the
\* signed integers fit in 64 bits.
WellTyped ==
  /\ \A s \in Schemas : \A k \in DOMAIN s : WellEncoded(s[k])
  /\ SignedValues \subseteq Signed64

\* What has the full definition level is a value of the type of its column.
TypedEntries(c, g) ==
  \A k \in 1 .. Len(g) :
    g[k].dlvl = c.dlevel_max => g[k].val \in ValuesOf(c.logical_type)

OfSchema(c) == \E s \in Schemas : \E k \in DOMAIN s : c = s[k]

TypedInv ==
  \A i \in 1 .. Len(columns_) :
    OfSchema(columns_[i].config) /\ TypedEntries(columns_[i].config, wrote[i])

\* One entry more keeps a column well typed.
LEMMA TypedAppend ==
  ASSUME IInv, TypedInv, NEW i \in 1 .. Len(columns_), NEW w, NEW rlvl, NEW dlvl,
         NEW v, Write(i, w, rlvl, dlvl, v), columns_' = columns_,
         dlvl = columns_[i].config.dlevel_max
           => v \in ValuesOf(columns_[i].config.logical_type)
  PROVE  TypedInv'
<1>1. PICK e : e = [rlvl |-> rlvl, dlvl |-> dlvl, val |-> v]
  OBVIOUS
<1>2. PICK g \in Seq(Entry) : g = wrote[i]
  BY DEF IInv, ShapeInv
<1>3. PICK n \in Nat : n = Len(g)
  BY LenProperties
<1>4. PICK h : h = Append(g, e)
  OBVIOUS
<1>5. Len(h) = n + 1 /\ h[n + 1] = e /\ \A k \in 1 .. n : h[k] = g[k]
  BY <1>3, <1>4
<1>6. wrote' = [wrote EXCEPT ![i] = h] /\ i \in DOMAIN wrote
  BY <1>1, <1>2, <1>4 DEF Write, IInv, ShapeInv
<1>7. TypedEntries(columns_[i].config, g)
  BY <1>2 DEF TypedInv
<1>8. TypedEntries(columns_[i].config, h)
  <2> SUFFICES ASSUME NEW k \in 1 .. (n + 1),
                      h[k].dlvl = columns_[i].config.dlevel_max
               PROVE  h[k].val \in ValuesOf(columns_[i].config.logical_type)
    BY <1>5 DEF TypedEntries
  <2>1. CASE k = n + 1
    BY <1>1, <1>5, <2>1
  <2>2. CASE k # n + 1
    <3>1. k \in 1 .. n
      BY <2>2
    <3> QED
      BY <1>3, <1>5, <1>7, <3>1 DEF TypedEntries
  <2> QED
    BY <2>1, <2>2
<1>9. ASSUME NEW j \in 1 .. Len(columns_)
      PROVE  OfSchema(columns_[j].config) /\ TypedEntries(columns_[j].config, wrote'[j])
  <2>1. CASE j = i
    BY <1>6, <1>8, <2>1 DEF TypedInv
  <2>2. CASE j # i
    <3>1. wrote'[j] = wrote[j]
      BY <1>6, <2>2
    <3> QED
      BY <3>1 DEF TypedInv
  <2> QED
    BY <2>1, <2>2
<1> QED
  BY <1>9 DEF TypedInv

\* Only typed writes add values.
LEMMA TypedStep == IInv /\ TypedInv /\ [Next]_vars => TypedInv'
<1> SUFFICES ASSUME IInv, TypedInv, [Next]_vars PROVE TypedInv'
  OBVIOUS
<1>1. CASE CreateFile
  <2>1. PICK s \in Schemas :
          /\ columns_' = [i \in DOMAIN s |->
                            [config |-> s[i], body_offset |-> 0, body_size |-> 0]]
          /\ wrote' = [i \in DOMAIN s |-> <<>>]
    BY <1>1 DEF CreateFile
  <2>2. PICK n \in Nat : n = Len(s) /\ DOMAIN s = 1 .. n
    BY TableAssumption, LenProperties
  <2>3. Len(columns_') = n
    BY <2>1, <2>2
  <2>4. ASSUME NEW i \in 1 .. n
        PROVE  OfSchema(columns_'[i].config) /\ TypedEntries(columns_'[i].config, wrote'[i])
    <3>1. columns_'[i].config = s[i] /\ wrote'[i] = <<>>
      BY <2>1, <2>2
    <3>2. TypedEntries(s[i], <<>>)
      BY DEF TypedEntries
    <3> QED
      BY <2>2, <3>1, <3>2 DEF OfSchema
  <2> QED
    BY <2>3, <2>4 DEF TypedInv
<1>2. CASE WriteColumn
  <2>1. DOMAIN columns_ = 1 .. Len(columns_) /\ columns_' = columns_
    BY <1>2 DEF IInv, ShapeInv, WriteColumn
  <2>2. PICK i \in 1 .. Len(columns_) :
          \E rlvl \in 0 .. columns_[i].config.rlevel_max :
            \/ \E v \in ValuesOf(columns_[i].config.logical_type) :
                 Write(i, addDatum(columns_[i].config, column_writers_[i], rlvl,
                                   columns_[i].config.dlevel_max,
                                   datum(columns_[i].config.logical_type, v)),
                       rlvl, columns_[i].config.dlevel_max, v)
            \/ \E dlvl \in 0 .. (columns_[i].config.dlevel_max - 1) :
                 Write(i, writeNull(column_writers_[i], rlvl, dlvl), rlvl, dlvl, 0)
    BY <1>2, <2>1 DEF WriteColumn
  <2>3. PICK rlvl \in 0 .. columns_[i].config.rlevel_max :
          \/ \E v \in ValuesOf(columns_[i].config.logical_type) :
               Write(i, addDatum(columns_[i].config, column_writers_[i], rlvl,
                                 columns_[i].config.dlevel_max,
                                 datum(columns_[i].config.logical_type, v)),
                     rlvl, columns_[i].config.dlevel_max, v)
          \/ \E dlvl \in 0 .. (columns_[i].config.dlevel_max - 1) :
               Write(i, writeNull(column_writers_[i], rlvl, dlvl), rlvl, dlvl, 0)
    BY <2>2
  <2>4. columns_[i].config.dlevel_max \in Nat
    <3>1. columns_[i] \in Column
      BY DEF IInv, ShapeInv
    <3> QED
      BY <3>1 DEF Column, ColumnConfig
  <2>5. ASSUME NEW v \in ValuesOf(columns_[i].config.logical_type), NEW w,
               Write(i, w, rlvl, columns_[i].config.dlevel_max, v)
        PROVE  TypedInv'
    BY <2>1, <2>5, TypedAppend
  <2>6. ASSUME NEW dlvl \in 0 .. (columns_[i].config.dlevel_max - 1), NEW w,
               Write(i, w, rlvl, dlvl, 0)
        PROVE  TypedInv'
    <3>1. dlvl # columns_[i].config.dlevel_max
      BY <2>4, <2>6
    <3> QED
      BY <2>1, <2>6, <3>1, TypedAppend
  <2> QED
    BY <2>3, <2>5, <2>6
<1>3. CASE CommitBegin
  <2>1. PICK ws : Flushing(ws)
    BY <1>3 DEF CommitBegin, Flushing
  <2>2. PICK n \in Nat : n = Len(columns_) /\ DOMAIN columns_ = 1 .. n
    BY LenProperties DEF IInv, ShapeInv
  <2>3. Len(columns_') = n /\ wrote' = wrote
    <3>1. PICK h : columns_' = [i \in 1 .. n |-> h[i]]
      <4>1. columns_' = [i \in 1 .. n |-> columns_'[i]]
        BY <2>1, <2>2 DEF Flushing
      <4> QED
        BY <4>1
    <3>2. Len(columns_') = n
      BY <3>1
    <3> QED
      BY <1>3, <3>2 DEF CommitBegin
  <2>4. \A i \in 1 .. n : columns_'[i].config = columns_[i].config
    BY <2>1, <2>2, FlushedIs
  <2> QED
    BY <2>2, <2>3, <2>4 DEF TypedInv
<1>4. CASE AddRows \/ CommitStep \/ WriterEnds \/ UNCHANGED vars
  BY <1>4 DEF TypedInv, AddRows, CommitStep, WriteHeader, WriteHeaderRaises,
              WriteBody, WriteBodyRaises, WriterEnds, writerVars, vars
<1>5. ASSUME NEW r \in Readers, OpenFile(r) \/ CloseFile(r)
      PROVE  TypedInv'
  BY <1>5 DEF OpenFile, CloseFile, TypedInv, writerVars
<1>6. ASSUME NEW r \in Readers, NEW i \in DOMAIN rd[r],
             ReadValue(r, i) \/ CopyValue(r, i) \/ NextRepetitionLevel(r, i)
      PROVE  TypedInv'
  BY <1>6 DEF ReadValue, CopyValue, NextRepetitionLevel, TypedInv, writerVars
<1> QED
  BY <1>1, <1>2, <1>3, <1>4, <1>5, <1>6 DEF Next

\* If booleans, and only they, are kept in a column of bits and no signed
\* integer in a column of floats or strings, a typed read yields what the
\* typed write was given: booleans, negative numbers and values at the limit
\* of the encoding included.  (The run on a boolean column in the encoding
\* that README.md names for it shows that the hypothesis is needed.)
THEOREM TypesReadBack ==
  ASSUME WellTyped
  PROVE  Spec => []TypedReadsBack
<1>1. Init => TypedInv
  BY DEF Init, TypedInv
<1>2. IInv /\ TypedInv /\ [Next]_vars => TypedInv'
  BY TypedStep
<1>3. IInv /\ TypedInv => TypedReadsBack
  <2> SUFFICES ASSUME IInv, TypedInv, NEW r \in Readers, Open(r),
                      NEW i \in DOMAIN rd[r], NEW x, x = rd[r][i],
                      NEW k, k = x.reader.vals_read_, NEW c, c = x.config,
                      NEW v, v = wrote[i][k].val,
                      x.got # NoReader, Defined(i, k), Representable(c, v)
               PROVE  readAs(c, c.logical_type, x.got.val) = v
    BY DEF TypedReadsBack
  <2>1. /\ i \in 1 .. Len(columns_) /\ columns_[i] \in Column
        /\ Reading(columns_[i], column_writers_[i], wrote[i], file, x)
    BY ReaderColumn
  <2>2. c = columns_[i].config /\ GotRight(c, wrote[i], x) /\ IsColumn(c)
    BY <2>1, ConfigIsColumn DEF Reading
  <2>3. /\ k \in 1 .. Len(wrote[i])
        /\ wrote[i][k].dlvl = c.dlevel_max
        /\ x.got.val = Keeps(c, v)
    BY <2>2 DEF GotRight, Defined
  <2>4. v \in ValuesOf(c.logical_type) /\ WellEncoded(c)
    BY <2>1, <2>2, <2>3, WellTyped DEF TypedInv, TypedEntries, OfSchema, WellTyped
  <2>5. /\ c.logical_type = "BOOLEAN" => v \in BOOLEAN
        /\ c.logical_type = "SIGNED_INT" => v \in Signed64
        /\ c.logical_type \notin {"BOOLEAN", "SIGNED_INT"} => v \in Nat
    BY <2>4, WellTyped, TableAssumption DEF ValuesOf, WellTyped
  <2>6. c.storage_type \in {"UINT32_BITPACKED", "UINT32_PLAIN"}
          => datum(c.logical_type, v) < Max32
    BY DEF Representable
  <2>7. readAs(c, c.logical_type, Keeps(c, v)) = v
    BY <2>2, <2>4, <2>5, <2>6, TypedRoundTrip
  <2> QED
    BY <2>3, <2>7
<1> QED
  BY <1>1, <1>2, <1>3, TableInvariant, PTL DEF Spec
=============================================================================
