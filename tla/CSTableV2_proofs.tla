-------------------------- MODULE CSTableV2_proofs --------------------------
(***************************************************************************)
(* Theorems about CSTableV2, for every schema, page size, device capacity  *)
(* and number of readers.                                                  *)
(***************************************************************************)
EXTENDS CSTableV2, SequenceTheorems, TLAPS

----------------------------------------------------------------------------
(* The operators the module is built from. *)

\* padToNextSector never shrinks a page.
LEMMA PadGrows ==
  ASSUME NEW n \in Nat
  PROVE  padToNextSector(n) \in Nat /\ padToNextSector(n) >= n
<1> DEFINE k == kSectorSize
           q == (n + (k - 1)) \div k
<1>1. k \in Nat /\ k > 0
  BY SizesAssumption
<1>2. q \in Int /\ k * q <= n + (k - 1) /\ n + (k - 1) < k * q + k
  BY <1>1
<1>3. q \in Nat
  BY <1>1
<1> HIDE DEF q, k
<1>4. q * k = k * q /\ k * q \in Nat
  BY <1>1, <1>3
<1>5. q * k \in Nat /\ q * k >= n
  BY <1>1, <1>2, <1>4
<1> QED
  BY <1>5 DEF padToNextSector, q, k

\* allocPage returns a page that starts at offset_ and is not empty, and
\* offset_ moves past it.
LEMMA AllocType ==
  ASSUME offset_ \in Nat, NEW size \in Nat
  PROVE  /\ allocPage(size) \in PageRef
         /\ allocPage(size).offset = offset_
         /\ allocPage(size).size >= size
         /\ newOffset(allocPage(size)) \in Nat
         /\ newOffset(allocPage(size)) = offset_ + allocPage(size).size
BY PadGrows DEF allocPage, newOffset, PageRef

\* An index page is not empty.
LEMMA IndexPageType ==
  ASSUME offset_ \in Nat, NEW size \in IndexSizes
  PROVE  /\ NewIndexPage(size) \in PageRef
         /\ NewIndexPage(size).offset = offset_
         /\ NewIndexPage(size).size > 0
         /\ newOffset(NewIndexPage(size)) \in Nat
         /\ newOffset(NewIndexPage(size)) = offset_ + NewIndexPage(size).size
<1> DEFINE n == MaxOf(kIndexPageSize, size + kIndexPageOverhead)
<1>1. n \in Nat /\ n > 0
  BY WritersAssumption DEF MaxOf
<1>2. NewIndexPage(size) = allocPage(n)
  BY DEF NewIndexPage, indexPage
<1> HIDE DEF n
<1> QED
  BY <1>1, <1>2, AllocType DEF PageRef

\* Writing a part of a page leaves words in every address.
LEMMA WrittenType ==
  ASSUME NEW f \in [Addr -> Nat], NEW p \in PageRef, NEW buf \in Seq(Nat),
         NEW n \in Nat
  PROVE  Written(f, p, buf, n) \in [Addr -> Nat]
<1>1. ASSUME NEW a \in Addr, a \in p.offset .. (p.offset + n - 1)
      PROVE  PageWord(buf, a - p.offset + 1) \in Nat
  BY <1>1, SizesAssumption DEF PageWord, PageRef, Addr
<1> QED
  BY <1>1 DEF Written

\* readHeader returns one of the slots, or fails.
LEMMA OpenHeaderType ==
  ASSUME NEW h \in Header \cup {NoHeader}
  PROVE  /\ openHeader(h) \in MetaBlock \cup {NoMetaBlock}
         /\ openHeader(h) # NoMetaBlock =>
              h # NoHeader /\ \E i \in Slots : openHeader(h) = h[i]
BY DEF openHeader, readHeader, Header, Slots

----------------------------------------------------------------------------
(* Type correctness. *)

TypeInv == TypeOK /\ PositionOK

\* The initial state has the types of TypeInv.
LEMMA TypeInit == Init => TypeInv
<1> SUFFICES ASSUME Init PROVE TypeInv
  OBVIOUS
<1> USE DEF Init, FileInit, PageWritersInit
<1>1. /\ cache \in [Addr -> Nat] /\ disk \in [Addr -> Nat]
      /\ idxCache \in [Addr -> Seq(IndexEntry) \cup {NoIndex}]
      /\ idxDisk \in [Addr -> Seq(IndexEntry) \cup {NoIndex}]
  OBVIOUS
<1>2. /\ page_ \in [Streams -> PageRef \cup {NoPage}]
      /\ page_buf_ \in [Streams -> Seq(Nat)]
      /\ pages_ \in [Streams -> Seq(PageEntry)]
  OBVIOUS
<1>3. /\ page_writers_ \in Seq(PageWriter)
      /\ todo \in Seq([key : Streams, value : Nat])
      /\ entries \in Seq(IndexEntry)
      /\ columns_ \in Seq(ColumnConfig) /\ Len(columns_) = 0
  OBVIOUS
<1>4. Len(columns_) <= MaxColumns /\ opened \in 0 .. Len(columns_)
  BY <1>3, WritersAssumption
<1> QED
  BY <1>1, <1>2, <1>3, <1>4
     DEF TypeInv, TypeOK, PositionOK, WriterStates

\* What a column registers are writers of its streams.
LEMMA PageWriterType ==
  ASSUME NEW i \in 1 .. MaxColumns, NEW c \in ColumnConfig,
         NEW t \in EntryType
  PROVE  pageWriter(i, c, t) \in PageWriter
<1>1. [column_id |-> c.column_id, entry_type |-> t] \in PageIndexKey
  BY DEF PageIndexKey, ColumnConfig
<1>2. <<i, t>> \in Streams
  BY DEF Streams
<1> QED
  BY <1>1, <1>2 DEF pageWriter, PageWriter

LEMMA RegisteredType ==
  ASSUME NEW i \in 1 .. MaxColumns, NEW c \in ColumnConfig
  PROVE  registered(i, c) \in Seq(PageWriter)
<1> DEFINE r == pageWriter(i, c, "RLEVEL")
           d == pageWriter(i, c, "DLEVEL")
           v == pageWriter(i, c, "DATA")
           R == IF c.rlevel_max > 0 THEN <<r, r>> ELSE <<>>
           D == IF c.dlevel_max > 0 THEN <<d, d>> ELSE <<>>
           V == <<v>>
<1>1. r \in PageWriter /\ d \in PageWriter /\ v \in PageWriter
  BY PageWriterType DEF EntryType
<1>2. registered(i, c) = R \o D \o V
  BY DEF registered
<1> HIDE DEF r, d, v
<1>3. R \in Seq(PageWriter) /\ D \in Seq(PageWriter) /\ V \in Seq(PageWriter)
  BY <1>1
<1> HIDE DEF R, D, V
<1>4. R \o D \in Seq(PageWriter)
  BY <1>3, ConcatProperties
<1> QED
  BY <1>2, <1>3, <1>4, ConcatProperties

\* What a column write appends is addressed to streams of that column.
LEMMA LevelsType ==
  ASSUME NEW i \in 1 .. MaxColumns, NEW c \in ColumnConfig, NEW r \in Nat,
         NEW d \in Nat
  PROVE  levels(i, c, r, d) \in Seq([key : Streams, value : Nat])
<1> DEFINE S == [key : Streams, value : Nat]
           x == [key |-> <<i, "RLEVEL">>, value |-> r]
           y == [key |-> <<i, "DLEVEL">>, value |-> d]
           R == IF c.rlevel_max > 0 THEN <<x>> ELSE <<>>
           D == IF c.dlevel_max > 0 THEN <<y>> ELSE <<>>
<1>1. x \in S /\ y \in S
  BY DEF Streams, EntryType
<1>2. levels(i, c, r, d) = R \o D
  BY DEF levels
<1> HIDE DEF x, y, S
<1>3. R \in Seq(S) /\ D \in Seq(S)
  BY <1>1
<1> HIDE DEF R, D
<1>5. R \o D \in Seq(S)
  BY <1>3, ConcatProperties
<1> QED
  BY <1>2, <1>5 DEF S

\* What writeIndex lists has the type of an index entry.
LEMMA ListedType ==
  ASSUME TypeOK, NEW w \in Streams
  PROVE  listed(w) \in Seq(PageEntry)
<1>1. pages_[w] \in Seq(PageEntry) /\ page_buf_[w] \in Seq(Nat)
      /\ page_[w] \in PageRef \cup {NoPage}
  BY DEF TypeOK
<1>2. CASE page_[w] = NoPage
  BY <1>1, <1>2 DEF listed
<1>3. CASE page_[w] # NoPage
  <2>1. [page |-> page_[w], used |-> Len(page_buf_[w])] \in PageEntry
    BY <1>1, <1>3, LenProperties DEF PageEntry
  <2> QED
    BY <1>1, <1>3, <2>1, AppendProperties DEF listed
<1> QED
  BY <1>2, <1>3

\* PageIndex::write stays within the registered writers: the entries of the
\* running commit never outnumber them.
LEMMA NextWriterType ==
  ASSUME TypeOK, PositionOK, pc = "index", ~ IndexBuilt
  PROVE  /\ page_writers_[Len(entries) + 1] \in PageWriter
         /\ page_writers_[Len(entries) + 1].stream \in Streams
<1>1. page_writers_[Len(entries) + 1] \in PageWriter
  BY LenProperties DEF TypeOK, PositionOK, IndexBuilt
<1> QED
  BY <1>1 DEF PageWriter

\* The entry writeIndex appends has its type.
LEMMA EntryOfWriterType ==
  ASSUME TypeOK, NEW p \in PageWriter
  PROVE  [key |-> p.key, stream |-> p.stream, pages |-> listed(p.stream)]
           \in IndexEntry
<1>1. p.key \in PageIndexKey /\ p.stream \in Streams
  BY DEF PageWriter
<1> QED
  BY <1>1, ListedType DEF IndexEntry

\* Every step of the model preserves the types.
LEMMA TypeNext == TypeInv /\ [Next]_vars => TypeInv'
<1> SUFFICES ASSUME TypeInv, [Next]_vars PROVE TypeInv'
  OBVIOUS
<1> USE DEF TypeInv, PositionOK
<1> USE SizesAssumption, WritersAssumption, TableAssumption,
        MarkersAssumption
<1>1. CASE CreateFile
  <2>1. PICK s \in Schemas : columns_' = s
                /\ pc' = IF s = <<>> THEN "idle" ELSE "opening"
    BY <1>1 DEF CreateFile
  <2>2. s \in Seq(ColumnConfig) /\ Len(s) <= MaxColumns /\ Len(s) \in Nat
    BY LenProperties
  <2>3. s # <<>> => Len(s) > 0
    BY <2>2, EmptySeq
  <2>4. opened = 0
    BY <1>1 DEF CreateFile
  <2>5. hdr' \in Header /\ hdr' # NoHeader
    BY <1>1 DEF CreateFile, Header
  <2> QED
    BY <1>1, <2>1, <2>2, <2>3, <2>4, <2>5
       DEF CreateFile, TypeOK, WriterStates
<1>2. CASE CreateFileRaises
  BY <1>2 DEF CreateFileRaises, TypeOK, WriterStates, fileVars, writerVars
<1>3. CASE OpenColumn
  <2>1. opened + 1 \in 1 .. Len(columns_) /\ Len(columns_) \in Nat
    BY <1>3 DEF OpenColumn, TypeOK
  <2>2. columns_[opened + 1] \in ColumnConfig /\ opened + 1 \in 1 .. MaxColumns
    BY <2>1 DEF TypeOK
  <2>3. registered(opened + 1, columns_[opened + 1]) \in Seq(PageWriter)
    BY <2>2, RegisteredType
  <2>4. page_writers_' \in Seq(PageWriter)
    BY <1>3, <2>3, ConcatProperties DEF OpenColumn, TypeOK
  <2> QED
    BY <1>3, <2>1, <2>4 DEF OpenColumn, TypeOK, WriterStates, fileVars
<1>4. CASE OpenColumnRaises
  BY <1>4 DEF OpenColumnRaises, LoseBuffers, TypeOK, WriterStates, fileVars,
              writerVars
<1>5. CASE WriteColumn
  <2> DEFINE S == [key : Streams, value : Nat]
  <2>0. PICK i \in 1 .. opened : \E r \in 0 .. columns_[i].rlevel_max :
          \/ \E v \in Values :
               writeUnsignedInt(i, columns_[i], r, columns_[i].dlevel_max, v)
          \/ \E d \in 0 .. (columns_[i].dlevel_max - 1) :
               writeNull(i, columns_[i], r, d)
    BY <1>5 DEF WriteColumn
  <2>1. PICK r \in 0 .. columns_[i].rlevel_max :
          \/ \E v \in Values :
               writeUnsignedInt(i, columns_[i], r, columns_[i].dlevel_max, v)
          \/ \E d \in 0 .. (columns_[i].dlevel_max - 1) :
               writeNull(i, columns_[i], r, d)
    BY <2>0
  <2>2. columns_[i] \in ColumnConfig /\ i \in 1 .. MaxColumns
    BY DEF TypeOK
  <2>3. r \in Nat /\ columns_[i].dlevel_max \in Nat
    BY <2>2 DEF ColumnConfig
  <2>4. todo' \in Seq(S)
    <3>1. ASSUME NEW v \in Values,
                 writeUnsignedInt(i, columns_[i], r, columns_[i].dlevel_max, v)
          PROVE  todo' \in Seq(S)
      <4>1. <<[key |-> <<i, "DATA">>, value |-> v]>> \in Seq(S)
        BY <2>2 DEF Streams, EntryType
      <4>2. levels(i, columns_[i], r, columns_[i].dlevel_max) \in Seq(S)
        BY <2>2, <2>3, LevelsType
      <4> QED
        BY <3>1, <4>1, <4>2, ConcatProperties DEF writeUnsignedInt
    <3>2. ASSUME NEW d \in 0 .. (columns_[i].dlevel_max - 1),
                 writeNull(i, columns_[i], r, d)
          PROVE  todo' \in Seq(S)
      <4>1. d \in Nat
        BY <2>3
      <4> QED
        BY <2>2, <2>3, <3>2, <4>1, LevelsType DEF writeNull
    <3> QED
      BY <2>1, <3>1, <3>2
  <2> QED
    BY <1>5, <2>4 DEF WriteColumn, TypeOK, fileVars, writerVars, Idle
<1>6. CASE AppendValue
  <2> DEFINE w == Head(todo).key
             v == Head(todo).value
  <2>1. w \in Streams /\ v \in Nat
        /\ todo' \in Seq([key : Streams, value : Nat])
    <3>1. todo \in Seq([key : Streams, value : Nat]) /\ todo # <<>>
          /\ todo' = Tail(todo)
      BY <1>6 DEF AppendValue, TypeOK
    <3>2. Head(todo) \in [key : Streams, value : Nat]
          /\ Tail(todo) \in Seq([key : Streams, value : Nat])
      BY <3>1, HeadTailProperties
    <3> QED
      BY <3>1, <3>2
  <2>2. page_[w] \in PageRef \cup {NoPage} /\ page_buf_[w] \in Seq(Nat)
        /\ pages_[w] \in Seq(PageEntry)
    BY <2>1 DEF TypeOK
  <2> HIDE DEF w, v
  <2>3. Append(page_buf_[w], v) \in Seq(Nat)
    BY <2>1, <2>2, AppendProperties
  <2>4. allocPage(kPageSize) \in PageRef
        /\ newOffset(allocPage(kPageSize)) \in Nat
    BY AllocType DEF TypeOK
  <2>5. CASE AppendToPage(w, v)
    BY <1>6, <2>1, <2>3, <2>5
       DEF AppendValue, AppendToPage, TypeOK, writerVars
  <2>6. CASE AppendToFirstPage(w, v)
    BY <1>6, <2>1, <2>3, <2>4, <2>6
       DEF AppendValue, AppendToFirstPage, TypeOK, writerVars
  <2>7. CASE AppendToNextPage(w, v)
    <3>1. [page |-> page_[w], used |-> Len(page_buf_[w])] \in PageEntry
      BY <2>2, <2>7, LenProperties DEF AppendToNextPage, PageEntry
    <3>2. pages_' \in [Streams -> Seq(PageEntry)]
      BY <2>1, <2>2, <2>7, <3>1, AppendProperties
         DEF AppendToNextPage, TypeOK
    <3>3. cache' \in [Addr -> Nat]
      BY <2>2, <2>7, WrittenType
         DEF AppendToNextPage, writePage, TypeOK, PageRef
    <3> QED
      BY <1>6, <2>1, <2>3, <2>4, <2>7, <3>2, <3>3
         DEF AppendValue, AppendToNextPage, TypeOK, writerVars
  <2> QED
    BY <1>6, <2>5, <2>6, <2>7 DEF AppendValue, appendValue, w, v
<1>7. CASE AppendValueRaises
  <2> DEFINE w == Head(todo).key
  <2>1. w \in Streams
    <3>1. todo \in Seq([key : Streams, value : Nat]) /\ todo # <<>>
      BY <1>7 DEF AppendValueRaises, TypeOK
    <3>2. Head(todo) \in [key : Streams, value : Nat]
      BY <3>1, HeadTailProperties
    <3> QED
      BY <3>2
  <2> HIDE DEF w
  <2>2. cache' \in [Addr -> Nat]
    <3>1. page_[w] \in PageRef /\ page_buf_[w] \in Seq(Nat)
      BY <1>7, <2>1 DEF AppendValueRaises, appendValueRaises, TypeOK, w
    <3>2. PICK n \in 0 .. (page_[w].size - 1) :
            cache' = Written(cache, page_[w], page_buf_[w], n)
      BY <1>7 DEF AppendValueRaises, appendValueRaises, writePageRaises, w
    <3>3. n \in Nat
      BY <3>1, <3>2 DEF PageRef
    <3> QED
      BY <3>1, <3>2, <3>3, WrittenType DEF TypeOK
  <2>3. todo' \in Seq([key : Streams, value : Nat])
    BY <1>7 DEF AppendValueRaises
  <2> QED
    BY <1>7, <2>2, <2>3
       DEF AppendValueRaises, appendValueRaises, TypeOK, writerVars
<1>8. CASE AddRows
  BY <1>8 DEF AddRows, Idle, TypeOK, fileVars
<1>9. CASE CommitBegin
  BY <1>9 DEF CommitBegin, Idle, TypeOK, fileVars, WriterStates, Committing
<1>10. CASE WriteIndexEntry
  <2> DEFINE p == page_writers_[Len(entries) + 1]
             w == p.stream
  <2>1. p \in PageWriter /\ w \in Streams
    BY <1>10, NextWriterType DEF WriteIndexEntry, PositionOK
  <2> HIDE DEF p, w, p
  <2>2. page_[w] \in PageRef \cup {NoPage} /\ page_buf_[w] \in Seq(Nat)
    BY <2>1 DEF TypeOK
  <2>3. cache' \in [Addr -> Nat]
    <3>1. CASE page_[w] = NoPage
      BY <1>10, <3>1 DEF WriteIndexEntry, writeIndex, flushOpenPage, TypeOK, w, p
    <3>2. CASE page_[w] # NoPage
      <4>1. cache' = Written(cache, page_[w], page_buf_[w], page_[w].size)
        BY <1>10, <3>2
           DEF WriteIndexEntry, writeIndex, flushOpenPage, writePage, w, p
      <4>2. page_[w] \in PageRef /\ page_[w].size \in Nat
        BY <2>2, <3>2 DEF PageRef
      <4> QED
        BY <2>2, <4>1, <4>2, WrittenType DEF TypeOK
    <3> QED
      BY <3>1, <3>2
  <2>4. [key |-> p.key, stream |-> p.stream, pages |-> listed(p.stream)]
          \in IndexEntry
    BY <2>1, EntryOfWriterType
  <2>5. entries' \in Seq(IndexEntry)
    BY <1>10, <2>4, AppendProperties DEF WriteIndexEntry, writeIndex, TypeOK, w, p
  <2>6. Len(entries') <= Len(page_writers_)
    <3>1. entries' = Append(entries, [key |-> p.key, stream |-> p.stream,
                                      pages |-> listed(p.stream)])
      BY <1>10 DEF WriteIndexEntry, writeIndex, w, p
    <3>2. Len(entries') = Len(entries) + 1
      BY <2>4, <3>1, AppendProperties DEF TypeOK
    <3>3. Len(entries) \in Nat /\ Len(page_writers_) \in Nat
      BY LenProperties DEF TypeOK
    <3> QED
      BY <1>10, <3>2, <3>3 DEF WriteIndexEntry, IndexBuilt
  <2> QED
    BY <1>10, <2>3, <2>5, <2>6 DEF WriteIndexEntry, TypeOK, writerVars
<1>11. CASE WriteIndexEntryRaises
  <2> DEFINE p == page_writers_[Len(entries) + 1]
             w == p.stream
  <2>1. p \in PageWriter /\ w \in Streams
    BY <1>11, NextWriterType DEF WriteIndexEntryRaises, PositionOK
  <2> HIDE DEF p, w, p
  <2>2. page_[w] \in PageRef /\ page_buf_[w] \in Seq(Nat)
    BY <1>11, <2>1 DEF WriteIndexEntryRaises, writeIndexRaises, TypeOK, w, p
  <2>3. PICK n \in 0 .. (page_[w].size - 1) :
          cache' = Written(cache, page_[w], page_buf_[w], n)
    BY <1>11 DEF WriteIndexEntryRaises, writeIndexRaises, writePageRaises, w, p
  <2>4. cache' \in [Addr -> Nat]
    <3>1. n \in Nat
      BY <2>2, <2>3 DEF PageRef
    <3> QED
      BY <2>2, <2>3, <3>1, WrittenType DEF TypeOK
  <2> QED
    BY <1>11, <2>4 DEF WriteIndexEntryRaises, TypeOK, writerVars, WriterStates
<1>12. CASE EmptyIndex
  BY <1>12 DEF EmptyIndex, LoseBuffers, TypeOK, fileVars, writerVars,
               WriterStates
<1>13. CASE ReuseIndexRaises
  BY <1>13 DEF ReuseIndexRaises, TypeOK, fileVars, writerVars, WriterStates
<1>14. CASE WriteIndexPage
  <2>1. PICK size \in IndexSizes :
          /\ offset_' = newOffset(NewIndexPage(size))
          /\ \/ /\ idxCache' = [idxCache EXCEPT ![NewIndexPage(size).offset]
                                               = entries]
                /\ idx_head' = NewIndexPage(size)
                /\ pc' = "fsync1"
             \/ /\ pc' = "idle"
                /\ UNCHANGED <<idxCache, idx_head>>
    BY <1>14 DEF WriteIndexPage
  <2>2. NewIndexPage(size) \in PageRef /\ newOffset(NewIndexPage(size)) \in Nat
    BY IndexPageType DEF TypeOK
  <2>3. pc' \in WriterStates /\ pc' \notin {"absent", "dead", "opening"}
    BY <2>1 DEF WriterStates, Committing
  <2>4. idxCache' \in [Addr -> Seq(IndexEntry) \cup {NoIndex}]
    BY <2>1 DEF TypeOK
  <2>5. /\ idx_head' \in PageRef \cup {NoPage}
        /\ pc' \in {"fsync1", "meta", "fsync2"} => idx_head' # NoPage
    BY <2>1, <2>2 DEF TypeOK
  <2>6. offset_' \in Nat
    BY <2>1, <2>2
  <2> QED
    BY <1>14, <2>3, <2>4, <2>5, <2>6 DEF WriteIndexPage, TypeOK
<1>15. CASE FSyncPages
  BY <1>15 DEF FSyncPages, fsync, TypeOK, writerVars, WriterStates,
               Committing
<1>16. CASE WriteMetaBlock
  <2>1. newMetaBlock \in MetaBlock
    BY <1>16 DEF WriteMetaBlock, newMetaBlock, MetaBlock, TypeOK,
                 current_txid_, getOffset
  <2> QED
    BY <1>16, <2>1, ZenonT(60) DEF WriteMetaBlock, writeMetaBlock, TypeOK, writerVars,
               WriterStates, Committing, Header
<1>17. CASE FSyncMetaBlock
  BY <1>17 DEF FSyncMetaBlock, fsync, TypeOK, WriterStates
<1>18. CASE FSyncMetaBlockRaises
  BY <1>18 DEF FSyncMetaBlockRaises, TypeOK, fileVars, writerVars,
               WriterStates
<1>19. ASSUME NEW r \in Readers, OpenFile(r) PROVE TypeInv'
  BY <1>19, OpenHeaderType DEF OpenFile, TypeOK, fileVars, writerVars
<1>20. ASSUME NEW r \in Readers, CloseFile(r) PROVE TypeInv'
  BY <1>20 DEF CloseFile, TypeOK, fileVars, writerVars
<1>21. CASE WriterEnds
  BY <1>21 DEF WriterEnds, LoseBuffers, TypeOK, fileVars, writerVars,
               WriterStates
<1>22. CASE KernelWritesBack
  BY <1>22, ZenonT(60) DEF KernelWritesBack, WriteBack, WriteBackSector, WriteBackIndex,
               WriteBackHeader, TypeOK, writerVars
<1>23. CASE PowerLoss
  BY <1>23 DEF PowerLoss, LoseCache, LoseBuffers, TypeOK, writerVars,
               WriterStates
<1>24. CASE UNCHANGED vars
  BY <1>24 DEF vars, TypeOK
<1> QED
  BY <1>1, <1>2, <1>3, <1>4, <1>5, <1>6, <1>7, <1>8, <1>9, <1>10, <1>11,
     <1>12, <1>13, <1>14, <1>15, <1>16, <1>17, <1>18, <1>19, <1>20, <1>21,
     <1>22, <1>23, <1>24 DEF Next, CommitStep

\* Type correctness: every member keeps its type over every interleaving of
\* the writer, the readers, the kernel and power losses.
THEOREM TypeCorrect == Spec => []TypeOK
<1>1. Spec => []TypeInv
  BY TypeInit, TypeNext, PTL DEF Spec
<1>2. TypeInv => TypeOK
  BY DEF TypeInv
<1> QED
  BY <1>1, <1>2, PTL

=============================================================================
