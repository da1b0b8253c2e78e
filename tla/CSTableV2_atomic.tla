-------------------------- MODULE CSTableV2_atomic ---------------------------
(***************************************************************************)
(* CSTableV2 implements AtomicTable.                                       *)
(*                                                                         *)
(* The argument: a commit publishes every stream, because the constructor  *)
(* registers the streams of every column and no others before anything can *)
(* be committed (StreamsRegistered), and a commit serialises one entry per *)
(* registered writer while no stream changes, so that the index it         *)
(* publishes is what the page writers hold (EntriesCurrent).               *)
(*                                                                         *)
(* What a metablock in use denotes never changes, in the kernel or on the  *)
(* disk, and is the same in both (StoredFixed, from the write-ahead rule); *)
(* so a step changes an abstract variable only through the header or a     *)
(* reader's metablock.  The one step that writes the header publishes the  *)
(* index that commitV2 has just built, which denotes what the page writers *)
(* hold (PublishesMemory, from EntriesCurrent and BuffersHold).            *)
(***************************************************************************)
EXTENDS CSTableV2_durable

----------------------------------------------------------------------------
(* The constructor registers every stream. *)

\* A writer is a member of a list of registered writers.
Has(s, x) == \E k \in DOMAIN s : s[k] = x

\* A concatenation has what one of its parts has.
LEMMA ConcatHas ==
  ASSUME NEW s \in Seq(PageWriter), NEW r \in Seq(PageWriter), NEW x
  PROVE  Has(s \o r, x) <=> Has(s, x) \/ Has(r, x)
<1>1. /\ s \o r \in Seq(PageWriter) /\ Len(s \o r) = Len(s) + Len(r)
      /\ Len(s) \in Nat /\ Len(r) \in Nat
  BY ConcatProperties, LenProperties
<1>2. ASSUME NEW k \in DOMAIN s
      PROVE  k \in DOMAIN (s \o r) /\ (s \o r)[k] = s[k]
  BY <1>1
<1>3. ASSUME NEW k \in DOMAIN r
      PROVE  k + Len(s) \in DOMAIN (s \o r) /\ (s \o r)[k + Len(s)] = r[k]
  BY <1>1
<1>4. ASSUME NEW k \in DOMAIN (s \o r)
      PROVE  \/ k \in DOMAIN s /\ (s \o r)[k] = s[k]
             \/ k - Len(s) \in DOMAIN r /\ (s \o r)[k] = r[k - Len(s)]
  BY <1>1
<1> QED
  BY <1>1, <1>2, <1>3, <1>4 DEF Has

\* registered lists the writers of the streams that a column has, and no other.
LEMMA RegisteredExactly ==
  ASSUME NEW i \in 1 .. MaxColumns, NEW c \in ColumnConfig, NEW x
  PROVE  Has(registered(i, c), x) <=>
           \/ x = pageWriter(i, c, "DATA")
           \/ c.rlevel_max > 0 /\ x = pageWriter(i, c, "RLEVEL")
           \/ c.dlevel_max > 0 /\ x = pageWriter(i, c, "DLEVEL")
<1> DEFINE w(t) == pageWriter(i, c, t)
           rl == IF c.rlevel_max > 0 THEN <<w("RLEVEL"), w("RLEVEL")>> ELSE <<>>
           dl == IF c.dlevel_max > 0 THEN <<w("DLEVEL"), w("DLEVEL")>> ELSE <<>>
           da == <<w("DATA")>>
<1>1. registered(i, c) = (rl \o dl) \o da
  BY DEF registered
<1>2. /\ w("RLEVEL") \in PageWriter /\ w("DLEVEL") \in PageWriter
      /\ w("DATA") \in PageWriter
  BY PageWriterType DEF EntryType
<1> HIDE DEF w
<1>3. rl \in Seq(PageWriter) /\ dl \in Seq(PageWriter) /\ da \in Seq(PageWriter)
  BY <1>2
<1>4. /\ Has(rl, x) <=> c.rlevel_max > 0 /\ x = w("RLEVEL")
      /\ Has(dl, x) <=> c.dlevel_max > 0 /\ x = w("DLEVEL")
      /\ Has(da, x) <=> x = w("DATA")
  BY DEF Has
<1> HIDE DEF rl, dl, da
<1>5. rl \o dl \in Seq(PageWriter)
  BY <1>3, ConcatProperties
<1>6. Has((rl \o dl) \o da, x) <=> (Has(rl, x) \/ Has(dl, x)) \/ Has(da, x)
  BY <1>3, <1>5, ConcatHas
<1> QED
  BY <1>1, <1>4, <1>6 DEF w

\* A column writer registers the page writers of its streams.
LEMMA OpenColumnRegisters ==
  ASSUME TypeInv, TypeInv', StreamsRegistered, OpenColumn
  PROVE  StreamsRegistered'
<1> USE DEF TypeInv
<1> DEFINE c == columns_[opened + 1]
           r == registered(opened + 1, c)
<1>1. /\ pc = "opening" /\ opened' = opened + 1 /\ UNCHANGED columns_
      /\ page_writers_' = page_writers_ \o r
      /\ pc' = IF opened + 1 = Len(columns_) THEN "idle" ELSE "opening"
  BY DEF OpenColumn
<1>2. /\ columns_ \in Seq(ColumnConfig) /\ Len(columns_) \in Nat
      /\ opened \in Nat /\ opened < Len(columns_) /\ Len(columns_) <= MaxColumns
  BY <1>1, LenProperties DEF TypeOK, PositionOK
<1>3. opened + 1 \in 1 .. Len(columns_) /\ c \in ColumnConfig
  BY <1>2
<1>4. opened + 1 \in 1 .. MaxColumns
  BY <1>2, WritersAssumption
<1>5. r \in Seq(PageWriter) /\ page_writers_ \in Seq(PageWriter)
  BY <1>3, <1>4, RegisteredType DEF TypeOK
<1>6. ASSUME NEW x
      PROVE  Has(r, x) <=> x \in WritersOf(opened + 1)
  BY <1>3, <1>4, RegisteredExactly DEF WritersOf
<1> HIDE DEF r
<1>7. ASSUME NEW x
      PROVE  Has(page_writers_', x) <=> Has(page_writers_, x) \/ Has(r, x)
  BY <1>1, <1>5, ConcatHas
<1>8. ASSUME NEW i \in 1 .. (opened + 1), NEW w \in WritersOf(i)
      PROVE  Has(page_writers_', w)
  <2>1. CASE i \in 1 .. opened
    BY <1>1, <1>7, <1>8, <2>1 DEF StreamsRegistered, Has
  <2>2. CASE i = opened + 1
    BY <1>6, <1>7, <1>8, <2>2
  <2> QED
    BY <1>2, <2>1, <2>2
<1>9. ASSUME NEW k \in DOMAIN page_writers_'
      PROVE  \E i \in 1 .. (opened + 1) : page_writers_'[k] \in WritersOf(i)
  <2>1. PICK x : x = page_writers_'[k]
    OBVIOUS
  <2>2. Has(page_writers_, x) \/ x \in WritersOf(opened + 1)
    BY <1>6, <1>7, <1>9, <2>1 DEF Has
  <2>3. ASSUME Has(page_writers_, x)
        PROVE  \E i \in 1 .. opened : x \in WritersOf(i)
    BY <1>1, <2>3 DEF Has, StreamsRegistered
  <2> QED
    BY <1>2, <2>1, <2>2, <2>3
<1>10. \A i : WritersOf(i)' = WritersOf(i)
  BY <1>1 DEF WritersOf
<1> QED
  BY <1>1, <1>8, <1>9, <1>10 DEF StreamsRegistered, Committing, Has

\* Every step keeps every stream of an open column registered.
LEMMA RegisteredNext ==
  ASSUME TypeInv, TypeInv', StreamsRegistered, [Next]_vars
  PROVE  StreamsRegistered'
<1> USE DEF TypeInv
<1>1. CASE CreateFile
  <2>1. /\ opened' = 0 /\ pc' \in {"idle", "opening"}
        /\ pc' = "idle" => columns_' = <<>>
        /\ page_writers_' = <<>>
    BY <1>1 DEF CreateFile, PositionOK, StreamsRegistered
  <2> QED
    BY <2>1 DEF StreamsRegistered, Committing
<1>2. CASE OpenColumn
  BY <1>2, OpenColumnRegisters
<1>3. CASE pc' = "dead"
  BY <1>3 DEF StreamsRegistered, Committing
<1>4. CASE /\ UNCHANGED <<columns_, opened, page_writers_>>
           /\ \/ pc' = pc
              \/ pc' \in {"idle"} \cup Committing /\ pc \in {"idle"} \cup Committing
  <2>1. \A i : WritersOf(i)' = WritersOf(i)
    BY <1>4 DEF WritersOf
  <2> QED
    BY <1>4, <2>1 DEF StreamsRegistered, Committing
<1> QED
  BY <1>1, <1>2, <1>3, <1>4
     DEF Next, CommitStep, vars, writerVars, Committing, CreateFileRaises,
         OpenColumnRaises, WriteColumn, AppendValue, AppendValueRaises,
         AddRows, CommitBegin, Idle, WriteIndexEntry, WriteIndexEntryRaises,
         EmptyIndex, ReuseIndexRaises, WriteIndexPage, FSyncPages,
         WriteMetaBlock, FSyncMetaBlock, FSyncMetaBlockRaises, WriterEnds,
         KernelWritesBack, PowerLoss, OpenFile, CloseFile

----------------------------------------------------------------------------
(* What a commit serialises is what the page writers hold. *)

\* The index entry of a stream depends on its page writer alone.
LEMMA EntryOfSame ==
  ASSUME UNCHANGED <<page_, page_buf_, pages_>>
  PROVE  \A p : EntryOf(p)' = EntryOf(p)
BY DEF EntryOf, listed

\* During a commit nothing is registered or appended.
LEMMA CommitFreezes ==
  ASSUME [Next]_vars, pc' \in Committing
  PROVE  UNCHANGED <<page_writers_, page_, page_buf_, pages_>>
BY DEF Next, CommitStep, vars, CreateFile, CreateFileRaises, OpenColumn,
       OpenColumnRaises, WriteColumn, AppendValue, AppendValueRaises,
       AddRows, CommitBegin, WriteIndexEntry, WriteIndexEntryRaises,
       EmptyIndex, ReuseIndexRaises, WriteIndexPage, FSyncPages,
       WriteMetaBlock, FSyncMetaBlock, FSyncMetaBlockRaises, WriterEnds,
       KernelWritesBack, PowerLoss, OpenFile, CloseFile, Committing

\* The index that is complete lists every writer in turn.
LEMMA BuiltIndex ==
  ASSUME TypeOK, IndexBuilt,
         \A k \in DOMAIN entries : entries[k] = EntryOf(page_writers_[k])
  PROVE  entries = [k \in DOMAIN page_writers_ |-> EntryOf(page_writers_[k])]
<1>1. entries \in Seq(IndexEntry) /\ page_writers_ \in Seq(PageWriter)
  BY DEF TypeOK
<1>2. DOMAIN entries = DOMAIN page_writers_
  BY <1>1, LenProperties DEF IndexBuilt
<1>3. entries = [k \in DOMAIN entries |-> entries[k]]
  BY <1>1, LenProperties
<1> QED
  BY <1>2, <1>3

\* The entries written so far stay those of the page writers.
LEMMA EntriesNext ==
  ASSUME TypeInv, TypeInv', EntriesCurrent, [Next]_vars
  PROVE  EntriesCurrent'
<1> USE DEF TypeInv
<1> SUFFICES ASSUME pc' \in Committing PROVE EntriesCurrent'
  BY DEF EntriesCurrent, Committing
<1>1. /\ UNCHANGED page_writers_
      /\ \A p : EntryOf(p)' = EntryOf(p)
  BY CommitFreezes, EntryOfSame
<1>2. ASSUME pc' = "index"
      PROVE  \A k \in DOMAIN entries' : entries'[k] = EntryOf(page_writers_[k])
  <2>1. CASE CommitBegin
    BY <2>1 DEF CommitBegin
  <2>2. CASE WriteIndexEntry
    <3> DEFINE w == page_writers_[Len(entries) + 1]
    <3>1. pc = "index" /\ entries' = Append(entries, EntryOf(w))
      BY <2>2 DEF WriteIndexEntry, writeIndex, EntryOf
    <3>2. w \in PageWriter
      BY <2>2, NextWriterType DEF WriteIndexEntry
    <3>3. EntryOf(w) \in IndexEntry /\ entries \in Seq(IndexEntry)
      BY <3>2, EntryOfWriterType DEF EntryOf, TypeOK
    <3>4. ASSUME NEW k \in DOMAIN entries'
          PROVE  entries'[k] = EntryOf(page_writers_[k])
      <4>1. /\ k \in 1 .. (Len(entries) + 1) /\ Len(entries) \in Nat
            /\ k \in 1 .. Len(entries) => entries'[k] = entries[k]
            /\ entries'[Len(entries) + 1] = EntryOf(w)
        BY <3>1, <3>3, <3>4, AppendProperties, LenProperties
      <4>2. CASE k = Len(entries) + 1
        BY <4>1, <4>2
      <4>3. CASE k \in 1 .. Len(entries)
        <5>1. k \in DOMAIN entries
          BY <3>3, <4>3
        <5> QED
          BY <3>1, <4>1, <4>3, <5>1 DEF EntriesCurrent
      <4> QED
        BY <4>1, <4>2, <4>3
    <3> QED
      BY <3>4
  <2>3. CASE pc = "index" /\ UNCHANGED entries
    BY <2>3 DEF EntriesCurrent
  <2> QED
    BY <1>2, <2>1, <2>2, <2>3
       DEF Next, CommitStep, vars, CreateFile, CreateFileRaises, OpenColumn,
           OpenColumnRaises, WriteColumn, AppendValue, AppendValueRaises,
           AddRows, WriteIndexEntryRaises, EmptyIndex, ReuseIndexRaises,
           WriteIndexPage, FSyncPages, WriteMetaBlock, FSyncMetaBlock,
           FSyncMetaBlockRaises, WriterEnds, KernelWritesBack, PowerLoss,
           OpenFile, CloseFile, Idle
<1>3. ASSUME pc' \in {"fsync1", "meta"}
      PROVE  idxCache'[idx_head'.offset]
               = [k \in DOMAIN page_writers_ |-> EntryOf(page_writers_[k])]
  <2>1. CASE WriteIndexPage
    <3>1. pc = "index" /\ pc' = "fsync1" /\ IndexBuilt
      BY <1>3, <2>1 DEF WriteIndexPage
    <3>2. entries = [k \in DOMAIN page_writers_ |-> EntryOf(page_writers_[k])]
      BY <3>1, BuiltIndex DEF EntriesCurrent
    <3>3. PICK size \in IndexSizes :
            LET p == NewIndexPage(size)
            IN  /\ Fits(p) /\ idx_head' = p
                /\ idxCache' = [idxCache EXCEPT ![p.offset] = entries]
      BY <2>1, <3>1 DEF WriteIndexPage
    <3> DEFINE p == NewIndexPage(size)
    <3>4. p \in PageRef /\ p.size > 0
      BY IndexPageType DEF TypeOK
    <3>5. p.offset \in Addr
      BY <3>3, <3>4, SizesAssumption DEF Fits, Addr, PageRef
    <3> HIDE DEF p
    <3>6. idxCache'[idx_head'.offset] = entries
      BY <3>3, <3>5 DEF p, TypeOK
    <3> QED
      BY <3>2, <3>6
  <2>2. CASE ~ WriteIndexPage
    <3>1. pc \in {"fsync1", "meta"} /\ UNCHANGED <<idxCache, idx_head>>
      BY <1>3, <2>2
         DEF Next, CommitStep, vars, fileVars, writerVars, CreateFile,
             CreateFileRaises, OpenColumn, OpenColumnRaises, WriteColumn,
             AppendValue, AppendValueRaises, AddRows, CommitBegin,
             WriteIndexEntry, WriteIndexEntryRaises, EmptyIndex,
             ReuseIndexRaises, FSyncPages, WriteMetaBlock, FSyncMetaBlock,
             FSyncMetaBlockRaises, WriterEnds, KernelWritesBack, WriteBack,
             PowerLoss, OpenFile, CloseFile
    <3> QED
      BY <3>1 DEF EntriesCurrent
  <2> QED
    BY <2>1, <2>2
<1> QED
  BY <1>1, <1>2, <1>3 DEF EntriesCurrent

----------------------------------------------------------------------------
(* What is published. *)

\* A stream gets its first value together with its first page.
LEMMA NoValuesNext ==
  ASSUME TypeInv, NoPageNoValues, [Next]_vars
  PROVE  NoPageNoValues'
<1> USE DEF TypeInv
<1>1. CASE UNCHANGED <<page_, page_buf_>>
  BY <1>1 DEF NoPageNoValues
<1>2. CASE LoseBuffers
  BY <1>2 DEF LoseBuffers, NoPageNoValues
<1>3. CASE AppendValue
  <2>1. PICK w \in Streams : w = Head(todo).key
    BY <1>3, HeadOfTodo DEF AppendValue
  <2>2. PICK v : v = Head(todo).value
    OBVIOUS
  <2>3. allocPage(kPageSize) # NoPage
    BY AllocType, WritersAssumption, MarkersAssumption DEF TypeOK
  <2>4. /\ page_'[w] # NoPage
        /\ \A x \in Streams \ {w} :
             page_'[x] = page_[x] /\ page_buf_'[x] = page_buf_[x]
    <3>1. CASE AppendToPage(w, v)
      BY <3>1 DEF AppendToPage, NeedsPage, TypeOK
    <3>2. CASE AppendToFirstPage(w, v)
      BY <2>3, <3>2 DEF AppendToFirstPage, TypeOK
    <3>3. CASE AppendToNextPage(w, v)
      BY <2>3, <3>3 DEF AppendToNextPage, TypeOK
    <3> QED
      BY <1>3, <2>1, <2>2, <3>1, <3>2, <3>3 DEF AppendValue, appendValue
  <2> QED
    BY <2>4 DEF NoPageNoValues
<1> QED
  BY <1>1, <1>2, <1>3
     DEF Next, CommitStep, vars, CreateFile, CreateFileRaises, OpenColumn,
         OpenColumnRaises, WriteColumn, AppendValueRaises, appendValueRaises,
         AddRows, CommitBegin, WriteIndexEntry, WriteIndexEntryRaises,
         EmptyIndex, ReuseIndexRaises, WriteIndexPage, FSyncPages,
         WriteMetaBlock, FSyncMetaBlock, FSyncMetaBlockRaises, WriterEnds,
         KernelWritesBack, PowerLoss, OpenFile, CloseFile

\* The index pages and the page writers agree, wherever the writer is.
THEOREM IndexInvariant == Spec => []IndexInv
<1>1. Init => IndexInv
  BY DEF Init, FileInit, PageWritersInit, IndexInv, StreamsRegistered,
         EntriesCurrent, NoPageNoValues, Committing
<1>2. TypeInv /\ TypeInv' /\ IndexInv /\ [Next]_vars => IndexInv'
  BY RegisteredNext, EntriesNext, NoValuesNext DEF IndexInv
<1>3. Spec => []TypeInv
  BY TypeInit, TypeNext, PTL DEF Spec
<1> QED
  BY <1>1, <1>2, <1>3, PTL DEF Spec

\* What writeIndex appends for a writer lists all of its stream.
LEMMA EntryListsAll ==
  ASSUME TypeOK, NoPageNoValues, NEW p \in PageWriter
  PROVE  ListsAll(EntryOf(p), p)
<1>1. PICK w \in Streams : w = p.stream
  BY DEF PageWriter
<1>2. PICK ps : ps = listed(w)
  OBVIOUS
<1>3. pages_[w] \in Seq(PageEntry) /\ ps \in Seq(PageEntry)
  BY <1>2, ListedType DEF TypeOK
<1>4. CASE page_[w] = NoPage
  <2>1. ps = pages_[w] /\ page_buf_[w] = <<>>
    BY <1>2, <1>4 DEF listed, NoPageNoValues
  <2>2. {ps[j].page : j \in DOMAIN ps} = StreamPages(w)
    BY <1>4, <2>1 DEF StreamPages
  <2> QED
    BY <1>1, <1>2, <2>1, <2>2 DEF ListsAll, EntryOf
<1>5. CASE page_[w] # NoPage
  <2>1. PICK n : n = [page |-> page_[w], used |-> Len(page_buf_[w])]
    OBVIOUS
  <2>2. n \in PageEntry
    BY <1>5, <2>1, LenProperties DEF TypeOK, PageEntry
  <2>3. ps = Append(pages_[w], n)
    BY <1>2, <1>5, <2>1 DEF listed
  <2>4. /\ Len(pages_[w]) \in Nat /\ DOMAIN pages_[w] = 1 .. Len(pages_[w])
        /\ Len(ps) = Len(pages_[w]) + 1 /\ DOMAIN ps = 1 .. Len(ps)
        /\ \A j \in DOMAIN pages_[w] : ps[j] = pages_[w][j]
        /\ ps[Len(ps)] = n
    BY <1>3, <2>2, <2>3, AppendProperties, LenProperties
  <2>5. ps # <<>>
    BY <2>4
  <2>6. {ps[j].page : j \in DOMAIN ps} = StreamPages(w)
    <3>1. ASSUME NEW j \in DOMAIN ps
          PROVE  ps[j].page \in StreamPages(w)
      <4>1. j \in DOMAIN pages_[w] \/ j = Len(ps)
        BY <2>4
      <4> QED
        BY <1>5, <2>1, <2>4, <4>1 DEF StreamPages
    <3>2. ASSUME NEW q \in StreamPages(w)
          PROVE  \E j \in DOMAIN ps : q = ps[j].page
      <4>1. CASE q = page_[w]
        <5>1. Len(ps) \in DOMAIN ps /\ ps[Len(ps)].page = q
          BY <2>1, <2>4, <4>1
        <5> QED
          BY <5>1
      <4>2. ASSUME NEW j \in DOMAIN pages_[w], q = pages_[w][j].page
            PROVE  j \in DOMAIN ps /\ ps[j].page = q
        BY <2>4, <4>2
      <4> QED
        BY <3>2, <4>1, <4>2 DEF StreamPages
    <3> QED
      BY <3>1, <3>2
  <2>7. ps[Len(ps)].used = Len(page_buf_[w])
    BY <2>1, <2>4
  <2> QED
    BY <1>1, <1>2, <2>5, <2>6, <2>7 DEF ListsAll, EntryOf
<1> QED
  BY <1>4, <1>5

\* What becomes visible, for the index of one metablock.
PublishesAll(index) ==
  /\ \A p \in SchemaWriters : \E k \in DOMAIN index : ListsAll(index[k], p)
  /\ \A k \in DOMAIN index : \E p \in SchemaWriters : ListsAll(index[k], p)

\* The index commitV2 has built before it writes the metablock is complete.
LEMMA BuiltListsAll ==
  ASSUME TypeInv, IndexInv, pc = "meta"
  PROVE  PublishesAll(idxCache[idx_head.offset])
<1> USE DEF TypeInv
<1>1. PICK ix : ix = idxCache[idx_head.offset]
  OBVIOUS
<1>2. ix = [k \in DOMAIN page_writers_ |-> EntryOf(page_writers_[k])]
  BY <1>1 DEF IndexInv, EntriesCurrent
<1>3. /\ DOMAIN ix = DOMAIN page_writers_
      /\ \A k \in DOMAIN page_writers_ : ix[k] = EntryOf(page_writers_[k])
  BY <1>2
<1>4. DOMAIN columns_ = 1 .. opened
  <2>1. columns_ \in Seq(ColumnConfig) /\ opened = Len(columns_)
    BY DEF TypeOK, IndexInv, StreamsRegistered, Committing
  <2> QED
    BY <2>1
<1>5. ASSUME NEW k \in DOMAIN page_writers_
      PROVE  /\ page_writers_[k] \in SchemaWriters
             /\ ListsAll(ix[k], page_writers_[k])
  <2>1. page_writers_[k] \in SchemaWriters
    BY <1>4 DEF IndexInv, StreamsRegistered, SchemaWriters
  <2>2. page_writers_[k] \in PageWriter
    BY DEF TypeOK
  <2> QED
    BY <1>3, <2>1, <2>2, EntryListsAll DEF IndexInv
<1>6. ASSUME NEW p \in SchemaWriters
      PROVE  \E k \in DOMAIN page_writers_ : page_writers_[k] = p
  BY <1>4 DEF IndexInv, StreamsRegistered, SchemaWriters
<1> QED
  BY <1>1, <1>3, <1>5, <1>6 DEF PublishesAll

\* Whatever columns, ids, pages, failures and commits came before: the index of
\* a version that becomes visible has, for every stream of the schema, an entry
\* under its column id that lists all pages of the stream up to the last value
\* appended, and has no other entries.
THEOREM EveryStreamPublished == Spec => PublishesEveryStream
<1>1. TypeInv /\ IndexInv /\ [Next]_vars =>
        [\A m \in InUse' \ InUse :
           LET index == idxCache'[m.head.offset]
           IN  /\ \A p \in SchemaWriters : \E k \in DOMAIN index :
                    ListsAll(index[k], p)
               /\ \A k \in DOMAIN index : \E p \in SchemaWriters :
                    ListsAll(index[k], p)]_vars
  <2> SUFFICES ASSUME TypeInv, IndexInv, [Next]_vars,
                      NEW m \in InUse' \ InUse
               PROVE  PublishesAll(idxCache'[m.head.offset])
    BY DEF PublishesAll
  <2>1. WriteMetaBlock /\ m = newMetaBlock
    BY InUseStep
  <2>2. pc = "meta" /\ m.head = idx_head /\ UNCHANGED idxCache
    BY <2>1 DEF WriteMetaBlock, newMetaBlock
  <2> QED
    BY <2>2, BuiltListsAll
<1>2. Spec => []TypeInv
  BY TypeInit, TypeNext, PTL DEF Spec
<1> QED
  BY <1>1, <1>2, IndexInvariant, PTL DEF Spec, PublishesEveryStream

----------------------------------------------------------------------------
(* The refinement of AtomicTable: what a metablock denotes. *)

\* The words of the pages that an index lists.
PagesOf(f, ix) ==
  [k \in DOMAIN ix |->
     [key |-> ix[k].key,
      pages |-> [j \in DOMAIN ix[k].pages |->
                   [a \in Payload(ix[k].pages[j]) |-> f[a]]]]]

\* The table that a metablock and its index describe.
LEMMA StoredUnfolds ==
  ASSUME NEW f, NEW idx, NEW m, m # NoMetaBlock,
         idx[m.head.offset] # NoIndex
  PROVE  Stored(f, idx, m)
           = [rows |-> m.num_rows, streams |-> PagesOf(f, idx[m.head.offset])]
BY DEF Stored, PagesOf

\* A file without a metablock holds no table.
LEMMA NothingStored ==
  ASSUME NEW f, NEW idx
  PROVE  Stored(f, idx, NoMetaBlock) = NoTable
BY DEF Stored

\* Two files that agree on the words an index lists agree on its pages.
LEMMA PagesAgree ==
  ASSUME NEW ix, NEW f, NEW g,
         \A e \in ListedPages(ix) : \A a \in Payload(e) : f[a] = g[a]
  PROVE  PagesOf(f, ix) = PagesOf(g, ix)
<1>1. ASSUME NEW k \in DOMAIN ix, NEW j \in DOMAIN ix[k].pages
      PROVE  [a \in Payload(ix[k].pages[j]) |-> f[a]]
               = [a \in Payload(ix[k].pages[j]) |-> g[a]]
  <2>1. ix[k].pages[j] \in ListedPages(ix)
    BY DEF ListedPages
  <2> QED
    BY <2>1
<1> QED
  BY <1>1 DEF PagesOf

\* A metablock in use denotes the same version before and after every step,
\* in the kernel and on the disk.
LEMMA StoredFixed ==
  ASSUME StoreInv, StoreInv', [Next]_vars, NEW m \in InUse
  PROVE  /\ Stored(disk, idxDisk, m) = Stored(cache, idxCache, m)
         /\ Stored(cache', idxCache', m) = Stored(cache, idxCache, m)
         /\ Stored(disk', idxDisk', m) = Stored(cache, idxCache, m)
<1>1. /\ TypeInv /\ TypeInv' /\ Layout /\ BuffersHold /\ PublishedIsDurable
  BY DEF StoreInv, TypeInv
<1>2. m.head \in IndexPages /\ Durable(m) /\ m # NoMetaBlock
  BY <1>1 DEF IndexPages, PublishedIsDurable, InUse, HeaderBlocks
<1>3. Durable(m)' /\ idxCache'[m.head.offset] = idxCache[m.head.offset]
  BY <1>1, <1>2, DurableStep
<1>4. PICK ix : ix = idxCache[m.head.offset]
  OBVIOUS
<1>5. /\ idxDisk[m.head.offset] = ix /\ idxCache'[m.head.offset] = ix
      /\ idxDisk'[m.head.offset] = ix /\ ix # NoIndex
  BY <1>2, <1>3, <1>4 DEF Durable
<1>6. ASSUME NEW e \in ListedPages(ix), NEW a \in Payload(e)
      PROVE  disk[a] = cache[a] /\ disk'[a] = cache[a] /\ cache'[a] = cache[a]
  <2>1. a \in Addr /\ disk[a] = cache[a]
    BY <1>2, <1>5, <1>6 DEF Durable
  <2>2. disk'[a] = cache'[a]
    BY <1>3, <1>5, <1>6 DEF Durable
  <2> QED
    BY <1>1, <2>1, <2>2, DiskStep
<1>7. /\ PagesOf(disk, ix) = PagesOf(cache, ix)
      /\ PagesOf(cache', ix) = PagesOf(cache, ix)
      /\ PagesOf(disk', ix) = PagesOf(cache, ix)
  BY <1>6, PagesAgree
<1> QED
  BY <1>2, <1>4, <1>5, <1>7, StoredUnfolds

\* What can be opened is in use.
LEMMA OpenInUse ==
  ASSUME TypeInv
  PROVE  /\ openHeader(hdr) # NoMetaBlock => openHeader(hdr) \in InUse
         /\ openHeader(hdrDisk) # NoMetaBlock => openHeader(hdrDisk) \in InUse
         /\ \A r \in Readers : rd[r] # NoMetaBlock => rd[r] \in InUse
<1>1. /\ hdr \in Header \cup {NoHeader} /\ hdrDisk \in Header \cup {NoHeader}
  BY DEF TypeInv, TypeOK
<1>2. /\ openHeader(hdr) # NoMetaBlock => openHeader(hdr) \in HeaderBlocks(hdr)
      /\ openHeader(hdrDisk) # NoMetaBlock =>
           openHeader(hdrDisk) \in HeaderBlocks(hdrDisk)
  BY <1>1, OpenHeaderType DEF HeaderBlocks
<1> QED
  BY <1>2 DEF InUse

\* A reachable version is a version, and no marker.
LEMMA StoredIsVersion ==
  ASSUME StoreInv, NEW m \in InUse
  PROVE  Stored(cache, idxCache, m) # NoTable
<1>1. TypeOK /\ PublishedIsDurable
  BY DEF StoreInv
<1>2. Durable(m) /\ m # NoMetaBlock /\ m \in MetaBlock
  BY <1>1, InUseType DEF PublishedIsDurable, InUse, HeaderBlocks
<1>3. PICK ix : ix = idxCache[m.head.offset]
  OBVIOUS
<1>4. /\ ix # NoIndex /\ ix \in Seq(IndexEntry)
      /\ \A e \in ListedPages(ix) : \A a \in Payload(e) : a \in Addr
  BY <1>1, <1>2, <1>3 DEF Durable, TypeOK
<1>5. ASSUME NEW k \in DOMAIN ix, NEW j \in DOMAIN ix[k].pages
      PROVE  [a \in Payload(ix[k].pages[j]) |-> cache[a]] \in PageWords
  <2>1. Payload(ix[k].pages[j]) \in SUBSET Addr
    BY <1>4 DEF ListedPages
  <2>2. [a \in Payload(ix[k].pages[j]) |-> cache[a]]
          \in [Payload(ix[k].pages[j]) -> Nat]
    BY <1>1, <2>1 DEF TypeOK
  <2> QED
    BY <2>1, <2>2 DEF PageWords
<1>6. ASSUME NEW k \in DOMAIN ix
      PROVE  PagesOf(cache, ix)[k] \in [key : PageIndexKey, pages : Seq(PageWords)]
  <2>1. ix[k] \in IndexEntry
    BY <1>4
  <2>2. ix[k].key \in PageIndexKey /\ ix[k].pages \in Seq(PageEntry)
    BY <2>1 DEF IndexEntry
  <2>3. PICK n \in Nat : DOMAIN ix[k].pages = 1 .. n
    BY <2>2, LenProperties
  <2>4. [j \in DOMAIN ix[k].pages |->
           [a \in Payload(ix[k].pages[j]) |-> cache[a]]] \in Seq(PageWords)
    BY <1>5, <2>3
  <2> QED
    BY <2>2, <2>4 DEF PagesOf
<1>7. PagesOf(cache, ix) \in Seq([key : PageIndexKey, pages : Seq(PageWords)])
  <2>1. PICK n \in Nat : DOMAIN ix = 1 .. n
    BY <1>4, LenProperties
  <2>2. PagesOf(cache, ix) = [k \in 1 .. n |-> PagesOf(cache, ix)[k]]
    BY <2>1 DEF PagesOf
  <2> DEFINE p(k) == PagesOf(cache, ix)[k]
  <2>3. \A k \in 1 .. n : p(k) \in [key : PageIndexKey, pages : Seq(PageWords)]
    BY <1>6, <2>1
  <2>4. PagesOf(cache, ix) = [k \in 1 .. n |-> p(k)]
    BY <2>2
  <2> HIDE DEF p
  <2>5. [k \in 1 .. n |-> p(k)] \in Seq([key : PageIndexKey, pages : Seq(PageWords)])
    BY <2>3
  <2> QED
    BY <2>4, <2>5
<1>8. Stored(cache, idxCache, m) \in Version
  BY <1>2, <1>3, <1>4, <1>7, StoredUnfolds DEF Version, MetaBlock
<1> QED
  BY <1>8, TableMarkerAssumption

----------------------------------------------------------------------------
(* What writeTransaction publishes. *)

\* The metablock that a commit is about to write describes what is in memory.
LEMMA PublishesMemory ==
  ASSUME StoreInv, IndexInv, pc = "meta"
  PROVE  Stored(cache, idxCache, newMetaBlock) = InMemory
<1>1. TypeOK /\ BuffersHold /\ ReadyToPublish
  BY DEF StoreInv
<1>2. PICK ix : ix = idxCache[idx_head.offset]
  OBVIOUS
<1>3. /\ ix = [k \in DOMAIN page_writers_ |-> EntryOf(page_writers_[k])]
      /\ ix # NoIndex /\ IndexHolds(ix)
  BY <1>1, <1>2
     DEF IndexInv, EntriesCurrent, BuffersHold, ReadyToPublish
<1>4. newMetaBlock # NoMetaBlock
  BY <1>1, MarkersAssumption
     DEF StoreInv, newMetaBlock, MetaBlock, TypeOK, PositionOK, current_txid_,
         getOffset
<1>5. /\ newMetaBlock.num_rows = num_rows_
      /\ idxCache[newMetaBlock.head.offset] = ix /\ ix # NoIndex
  BY <1>2, <1>3 DEF newMetaBlock
<1>6. Stored(cache, idxCache, newMetaBlock)
        = [rows |-> num_rows_, streams |-> PagesOf(cache, ix)]
  BY <1>4, <1>5, StoredUnfolds
<1>7. ASSUME NEW k \in DOMAIN page_writers_,
             NEW j \in DOMAIN listed(page_writers_[k].stream)
      PROVE  LET w == page_writers_[k].stream
                 e == listed(w)[j]
             IN  [a \in Payload(e) |-> cache[a]]
                   = [a \in Payload(e) |-> page_buf_[w][a - e.page.offset + 1]]
  <2>1. /\ k \in DOMAIN ix /\ ix[k].stream = page_writers_[k].stream
        /\ ix[k].pages = listed(page_writers_[k].stream)
    BY <1>3 DEF EntryOf
  <2>2. Holds(page_writers_[k].stream, listed(page_writers_[k].stream)[j])
    BY <1>3, <1>7, <2>1 DEF IndexHolds
  <2> QED
    BY <2>2 DEF Holds
<1>8. PagesOf(cache, ix) = InMemory.streams
  <2>1. PagesOf(cache, ix)
          = [k \in DOMAIN page_writers_ |->
               [key |-> page_writers_[k].key,
                pages |-> [j \in DOMAIN listed(page_writers_[k].stream) |->
                   [a \in Payload(listed(page_writers_[k].stream)[j]) |->
                      cache[a]]]]]
    BY <1>3 DEF PagesOf, EntryOf
  <2> QED
    BY <1>7, <2>1 DEF InMemory
<1> QED
  BY <1>6, <1>8 DEF InMemory

----------------------------------------------------------------------------
(* Every step is a step of the abstract table, or none. *)

Visible == Stored(cache, idxCache, openHeader(hdr))
Stable == Stored(disk, idxDisk, openHeader(hdrDisk))
View == [r \in Readers |-> Stored(cache, idxCache, rd[r])]

\* A header and readers that stay where they are keep what they denote.
LEMMA KeepsVisible ==
  ASSUME StoreInv, StoreInv', [Next]_vars, openHeader(hdr') = openHeader(hdr)
  PROVE  UNCHANGED Visible
<1>1. TypeInv
  BY DEF StoreInv, TypeInv
<1> QED
  BY <1>1, OpenInUse, StoredFixed, NothingStored DEF Visible

\* While the header on disk stays, so does the table on disk.
LEMMA KeepsStable ==
  ASSUME StoreInv, StoreInv', [Next]_vars, UNCHANGED hdrDisk
  PROVE  UNCHANGED Stable
<1>1. TypeInv
  BY DEF StoreInv, TypeInv
<1> QED
  BY <1>1, OpenInUse, StoredFixed, NothingStored DEF Stable

\* The table that a reader has open never changes under it.
LEMMA KeepsView ==
  ASSUME StoreInv, StoreInv', [Next]_vars, NEW r \in Readers, rd'[r] = rd[r]
  PROVE  Stored(cache', idxCache', rd'[r]) = Stored(cache, idxCache, rd[r])
<1>1. TypeInv
  BY DEF StoreInv, TypeInv
<1> QED
  BY <1>1, OpenInUse, StoredFixed, NothingStored

\* A step that opens and closes nothing leaves all views alone.
LEMMA KeepsViews ==
  ASSUME StoreInv, StoreInv', [Next]_vars, UNCHANGED rd
  PROVE  UNCHANGED View
BY KeepsView DEF View

\* When the header reaches the disk, the visible version is durable.
LEMMA Hardens ==
  ASSUME StoreInv, StoreInv', [Next]_vars, UNCHANGED hdr, hdrDisk' = hdr
  PROVE  Stable' = Visible
<1>1. TypeInv
  BY DEF StoreInv, TypeInv
<1> QED
  BY <1>1, OpenInUse, StoredFixed, NothingStored DEF Visible, Stable

\* A step that registers and appends nothing leaves the memory alone.
LEMMA KeepsStaged ==
  ASSUME UNCHANGED <<num_rows_, page_writers_, page_, page_buf_, pages_>>
  PROVE  UNCHANGED InMemory
<1>1. \A w : listed(w)' = listed(w)
  BY DEF listed
<1> QED
  BY <1>1, ZenonT(60) DEF InMemory, Payload

\* Every step of the writer, the kernel and the readers is a step of
\* AtomicTable.
LEMMA TableStep ==
  ASSUME StoreInv, StoreInv', AckedInv, IndexInv, [Next]_vars
  PROVE  [Table!TableNext]_(Table!tableVars)
<1> USE DEF Table!TableNext, Table!tableVars, Visible, Stable, View
<1>1. TypeInv /\ Fresh
  BY DEF StoreInv, TypeInv
<1>2. CASE openHeader(hdr') = openHeader(hdr) /\ UNCHANGED <<hdrDisk, rd>>
  BY <1>2, KeepsVisible, KeepsStable, KeepsViews DEF Table!Stage
<1>3. CASE CreateFile
  <2>1. openHeader(hdr') = openHeader(hdr) /\ UNCHANGED <<hdrDisk, rd>>
    BY <1>1, <1>3 DEF CreateFile, Fresh, openHeader, readHeader, Slots
  <2> QED
    BY <1>2, <2>1
<1>4. CASE WriteMetaBlock
  <2>1. CASE UNCHANGED hdr
    BY <1>2, <1>4, <2>1 DEF WriteMetaBlock
  <2>2. CASE writeMetaBlock(newMetaBlock)
    <3>1. /\ pc = "meta" /\ UNCHANGED <<cache, idxCache, hdrDisk, rd>>
          /\ UNCHANGED <<num_rows_, page_writers_, page_, page_buf_, pages_>>
      BY <1>4 DEF WriteMetaBlock, writerVars
    <3>2. hdr \in Header /\ hdr[0] = NoMetaBlock /\ hdr'[0] = hdr[0]
      BY <1>1, <1>4, <2>2, <3>1, MetaBlockSlot, MarkersAssumption DEF AckedInv
    <3>3. hdr' # NoHeader /\ hdr'[1] = newMetaBlock
      <4>1. mb_index(newMetaBlock) = 1
        BY DEF mb_index, newMetaBlock, current_txid_
      <4>2. hdr'[1] = newMetaBlock
        BY <2>2, <3>2, <4>1 DEF writeMetaBlock, Header, Slots
      <4>3. hdr' # NoHeader
        BY <1>1, <1>4, <2>2, MetaBlockSlot DEF SlotHolds
      <4> QED
        BY <4>2, <4>3
    <3>4. openHeader(hdr') = newMetaBlock
      BY <3>2, <3>3 DEF openHeader, readHeader
    <3>5. Visible' = InMemory
      BY <3>1, <3>4, PublishesMemory
    <3> QED
      BY <3>1, <3>5, KeepsStaged, KeepsStable, KeepsViews DEF Table!Publish
  <2> QED
    BY <1>4, <2>1, <2>2 DEF WriteMetaBlock
<1>5. CASE /\ UNCHANGED <<hdr, rd>> /\ hdrDisk' = hdr
           /\ UNCHANGED <<num_rows_, page_writers_, page_, page_buf_, pages_>>
  BY <1>5, Hardens, KeepsStaged, KeepsVisible, KeepsViews DEF Table!Harden
<1>6. CASE FSyncPages \/ FSyncMetaBlock
  BY <1>2, <1>5, <1>6 DEF FSyncPages, FSyncMetaBlock, fsync, writerVars
<1>7. CASE KernelWritesBack
  BY <1>2, <1>5, <1>7 DEF KernelWritesBack, WriteBack, WriteBackSector,
     WriteBackIndex, WriteBackHeader, writerVars
<1>8. CASE PowerLoss
  <2>1. /\ cache' = disk /\ idxCache' = idxDisk /\ hdr' = hdrDisk
        /\ UNCHANGED <<disk, idxDisk, hdrDisk>>
        /\ rd' = [r \in Readers |-> NoMetaBlock]
    BY <1>8 DEF PowerLoss, LoseCache
  <2>2. Visible' = Stable /\ UNCHANGED Stable
    BY <2>1
  <2>3. View' = [r \in Readers |-> NoTable]
    BY <2>1, NothingStored
  <2> QED
    BY <2>2, <2>3 DEF Table!PowerLoss
<1>9. ASSUME NEW r \in Readers, OpenFile(r)
      PROVE  Table!Open(r)
  <2>1. /\ UNCHANGED <<cache, idxCache, hdr, hdrDisk>>
        /\ UNCHANGED <<num_rows_, page_writers_, page_, page_buf_, pages_>>
        /\ openHeader(hdr) # NoMetaBlock
        /\ rd' = [rd EXCEPT ![r] = openHeader(hdr)]
    BY <1>9 DEF OpenFile, fileVars, writerVars
  <2>2. Visible # NoTable
    BY <1>1, <2>1, OpenInUse, StoredIsVersion
  <2>3. View' = [View EXCEPT ![r] = Visible]
    BY <1>1, <2>1 DEF TypeInv, TypeOK
  <2> QED
    BY <2>1, <2>2, <2>3, KeepsStaged, KeepsVisible, KeepsStable
       DEF Table!Open
<1>10. ASSUME NEW r \in Readers, CloseFile(r)
       PROVE  Table!Close(r)
  <2>1. /\ UNCHANGED <<cache, idxCache, hdr, hdrDisk>>
        /\ UNCHANGED <<num_rows_, page_writers_, page_, page_buf_, pages_>>
        /\ rd' = [rd EXCEPT ![r] = NoMetaBlock]
    BY <1>10 DEF CloseFile, fileVars, writerVars
  <2>2. View' = [View EXCEPT ![r] = NoTable]
    BY <1>1, <2>1, NothingStored DEF TypeInv, TypeOK
  <2> QED
    BY <2>1, <2>2, KeepsStaged, KeepsVisible, KeepsStable DEF Table!Close
<1>11. CASE UNCHANGED <<hdr, hdrDisk, rd>>
  BY <1>2, <1>11
<1> QED
  BY <1>3, <1>4, <1>6, <1>7, <1>8, <1>9, <1>10, <1>11
     DEF Next, CommitStep, vars, fileVars, CreateFileRaises, OpenColumn,
         OpenColumnRaises, WriteColumn, AppendValue, AppendValueRaises,
         AddRows, CommitBegin, WriteIndexEntry, WriteIndexEntryRaises,
         EmptyIndex, ReuseIndexRaises, WriteIndexPage, FSyncMetaBlockRaises,
         WriterEnds

\* The class comment of CSTableWriter, for any number of readers, columns,
\* pages and commits: a commit publishes what the page writers hold in one
\* step or nothing, a reader keeps the version it opened, and a power loss
\* falls back to the version that was durable.
THEOREM TableIsAtomic == Spec => ImplementsAtomicTable
<1>1. Init => Table!TableInit
  <2> SUFFICES ASSUME Init PROVE Table!TableInit
    OBVIOUS
  <2>1. /\ openHeader(hdr) = NoMetaBlock /\ openHeader(hdrDisk) = NoMetaBlock
        /\ rd = [r \in Readers |-> NoMetaBlock]
    BY DEF Init, FileInit, openHeader
  <2> QED
    BY <2>1, NothingStored DEF Table!TableInit
<1>2. StoreInv /\ StoreInv' /\ AckedInv /\ IndexInv /\ [Next]_vars
        => [Table!TableNext]_(Table!tableVars)
  BY TableStep
<1> QED
  BY <1>1, <1>2, StoreInvariant, AckedInvariant, IndexInvariant, PTL
     DEF Spec, ImplementsAtomicTable, Table!TableSpec
=============================================================================
