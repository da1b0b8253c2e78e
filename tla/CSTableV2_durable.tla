-------------------------- MODULE CSTableV2_durable --------------------------
(***************************************************************************)
(* What CSTableV2 promises of a power loss: the write-ahead rule, the      *)
(* layout it rests on, and that a commit that has returned survives.       *)
(*                                                                         *)
(* The argument: pages never overlap (Layout), so a page write can only    *)
(* touch listed words of its own page, where it writes the prefix of the   *)
(* buffer that is there already (BuffersHold).  Therefore what was durable *)
(* when its metablock was written stays as it was (PublishedIsDurable).    *)
(* Both copies of metablock slot 1 only move to index pages that were      *)
(* allocated later, and an index page that is allocated later lies at a    *)
(* higher offset (AckedSurvives).                                          *)
(***************************************************************************)
EXTENDS CSTableV2_proofs

----------------------------------------------------------------------------
(* Types of what the metablocks in use reach. *)

\* A metablock that somebody may follow points to a page.
LEMMA InUseType ==
  ASSUME TypeOK, NEW m \in InUse
  PROVE  m \in MetaBlock /\ m.head \in PageRef
BY DEF TypeOK, InUse, HeaderBlocks, Header, MetaBlock, Slots

\* The pages of a stream are pages.
LEMMA StreamPagesType ==
  ASSUME TypeOK, NEW w \in Streams
  PROVE  StreamPages(w) \subseteq PageRef
<1>1. pages_[w] \in Seq(PageEntry) /\ page_[w] \in PageRef \cup {NoPage}
  BY DEF TypeOK
<1>2. ASSUME NEW j \in DOMAIN pages_[w] PROVE pages_[w][j].page \in PageRef
  <2>1. pages_[w][j] \in PageEntry
    BY <1>1
  <2> QED
    BY <2>1 DEF PageEntry
<1> QED
  BY <1>1, <1>2 DEF StreamPages

\* The pages of the indexes are pages.
LEMMA IndexPagesType ==
  ASSUME TypeOK
  PROVE  IndexPages \subseteq PageRef
BY InUseType DEF TypeOK, IndexPages

\* A page an index lists is listed for some stream.
LEMMA ListedOfStream ==
  ASSUME NEW ix \in Seq(IndexEntry), NEW e \in ListedPages(ix)
  PROVE  \E k \in DOMAIN ix : \E j \in DOMAIN ix[k].pages :
           e = ix[k].pages[j] /\ ix[k].stream \in Streams /\ e \in PageEntry
<1>1. PICK k \in DOMAIN ix : e \in {ix[k].pages[j] : j \in DOMAIN ix[k].pages}
  BY DEF ListedPages
<1>2. ix[k] \in IndexEntry
  BY <1>1
<1>3. ix[k].stream \in Streams /\ ix[k].pages \in Seq(PageEntry)
  BY <1>2 DEF IndexEntry
<1>4. PICK j \in DOMAIN ix[k].pages : e = ix[k].pages[j]
  BY <1>1
<1>5. e \in PageEntry
  BY <1>3, <1>4
<1> QED
  BY <1>1, <1>3, <1>4, <1>5

\* The payload of a listed page lies in the page and within what was written.
LEMMA PayloadInPage ==
  ASSUME NEW e \in PageEntry, NEW a \in Payload(e)
  PROVE  /\ a \in Nat
         /\ e.page.offset <= a /\ a < e.page.offset + e.page.size
         /\ a - e.page.offset + 1 \in 1 .. e.used
BY DEF PageEntry, PageRef, Payload, MinOf

----------------------------------------------------------------------------
(* Page writes. *)

\* Writing all or a part of a stream's open page does not change the payload
\* of any page that holds a prefix of its stream's buffer.
LEMMA WriteKeepsPayload ==
  ASSUME TypeOK, PagesDisjoint,
         NEW w \in Streams, page_[w] # NoPage,
         NEW n \in 0 .. page_[w].size,
         NEW v \in Streams, NEW e \in PageEntry, Holds(v, e),
         NEW a \in Payload(e)
  PROVE  a \in Addr
         /\ Written(cache, page_[w], page_buf_[w], n)[a] = cache[a]
<1> DEFINE p == page_[w]
<1>1. p \in PageRef /\ p \in StreamPages(w) /\ page_buf_[w] \in Seq(Nat)
  BY DEF TypeOK, StreamPages
<1>2. e.page \in PageRef /\ e.page \in StreamPages(v)
  BY DEF Holds, PageEntry
<1>3. /\ a \in Nat
      /\ e.page.offset <= a /\ a < e.page.offset + e.page.size
      /\ a - e.page.offset + 1 \in 1 .. e.used
  BY PayloadInPage
<1>4. a \in Addr
  BY <1>2, <1>3, SizesAssumption DEF Holds, Fits, Addr, PageRef
<1>5. CASE a \notin p.offset .. (p.offset + n - 1)
  BY <1>4, <1>5 DEF Written
<1>6. CASE a \in p.offset .. (p.offset + n - 1)
  <2>1. ~ Disjoint(e.page, p)
    BY <1>1, <1>2, <1>3, <1>6, SMTT(60) DEF Disjoint, PageRef
  <2>2. v = w /\ e.page = p
    BY <1>1, <1>2, <2>1 DEF PagesDisjoint
  <2>3. Written(cache, p, page_buf_[w], n)[a]
          = PageWord(page_buf_[w], a - p.offset + 1)
    BY <1>4, <1>6 DEF Written
  <2>4. a - p.offset + 1 <= Len(page_buf_[w])
    <3>1. e.used \in Nat /\ Len(page_buf_[w]) \in Nat
      BY <1>1, LenProperties DEF PageEntry
    <3>2. e.used <= Len(page_buf_[w])
      BY <2>2 DEF Holds
    <3>3. p.offset \in Nat
      BY <1>1 DEF PageRef
    <3> QED
      BY <1>3, <2>2, <3>1, <3>2, <3>3
  <2>5. cache[a] = page_buf_[w][a - p.offset + 1]
    BY <2>2 DEF Holds
  <2> QED
    BY <1>4, <2>3, <2>4, <2>5 DEF PageWord
<1> QED
  BY <1>4, <1>5, <1>6

\* The step writes to the open page of a stream, or to no page.
PageWrite ==
  \/ UNCHANGED cache
  \/ \E w \in Streams : \E n \in 0 .. page_[w].size :
       /\ page_[w] # NoPage
       /\ cache' = Written(cache, page_[w], page_buf_[w], n)

\* The writer's buffers only grow, and no page leaves its stream.
BuffersGrow ==
  \A w \in Streams :
    /\ StreamPages(w) \subseteq StreamPages(w)'
    /\ Len(page_buf_[w]) <= Len(page_buf_'[w])
    /\ \A i \in 1 .. Len(page_buf_[w]) : page_buf_'[w][i] = page_buf_[w][i]

\* A page write of one stream spoils no page of another.
LEMMA HoldsStep ==
  ASSUME TypeOK, TypeOK', PagesDisjoint, PageWrite, BuffersGrow,
         NEW v \in Streams, NEW e \in PageEntry, Holds(v, e)
  PROVE  Holds(v, e)' /\ \A a \in Payload(e) : a \in Addr /\ cache'[a] = cache[a]
<1>1. ASSUME NEW a \in Payload(e)
      PROVE  a \in Addr /\ cache'[a] = cache[a]
  <2>1. a \in Addr
    BY PayloadInPage, SizesAssumption
       DEF Holds, Fits, Addr, PageRef, PageEntry
  <2>2. CASE UNCHANGED cache
    BY <2>1, <2>2
  <2>3. ASSUME NEW w \in Streams, NEW n \in 0 .. page_[w].size,
               page_[w] # NoPage,
               cache' = Written(cache, page_[w], page_buf_[w], n)
        PROVE  cache'[a] = cache[a]
    BY <2>3, WriteKeepsPayload
  <2> QED
    BY <2>1, <2>2, <2>3 DEF PageWrite
<1>2. e.page \in StreamPages(v)'
  BY DEF Holds, BuffersGrow
<1>3. e.used <= Len(page_buf_'[v])
  <2>1. Len(page_buf_[v]) \in Nat /\ Len(page_buf_'[v]) \in Nat /\ e.used \in Nat
    BY LenProperties DEF TypeOK, PageEntry
  <2> QED
    BY <2>1 DEF Holds, BuffersGrow
<1>4. ASSUME NEW a \in Payload(e)
      PROVE  cache'[a] = page_buf_'[v][a - e.page.offset + 1]
  <2>1. a - e.page.offset + 1 \in 1 .. e.used
    BY PayloadInPage
  <2>2. Len(page_buf_[v]) \in Nat /\ e.used \in Nat /\ e.used <= Len(page_buf_[v])
    BY LenProperties DEF TypeOK, PageEntry, Holds
  <2>3. a - e.page.offset + 1 \in 1 .. Len(page_buf_[v])
    BY <2>1, <2>2
  <2> QED
    BY <1>1, <2>3 DEF Holds, BuffersGrow
<1> QED
  BY <1>1, <1>2, <1>3, <1>4 DEF Holds, Fits, Payload

----------------------------------------------------------------------------
(* What a step does to the buffers and to the metablocks in use. *)

\* A step that touches no page writer changes no page.
LEMMA StreamPagesSame ==
  ASSUME UNCHANGED <<page_, page_buf_, pages_>>
  PROVE  BuffersGrow /\ \A w \in Streams : StreamPages(w)' = StreamPages(w)
<1>1. \A w \in Streams : StreamPages(w)' = StreamPages(w)
  BY DEF StreamPages
<1> QED
  BY <1>1 DEF BuffersGrow

\* appendValue adds to one buffer, and at most one page, the one at offset_.
LEMMA AppendStep ==
  ASSUME TypeInv, NEW w \in Streams, NEW v \in Nat, appendValue(w, v)
  PROVE  /\ PageWrite
         /\ BuffersGrow
         /\ \A x \in Streams \ {w} : StreamPages(x)' = StreamPages(x)
         /\ \/ StreamPages(w)' = StreamPages(w) /\ offset_' = offset_
            \/ \E p \in PageRef :
                 /\ p.offset = offset_ /\ offset_' = offset_ + p.size
                 /\ StreamPages(w)' = StreamPages(w) \cup {p}
<1>1. /\ page_buf_ \in [Streams -> Seq(Nat)]
      /\ page_ \in [Streams -> PageRef \cup {NoPage}]
      /\ pages_ \in [Streams -> Seq(PageEntry)]
      /\ offset_ \in Nat /\ kPageSize \in Nat
  BY WritersAssumption DEF TypeInv, TypeOK
<1>2. page_buf_' = [page_buf_ EXCEPT ![w] = Append(@, v)]
  BY DEF appendValue, AppendToPage, AppendToFirstPage, AppendToNextPage
<1>3. \A x \in Streams :
        /\ Len(page_buf_[x]) <= Len(page_buf_'[x])
        /\ \A i \in 1 .. Len(page_buf_[x]) : page_buf_'[x][i] = page_buf_[x][i]
  <2> TAKE x \in Streams
  <2>1. page_buf_[x] \in Seq(Nat) /\ Len(page_buf_[x]) \in Nat
    BY <1>1, LenProperties
  <2>2. CASE x = w
    BY <1>1, <1>2, <2>1, <2>2, AppendProperties
  <2>3. CASE x # w
    BY <1>1, <1>2, <2>1, <2>3
  <2> QED
    BY <2>2, <2>3
<1> DEFINE p == allocPage(kPageSize)
<1>4. p \in PageRef /\ p.offset = offset_ /\ newOffset(p) = offset_ + p.size
  BY <1>1, AllocType
<1> HIDE DEF p
<1>5. CASE AppendToPage(w, v)
  <2>1. UNCHANGED <<page_, pages_, offset_, cache>>
    BY <1>5 DEF AppendToPage
  <2>2. \A x \in Streams : StreamPages(x)' = StreamPages(x)
    BY <2>1 DEF StreamPages
  <2> QED
    BY <1>3, <2>1, <2>2 DEF BuffersGrow, PageWrite
<1>6. CASE AppendToFirstPage(w, v)
  <2>1. /\ page_[w] = NoPage /\ page_' = [page_ EXCEPT ![w] = p]
        /\ offset_' = newOffset(p) /\ UNCHANGED <<pages_, cache>>
    BY <1>6 DEF AppendToFirstPage, p
  <2>2. \A x \in Streams \ {w} : StreamPages(x)' = StreamPages(x)
    BY <1>1, <2>1 DEF StreamPages
  <2>3. StreamPages(w)' = StreamPages(w) \cup {p}
    BY <1>1, <1>4, <2>1, MarkersAssumption DEF StreamPages
  <2> QED
    BY <1>3, <1>4, <2>1, <2>2, <2>3 DEF BuffersGrow, PageWrite
<1>7. CASE AppendToNextPage(w, v)
  <2> DEFINE e == [page |-> page_[w], used |-> Len(page_buf_[w])]
  <2>1. /\ page_[w] # NoPage /\ page_' = [page_ EXCEPT ![w] = p]
        /\ offset_' = newOffset(p)
        /\ pages_' = [pages_ EXCEPT ![w] = Append(@, e)]
        /\ cache' = Written(cache, page_[w], page_buf_[w], page_[w].size)
    BY <1>7 DEF AppendToNextPage, writePage, p
  <2>2. page_[w] \in PageRef /\ page_[w].size \in 0 .. page_[w].size
    BY <1>1, <2>1 DEF PageRef
  <2>3. PageWrite
    BY <2>1, <2>2 DEF PageWrite
  <2>4. \A x \in Streams \ {w} : StreamPages(x)' = StreamPages(x)
    BY <1>1, <2>1 DEF StreamPages
  <2>5. /\ pages_[w] \in Seq(PageEntry) /\ e \in PageEntry
        /\ pages_'[w] = Append(pages_[w], e)
    BY <1>1, <2>1, <2>2, LenProperties DEF PageEntry
  <2> HIDE DEF e
  <2>6. /\ DOMAIN pages_'[w] = 1 .. (Len(pages_[w]) + 1)
        /\ DOMAIN pages_[w] = 1 .. Len(pages_[w]) /\ Len(pages_[w]) \in Nat
        /\ \A j \in 1 .. Len(pages_[w]) : pages_'[w][j] = pages_[w][j]
        /\ pages_'[w][Len(pages_[w]) + 1] = e
    BY <2>5, AppendProperties, LenProperties
  <2>7. {pages_'[w][j].page : j \in DOMAIN pages_'[w]}
          = {pages_[w][j].page : j \in DOMAIN pages_[w]} \cup {e.page}
    <3>1. ASSUME NEW j \in DOMAIN pages_'[w]
          PROVE  j \in DOMAIN pages_[w] \/ j = Len(pages_[w]) + 1
      BY <2>6
    <3>2. ASSUME NEW j \in DOMAIN pages_[w]
          PROVE  j \in DOMAIN pages_'[w]
      BY <2>6
    <3>3. Len(pages_[w]) + 1 \in DOMAIN pages_'[w]
      BY <2>6
    <3> QED
      BY <2>6, <3>1, <3>2, <3>3
  <2>8. e.page = page_[w] /\ page_'[w] = p /\ p # NoPage
    BY <1>1, <1>4, <2>1, MarkersAssumption DEF e
  <2>9. StreamPages(w)' = StreamPages(w) \cup {p}
    BY <2>1, <2>7, <2>8 DEF StreamPages
  <2> QED
    BY <1>3, <1>4, <2>1, <2>3, <2>4, <2>9 DEF BuffersGrow
<1> QED
  BY <1>5, <1>6, <1>7 DEF appendValue

\* What a column writer appends next goes to one of its streams.
LEMMA HeadOfTodo ==
  ASSUME TypeOK, todo # <<>>
  PROVE  Head(todo).key \in Streams /\ Head(todo).value \in Nat
<1>1. todo \in Seq([key : Streams, value : Nat])
  BY DEF TypeOK
<1>2. Head(todo) \in [key : Streams, value : Nat]
  BY <1>1, HeadTailProperties
<1> QED
  BY <1>2

\* A raising write is a page write too.
LEMMA RaisingWrite ==
  ASSUME TypeOK, NEW w \in Streams, page_[w] # NoPage,
         writePageRaises(page_[w], page_buf_[w])
  PROVE  PageWrite
<1>1. page_[w] \in PageRef
  BY DEF TypeOK
<1>2. PICK n \in 0 .. (page_[w].size - 1) :
        cache' = Written(cache, page_[w], page_buf_[w], n)
  BY DEF writePageRaises
<1>3. n \in 0 .. page_[w].size
  BY <1>1, <1>2 DEF PageRef
<1> QED
  BY <1>2, <1>3 DEF PageWrite

\* As long as the writer lives, its steps write open pages only and its
\* buffers grow.
LEMMA WriterStep ==
  ASSUME TypeInv, [Next]_vars, pc' # "dead"
  PROVE  PageWrite /\ BuffersGrow
<1> USE DEF TypeInv
<1>1. CASE UNCHANGED <<cache, page_, page_buf_, pages_>>
  BY <1>1, StreamPagesSame DEF PageWrite
<1>2. CASE AppendValue
  BY <1>2, HeadOfTodo, AppendStep DEF AppendValue
<1>3. CASE AppendValueRaises
  BY <1>3, HeadOfTodo, RaisingWrite, StreamPagesSame
     DEF AppendValueRaises, appendValueRaises
<1>4. CASE WriteIndexEntry
  <2> DEFINE w == page_writers_[Len(entries) + 1].stream
  <2>1. w \in Streams
    BY <1>4, NextWriterType DEF WriteIndexEntry
  <2>2. flushOpenPage(w) /\ UNCHANGED <<page_, page_buf_, pages_>>
    BY <1>4 DEF WriteIndexEntry, writeIndex
  <2> HIDE DEF w
  <2>3. CASE page_[w] = NoPage
    BY <2>2, <2>3, StreamPagesSame DEF flushOpenPage, PageWrite
  <2>4. CASE page_[w] # NoPage
    <3>1. page_[w].size \in 0 .. page_[w].size
      BY <2>1, <2>4 DEF TypeOK, PageRef
    <3> QED
      BY <2>1, <2>2, <2>4, <3>1, StreamPagesSame
         DEF flushOpenPage, writePage, PageWrite
  <2> QED
    BY <2>3, <2>4
<1>5. CASE WriteIndexEntryRaises
  BY <1>5, NextWriterType, RaisingWrite, StreamPagesSame
     DEF WriteIndexEntryRaises, writeIndexRaises
<1> QED
  BY <1>1, <1>2, <1>3, <1>4, <1>5
     DEF Next, CommitStep, vars, fileVars, CreateFile, CreateFileRaises,
         OpenColumn, OpenColumnRaises, WriteColumn, AddRows, CommitBegin,
         EmptyIndex, ReuseIndexRaises, WriteIndexPage, FSyncPages,
         WriteMetaBlock, FSyncMetaBlock, FSyncMetaBlockRaises, OpenFile,
         CloseFile, WriterEnds, KernelWritesBack, WriteBack, PowerLoss

\* Only writeTransaction brings a new metablock into use.
LEMMA InUseStep ==
  ASSUME TypeInv, [Next]_vars
  PROVE  \/ InUse' \subseteq InUse
         \/ WriteMetaBlock /\ InUse' \subseteq InUse \cup {newMetaBlock}
<1> USE DEF TypeInv
<1>1. CASE UNCHANGED <<hdr, hdrDisk, rd>>
  BY <1>1 DEF InUse, HeaderBlocks
<1>2. CASE CreateFile
  BY <1>2 DEF CreateFile, InUse, HeaderBlocks
<1>3. CASE UNCHANGED <<hdr, rd>> /\ hdrDisk' = hdr
  BY <1>3 DEF InUse, HeaderBlocks
<1>4. CASE WriteMetaBlock
  <2>1. CASE UNCHANGED hdr
    BY <1>4, <2>1, <1>1 DEF WriteMetaBlock
  <2>2. CASE writeMetaBlock(newMetaBlock)
    <3>1. hdr \in Header
      BY <1>4 DEF WriteMetaBlock, TypeOK, PositionOK
    <3>2. HeaderBlocks(hdr)' \subseteq HeaderBlocks(hdr) \cup {newMetaBlock}
      BY <2>2, <3>1, MarkersAssumption
         DEF HeaderBlocks, writeMetaBlock, Header, Slots
    <3>3. UNCHANGED <<hdrDisk, rd>>
      BY <1>4 DEF WriteMetaBlock
    <3> QED
      BY <1>4, <3>2, <3>3 DEF InUse, HeaderBlocks
  <2> QED
    BY <1>4, <2>1, <2>2 DEF WriteMetaBlock
<1>5. ASSUME NEW r \in Readers, OpenFile(r)
      PROVE  InUse' \subseteq InUse
  <2>1. /\ openHeader(hdr) # NoMetaBlock /\ UNCHANGED <<hdr, hdrDisk>>
        /\ rd' = [rd EXCEPT ![r] = openHeader(hdr)]
    BY <1>5 DEF OpenFile, fileVars
  <2>2. openHeader(hdr) \in HeaderBlocks(hdr)
    BY <2>1, OpenHeaderType DEF TypeOK, HeaderBlocks
  <2>3. \A x \in Readers : rd'[x] = rd[x] \/ rd'[x] = openHeader(hdr)
    BY <2>1 DEF TypeOK
  <2> QED
    BY <2>1, <2>2, <2>3 DEF InUse, HeaderBlocks
<1>6. ASSUME NEW r \in Readers, CloseFile(r)
      PROVE  InUse' \subseteq InUse
  <2>1. UNCHANGED <<hdr, hdrDisk>> /\ rd' = [rd EXCEPT ![r] = NoMetaBlock]
    BY <1>6 DEF CloseFile, fileVars
  <2>2. \A x \in Readers : rd'[x] = rd[x] \/ rd'[x] = NoMetaBlock
    BY <2>1 DEF TypeOK
  <2> QED
    BY <2>1, <2>2 DEF InUse, HeaderBlocks
<1>7. CASE PowerLoss
  BY <1>7 DEF PowerLoss, LoseCache, InUse, HeaderBlocks
<1>8. CASE KernelWritesBack
  BY <1>1, <1>3, <1>8 DEF KernelWritesBack, WriteBack, WriteBackSector,
     WriteBackIndex, WriteBackHeader
<1>9. CASE FSyncPages \/ FSyncMetaBlock
  BY <1>1, <1>3, <1>9 DEF FSyncPages, FSyncMetaBlock, fsync
<1> QED
  BY <1>1, <1>2, <1>4, <1>5, <1>6, <1>7, <1>8, <1>9
     DEF Next, CommitStep, vars, fileVars, CreateFileRaises, OpenColumn,
         OpenColumnRaises, WriteColumn, AppendValue, AppendValueRaises,
         AddRows, CommitBegin, WriteIndexEntry, WriteIndexEntryRaises,
         EmptyIndex, ReuseIndexRaises, WriteIndexPage, FSyncMetaBlockRaises,
         WriterEnds

----------------------------------------------------------------------------
(* Layout. *)

\* Nothing is allocated: pages may only disappear.
LEMMA LayoutShrinks ==
  ASSUME TypeOK, TypeOK', Layout,
         \A w \in Streams : StreamPages(w)' \subseteq StreamPages(w),
         IndexPages' \subseteq IndexPages,
         offset_' >= offset_,
         pc' \notin {"absent", "dead"} => HeaderSize <= offset_'
  PROVE  Layout'
<1>1. \A w \in Streams : StreamPages(w) \subseteq PageRef
  BY StreamPagesType
<1>2. IndexPages \subseteq PageRef
  BY IndexPagesType
<1>3. offset_ \in Nat /\ offset_' \in Nat
  BY DEF TypeOK
<1>4. \A p \in PageRef : p.offset + p.size <= offset_ => p.offset + p.size <= offset_'
  BY <1>3 DEF PageRef
<1>5. ASSUME NEW w \in Streams, NEW p \in StreamPages(w)'
      PROVE  /\ HeaderSize <= p.offset /\ p.offset + p.size <= offset_'
             /\ \A v \in Streams : \A q \in StreamPages(v)' :
                  v # w \/ p # q => Disjoint(p, q)
             /\ \A q \in IndexPages' : Disjoint(p, q)
  BY <1>1, <1>4, <1>5 DEF Layout, PagesDisjoint
<1>6. ASSUME NEW p \in IndexPages'
      PROVE  /\ HeaderSize <= p.offset /\ p.offset + p.size <= offset_'
             /\ \A q \in IndexPages' : p # q => Disjoint(p, q)
             /\ p.size > 0
  BY <1>2, <1>4, <1>6 DEF Layout, PagesDisjoint
<1> QED
  BY <1>5, <1>6 DEF Layout, PagesDisjoint, Disjoint

\* One page is allocated at offset_, for a stream ...
LEMMA LayoutNewPage ==
  ASSUME TypeOK, TypeOK', Layout,
         NEW w \in Streams, NEW n \in PageRef,
         n.offset = offset_, offset_' = offset_ + n.size,
         HeaderSize <= offset_,
         \A x \in Streams \ {w} : StreamPages(x)' = StreamPages(x),
         StreamPages(w)' = StreamPages(w) \cup {n},
         IndexPages' \subseteq IndexPages
  PROVE  Layout'
<1>1. \A x \in Streams : StreamPages(x) \subseteq PageRef
  BY StreamPagesType
<1>2. IndexPages \subseteq PageRef
  BY IndexPagesType
<1>3. offset_ \in Nat /\ n.size \in Nat /\ HeaderSize \in Nat
  BY SizesAssumption DEF TypeOK, PageRef
<1>4. \A p \in PageRef :
        p.offset + p.size <= offset_ =>
          /\ p.offset + p.size <= offset_'
          /\ Disjoint(p, n) /\ Disjoint(n, p)
  BY <1>3 DEF PageRef, Disjoint
<1>5. \A x \in Streams : \A p \in StreamPages(x) \cup IndexPages :
        p.offset + p.size <= offset_
  BY DEF Layout, PagesDisjoint
<1>6. \A x \in Streams : \A p \in StreamPages(x)' :
        p \in StreamPages(x) \/ (x = w /\ p = n)
  OBVIOUS
<1>7. ASSUME NEW x \in Streams, NEW p \in StreamPages(x)'
      PROVE  /\ HeaderSize <= p.offset /\ p.offset + p.size <= offset_'
             /\ \A v \in Streams : \A q \in StreamPages(v)' :
                  v # x \/ p # q => Disjoint(p, q)
             /\ \A q \in IndexPages' : Disjoint(p, q)
  <2>1. CASE p \in StreamPages(x)
    BY <1>1, <1>4, <1>5, <1>6, <2>1 DEF Layout, PagesDisjoint
  <2>2. CASE x = w /\ p = n
    BY <1>1, <1>2, <1>3, <1>4, <1>5, <1>6, <2>2
  <2> QED
    BY <1>6, <1>7, <2>1, <2>2
<1>8. ASSUME NEW p \in IndexPages'
      PROVE  /\ HeaderSize <= p.offset /\ p.offset + p.size <= offset_'
             /\ \A q \in IndexPages' : p # q => Disjoint(p, q)
             /\ p.size > 0
  BY <1>2, <1>4, <1>5, <1>8 DEF Layout, PagesDisjoint
<1>9. HeaderSize <= offset_'
  BY <1>3
<1> QED
  BY <1>7, <1>8, <1>9 DEF Layout, PagesDisjoint, Disjoint

\* ... or for an index.
LEMMA LayoutNewIndex ==
  ASSUME TypeOK, TypeOK', Layout, NEW n \in PageRef,
         n.offset = offset_, offset_' = offset_ + n.size, n.size > 0,
         HeaderSize <= offset_,
         \A x \in Streams : StreamPages(x)' = StreamPages(x),
         IndexPages' \subseteq IndexPages \cup {n}
  PROVE  Layout'
<1>1. \A x \in Streams : StreamPages(x) \subseteq PageRef
  BY StreamPagesType
<1>2. IndexPages \subseteq PageRef
  BY IndexPagesType
<1>3. offset_ \in Nat /\ n.size \in Nat /\ HeaderSize \in Nat
  BY SizesAssumption DEF TypeOK, PageRef
<1>4. \A p \in PageRef :
        p.offset + p.size <= offset_ =>
          /\ p.offset + p.size <= offset_'
          /\ Disjoint(p, n) /\ Disjoint(n, p)
  BY <1>3 DEF PageRef, Disjoint
<1>5. /\ \A x \in Streams : \A p \in StreamPages(x) :
           p.offset + p.size <= offset_
      /\ \A p \in IndexPages : p.offset + p.size <= offset_
  BY DEF Layout, PagesDisjoint
<1>6. ASSUME NEW x \in Streams, NEW p \in StreamPages(x)'
      PROVE  /\ HeaderSize <= p.offset /\ p.offset + p.size <= offset_'
             /\ \A v \in Streams : \A q \in StreamPages(v)' :
                  v # x \/ p # q => Disjoint(p, q)
             /\ \A q \in IndexPages' : Disjoint(p, q)
  BY <1>1, <1>4, <1>5, <1>6 DEF Layout, PagesDisjoint
<1>7. ASSUME NEW p \in IndexPages'
      PROVE  /\ HeaderSize <= p.offset /\ p.offset + p.size <= offset_'
             /\ \A q \in IndexPages' : p # q => Disjoint(p, q)
             /\ p.size > 0
  <2>1. CASE p \in IndexPages
    BY <1>2, <1>4, <1>5, <2>1 DEF Layout, PagesDisjoint
  <2>2. CASE p = n
    BY <1>2, <1>3, <1>4, <1>5, <2>2
  <2> QED
    BY <1>7, <2>1, <2>2
<1>8. HeaderSize <= offset_'
  BY <1>3
<1> QED
  BY <1>6, <1>7, <1>8 DEF Layout, PagesDisjoint, Disjoint

\* Only PageIndex::write brings a new index page into use.
LEMMA IndexPagesStep ==
  ASSUME TypeInv, [Next]_vars
  PROVE  \/ IndexPages' \subseteq IndexPages
         \/ /\ WriteIndexPage
            /\ IndexPages' \subseteq IndexPages \cup ({idx_head'} \ {NoPage})
<1> USE DEF TypeInv
<1>1. \/ InUse' \subseteq InUse
      \/ WriteMetaBlock /\ InUse' \subseteq InUse \cup {newMetaBlock}
  BY InUseStep
<1>2. CASE WriteMetaBlock
  <2>1. newMetaBlock.head = idx_head /\ idx_head # NoPage
    BY <1>2 DEF WriteMetaBlock, newMetaBlock, PositionOK
  <2>2. UNCHANGED <<idx_head, cur_idx_ptr_, free_idx_ptr_>>
    BY <1>2 DEF WriteMetaBlock, writerVars
  <2>3. InUse' \subseteq InUse \cup {newMetaBlock}
    BY <1>1
  <2> QED
    BY <2>1, <2>2, <2>3 DEF IndexPages
<1>3. ASSUME InUse' \subseteq InUse
      PROVE  {m.head : m \in InUse'} \subseteq {m.head : m \in InUse}
  BY <1>3
<1>4. CASE WriteIndexPage
  <2>1. UNCHANGED <<cur_idx_ptr_, free_idx_ptr_>> /\ InUse' \subseteq InUse
    BY <1>1, <1>4 DEF WriteIndexPage, WriteMetaBlock
  <2> QED
    BY <1>3, <1>4, <2>1 DEF IndexPages
<1>5. CASE /\ InUse' \subseteq InUse
           /\ {idx_head', cur_idx_ptr_', free_idx_ptr_'}
                \subseteq {idx_head, cur_idx_ptr_, free_idx_ptr_, NoPage}
  BY <1>3, <1>5 DEF IndexPages
<1>6. \/ WriteMetaBlock \/ WriteIndexPage
      \/ {idx_head', cur_idx_ptr_', free_idx_ptr_'}
           \subseteq {idx_head, cur_idx_ptr_, free_idx_ptr_, NoPage}
  BY DEF Next, CommitStep, vars, fileVars, writerVars, CreateFile,
         CreateFileRaises,
         OpenColumn, OpenColumnRaises, WriteColumn, AppendValue,
         AppendValueRaises, AddRows, CommitBegin, WriteIndexEntry,
         WriteIndexEntryRaises, EmptyIndex, ReuseIndexRaises, FSyncPages,
         FSyncMetaBlock, FSyncMetaBlockRaises, OpenFile, CloseFile,
         WriterEnds, KernelWritesBack, WriteBack, PowerLoss
<1> QED
  BY <1>1, <1>2, <1>4, <1>5, <1>6

\* Every step keeps the pages apart.
LEMMA LayoutNext ==
  ASSUME TypeInv, TypeInv', Fresh, Layout, [Next]_vars
  PROVE  Layout'
<1> USE DEF TypeInv
<1>1. offset_ \in Nat /\ HeaderSize \in Nat
  BY SizesAssumption DEF TypeOK
<1>2. pc \notin {"absent", "dead"} => HeaderSize <= offset_
  BY DEF Layout
<1>3. CASE CreateFile
  <2>1. \A w \in Streams : StreamPages(w)' = {}
    BY <1>3 DEF CreateFile, Fresh, StreamPages
  <2>2. InUse = {}
    BY <1>3 DEF CreateFile, Fresh, InUse, HeaderBlocks
  <2>3. IndexPages = {}
    BY <1>3, <2>2 DEF CreateFile, Fresh, IndexPages
  <2>4. IndexPages' = {}
    BY <1>3, <2>3, IndexPagesStep DEF CreateFile, WriteIndexPage
  <2>5. offset_' = HeaderSize
    BY <1>3 DEF CreateFile
  <2> QED
    BY <1>1, <2>1, <2>4, <2>5 DEF Layout, PagesDisjoint
<1>4. CASE AppendValue
  <2>1. IndexPages' \subseteq IndexPages
    BY <1>4, IndexPagesStep DEF AppendValue, WriteIndexPage
  <2>2. HeaderSize <= offset_ /\ pc' = "idle"
    BY <1>2, <1>4 DEF AppendValue
  <2>6. PICK w \in Streams : w = Head(todo).key
    BY <1>4, HeadOfTodo DEF AppendValue
  <2>3. /\ w \in Streams
        /\ \A x \in Streams \ {w} : StreamPages(x)' = StreamPages(x)
        /\ \/ StreamPages(w)' = StreamPages(w) /\ offset_' = offset_
           \/ \E p \in PageRef :
                /\ p.offset = offset_ /\ offset_' = offset_ + p.size
                /\ StreamPages(w)' = StreamPages(w) \cup {p}
    <3>1. appendValue(w, Head(todo).value) /\ Head(todo).value \in Nat
      BY <1>4, <2>6, HeadOfTodo DEF AppendValue
    <3> QED
      BY <3>1, AppendStep
  <2>4. CASE StreamPages(w)' = StreamPages(w) /\ offset_' = offset_
    <3>1. \A x \in Streams : StreamPages(x)' \subseteq StreamPages(x)
      BY <2>3, <2>4
    <3> QED
      BY <1>1, <2>1, <2>2, <2>4, <3>1, LayoutShrinks
  <2>5. ASSUME NEW p \in PageRef,
               p.offset = offset_, offset_' = offset_ + p.size,
               StreamPages(w)' = StreamPages(w) \cup {p}
        PROVE  Layout'
    BY <2>1, <2>2, <2>3, <2>5, LayoutNewPage
  <2> QED
    BY <2>3, <2>4, <2>5
<1>5. CASE WriteIndexPage
  <2>1. UNCHANGED <<page_, page_buf_, pages_>> /\ HeaderSize <= offset_
    BY <1>2, <1>5 DEF WriteIndexPage
  <2>2. \A x \in Streams : StreamPages(x)' = StreamPages(x)
    BY <2>1, StreamPagesSame
  <2>3. PICK size \in IndexSizes :
          /\ offset_' = newOffset(NewIndexPage(size))
          /\ \/ idx_head' = NewIndexPage(size)
             \/ UNCHANGED idx_head
    BY <1>5 DEF WriteIndexPage
  <2> DEFINE n == NewIndexPage(size)
  <2>4. /\ n \in PageRef /\ n.offset = offset_ /\ n.size > 0
        /\ offset_' = offset_ + n.size
    BY <1>1, <2>3, IndexPageType
  <2>5. CASE idx_head' = n
    <3>1. IndexPages' \subseteq IndexPages \cup {n}
      BY <2>5, IndexPagesStep
    <3> QED
      BY <2>1, <2>2, <2>4, <3>1, LayoutNewIndex
  <2>6. CASE UNCHANGED idx_head
    <3>1. IndexPages' \subseteq IndexPages \cup {n}
      <4>1. IndexPages' \subseteq IndexPages \cup ({idx_head'} \ {NoPage})
        BY IndexPagesStep
      <4> QED
        BY <2>6, <4>1 DEF IndexPages
    <3> QED
      BY <2>1, <2>2, <2>4, <3>1, LayoutNewIndex
  <2> QED
    BY <2>3, <2>5, <2>6
<1>6. CASE /\ \A w \in Streams : StreamPages(w)' \subseteq StreamPages(w)
           /\ UNCHANGED offset_
           /\ pc' \notin {"absent", "dead"} => pc \notin {"absent", "dead"}
           /\ ~ WriteIndexPage
  <2>1. IndexPages' \subseteq IndexPages
    BY <1>6, IndexPagesStep
  <2> QED
    BY <1>1, <1>2, <1>6, <2>1, LayoutShrinks
<1>7. ASSUME LoseBuffers
      PROVE  \A w \in Streams : StreamPages(w)' \subseteq StreamPages(w)
  BY <1>7, EmptySeq DEF LoseBuffers, StreamPages
<1>8. ASSUME UNCHANGED <<page_, page_buf_, pages_>>
      PROVE  \A w \in Streams : StreamPages(w)' \subseteq StreamPages(w)
  BY <1>8, StreamPagesSame
<1>9. \/ CreateFile \/ AppendValue \/ WriteIndexPage
      \/ /\ LoseBuffers \/ UNCHANGED <<page_, page_buf_, pages_>>
         /\ UNCHANGED offset_
         /\ pc' \notin {"absent", "dead"} => pc \notin {"absent", "dead"}
  BY DEF Next, CommitStep, vars, CreateFileRaises, appendValueRaises,
         OpenColumn, OpenColumnRaises, WriteColumn,
         AppendValueRaises, AddRows, CommitBegin, WriteIndexEntry,
         WriteIndexEntryRaises, EmptyIndex, ReuseIndexRaises, FSyncPages,
         WriteMetaBlock, FSyncMetaBlock, FSyncMetaBlockRaises, OpenFile,
         CloseFile, WriterEnds, KernelWritesBack, WriteBack, PowerLoss,
         LoseCache, Idle
<1> QED
  BY <1>3, <1>4, <1>5, <1>6, <1>7, <1>8, <1>9

----------------------------------------------------------------------------
(* Before createFile, and what the buffers hold. *)

\* Every step keeps what is not allocated unused.
LEMMA FreshNext ==
  ASSUME TypeInv, Fresh, [Next]_vars
  PROVE  Fresh'
<1> SUFFICES ASSUME pc' = "absent" PROVE Fresh'
  BY DEF Fresh
<1>1. \/ UNCHANGED vars
      \/ pc = "absent" /\ KernelWritesBack
      \/ pc = "absent" /\ \E r \in Readers : OpenFile(r) \/ CloseFile(r)
  BY DEF Next, CommitStep, vars, CreateFile, CreateFileRaises, OpenColumn,
         OpenColumnRaises, WriteColumn, AppendValue, AppendValueRaises,
         AddRows, CommitBegin, WriteIndexEntry, WriteIndexEntryRaises,
         EmptyIndex, ReuseIndexRaises, WriteIndexPage, FSyncPages,
         WriteMetaBlock, FSyncMetaBlock, FSyncMetaBlockRaises, WriterEnds,
         KernelWritesBack, PowerLoss, Idle, OpenFile, CloseFile
<1>2. CASE UNCHANGED vars
  BY <1>2 DEF vars, Fresh
<1>3. CASE pc = "absent" /\ KernelWritesBack
  <2>1. hdrDisk' = hdrDisk \/ hdrDisk' = hdr
    BY <1>3 DEF KernelWritesBack, WriteBack, WriteBackSector, WriteBackIndex,
       WriteBackHeader
  <2> QED
    BY <1>3, <2>1 DEF KernelWritesBack, WriteBack, writerVars, Fresh
<1>4. ~ (pc = "absent" /\ \E r \in Readers : OpenFile(r) \/ CloseFile(r))
  BY DEF Fresh, OpenFile, CloseFile, openHeader
<1> QED
  BY <1>1, <1>2, <1>3, <1>4

\* A page that was written as a whole holds the buffer.
LEMMA WrittenHolds ==
  ASSUME TypeOK, TypeOK', BuffersGrow,
         NEW w \in Streams, page_[w] # NoPage,
         writePage(page_[w], page_buf_[w]),
         NEW e, e = [page |-> page_[w], used |-> Len(page_buf_[w])]
  PROVE  e \in PageEntry /\ Holds(w, e)'
<1>1. page_[w] \in PageRef /\ page_buf_[w] \in Seq(Nat) /\ e.page = page_[w]
  BY DEF TypeOK
<1>2. /\ Len(page_buf_[w]) \in Nat /\ Len(page_buf_'[w]) \in Nat
      /\ e.used = Len(page_buf_[w])
  BY LenProperties DEF TypeOK
<1>3. e \in PageEntry
  BY <1>1, <1>2 DEF PageEntry
<1>4. e.page \in StreamPages(w)' /\ e.used <= Len(page_buf_'[w])
  BY <1>1, <1>2 DEF BuffersGrow, StreamPages
<1>5. ASSUME NEW a \in Payload(e)
      PROVE  cache'[a] = page_buf_'[w][a - e.page.offset + 1]
  <2> DEFINE i == a - e.page.offset + 1
  <2>1. /\ a \in Nat /\ i \in 1 .. e.used
        /\ e.page.offset <= a /\ a < e.page.offset + e.page.size
    BY <1>3, <1>5, PayloadInPage
  <2>2. e.page.offset \in Nat /\ e.page.size \in Nat /\ Fits(e.page)
    BY <1>1 DEF PageRef, writePage
  <2>3. a \in Addr
    BY <2>1, <2>2, SizesAssumption DEF Fits, Addr
  <2>4. cache' = Written(cache, e.page, page_buf_[w], e.page.size)
    BY <1>1 DEF writePage
  <2>5. a \in e.page.offset .. (e.page.offset + e.page.size - 1)
    BY <2>1, <2>2
  <2>6. cache'[a] = PageWord(page_buf_[w], i)
    BY <2>3, <2>4, <2>5 DEF Written
  <2>7. i <= Len(page_buf_[w]) /\ i \in 1 .. Len(page_buf_[w])
    BY <1>2, <2>1
  <2> HIDE DEF i
  <2>8. page_buf_'[w][i] = page_buf_[w][i]
    BY <2>7 DEF BuffersGrow
  <2> QED
    BY <2>6, <2>7, <2>8 DEF PageWord, i
<1> QED
  BY <1>1, <1>3, <1>4, <1>5 DEF Holds, writePage, Fits, Payload

\* A page write spoils no page that an index lists.
LEMMA IndexHoldsStep ==
  ASSUME TypeOK, TypeOK', PagesDisjoint, PageWrite, BuffersGrow,
         NEW ix \in Seq(IndexEntry), IndexHolds(ix)
  PROVE  /\ IndexHolds(ix)'
         /\ \A e \in ListedPages(ix) : \A a \in Payload(e) :
              a \in Addr /\ cache'[a] = cache[a]
<1>1. ASSUME NEW k \in DOMAIN ix, NEW j \in DOMAIN ix[k].pages
      PROVE  /\ Holds(ix[k].stream, ix[k].pages[j])'
             /\ \A a \in Payload(ix[k].pages[j]) :
                  a \in Addr /\ cache'[a] = cache[a]
  <2>1. ix[k] \in IndexEntry
    OBVIOUS
  <2>2. ix[k].stream \in Streams /\ ix[k].pages \in Seq(PageEntry)
    BY <2>1 DEF IndexEntry
  <2>3. ix[k].pages[j] \in PageEntry
    BY <2>2
  <2>4. Holds(ix[k].stream, ix[k].pages[j])
    BY DEF IndexHolds
  <2> QED
    BY <2>2, <2>3, <2>4, HoldsStep
<1>2. IndexHolds(ix)'
  BY <1>1 DEF IndexHolds
<1>3. ASSUME NEW e \in ListedPages(ix), NEW a \in Payload(e)
      PROVE  a \in Addr /\ cache'[a] = cache[a]
  <2>1. PICK k \in DOMAIN ix : \E j \in DOMAIN ix[k].pages : e = ix[k].pages[j]
    BY DEF ListedPages
  <2> QED
    BY <1>1, <1>3, <2>1
<1> QED
  BY <1>2, <1>3

\* A dead writer stays dead.
LEMMA StaysDead ==
  ASSUME [Next]_vars, pc = "dead"
  PROVE  pc' = "dead"
BY DEF Next, CommitStep, vars, CreateFile, CreateFileRaises, OpenColumn,
       OpenColumnRaises, WriteColumn, AppendValue, AppendValueRaises,
       AddRows, CommitBegin, WriteIndexEntry, WriteIndexEntryRaises,
       EmptyIndex, ReuseIndexRaises, WriteIndexPage, FSyncPages,
       WriteMetaBlock, FSyncMetaBlock, FSyncMetaBlockRaises, WriterEnds,
       KernelWritesBack, PowerLoss, Idle, OpenFile, CloseFile

PagesHold ==
  \A w \in Streams : \A j \in DOMAIN pages_[w] : Holds(w, pages_[w][j])

\* Every step keeps the finished pages of every stream in the file.
LEMMA PagesHoldNext ==
  ASSUME TypeInv, TypeInv', PagesDisjoint, PagesHold, [Next]_vars,
         pc' # "dead"
  PROVE  PagesHold'
<1> USE DEF TypeInv
<1>1. PageWrite /\ BuffersGrow
  BY WriterStep
<1>2. ASSUME NEW w \in Streams, NEW j \in DOMAIN pages_[w],
             pages_'[w][j] = pages_[w][j]
      PROVE  Holds(w, pages_[w][j])'
  <2>1. PICK e : e = pages_[w][j]
    OBVIOUS
  <2>2. pages_[w] \in Seq(PageEntry) /\ e \in PageEntry /\ Holds(w, e)
    BY <2>1 DEF TypeOK, PagesHold
  <2>3. Holds(w, e)'
    BY <1>1, <2>2, HoldsStep
  <2> QED
    BY <1>2, <2>1, <2>3 DEF Holds
<1>3. CASE UNCHANGED pages_
  BY <1>2, <1>3 DEF PagesHold
<1>4. CASE AppendValue
  <2>1. PICK w \in Streams : w = Head(todo).key
    BY <1>4, HeadOfTodo DEF AppendValue
  <2>2. PICK v \in Nat : v = Head(todo).value
    BY <1>4, HeadOfTodo DEF AppendValue
  <2>3. appendValue(w, v)
    BY <1>4, <2>1, <2>2 DEF AppendValue
  <2>4. CASE AppendToNextPage(w, v)
    <3>1. PICK e : e = [page |-> page_[w], used |-> Len(page_buf_[w])]
      OBVIOUS
    <3>2. /\ page_[w] # NoPage /\ writePage(page_[w], page_buf_[w])
          /\ pages_' = [pages_ EXCEPT ![w] = Append(@, e)]
      BY <2>4, <3>1 DEF AppendToNextPage
    <3>3. e \in PageEntry /\ Holds(w, e)'
      BY <1>1, <3>1, <3>2, WrittenHolds
    <3>4. /\ pages_[w] \in Seq(PageEntry) /\ pages_'[w] = Append(pages_[w], e)
          /\ \A x \in Streams : x # w => pages_'[x] = pages_[x]
      BY <3>2 DEF TypeOK
    <3>5. /\ DOMAIN pages_'[w] = 1 .. (Len(pages_[w]) + 1)
          /\ DOMAIN pages_[w] = 1 .. Len(pages_[w]) /\ Len(pages_[w]) \in Nat
          /\ \A j \in 1 .. Len(pages_[w]) : pages_'[w][j] = pages_[w][j]
          /\ pages_'[w][Len(pages_[w]) + 1] = e
      BY <3>3, <3>4, AppendProperties, LenProperties
    <3>6. ASSUME NEW x \in Streams, NEW j \in DOMAIN pages_'[x]
          PROVE  Holds(x, pages_[x][j])'
      <4>1. CASE x # w \/ j \in 1 .. Len(pages_[w])
        <5>1. j \in DOMAIN pages_[x] /\ pages_'[x][j] = pages_[x][j]
          BY <3>4, <3>5, <3>6, <4>1
        <5> QED
          BY <1>2, <5>1
      <4>2. CASE x = w /\ j = Len(pages_[w]) + 1
        <5>1. pages_'[x][j] = e
          BY <3>5, <4>2
        <5> QED
          BY <3>3, <4>2, <5>1 DEF Holds
      <4> QED
        BY <3>5, <3>6, <4>1, <4>2
    <3> QED
      BY <3>6 DEF PagesHold
  <2>5. CASE AppendToPage(w, v) \/ AppendToFirstPage(w, v)
    BY <1>3, <2>5 DEF AppendToPage, AppendToFirstPage
  <2> QED
    BY <2>3, <2>4, <2>5 DEF appendValue
<1> QED
  BY <1>3, <1>4
     DEF Next, CommitStep, vars, CreateFile, CreateFileRaises, OpenColumn,
         OpenColumnRaises, WriteColumn, AppendValueRaises, appendValueRaises,
         AddRows, CommitBegin, WriteIndexEntry, WriteIndexEntryRaises,
         EmptyIndex, ReuseIndexRaises, WriteIndexPage, FSyncPages,
         WriteMetaBlock, FSyncMetaBlock, FSyncMetaBlockRaises, WriterEnds,
         KernelWritesBack, PowerLoss, OpenFile, CloseFile

\* writeIndex lists pages that hold what it lists.
LEMMA ListedHolds ==
  ASSUME TypeInv, TypeInv', PagesDisjoint, PagesHold, [Next]_vars,
         WriteIndexEntry,
         NEW w \in Streams, w = page_writers_[Len(entries) + 1].stream,
         NEW j \in DOMAIN listed(w),
         NEW e, e = listed(w)[j]
  PROVE  Holds(w, e)'
<1> USE DEF TypeInv
<1>1. PageWrite /\ BuffersGrow
  BY WriterStep DEF WriteIndexEntry
<1>2. /\ pages_[w] \in Seq(PageEntry) /\ Len(pages_[w]) \in Nat
      /\ DOMAIN pages_[w] = 1 .. Len(pages_[w])
  BY LenProperties DEF TypeOK
<1>3. ASSUME NEW i \in DOMAIN pages_[w], e = pages_[w][i]
      PROVE  Holds(w, e)'
  <2>1. e \in PageEntry /\ Holds(w, e)
    BY <1>2, <1>3 DEF PagesHold
  <2> QED
    BY <1>1, <2>1, HoldsStep
<1>4. CASE page_[w] = NoPage
  BY <1>3, <1>4 DEF listed
<1>5. CASE page_[w] # NoPage
  <2>1. PICK n : n = [page |-> page_[w], used |-> Len(page_buf_[w])]
    OBVIOUS
  <2>2. writePage(page_[w], page_buf_[w])
    BY <1>5 DEF WriteIndexEntry, writeIndex, flushOpenPage
  <2>3. n \in PageEntry /\ Holds(w, n)'
    BY <1>1, <1>5, <2>1, <2>2, WrittenHolds
  <2>4. listed(w) = Append(pages_[w], n)
    BY <1>5, <2>1 DEF listed
  <2>5. /\ j \in 1 .. (Len(pages_[w]) + 1)
        /\ j \in 1 .. Len(pages_[w]) => listed(w)[j] = pages_[w][j]
        /\ j = Len(pages_[w]) + 1 => listed(w)[j] = n
    BY <1>2, <2>3, <2>4, AppendProperties, LenProperties
  <2>6. CASE j \in 1 .. Len(pages_[w])
    BY <1>2, <1>3, <2>5, <2>6
  <2>7. CASE j = Len(pages_[w]) + 1
    <3>1. e = n
      BY <2>5, <2>7
    <3> QED
      BY <2>3, <3>1
  <2> QED
    BY <1>2, <2>5, <2>6, <2>7
<1> QED
  BY <1>4, <1>5

\* Every step keeps the pages of the index that is being built in the file.
LEMMA EntriesHoldNext ==
  ASSUME TypeInv, TypeInv', PagesDisjoint, PagesHold, IndexHolds(entries),
         [Next]_vars, pc' # "dead"
  PROVE  IndexHolds(entries)'
<1> USE DEF TypeInv
<1>1. PageWrite /\ BuffersGrow
  BY WriterStep
<1>2. PICK ix : ix = entries
  OBVIOUS
<1>3. ix \in Seq(IndexEntry) /\ IndexHolds(ix)'
  BY <1>1, <1>2, IndexHoldsStep DEF TypeOK
<1>4. CASE UNCHANGED entries
  BY <1>2, <1>3, <1>4 DEF IndexHolds
<1>5. CASE entries' = <<>>
  BY <1>5, EmptySeq DEF IndexHolds
<1>6. CASE WriteIndexEntry
  <2>0. PICK p \in PageWriter : p = page_writers_[Len(entries) + 1]
    BY <1>6, NextWriterType DEF WriteIndexEntry
  <2>1. PICK w \in Streams : w = p.stream
    BY DEF PageWriter
  <2>2. PICK x : x = [key |-> p.key, stream |-> w, pages |-> listed(w)]
    OBVIOUS
  <2>3. x \in IndexEntry
    BY <2>1, <2>2, EntryOfWriterType
  <2>4. entries' = Append(ix, x)
    BY <1>2, <1>6, <2>0, <2>1, <2>2 DEF WriteIndexEntry, writeIndex
  <2>5. /\ DOMAIN entries' = 1 .. (Len(ix) + 1)
        /\ DOMAIN ix = 1 .. Len(ix) /\ Len(ix) \in Nat
        /\ \A k \in 1 .. Len(ix) : entries'[k] = ix[k]
        /\ entries'[Len(ix) + 1] = x
    BY <1>3, <2>3, <2>4, AppendProperties, LenProperties
  <2>6. ASSUME NEW k \in DOMAIN entries', NEW j \in DOMAIN entries'[k].pages
        PROVE  Holds(entries[k].stream, entries[k].pages[j])'
    <3>1. CASE k \in 1 .. Len(ix)
      <4>1. entries'[k] = ix[k] /\ k \in DOMAIN ix /\ j \in DOMAIN ix[k].pages
        BY <2>5, <2>6, <3>1
      <4>2. Holds(ix[k].stream, ix[k].pages[j])'
        BY <1>3, <4>1 DEF IndexHolds
      <4> QED
        BY <4>1, <4>2 DEF Holds
    <3>2. CASE k = Len(ix) + 1
      <4>1. entries'[k] = x /\ j \in DOMAIN listed(w)
        BY <2>2, <2>5, <2>6, <3>2
      <4>2. PICK e : e = listed(w)[j]
        OBVIOUS
      <4>3. Holds(w, e)'
        BY <1>6, <2>0, <2>1, <4>1, <4>2, ListedHolds
      <4>4. entries'[k].stream = w /\ entries'[k].pages[j] = e
        BY <2>2, <4>1, <4>2
      <4> QED
        BY <4>3, <4>4 DEF Holds
    <3> QED
      BY <2>5, <2>6, <3>1, <3>2
  <2> QED
    BY <2>6 DEF IndexHolds
<1> QED
  BY <1>4, <1>5, <1>6
     DEF Next, CommitStep, vars, CreateFile, CreateFileRaises, OpenColumn,
         OpenColumnRaises, WriteColumn, AppendValue, AppendValueRaises,
         AddRows, CommitBegin, WriteIndexEntryRaises,
         EmptyIndex, ReuseIndexRaises, WriteIndexPage, FSyncPages,
         WriteMetaBlock, FSyncMetaBlock, FSyncMetaBlockRaises, WriterEnds,
         KernelWritesBack, PowerLoss, OpenFile, CloseFile

\* An index page is written once, at a fresh address.
LEMMA IdxCacheStep ==
  ASSUME TypeInv, [Next]_vars, pc' # "dead"
  PROVE  \/ UNCHANGED idxCache
         \/ /\ WriteIndexPage
            /\ idxCache' = [idxCache EXCEPT ![offset_] = entries]
            /\ offset_ \in Addr /\ idx_head'.offset = offset_
<1> USE DEF TypeInv
<1>1. CASE WriteIndexPage
  <2>1. offset_ \in Nat
    BY DEF TypeOK
  <2>2. PICK size \in IndexSizes :
          LET p == NewIndexPage(size)
          IN  \/ /\ Fits(p)
                 /\ idxCache' = [idxCache EXCEPT ![p.offset] = entries]
                 /\ idx_head' = p
              \/ UNCHANGED idxCache
    BY <1>1 DEF WriteIndexPage
  <2> DEFINE p == NewIndexPage(size)
  <2>3. p \in PageRef /\ p.offset = offset_ /\ p.size > 0
    BY <2>1, IndexPageType
  <2>4. Fits(p) => offset_ \in Addr
    BY <2>1, <2>3, SizesAssumption DEF Fits, Addr, PageRef
  <2> HIDE DEF p
  <2> QED
    BY <1>1, <2>2, <2>3, <2>4 DEF p
<1> QED
  BY <1>1
     DEF Next, CommitStep, vars, fileVars, CreateFile, CreateFileRaises,
         OpenColumn, OpenColumnRaises, WriteColumn, AppendValue,
         AppendValueRaises, AddRows, CommitBegin, WriteIndexEntry,
         WriteIndexEntryRaises, EmptyIndex, ReuseIndexRaises, FSyncPages,
         WriteMetaBlock, FSyncMetaBlock, FSyncMetaBlockRaises, WriterEnds,
         KernelWritesBack, WriteBack, PowerLoss, OpenFile, CloseFile

\* Every step keeps BuffersHold.
LEMMA BuffersNext ==
  ASSUME TypeInv, TypeInv', PagesDisjoint, BuffersHold, [Next]_vars
  PROVE  BuffersHold'
<1> USE DEF TypeInv
<1> SUFFICES ASSUME pc' # "dead" PROVE BuffersHold'
  BY DEF BuffersHold
<1>1. pc # "dead"
  BY StaysDead
<1>2. /\ PagesHold /\ IndexHolds(entries)
      /\ \A a \in Addr : idxCache[a] # NoIndex => IndexHolds(idxCache[a])
  BY <1>1 DEF BuffersHold, PagesHold
<1>3. PagesHold'
  BY <1>2, PagesHoldNext
<1>4. IndexHolds(entries)'
  BY <1>2, EntriesHoldNext
<1>5. PageWrite /\ BuffersGrow
  BY WriterStep
<1>6. ASSUME NEW a \in Addr, idxCache'[a] # NoIndex
      PROVE  IndexHolds(idxCache[a])'
  <2>1. CASE idxCache'[a] = idxCache[a]
    <3>1. PICK ix : ix = idxCache[a]
      OBVIOUS
    <3>2. ix \in Seq(IndexEntry) /\ IndexHolds(ix)
      BY <1>2, <1>6, <2>1, <3>1 DEF TypeOK
    <3>3. IndexHolds(ix)'
      BY <1>5, <3>2, IndexHoldsStep
    <3> QED
      BY <2>1, <3>1, <3>3 DEF IndexHolds
  <2>2. CASE idxCache'[a] # idxCache[a]
    <3>1. idxCache'[a] = entries /\ UNCHANGED entries
      BY <2>2, IdxCacheStep DEF TypeOK, WriteIndexPage
    <3> QED
      BY <1>4, <3>1 DEF IndexHolds
  <2> QED
    BY <2>1, <2>2
<1> QED
  BY <1>3, <1>4, <1>6 DEF BuffersHold, PagesHold

----------------------------------------------------------------------------
(* The write-ahead rule. *)

\* A word of the disk changes only by taking the word of the cache.
LEMMA DiskStep ==
  ASSUME TypeInv, [Next]_vars, NEW a \in Addr
  PROVE  /\ disk'[a] \in {disk[a], cache[a]}
         /\ idxDisk'[a] \in {idxDisk[a], idxCache[a]}
<1> USE DEF TypeInv
<1>1. CASE UNCHANGED <<disk, idxDisk>>
  BY <1>1
<1>2. CASE disk' = cache /\ idxDisk' = idxCache
  BY <1>2
<1>3. CASE KernelWritesBack
  <2>1. ASSUME NEW b \in Addr, WriteBackSector(b)
        PROVE  disk'[a] \in {disk[a], cache[a]} /\ UNCHANGED idxDisk
    BY <2>1 DEF WriteBackSector
  <2>2. ASSUME NEW b \in Addr, WriteBackIndex(b)
        PROVE  idxDisk'[a] \in {idxDisk[a], idxCache[a]} /\ UNCHANGED disk
    BY <2>2 DEF WriteBackIndex, TypeOK
  <2> QED
    BY <1>1, <1>3, <2>1, <2>2
       DEF KernelWritesBack, WriteBack, WriteBackHeader
<1> QED
  BY <1>1, <1>2, <1>3
     DEF Next, CommitStep, vars, fileVars, CreateFile, CreateFileRaises,
         OpenColumn, OpenColumnRaises, WriteColumn, AppendValue,
         AppendValueRaises, AddRows, CommitBegin, WriteIndexEntry,
         WriteIndexEntryRaises, EmptyIndex, ReuseIndexRaises, WriteIndexPage,
         FSyncPages, fsync, WriteMetaBlock, FSyncMetaBlock,
         FSyncMetaBlockRaises, WriterEnds, PowerLoss, LoseCache, OpenFile,
         CloseFile

\* Without a writer, the cache stays or falls back to the disk.
LEMMA DeadStep ==
  ASSUME [Next]_vars, pc' = "dead"
  PROVE  \/ UNCHANGED <<cache, idxCache>>
         \/ cache' = disk /\ idxCache' = idxDisk /\ UNCHANGED <<disk, idxDisk>>
BY DEF Next, CommitStep, vars, fileVars, CreateFile, CreateFileRaises,
       OpenColumn, OpenColumnRaises, WriteColumn, AppendValue,
       AppendValueRaises, AddRows, CommitBegin, WriteIndexEntry,
       WriteIndexEntryRaises, EmptyIndex, ReuseIndexRaises, WriteIndexPage,
       FSyncPages, fsync, WriteMetaBlock, FSyncMetaBlock,
       FSyncMetaBlockRaises, WriterEnds, KernelWritesBack, WriteBack,
       PowerLoss, LoseCache, OpenFile, CloseFile

\* What is durable stays so, and its index is not written over.
LEMMA DurableStep ==
  ASSUME TypeInv, TypeInv', Layout, BuffersHold, [Next]_vars,
         NEW m, m.head \in IndexPages, Durable(m)
  PROVE  Durable(m)' /\ idxCache'[m.head.offset] = idxCache[m.head.offset]
<1> USE DEF TypeInv
<1>1. PICK o : o = m.head.offset
  OBVIOUS
<1>2. PICK ix : ix = idxCache[o]
  OBVIOUS
<1>3. /\ o \in Addr /\ ix # NoIndex /\ idxDisk[o] = ix /\ idxCache[o] = ix
      /\ \A e \in ListedPages(ix) :
           \A a \in Payload(e) : a \in Addr /\ disk[a] = cache[a]
  BY <1>1, <1>2 DEF Durable
<1>4. ix \in Seq(IndexEntry)
  BY <1>2, <1>3 DEF TypeOK
<1>5. /\ idxCache'[o] = ix
      /\ \A e \in ListedPages(ix) : \A a \in Payload(e) : cache'[a] = cache[a]
  <2>1. CASE pc' = "dead"
    BY <1>3, <2>1, DeadStep
  <2>2. CASE pc' # "dead"
    <3>1. pc # "dead"
      BY <2>2, StaysDead
    <3>2. IndexHolds(ix)
      BY <1>3, <3>1 DEF BuffersHold
    <3>3. PageWrite /\ BuffersGrow
      BY <2>2, WriterStep
    <3>4. \A e \in ListedPages(ix) : \A a \in Payload(e) : cache'[a] = cache[a]
      BY <1>4, <3>2, <3>3, IndexHoldsStep DEF Layout
    <3>5. o # offset_
      <4>1. m.head \in PageRef /\ offset_ \in Nat
        BY IndexPagesType DEF TypeOK
      <4>2. m.head.offset + m.head.size <= offset_ /\ m.head.size > 0
        BY DEF Layout, PagesDisjoint
      <4> QED
        BY <1>1, <4>1, <4>2 DEF PageRef
    <3>6. idxCache'[o] = ix
      BY <1>3, <2>2, <3>5, IdxCacheStep DEF TypeOK
    <3> QED
      BY <3>4, <3>6
  <2> QED
    BY <2>1, <2>2
<1>6. idxDisk'[o] = ix
  BY <1>3, DiskStep
<1>7. ASSUME NEW e \in ListedPages(ix), NEW a \in Payload(e)
      PROVE  a \in Addr /\ disk'[a] = cache'[a]
  <2>1. a \in Addr /\ disk[a] = cache[a] /\ cache'[a] = cache[a]
    BY <1>3, <1>5
  <2> QED
    BY <2>1, DiskStep
<1> QED
  BY <1>1, <1>2, <1>3, <1>5, <1>6, <1>7 DEF Durable

\* What the first fsync makes of the index that commitV2 has written.
LEMMA FSyncDurable ==
  ASSUME TypeInv, TypeInv', Layout, BuffersHold, [Next]_vars,
         FSyncPages, pc' = "meta",
         idx_head.offset \in Addr, idxCache[idx_head.offset] # NoIndex
  PROVE  Durable([head |-> idx_head])'
<1> USE DEF TypeInv
<1>1. /\ disk' = cache /\ idxDisk' = idxCache /\ pc # "dead"
      /\ UNCHANGED <<cache, idxCache, idx_head>>
  BY DEF FSyncPages, fsync, writerVars
<1>2. PICK ix : ix = idxCache[idx_head.offset]
  OBVIOUS
<1>3. ix \in Seq(IndexEntry) /\ IndexHolds(ix)
  BY <1>1, <1>2 DEF BuffersHold, TypeOK
<1>4. PageWrite /\ BuffersGrow
  BY WriterStep
<1>5. \A e \in ListedPages(ix) : \A a \in Payload(e) : a \in Addr
  BY <1>3, <1>4, IndexHoldsStep DEF Layout
<1> QED
  BY <1>1, <1>2, <1>5 DEF Durable

\* Before the metablock is written its index and pages are on disk.
LEMMA ReadyNext ==
  ASSUME TypeInv, TypeInv', Layout, BuffersHold, ReadyToPublish, [Next]_vars
  PROVE  ReadyToPublish'
<1> USE DEF TypeInv
<1>1. ASSUME pc' \in {"fsync1", "meta", "fsync2"}
      PROVE  idx_head'.offset \in Addr /\ idxCache'[idx_head'.offset] # NoIndex
  <2>1. CASE WriteIndexPage
    <3>1. pc = "index" /\ pc' = "fsync1"
      BY <1>1, <2>1 DEF WriteIndexPage
    <3>2. PICK size \in IndexSizes :
            LET p == NewIndexPage(size)
            IN  /\ Fits(p) /\ idx_head' = p
                /\ idxCache' = [idxCache EXCEPT ![p.offset] = entries]
      BY <2>1, <3>1 DEF WriteIndexPage
    <3> DEFINE p == NewIndexPage(size)
    <3>3. p \in PageRef /\ p.size > 0
      BY IndexPageType DEF TypeOK
    <3>4. p.offset \in Addr
      BY <3>2, <3>3, SizesAssumption DEF Fits, Addr, PageRef
    <3>5. entries # NoIndex
      BY IndexMarkerAssumption DEF TypeOK
    <3> HIDE DEF p
    <3> QED
      BY <3>2, <3>4, <3>5 DEF p, TypeOK
  <2>2. CASE ~ WriteIndexPage
    <3>1. pc \in {"fsync1", "meta", "fsync2"} /\ UNCHANGED idx_head
      BY <1>1, <2>2
         DEF Next, CommitStep, vars, writerVars, CreateFile,
             CreateFileRaises, OpenColumn, OpenColumnRaises, WriteColumn,
             AppendValue, AppendValueRaises, AddRows, CommitBegin,
             WriteIndexEntry, WriteIndexEntryRaises, EmptyIndex,
             ReuseIndexRaises, FSyncPages, WriteMetaBlock, FSyncMetaBlock,
             FSyncMetaBlockRaises, WriterEnds, KernelWritesBack, PowerLoss,
             OpenFile, CloseFile
    <3>2. UNCHANGED idxCache
      BY <1>1, <2>2, IdxCacheStep
    <3> QED
      BY <3>1, <3>2 DEF ReadyToPublish
  <2> QED
    BY <2>1, <2>2
<1>2. ASSUME pc' \in {"meta", "fsync2"}
      PROVE  Durable([head |-> idx_head])'
  <2>1. /\ \/ FSyncPages /\ pc' = "meta"
           \/ pc \in {"meta", "fsync2"}
        /\ UNCHANGED idx_head
    BY <1>2
       DEF Next, CommitStep, vars, writerVars, CreateFile,
           CreateFileRaises, OpenColumn, OpenColumnRaises, WriteColumn,
           AppendValue, AppendValueRaises, AddRows, CommitBegin,
           WriteIndexEntry, WriteIndexEntryRaises, EmptyIndex,
           ReuseIndexRaises, WriteIndexPage, FSyncPages, WriteMetaBlock,
           FSyncMetaBlock, FSyncMetaBlockRaises, WriterEnds,
           KernelWritesBack, PowerLoss, OpenFile, CloseFile
  <2>2. CASE FSyncPages /\ pc' = "meta"
    <3>1. idx_head.offset \in Addr /\ idxCache[idx_head.offset] # NoIndex
      BY <2>2 DEF FSyncPages, ReadyToPublish
    <3> QED
      BY <2>2, <3>1, FSyncDurable
  <2>3. CASE pc \in {"meta", "fsync2"}
    <3>1. PICK m : m = [head |-> idx_head]
      OBVIOUS
    <3>2. m.head \in IndexPages /\ Durable(m)
      BY <2>3, <3>1 DEF PositionOK, IndexPages, ReadyToPublish
    <3>3. Durable(m)'
      BY <3>2, DurableStep
    <3> QED
      BY <2>1, <3>1, <3>3 DEF Durable
  <2> QED
    BY <2>1, <2>2, <2>3
<1> QED
  BY <1>1, <1>2 DEF ReadyToPublish

\* Every metablock that a header holds describes durable pages.
LEMMA PublishedNext ==
  ASSUME TypeInv, TypeInv', Layout, BuffersHold, ReadyToPublish,
         PublishedIsDurable, [Next]_vars
  PROVE  PublishedIsDurable'
<1> USE DEF TypeInv
<1> SUFFICES ASSUME NEW m \in InUse' PROVE Durable(m)'
  BY DEF PublishedIsDurable
<1>1. CASE m \in InUse
  <2>1. m.head \in IndexPages /\ Durable(m)
    BY <1>1 DEF IndexPages, PublishedIsDurable
  <2> QED
    BY <2>1, DurableStep
<1>2. CASE WriteMetaBlock /\ m = newMetaBlock
  <2>1. pc = "meta" /\ m.head = idx_head
    BY <1>2 DEF WriteMetaBlock, newMetaBlock
  <2>2. m.head \in IndexPages /\ Durable(m)
    BY <2>1 DEF PositionOK, IndexPages, ReadyToPublish, Durable
  <2> QED
    BY <2>2, DurableStep
<1> QED
  BY <1>1, <1>2, InUseStep

\* Every step keeps the pages of a metablock below its file size.
LEMMA FileSizeNext ==
  ASSUME TypeInv, TypeInv', Layout, BuffersHold, ReadyToPublish,
         PublishedIsDurable, FileSizeCovers, [Next]_vars
  PROVE  FileSizeCovers'
<1> USE DEF TypeInv
<1> SUFFICES ASSUME NEW m \in InUse'
             PROVE  /\ m.head.offset + m.head.size <= m.file_size
                    /\ \A e \in ListedPages(idxCache'[m.head.offset]) :
                         e.page.offset + e.page.size <= m.file_size
  BY DEF FileSizeCovers, ListedPages
<1>1. CASE m \in InUse
  <2>1. m.head \in IndexPages /\ Durable(m)
    BY <1>1 DEF IndexPages, PublishedIsDurable
  <2>2. idxCache'[m.head.offset] = idxCache[m.head.offset]
    BY <2>1, DurableStep
  <2> QED
    BY <1>1, <2>2 DEF FileSizeCovers
<1>2. CASE WriteMetaBlock /\ m = newMetaBlock
  <2>1. /\ pc = "meta" /\ m.head = idx_head /\ m.file_size = offset_
        /\ UNCHANGED idxCache
    BY <1>2 DEF WriteMetaBlock, newMetaBlock, getOffset
  <2>2. m.head \in IndexPages
    BY <2>1 DEF PositionOK, IndexPages
  <2>3. m.head.offset + m.head.size <= m.file_size
    BY <2>1, <2>2 DEF Layout, PagesDisjoint
  <2>4. PICK ix : ix = idxCache[m.head.offset]
    OBVIOUS
  <2>5. ix \in Seq(IndexEntry) /\ IndexHolds(ix)
    BY <2>1, <2>4 DEF ReadyToPublish, BuffersHold, TypeOK
  <2>6. ASSUME NEW e \in ListedPages(ix)
        PROVE  e.page.offset + e.page.size <= m.file_size
    <3>1. PICK k \in DOMAIN ix : \E j \in DOMAIN ix[k].pages :
            e = ix[k].pages[j] /\ ix[k].stream \in Streams /\ e \in PageEntry
      BY <2>5, ListedOfStream
    <3>2. Holds(ix[k].stream, e)
      BY <2>5, <3>1 DEF IndexHolds
    <3>3. ix[k].stream \in Streams /\ e.page \in StreamPages(ix[k].stream)
      BY <3>1, <3>2 DEF Holds
    <3> QED
      BY <2>1, <3>3 DEF Layout, PagesDisjoint
  <2> QED
    BY <2>1, <2>3, <2>4, <2>6
<1> QED
  BY <1>1, <1>2, InUseStep

----------------------------------------------------------------------------
(* The theorems. *)

\* An absent file.
LEMMA StoreInit == Init => StoreInv
<1> SUFFICES ASSUME Init PROVE StoreInv
  OBVIOUS
<1>1. TypeInv
  BY TypeInit
<1>2. Fresh
  BY DEF Init, FileInit, PageWritersInit, Fresh
<1>3. InUse = {}
  BY DEF Init, FileInit, InUse, HeaderBlocks
<1>4. IndexPages = {}
  BY <1>3 DEF Init, IndexPages
<1>5. \A w \in Streams : StreamPages(w) = {}
  BY EmptySeq DEF Init, PageWritersInit, StreamPages
<1>6. pc = "absent"
  BY DEF Init
<1>7. Layout
  BY <1>4, <1>5, <1>6 DEF Layout, PagesDisjoint
<1>8. BuffersHold
  <2>1. /\ \A w \in Streams : DOMAIN pages_[w] = {}
        /\ DOMAIN entries = {}
        /\ \A a \in Addr : idxCache[a] = NoIndex
    BY EmptySeq DEF Init, FileInit, PageWritersInit
  <2> QED
    BY <2>1 DEF BuffersHold, IndexHolds
<1> QED
  BY <1>1, <1>2, <1>3, <1>6, <1>7, <1>8
     DEF StoreInv, TypeInv, ReadyToPublish, PublishedIsDurable, FileSizeCovers

\* Every step keeps the invariant of the store.
LEMMA StoreNext == StoreInv /\ [Next]_vars => StoreInv'
<1> SUFFICES ASSUME StoreInv, [Next]_vars PROVE StoreInv'
  OBVIOUS
<1>1. TypeInv /\ PagesDisjoint
  BY DEF StoreInv, TypeInv, Layout
<1>2. TypeInv'
  BY <1>1, TypeNext
<1>3. Fresh' /\ Layout'
  BY <1>1, <1>2, FreshNext, LayoutNext DEF StoreInv
<1>4. BuffersHold'
  BY <1>1, <1>2, BuffersNext DEF StoreInv
<1>5. ReadyToPublish' /\ PublishedIsDurable' /\ FileSizeCovers'
  BY <1>1, <1>2, ReadyNext, PublishedNext, FileSizeNext DEF StoreInv
<1> QED
  BY <1>2, <1>3, <1>4, <1>5 DEF StoreInv, TypeInv

\* The conjunction that the four theorems below are read off.
THEOREM StoreInvariant == Spec => []StoreInv
<1> QED
  BY StoreInit, StoreNext, PTL DEF Spec

\* PageManager::allocPage never hands out a word twice, whatever raises and
\* wherever the writer stops.
THEOREM PagesNeverOverlap == Spec => []PagesDisjoint
<1>1. StoreInv => PagesDisjoint
  BY DEF StoreInv, Layout
<1> QED
  BY <1>1, StoreInvariant, PTL

\* UInt64PageWriter::appendValue never empties its buffer and writes the open
\* page over and over; a page that was listed still holds the prefix of the
\* buffer it was listed with, and no other page write touches it.
THEOREM ListedPagesHold == Spec => []BuffersHold
<1>1. StoreInv => BuffersHold
  BY DEF StoreInv
<1> QED
  BY <1>1, StoreInvariant, PTL

\* The write-ahead rule of PageManager::writeTransaction: a metablock that can
\* be reached refers to pages that are on disk, although the open page of
\* every stream is rewritten in place by later commits.
THEOREM WriteAhead == Spec => []PublishedIsDurable
<1>1. StoreInv => PublishedIsDurable
  BY DEF StoreInv
<1> QED
  BY <1>1, StoreInvariant, PTL

\* The file size that commitV2 stores covers every page of the version.
THEOREM FileSizeIsSafe == Spec => []FileSizeCovers
<1>1. StoreInv => FileSizeCovers
  BY DEF StoreInv
<1> QED
  BY <1>1, StoreInvariant, PTL

----------------------------------------------------------------------------
(* A commit that has returned survives a power loss. *)

\* The slot of a later version covers the earlier one.
LEMMA SlotHoldsTransitive ==
  ASSUME NEW h \in Header \cup {NoHeader}, NEW p \in PageRef, NEW q \in PageRef,
         SlotHolds(h, p), p.offset >= q.offset
  PROVE  SlotHolds(h, q)
<1>1. h[1] \in MetaBlock /\ h[1].head \in PageRef
  BY DEF SlotHolds, Header, Slots, MetaBlock
<1> QED
  BY <1>1 DEF SlotHolds, PageRef

\* writeTransaction writes slot 1 and leaves slot 0 alone.
LEMMA MetaBlockSlot ==
  ASSUME TypeInv, WriteMetaBlock, writeMetaBlock(newMetaBlock)
  PROVE  /\ hdr \in Header /\ hdr'[0] = hdr[0]
         /\ SlotHolds(hdr', idx_head)
         /\ idx_head \in PageRef
<1>1. hdr \in Header /\ idx_head \in PageRef
  BY DEF TypeInv, TypeOK, PositionOK, WriteMetaBlock
<1>2. /\ num_rows_ \in Nat /\ offset_ \in Nat
  BY DEF TypeInv, TypeOK
<1>3. newMetaBlock \in MetaBlock /\ newMetaBlock.head = idx_head
  BY <1>1, <1>2 DEF newMetaBlock, MetaBlock, current_txid_, getOffset
<1>4. mb_index(newMetaBlock) = 1
  BY DEF mb_index, newMetaBlock, current_txid_
<1>5. hdr' = [hdr EXCEPT ![1] = newMetaBlock]
  BY <1>4 DEF writeMetaBlock
<1>6. hdr'[0] = hdr[0] /\ hdr'[1] = newMetaBlock /\ hdr' \in Header
  BY <1>1, <1>3, <1>5 DEF Header, Slots
<1>7. idx_head.offset >= idx_head.offset
  BY <1>1 DEF PageRef
<1> QED
  BY <1>1, <1>3, <1>6, <1>7, MarkersAssumption DEF SlotHolds

\* A new index page lies above every index page in use.
LEMMA NewIndexIsHigher ==
  ASSUME TypeInv, Layout, WriteIndexPage, pc' = "fsync1",
         cur_idx_ptr_ # NoPage
  PROVE  idx_head'.offset >= cur_idx_ptr_.offset
<1>1. PICK size \in IndexSizes : idx_head' = NewIndexPage(size)
  BY DEF WriteIndexPage
<1>2. offset_ \in Nat /\ cur_idx_ptr_ \in PageRef
  BY DEF TypeInv, TypeOK
<1>3. idx_head'.offset = offset_
  BY <1>1, <1>2, IndexPageType
<1>4. cur_idx_ptr_.offset + cur_idx_ptr_.size <= offset_
  BY DEF Layout, PagesDisjoint, IndexPages
<1> QED
  BY <1>2, <1>3, <1>4 DEF PageRef

\* Every step keeps acknowledged versions durable.
LEMMA AckedNext ==
  ASSUME StoreInv, AckedInv, [Next]_vars
  PROVE  AckedInv'
<1>1. TypeInv /\ Layout /\ Fresh
  BY DEF StoreInv, TypeInv
<1>2. /\ hdr \in Header \cup {NoHeader} /\ hdrDisk \in Header \cup {NoHeader}
      /\ cur_idx_ptr_ \in PageRef \cup {NoPage}
      /\ idx_head \in PageRef \cup {NoPage}
  BY <1>1 DEF TypeInv, TypeOK
<1>3. CASE CreateFile
  <2>1. /\ hdr' = [i \in Slots |-> NoMetaBlock] /\ UNCHANGED hdrDisk
        /\ cur_idx_ptr_' = NoPage /\ pc' # "fsync2"
    BY <1>1, <1>3 DEF CreateFile, Fresh
  <2> QED
    BY <2>1 DEF AckedInv, Slots
<1>4. CASE WriteIndexPage
  <2>1. UNCHANGED <<hdr, hdrDisk, cur_idx_ptr_>> /\ pc' \in {"fsync1", "idle"}
    BY <1>4 DEF WriteIndexPage
  <2>2. cur_idx_ptr_ # NoPage /\ pc' = "fsync1" =>
          idx_head'.offset >= cur_idx_ptr_.offset
    BY <1>1, <1>4, NewIndexIsHigher
  <2> QED
    BY <2>1, <2>2 DEF AckedInv, SlotHolds
<1>5. CASE FSyncPages
  <2>1. /\ pc = "fsync1" /\ UNCHANGED <<hdr, cur_idx_ptr_, idx_head>>
        /\ pc' \in {"meta", "idle"} /\ hdrDisk' \in {hdr, hdrDisk}
    BY <1>5 DEF FSyncPages, fsync, writerVars
  <2> QED
    BY <2>1 DEF AckedInv, SlotHolds
<1>6. CASE WriteMetaBlock
  <2>1. /\ pc = "meta" /\ UNCHANGED <<hdrDisk, cur_idx_ptr_, idx_head>>
    BY <1>6 DEF WriteMetaBlock, writerVars
  <2>2. CASE UNCHANGED hdr /\ pc' = "idle"
    BY <2>1, <2>2 DEF AckedInv, SlotHolds
  <2>3. CASE writeMetaBlock(newMetaBlock) /\ pc' = "fsync2"
    <3>1. /\ hdr \in Header /\ hdr'[0] = hdr[0]
          /\ SlotHolds(hdr', idx_head) /\ idx_head \in PageRef
      BY <1>1, <1>6, <2>3, MetaBlockSlot
    <3>2. hdr' \in Header \cup {NoHeader}
      BY <1>1, TypeNext DEF TypeInv, TypeOK
    <3>3. cur_idx_ptr_ # NoPage => SlotHolds(hdr', cur_idx_ptr_)
      BY <1>2, <2>1, <3>1, <3>2, SlotHoldsTransitive DEF AckedInv
    <3> QED
      BY <2>1, <3>1, <3>3, MarkersAssumption DEF AckedInv, SlotHolds
  <2> QED
    BY <1>6, <2>2, <2>3 DEF WriteMetaBlock
<1>7. CASE FSyncMetaBlock
  <2>1. /\ pc = "fsync2" /\ pc' = "idle" /\ hdrDisk' = hdr
        /\ cur_idx_ptr_' = idx_head /\ UNCHANGED hdr
    BY <1>7 DEF FSyncMetaBlock, fsync
  <2> QED
    BY <2>1 DEF AckedInv, SlotHolds
<1>8. CASE PowerLoss
  <2>1. /\ hdr' = hdrDisk /\ UNCHANGED <<hdrDisk, cur_idx_ptr_>>
        /\ pc' = "dead"
    BY <1>8 DEF PowerLoss, LoseCache, writerVars
  <2> QED
    BY <2>1 DEF AckedInv, SlotHolds
<1>9. CASE KernelWritesBack
  <2>1. /\ UNCHANGED <<hdr, cur_idx_ptr_, idx_head, pc>>
        /\ hdrDisk' \in {hdr, hdrDisk}
    BY <1>9 DEF KernelWritesBack, WriteBack, WriteBackSector, WriteBackIndex,
       WriteBackHeader, writerVars
  <2> QED
    BY <2>1 DEF AckedInv, SlotHolds
<1>10. CASE /\ UNCHANGED <<hdr, hdrDisk, cur_idx_ptr_>>
            /\ pc' \notin {"fsync1", "meta", "fsync2"}
  BY <1>10 DEF AckedInv, SlotHolds
<1>11. CASE UNCHANGED <<hdr, hdrDisk, cur_idx_ptr_, pc, idx_head>>
  BY <1>11 DEF AckedInv, SlotHolds
<1>12. CASE \E r \in Readers : OpenFile(r) \/ CloseFile(r)
  BY <1>11, <1>12 DEF OpenFile, CloseFile, fileVars, writerVars
<1> QED
  BY <1>3, <1>4, <1>5, <1>6, <1>7, <1>8, <1>9, <1>10, <1>11, <1>12
     DEF Next, CommitStep, vars, fileVars, writerVars, CreateFileRaises,
         OpenColumn, OpenColumnRaises, WriteColumn, AppendValue,
         AppendValueRaises, AddRows, CommitBegin, WriteIndexEntry,
         WriteIndexEntryRaises, EmptyIndex, ReuseIndexRaises,
         FSyncMetaBlockRaises, WriterEnds

\* Metablock slot 0 stays empty and both copies of slot 1 are at least as new
\* as the last commit that returned.
THEOREM AckedInvariant == Spec => []AckedInv
<1>1. Init => AckedInv
  BY DEF Init, FileInit, AckedInv
<1>2. StoreInv /\ AckedInv /\ [Next]_vars => AckedInv'
  BY AckedNext
<1> QED
  BY <1>1, <1>2, StoreInvariant, PTL DEF Spec

\* Once CSTableWriter::commit has returned, reading the header after a power
\* loss yields that version or a later one.
THEOREM CommitSurvives == Spec => []AckedSurvives
<1>1. StoreInv /\ AckedInv => AckedSurvives
  <2> SUFFICES ASSUME AckedInv, cur_idx_ptr_ # NoPage
               PROVE  /\ openHeader(hdrDisk) # NoMetaBlock
                      /\ openHeader(hdrDisk).head.offset >= cur_idx_ptr_.offset
    BY DEF AckedSurvives
  <2>1. openHeader(hdrDisk) = hdrDisk[1]
    BY DEF AckedInv, SlotHolds, openHeader, readHeader
  <2> QED
    BY <2>1 DEF AckedInv, SlotHolds
<1> QED
  BY <1>1, StoreInvariant, AckedInvariant, PTL
=============================================================================
