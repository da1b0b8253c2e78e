----------------------------- MODULE CSTableV2 -----------------------------
(***************************************************************************)
(* A v0.2.0 table file, from CSTableWriter::createFile to a power loss,    *)
(* with one writer (the only one the API can create: reopenFile is not     *)
(* implemented) and any number of readers that open and close the file     *)
(* while it is written.                                                    *)
(*                                                                         *)
(* Every write the code hands to the kernel is a step of its own, so the   *)
(* readers, a kill of the writer and a power loss fall between any two.    *)
(***************************************************************************)
EXTENDS PageWriters, FiniteSets

CONSTANTS
  Readers,
  Schemas,          \* the flat columns createFile may get, any ids in them
  Values,           \* values written to a column
  MaxRows,          \* bound: rows counted by addRow and addRows
  MaxCommits,       \* bound: calls of commit
  NoTable           \* the abstract table before the first commit

ASSUME TableAssumption ==
  /\ \A s \in Schemas : s \in Seq(ColumnConfig) /\ Len(s) <= MaxColumns
  /\ Values \subseteq Nat
  /\ MaxRows \in Nat
  /\ MaxCommits \in Nat

VARIABLES
  pc,               \* where the writer is (see WriterStates)
  columns_,         \* the flat columns of the schema
  opened,           \* column writers the constructor has opened
  num_rows_,
  cur_idx_ptr_,     \* head of the index of the last commit that returned
  free_idx_ptr_,    \* head of the index before that one
  idx_head,         \* commitV2: what PageIndex::write returned
  commits,          \* calls of commit so far
  rd                \* per reader: its metablock, NoMetaBlock when closed

writerVars == <<columns_, opened, num_rows_, cur_idx_ptr_, free_idx_ptr_,
                idx_head, commits>>

vars == <<offset_, cache, disk, idxCache, idxDisk, hdr, hdrDisk,
          page_writers_, page_, page_buf_, pages_, todo, entries,
          pc, columns_, opened, num_rows_, cur_idx_ptr_, free_idx_ptr_,
          idx_head, commits, rd>>

\* absent: the file was not created; opening: in the constructor; index,
\* fsync1, meta, fsync2: in commitV2, before that call; dead: no writer.
Committing == {"index", "fsync1", "meta", "fsync2"}
WriterStates == {"absent", "opening", "idle", "dead"} \cup Committing

----------------------------------------------------------------------------
(* CSTableWriter::createFile and the constructor. *)

\* The header holds two empty metablocks; it is written, not synced.
CreateFile ==
  /\ pc = "absent"
  /\ \E s \in Schemas :
       /\ columns_' = s
       /\ pc' = IF s = <<>> THEN "idle" ELSE "opening"
  /\ hdr' = [i \in Slots |-> NoMetaBlock]
  /\ offset_' = HeaderSize
  /\ UNCHANGED <<cache, disk, idxCache, idxDisk, hdrDisk, page_writers_,
                 page_, page_buf_, pages_, todo, entries, opened, num_rows_,
                 cur_idx_ptr_, free_idx_ptr_, idx_head, commits, rd>>

\* Writing the header raises; the file stays behind.
CreateFileRaises ==
  /\ pc = "absent"
  /\ pc' = "dead"
  /\ UNCHANGED <<fileVars, offset_, page_writers_, page_, page_buf_, pages_,
                 todo, entries, writerVars, rd>>

\* One turn of the constructor's loop: openColumnV2.
OpenColumn ==
  /\ pc = "opening"
  /\ columns_[opened + 1].plain
  /\ page_writers_' = page_writers_
                        \o registered(opened + 1, columns_[opened + 1])
  /\ opened' = opened + 1
  /\ pc' = IF opened + 1 = Len(columns_) THEN "idle" ELSE pc
  /\ UNCHANGED <<fileVars, offset_, page_, page_buf_, pages_, todo, entries,
                 columns_, num_rows_, cur_idx_ptr_, free_idx_ptr_, idx_head,
                 commits, rd>>

\* An unsupported encoding raises; the file stays behind.
OpenColumnRaises ==
  /\ pc = "opening"
  /\ ~ columns_[opened + 1].plain
  /\ pc' = "dead"
  /\ LoseBuffers
  /\ UNCHANGED <<fileVars, offset_, writerVars, rd>>

----------------------------------------------------------------------------
(* Filling the transaction. *)

Idle == pc = "idle" /\ todo = <<>>

\* The caller writes one value or null to a column.  As RecordShredder does,
\* it writes a value with the full definition level and a null below it.
WriteColumn ==
  /\ Idle
  /\ \E i \in 1 .. opened :
       /\ \A t \in EntryType : Len(page_buf_[<<i, t>>]) < MaxBuffered
       /\ \E rlvl \in 0 .. columns_[i].rlevel_max :
            \/ \E v \in Values :
                 writeUnsignedInt(i, columns_[i], rlvl,
                                  columns_[i].dlevel_max, v)
            \/ \E dlvl \in 0 .. (columns_[i].dlevel_max - 1) :
                 writeNull(i, columns_[i], rlvl, dlvl)
  /\ UNCHANGED <<fileVars, offset_, page_writers_, page_, page_buf_, pages_,
                 entries, pc, writerVars, rd>>

\* One appendValue call of a column write.
AppendValue ==
  /\ pc = "idle"
  /\ todo # <<>>
  /\ appendValue(Head(todo).key, Head(todo).value)
  /\ todo' = Tail(todo)
  /\ UNCHANGED <<disk, idxCache, idxDisk, hdr, hdrDisk, page_writers_,
                 entries, pc, writerVars, rd>>

\* The exception leaves the column write; the streams it had not reached
\* stay one value short.
AppendValueRaises ==
  /\ pc = "idle"
  /\ todo # <<>>
  /\ appendValueRaises(Head(todo).key)
  /\ todo' = <<>>
  /\ UNCHANGED <<disk, idxCache, idxDisk, hdr, hdrDisk, page_writers_,
                 entries, pc, writerVars, rd>>

\* addRow is addRows(1).
AddRows ==
  /\ Idle
  /\ \E n \in 1 .. (MaxRows - num_rows_) : num_rows_' = num_rows_ + n
  /\ UNCHANGED <<fileVars, offset_, page_writers_, page_, page_buf_, pages_,
                 todo, entries, pc, columns_, opened, cur_idx_ptr_,
                 free_idx_ptr_, idx_head, commits, rd>>

----------------------------------------------------------------------------
(* CSTableWriter::commitV2. *)

CommitBegin ==
  /\ Idle
  /\ commits < MaxCommits
  /\ commits' = commits + 1
  /\ pc' = "index"
  /\ entries' = <<>>
  /\ idx_head' = NoPage
  /\ UNCHANGED <<fileVars, offset_, page_writers_, page_, page_buf_, pages_,
                 todo, columns_, opened, num_rows_, cur_idx_ptr_,
                 free_idx_ptr_, rd>>

IndexBuilt == Len(entries) = Len(page_writers_)

WriteIndexEntry ==
  /\ pc = "index"
  /\ ~ IndexBuilt
  /\ writeIndex(page_writers_[Len(entries) + 1])
  /\ UNCHANGED <<disk, idxCache, idxDisk, hdr, hdrDisk, offset_,
                 page_writers_, page_, page_buf_, pages_, todo, pc,
                 writerVars, rd>>

WriteIndexEntryRaises ==
  /\ pc = "index"
  /\ ~ IndexBuilt
  /\ writeIndexRaises(page_writers_[Len(entries) + 1])
  /\ pc' = "idle"
  /\ UNCHANGED <<disk, idxCache, idxDisk, hdr, hdrDisk, offset_,
                 page_writers_, page_, page_buf_, pages_, todo, entries,
                 writerVars, rd>>

\* With no registered writer the index is empty, no page is allocated, and
\* PageIndex::write reads the first element of an empty vector.
EmptyIndex ==
  /\ pc = "index"
  /\ page_writers_ = <<>>
  /\ pc' = "dead"
  /\ LoseBuffers
  /\ UNCHANGED <<fileVars, offset_, writerVars, rd>>

\* Reusing an index page is not implemented: the third commit raises.
ReuseIndexRaises ==
  /\ pc = "index"
  /\ IndexBuilt
  /\ entries # <<>>
  /\ free_idx_ptr_ # NoPage
  /\ pc' = "idle"
  /\ UNCHANGED <<fileVars, offset_, page_writers_, page_, page_buf_, pages_,
                 todo, entries, writerVars, rd>>

\* A mutant of NewIndexPage: the page of the previous index is reused.
NewIndexPage_reuse(size) ==
  IF cur_idx_ptr_ # NoPage THEN cur_idx_ptr_ ELSE indexPage(size)

NewIndexPage(size) == indexPage(size)

\* The space is taken before the page is written, whether or not that raises.
WriteIndexPage ==
  /\ pc = "index"
  /\ IndexBuilt
  /\ entries # <<>>
  /\ free_idx_ptr_ = NoPage
  /\ \E size \in IndexSizes :
       LET p == NewIndexPage(size)
       IN  /\ offset_' = newOffset(p)
           /\ \/ /\ Fits(p)
                 /\ idxCache' = [idxCache EXCEPT ![p.offset] = entries]
                 /\ idx_head' = p
                 /\ pc' = "fsync1"
              \/ /\ pc' = "idle"
                 /\ UNCHANGED <<idxCache, idx_head>>
  /\ UNCHANGED <<cache, disk, idxDisk, hdr, hdrDisk, page_writers_, page_,
                 page_buf_, pages_, todo, entries, columns_, opened,
                 num_rows_, cur_idx_ptr_, free_idx_ptr_, commits, rd>>

\* writeTransaction: the first fsync.
FSyncPages ==
  /\ pc = "fsync1"
  /\ \/ fsync /\ pc' = "meta"
     \/ UNCHANGED <<disk, idxDisk, hdrDisk>> /\ pc' = "idle"
  /\ UNCHANGED <<cache, idxCache, hdr, offset_, page_writers_, page_,
                 page_buf_, pages_, todo, entries, writerVars, rd>>

\* The constructor sets current_txid_ and nothing ever changes it.
current_txid_ == 0

\* A mutant of newMetaBlock: the file size is taken before the index page.
newMetaBlock_early ==
  [transaction_id |-> current_txid_ + 1, num_rows |-> num_rows_,
   head |-> idx_head, file_size |-> idx_head.offset]

\* A mutant of newMetaBlock: it refers to the index of the previous commit.
newMetaBlock_oldHead ==
  [transaction_id |-> current_txid_ + 1, num_rows |-> num_rows_,
   head |-> cur_idx_ptr_, file_size |-> getOffset]

newMetaBlock ==
  [transaction_id |-> current_txid_ + 1, num_rows |-> num_rows_,
   head |-> idx_head, file_size |-> getOffset]

\* writeTransaction: the metablock.
WriteMetaBlock ==
  /\ pc = "meta"
  /\ \/ writeMetaBlock(newMetaBlock) /\ pc' = "fsync2"
     \/ UNCHANGED hdr /\ pc' = "idle"
  /\ UNCHANGED <<cache, disk, idxCache, idxDisk, hdrDisk, offset_,
                 page_writers_, page_, page_buf_, pages_, todo, entries,
                 writerVars, rd>>

\* writeTransaction: the last fsync, and commitV2 returns.
FSyncMetaBlock ==
  /\ pc = "fsync2"
  /\ fsync
  /\ pc' = "idle"
  /\ free_idx_ptr_' = cur_idx_ptr_
  /\ cur_idx_ptr_' = idx_head
  /\ UNCHANGED <<cache, idxCache, hdr, offset_, page_writers_, page_,
                 page_buf_, pages_, todo, entries, columns_, opened,
                 num_rows_, idx_head, commits, rd>>

FSyncMetaBlockRaises ==
  /\ pc = "fsync2"
  /\ pc' = "idle"
  /\ UNCHANGED <<fileVars, offset_, page_writers_, page_, page_buf_, pages_,
                 todo, entries, writerVars, rd>>

CommitStep ==
  \/ WriteIndexEntry \/ WriteIndexEntryRaises
  \/ EmptyIndex \/ ReuseIndexRaises \/ WriteIndexPage
  \/ FSyncPages \/ WriteMetaBlock
  \/ FSyncMetaBlock \/ FSyncMetaBlockRaises

----------------------------------------------------------------------------
(* Readers, the end of the writer, the machine. *)

\* CSTableReader::openFile.
OpenFile(r) ==
  /\ rd[r] = NoMetaBlock
  /\ openHeader(hdr) # NoMetaBlock
  /\ rd' = [rd EXCEPT ![r] = openHeader(hdr)]
  /\ UNCHANGED <<fileVars, offset_, page_writers_, page_, page_buf_, pages_,
                 todo, entries, pc, writerVars>>

CloseFile(r) ==
  /\ rd[r] # NoMetaBlock
  /\ rd' = [rd EXCEPT ![r] = NoMetaBlock]
  /\ UNCHANGED <<fileVars, offset_, page_writers_, page_, page_buf_, pages_,
                 todo, entries, pc, writerVars>>

\* The writer is destroyed, or its process is killed.
WriterEnds ==
  /\ pc \notin {"absent", "dead"}
  /\ pc' = "dead"
  /\ LoseBuffers
  /\ UNCHANGED <<fileVars, offset_, writerVars, rd>>

KernelWritesBack ==
  /\ WriteBack
  /\ UNCHANGED <<page_writers_, page_, page_buf_, pages_, todo, entries, pc,
                 writerVars, rd>>

PowerLoss ==
  /\ pc # "absent"
  /\ LoseCache
  /\ pc' = "dead"
  /\ rd' = [r \in Readers |-> NoMetaBlock]
  /\ LoseBuffers
  /\ UNCHANGED writerVars

Init ==
  /\ FileInit
  /\ PageWritersInit
  /\ pc = "absent"
  /\ columns_ = <<>>
  /\ opened = 0
  /\ num_rows_ = 0
  /\ cur_idx_ptr_ = NoPage
  /\ free_idx_ptr_ = NoPage
  /\ idx_head = NoPage
  /\ commits = 0
  /\ rd = [r \in Readers |-> NoMetaBlock]

Next ==
  \/ CreateFile \/ CreateFileRaises \/ OpenColumn \/ OpenColumnRaises
  \/ WriteColumn \/ AppendValue \/ AppendValueRaises \/ AddRows
  \/ CommitBegin \/ CommitStep
  \/ \E r \in Readers : OpenFile(r) \/ CloseFile(r)
  \/ WriterEnds \/ KernelWritesBack \/ PowerLoss

Spec == Init /\ [][Next]_vars

----------------------------------------------------------------------------
(* Correctness. *)

\* Every variable has the shape of the member it models.
TypeOK ==
  /\ offset_ \in Nat
  /\ cache \in [Addr -> Nat] /\ disk \in [Addr -> Nat]
  /\ idxCache \in [Addr -> Seq(IndexEntry) \cup {NoIndex}]
  /\ idxDisk \in [Addr -> Seq(IndexEntry) \cup {NoIndex}]
  /\ hdr \in Header \cup {NoHeader}
  /\ hdrDisk \in Header \cup {NoHeader}
  /\ page_writers_ \in Seq(PageWriter)
  /\ page_ \in [Streams -> PageRef \cup {NoPage}]
  /\ page_buf_ \in [Streams -> Seq(Nat)]
  /\ pages_ \in [Streams -> Seq(PageEntry)]
  /\ todo \in Seq([key : Streams, value : Nat])
  /\ entries \in Seq(IndexEntry)
  /\ pc \in WriterStates
  /\ columns_ \in Seq(ColumnConfig) /\ Len(columns_) <= MaxColumns
  /\ opened \in 0 .. Len(columns_)
  /\ num_rows_ \in Nat
  /\ cur_idx_ptr_ \in PageRef \cup {NoPage}
  /\ free_idx_ptr_ \in PageRef \cup {NoPage}
  /\ idx_head \in PageRef \cup {NoPage}
  /\ commits \in Nat
  /\ rd \in [Readers -> MetaBlock \cup {NoMetaBlock}]

\* What the writer's position says about its variables: the header exists
\* while the writer lives, the constructor has columns left to open, the index
\* has at most one entry per registered writer, and commitV2 holds the head of
\* the index it wrote.
PositionOK ==
  /\ pc \notin {"absent", "dead"} => hdr # NoHeader
  /\ pc = "absent" => opened = 0
  /\ pc = "opening" => opened < Len(columns_)
  /\ pc = "index" => Len(entries) <= Len(page_writers_)
  /\ pc \in {"fsync1", "meta", "fsync2"} => idx_head # NoPage

\* The metablocks somebody can reach: the visible ones, the durable ones and
\* those that open readers hold.
HeaderBlocks(h) == IF h = NoHeader THEN {}
                   ELSE {h[i] : i \in Slots} \ {NoMetaBlock}
InUse == HeaderBlocks(hdr) \cup HeaderBlocks(hdrDisk)
           \cup ({rd[r] : r \in Readers} \ {NoMetaBlock})

StreamPages(w) ==
  {pages_[w][j].page : j \in DOMAIN pages_[w]} \cup ({page_[w]} \ {NoPage})
IndexPages ==
  ({idx_head, cur_idx_ptr_, free_idx_ptr_} \ {NoPage})
    \cup {m.head : m \in InUse}

Disjoint(p, q) == \/ p.offset + p.size <= q.offset
                  \/ q.offset + q.size <= p.offset

\* allocPage never hands out a word twice: two pages of the file (of one
\* stream, of two streams, or of an index) never overlap, and all of them lie
\* between the header and offset_ (PageManager::allocPage).
PagesDisjoint ==
  /\ \A w \in Streams : \A p \in StreamPages(w) :
       /\ HeaderSize <= p.offset /\ p.offset + p.size <= offset_
       /\ \A v \in Streams : \A q \in StreamPages(v) :
            v # w \/ p # q => Disjoint(p, q)
       /\ \A q \in IndexPages : Disjoint(p, q)
  /\ \A p \in IndexPages :
       /\ HeaderSize <= p.offset /\ p.offset + p.size <= offset_
       /\ \A q \in IndexPages : p # q => Disjoint(p, q)

\* The write-ahead rule of writeTransaction: a metablock that a reader can
\* reach now, or after a power loss, or still holds, refers to an index page
\* and to page words that are on disk already, exactly as a reader of the
\* running system sees them.
Durable(m) ==
  /\ m.head.offset \in Addr
  /\ idxDisk[m.head.offset] # NoIndex
  /\ idxDisk[m.head.offset] = idxCache[m.head.offset]
  /\ \A e \in ListedPages(idxDisk[m.head.offset]) :
       \A a \in Payload(e) : a \in Addr /\ disk[a] = cache[a]
PublishedIsDurable == \A m \in InUse : Durable(m)

\* The file size in a metablock covers the index page and every page the index
\* lists: a PageManager that starts to allocate at that size (openFile does)
\* cannot overwrite the version it opened.
FileSizeCovers ==
  \A m \in InUse :
    /\ m.head.offset + m.head.size <= m.file_size
    /\ \A e \in ListedPages(idxCache[m.head.offset]) :
         e.page.offset + e.page.size <= m.file_size

\* The inductive invariant behind the three properties above.

\* Before createFile there is nothing.
Fresh ==
  pc = "absent" =>
    /\ hdr = NoHeader /\ hdrDisk = NoHeader
    /\ \A r \in Readers : rd[r] = NoMetaBlock
    /\ \A w \in Streams : page_[w] = NoPage /\ pages_[w] = <<>>
    /\ cur_idx_ptr_ = NoPage /\ free_idx_ptr_ = NoPage /\ idx_head = NoPage
    /\ \A a \in Addr : idxCache[a] = NoIndex

\* Pages are allocated between the header and offset_, and an index page is
\* not empty, so that no two index pages start at one address.
Layout ==
  /\ PagesDisjoint
  /\ \A p \in IndexPages : p.size > 0
  /\ pc \notin {"absent", "dead"} => HeaderSize <= offset_

\* The page of stream w that e lists was written, and its payload is still a
\* prefix of the stream's buffer: the buffer is never emptied, so writing the
\* open page once more cannot change what an earlier write put there.
Holds(w, e) ==
  /\ Fits(e.page)
  /\ e.page \in StreamPages(w)
  /\ e.used <= Len(page_buf_[w])
  /\ \A a \in Payload(e) : cache[a] = page_buf_[w][a - e.page.offset + 1]

IndexHolds(index) ==
  \A k \in DOMAIN index : \A j \in DOMAIN index[k].pages :
    Holds(index[k].stream, index[k].pages[j])

\* While the writer lives, that is so for every page it has listed.
BuffersHold ==
  pc # "dead" =>
    /\ \A w \in Streams : \A j \in DOMAIN pages_[w] : Holds(w, pages_[w][j])
    /\ IndexHolds(entries)
    /\ \A a \in Addr : idxCache[a] # NoIndex => IndexHolds(idxCache[a])

\* What commitV2 is about to publish is written, and after the first fsync it
\* is durable.
ReadyToPublish ==
  /\ pc \in {"fsync1", "meta", "fsync2"} =>
       idx_head.offset \in Addr /\ idxCache[idx_head.offset] # NoIndex
  /\ pc \in {"meta", "fsync2"} => Durable([head |-> idx_head])

StoreInv ==
  /\ TypeOK /\ PositionOK /\ Fresh /\ Layout /\ BuffersHold
  /\ ReadyToPublish /\ PublishedIsDurable /\ FileSizeCovers

\* Once commit has returned, a power loss leaves that version or a later one
\* (a later index page has a higher offset).
AckedSurvives ==
  cur_idx_ptr_ # NoPage =>
    /\ openHeader(hdrDisk) # NoMetaBlock
    /\ openHeader(hdrDisk).head.offset >= cur_idx_ptr_.offset

\* The inductive invariant behind it: transaction ids are always 1, so slot 0
\* stays empty; both copies of slot 1 are at least as new as the last commit
\* that returned, and the index commitV2 is about to publish is newer.
SlotHolds(h, p) ==
  /\ h # NoHeader
  /\ h[1] # NoMetaBlock
  /\ h[1].head.offset >= p.offset
AckedInv ==
  /\ hdr # NoHeader => hdr[0] = NoMetaBlock
  /\ hdrDisk # NoHeader => hdrDisk[0] = NoMetaBlock
  /\ pc = "fsync2" => SlotHolds(hdr, idx_head)
  /\ cur_idx_ptr_ # NoPage =>
       /\ SlotHolds(hdr, cur_idx_ptr_) /\ SlotHolds(hdrDisk, cur_idx_ptr_)
       /\ pc \in {"fsync1", "meta", "fsync2"} =>
            idx_head.offset >= cur_idx_ptr_.offset

\* The writers of a column, and of the schema.
WritersOf(i) ==
  {pageWriter(i, columns_[i], "DATA")}
    \cup (IF columns_[i].rlevel_max > 0
          THEN {pageWriter(i, columns_[i], "RLEVEL")} ELSE {})
    \cup (IF columns_[i].dlevel_max > 0
          THEN {pageWriter(i, columns_[i], "DLEVEL")} ELSE {})
SchemaWriters == UNION {WritersOf(i) : i \in DOMAIN columns_}

\* Entry e is the one of writer p: it lists every page of the stream, and the
\* last one with the size of everything that was appended to the stream.
ListsAll(e, p) ==
  /\ e.key = p.key
  /\ {e.pages[j].page : j \in DOMAIN e.pages} = StreamPages(p.stream)
  /\ page_buf_[p.stream] # <<>> =>
       /\ e.pages # <<>>
       /\ e.pages[Len(e.pages)].used = Len(page_buf_[p.stream])

\* A version that becomes visible has an index in which every stream of every
\* column has an entry with all its pages up to the last value appended, under
\* the column's id, and which lists nothing else: also when page writes and
\* commits have raised before, and when a level writer is registered twice.
PublishesEveryStream ==
  [][\A m \in InUse' \ InUse :
       LET index == idxCache'[m.head.offset]
       IN  /\ \A p \in SchemaWriters : \E k \in DOMAIN index :
                ListsAll(index[k], p)
           /\ \A k \in DOMAIN index : \E p \in SchemaWriters :
                ListsAll(index[k], p)]_vars

\* The inductive invariant behind it: a writer that has left its constructor
\* has registered the streams of every column and no others, a stream without
\* a page has no values, and what commitV2 serialises is what the page writers
\* hold, because nothing is appended during a commit.
StreamsRegistered ==
  /\ pc = "absent" => page_writers_ = <<>>
  /\ pc \in {"idle"} \cup Committing => opened = Len(columns_)
  /\ pc \notin {"absent", "dead"} =>
       /\ \A i \in 1 .. opened : \A p \in WritersOf(i) :
            \E k \in DOMAIN page_writers_ : page_writers_[k] = p
       /\ \A k \in DOMAIN page_writers_ : \E i \in 1 .. opened :
            page_writers_[k] \in WritersOf(i)
EntryOf(p) == [key |-> p.key, stream |-> p.stream, pages |-> listed(p.stream)]
EntriesCurrent ==
  /\ pc = "index" =>
       \A k \in DOMAIN entries : entries[k] = EntryOf(page_writers_[k])
  /\ pc \in {"fsync1", "meta"} =>
       idxCache[idx_head.offset]
         = [k \in DOMAIN page_writers_ |-> EntryOf(page_writers_[k])]
NoPageNoValues == \A w \in Streams : page_[w] = NoPage => page_buf_[w] = <<>>
IndexInv == StreamsRegistered /\ EntriesCurrent /\ NoPageNoValues

\* A column never holds more values than definition levels that announce one,
\* also when writePage raises in the middle of a column write: the level is
\* appended first.
ValuesHaveLevels ==
  todo = <<>> =>
    \A i \in 1 .. opened :
      columns_[i].dlevel_max > 0 =>
        Len(page_buf_[<<i, "DATA">>]) <=
          Cardinality({j \in DOMAIN page_buf_[<<i, "DLEVEL">>] :
            page_buf_[<<i, "DLEVEL">>][j] = columns_[i].dlevel_max})

\* The inductive invariant behind it: the value of a column write comes last,
\* right after the definition level that announces it.
FullLevels(i) == {j \in DOMAIN page_buf_[<<i, "DLEVEL">>] :
                    page_buf_[<<i, "DLEVEL">>][j] = columns_[i].dlevel_max}
LevelAhead(i) ==
  columns_[i].dlevel_max > 0 =>
    /\ Len(page_buf_[<<i, "DATA">>]) <= Cardinality(FullLevels(i))
    /\ \A k \in DOMAIN todo : todo[k].key = <<i, "DATA">> =>
         /\ k = Len(todo)
         /\ IF k = 1
            THEN Len(page_buf_[<<i, "DATA">>]) < Cardinality(FullLevels(i))
            ELSE todo[k - 1] = [key |-> <<i, "DLEVEL">>,
                                value |-> columns_[i].dlevel_max]
LevelsInv ==
  /\ pc \in {"absent", "opening"} =>
       todo = <<>> /\ \A w \in Streams : page_buf_[w] = <<>>
  /\ \A i \in 1 .. opened : LevelAhead(i)

----------------------------------------------------------------------------
(* Refinement: the table is atomic. *)

\* A version of the table: its rows, and per index entry the words of the
\* listed pages.
PageWords == UNION {[D -> Nat] : D \in SUBSET Addr}
Version == [rows : Nat,
            streams : Seq([key : PageIndexKey, pages : Seq(PageWords)])]

ASSUME TableMarkerAssumption == NoTable \notin Version

\* The stored version a metablock denotes: the rows, and per index entry the
\* words of the listed pages.
Stored(f, idx, m) ==
  IF m = NoMetaBlock THEN NoTable
  ELSE [rows |-> m.num_rows,
        streams |->
          IF idx[m.head.offset] = NoIndex THEN NoIndex
          ELSE [k \in DOMAIN idx[m.head.offset] |->
                  LET x == idx[m.head.offset][k]
                  IN  [key |-> x.key,
                       pages |-> [j \in DOMAIN x.pages |->
                                    [a \in Payload(x.pages[j]) |-> f[a]]]]]]

\* The version the writer holds in memory.
InMemory ==
  [rows |-> num_rows_,
   streams |->
     [k \in DOMAIN page_writers_ |->
        LET w == page_writers_[k].stream
        IN  [key |-> page_writers_[k].key,
             pages |-> [j \in DOMAIN listed(w) |->
                          [a \in Payload(listed(w)[j]) |->
                             page_buf_[w][a - listed(w)[j].page.offset + 1]]]]]]

Table == INSTANCE AtomicTable WITH
  staged  <- InMemory,
  visible <- Stored(cache, idxCache, openHeader(hdr)),
  stable  <- Stored(disk, idxDisk, openHeader(hdrDisk)),
  view    <- [r \in Readers |-> Stored(cache, idxCache, rd[r])]

\* The promise of the CSTableWriter comment, for what the page writers hold:
\* commit publishes all of it in one step or nothing, nothing else changes the
\* published version, readers keep the version they opened although the open
\* page of a stream is rewritten in place, and a power loss returns to the
\* version that was durable.
ImplementsAtomicTable == Table!TableSpec

----------------------------------------------------------------------------
(* What the comments claim and the code does not do. *)

\* CSTableWriter.h:30-31: none of the changes become visible if commit raises.
NothingVisibleOnError ==
  [][(/\ pc \in Committing /\ pc' = "idle"
      /\ cur_idx_ptr_' = cur_idx_ptr_
      /\ openHeader(hdr') # NoMetaBlock)
       => openHeader(hdr').head # idx_head]_vars

\* cstable.h:92-95: an index entry is headed by its type and its field id, so
\* the two tell whose pages it lists: no two entries of a version share them
\* and list different pages.
KeysTellStreams ==
  \A m \in InUse :
    LET index == idxCache[m.head.offset]
    IN  \A j, k \in DOMAIN index :
          index[j].key = index[k].key => index[j].pages = index[k].pages

\* PageManager.h:38: the data handed to writePage is at most one page long.
DataFitsPage ==
  \A w \in Streams : \A j \in DOMAIN pages_[w] :
    pages_[w][j].used <= pages_[w][j].page.size
=============================================================================
