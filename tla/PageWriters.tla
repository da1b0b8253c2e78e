---------------------------- MODULE PageWriters ----------------------------
(***************************************************************************)
(* The v0.2.0 write path below CSTableWriter: the column writers           *)
(* (DefaultColumnWriter, UnsignedIntColumnWriter), the UInt64PageWriter    *)
(* that each of their streams owns, and the PageIndex that lists the pages *)
(* of every stream.                                                        *)
(*                                                                         *)
(* A stream is a column's repetition levels, definition levels or values.  *)
(***************************************************************************)
EXTENDS PageManager

CONSTANTS
  kPageSize,            \* UInt64PageWriter::kPageSize, in words
  kIndexPageSize,       \* PageIndex::write: minimal size of an index page
  kIndexPageOverhead,   \* its header
  IndexSizes,           \* the sizes a serialised index may have
  MaxColumns,           \* bound: columns of a schema
  MaxBuffered           \* bound: values of one stream

ASSUME WritersAssumption ==
  /\ kPageSize \in Nat \ {0}
  /\ kIndexPageSize \in Nat
  /\ kIndexPageOverhead \in Nat \ {0}
  /\ IndexSizes \subseteq Nat
  /\ MaxColumns \in Nat
  /\ MaxBuffered \in Nat

EntryType == {"DATA", "RLEVEL", "DLEVEL"}
Streams == (1 .. MaxColumns) \X EntryType

\* plain: storage_type is UINT64_PLAIN, the only one a v0.2.0 column accepts.
\* column_id is whatever the memory held: listFlatColumns does not set it.
ColumnConfig ==
  [column_id : Nat, rlevel_max : Nat, dlevel_max : Nat, plain : BOOLEAN]

PageIndexKey == [column_id : Nat, entry_type : EntryType]

\* A registered pair of a key and a writer; the writer is named by its stream.
PageWriter == [key : PageIndexKey, stream : Streams]

VARIABLES
  page_writers_,    \* PageIndex: the registered pairs, in order
  page_,            \* per stream: the open page (NoPage: has_page_ is false)
  page_buf_,        \* per stream: the buffer of the open page
  pages_,           \* per stream: the pages already written, each with the
                    \* size of the buffer that was written to it
  todo,             \* appendValue calls left of the current column write
  entries           \* index entries serialised by the current commit

pageWriterVars == <<page_, page_buf_, pages_>>

PageEntry == [page : PageRef, used : Nat]

\* The file holds the key and the pages of an entry; stream says which writer
\* serialised it and is not in the file.
IndexEntry == [key : PageIndexKey, stream : Streams, pages : Seq(PageEntry)]

ASSUME IndexMarkerAssumption == NoIndex \notin Seq(IndexEntry)

----------------------------------------------------------------------------
(* Opening a column. *)

pageWriter(i, c, t) ==
  [key |-> [column_id |-> c.column_id, entry_type |-> t], stream |-> <<i, t>>]

\* The writers a column registers.  The UInt64PageWriter constructor registers
\* itself and DefaultColumnWriter registers its level writers once more.
registered(i, c) ==
  (IF c.rlevel_max > 0
   THEN <<pageWriter(i, c, "RLEVEL"), pageWriter(i, c, "RLEVEL")>> ELSE <<>>)
  \o (IF c.dlevel_max > 0
      THEN <<pageWriter(i, c, "DLEVEL"), pageWriter(i, c, "DLEVEL")>> ELSE <<>>)
  \o <<pageWriter(i, c, "DATA")>>

----------------------------------------------------------------------------
(* Writing to a column. *)

levels(i, c, rlvl, dlvl) ==
  (IF c.rlevel_max > 0 THEN <<[key |-> <<i, "RLEVEL">>, value |-> rlvl]>>
                       ELSE <<>>)
  \o (IF c.dlevel_max > 0 THEN <<[key |-> <<i, "DLEVEL">>, value |-> dlvl]>>
                          ELSE <<>>)

\* A mutant of writeUnsignedInt: the value goes first.
writeUnsignedInt_valueFirst(i, c, rlvl, dlvl, value) ==
  todo' = <<[key |-> <<i, "DATA">>, value |-> value]>>
            \o levels(i, c, rlvl, dlvl)

\* writeUnsignedInt appends to the level streams first and to the values last.
writeUnsignedInt(i, c, rlvl, dlvl, value) ==
  todo' = levels(i, c, rlvl, dlvl)
            \o <<[key |-> <<i, "DATA">>, value |-> value]>>

writeNull(i, c, rlvl, dlvl) == todo' = levels(i, c, rlvl, dlvl)

\* appendValue needs a new page: it has none, or the value does not fit.
NeedsPage(w) ==
  \/ page_[w] = NoPage
  \/ Len(page_buf_[w]) + 1 > page_[w].size

\* appendValue when the value fits into the open page.
AppendToPage(w, v) ==
  /\ ~ NeedsPage(w)
  /\ page_buf_' = [page_buf_ EXCEPT ![w] = Append(@, v)]
  /\ UNCHANGED <<page_, pages_, offset_, cache>>

\* appendValue on the first page.  The buffer is not emptied when a page is
\* left (AppendToNextPage), so it holds every value of the stream.
AppendToFirstPage(w, v) ==
  /\ page_[w] = NoPage
  /\ LET p == allocPage(kPageSize)
     IN  /\ page_' = [page_ EXCEPT ![w] = p]
         /\ offset_' = newOffset(p)
  /\ page_buf_' = [page_buf_ EXCEPT ![w] = Append(@, v)]
  /\ UNCHANGED <<pages_, cache>>

\* appendValue when the open page is full: write it, list it, take a new one.
AppendToNextPage(w, v) ==
  /\ page_[w] # NoPage
  /\ NeedsPage(w)
  /\ writePage(page_[w], page_buf_[w])
  /\ pages_' = [pages_ EXCEPT ![w] =
                  Append(@, [page |-> page_[w], used |-> Len(page_buf_[w])])]
  /\ LET p == allocPage(kPageSize)
     IN  /\ page_' = [page_ EXCEPT ![w] = p]
         /\ offset_' = newOffset(p)
  /\ page_buf_' = [page_buf_ EXCEPT ![w] = Append(@, v)]

appendValue(w, v) ==
  \/ AppendToPage(w, v)
  \/ AppendToFirstPage(w, v)
  \/ AppendToNextPage(w, v)

\* writePage raises inside appendValue: the writer itself is left alone.
appendValueRaises(w) ==
  /\ page_[w] # NoPage
  /\ NeedsPage(w)
  /\ writePageRaises(page_[w], page_buf_[w])
  /\ UNCHANGED <<page_, page_buf_, pages_, offset_>>

----------------------------------------------------------------------------
(* The index. *)

\* A mutant of listed: the open page is left out once others were written.
listed_full(w) ==
  IF page_[w] = NoPage \/ pages_[w] # <<>>
  THEN pages_[w]
  ELSE Append(pages_[w], [page |-> page_[w], used |-> Len(page_buf_[w])])

\* The pages writeIndex lists for a stream: those written, then the open one.
listed(w) ==
  IF page_[w] = NoPage
  THEN pages_[w]
  ELSE Append(pages_[w], [page |-> page_[w], used |-> Len(page_buf_[w])])

\* A mutant of flushOpenPage: the open page is listed but not written.
flushOpenPage_skip(w) == UNCHANGED cache

flushOpenPage(w) ==
  IF page_[w] = NoPage THEN UNCHANGED cache
                       ELSE writePage(page_[w], page_buf_[w])

\* One turn of the loop of PageIndex::write.
writeIndex(p) ==
  /\ flushOpenPage(p.stream)
  /\ entries' = Append(entries, [key |-> p.key, stream |-> p.stream,
                                 pages |-> listed(p.stream)])

writeIndexRaises(p) ==
  /\ page_[p.stream] # NoPage
  /\ writePageRaises(page_[p.stream], page_buf_[p.stream])

MaxOf(a, b) == IF a >= b THEN a ELSE b

\* The page that PageIndex::write allocates for an index of that many words.
indexPage(remaining) ==
  allocPage(MaxOf(kIndexPageSize, remaining + kIndexPageOverhead))

----------------------------------------------------------------------------
(* What a file holds: the words a listed page contributes to its stream. *)

MinOf(a, b) == IF a <= b THEN a ELSE b

\* Addresses of the words of a listed page that carry data.
Payload(e) == e.page.offset .. (e.page.offset + MinOf(e.used, e.page.size) - 1)

ListedPages(index) ==
  UNION {{index[k].pages[j] : j \in DOMAIN index[k].pages} :
           k \in DOMAIN index}

\* The process ends: its buffers are gone.
LoseBuffers ==
  /\ page_writers_' = <<>>
  /\ page_' = [w \in Streams |-> NoPage]
  /\ page_buf_' = [w \in Streams |-> <<>>]
  /\ pages_' = [w \in Streams |-> <<>>]
  /\ todo' = <<>>
  /\ entries' = <<>>

PageWritersInit ==
  /\ page_writers_ = <<>>
  /\ page_ = [w \in Streams |-> NoPage]
  /\ page_buf_ = [w \in Streams |-> <<>>]
  /\ pages_ = [w \in Streams |-> <<>>]
  /\ todo = <<>>
  /\ entries = <<>>
=============================================================================
