# Verification of libcstable

TLA+ models of libcstable, the column-oriented table file format of
`src/src/cstable`, with TLC configurations that check them on small instances
and TLAPS proofs for every value of the constants.  Names follow the source
(`offset_`, `page_buf_`, `commitV2`'s steps, ...); `PROJECT.json` maps every
definition to the lines it stands for.

## The system

A *cstable* stores records of a nested schema column by column.  Each leaf
field of the schema is a column; an entry of a column is a repetition level, a
definition level and, when the definition level is the maximum, a value.  Two
file formats share one API: v0.1.0 (header and column bodies, written once,
read from a mapped file) and v0.2.0 (pages, a page index and two alternating
metablocks, meant to be committed atomically).

| component | state | operations | interacts with |
|---|---|---|---|
| `PageManager` (`io/PageManager.cc`) | `offset_`, `current_txid_`, the file | `allocPage`, `writePage`, `writeTransaction`, `getOffset` | page writers and the index allocate from it, `commitV2` ends in `writeTransaction` |
| header and metablocks (`cstable.cc`, `cstable.h`) | two metablock slots with checksums, the column list | `writeHeader`, `writeMetaBlock`, `readHeader` | written by `PageManager`, read by `CSTableReader` |
| page index (`io/PageIndex.cc`) | registered page writers | `addPageWriter`, `write` | asks each page writer for its entry during a commit |
| v2 page and column writers (`columns/UInt64PageWriter.cc`, `ColumnWriter.cc`, `columns/UnsignedIntColumnWriter.cc`) | `page_`, `page_buf_`, `pages_` per stream | `appendValue`, `writeIndex`, `writeUnsignedInt`, `writeNull` | a column write is up to three `appendValue` calls on three streams |
| `CSTableWriter` | schema, column writers, `num_rows_`, `cur_idx_ptr_`, `free_idx_ptr_` | `createFile`, `addRow(s)`, `commit` | owns all of the above |
| v1 column writers and readers (`columns/v1/*`) | level encoders, value data, counters | `write*`, `writeNull`, `commit`, `read*`, `skipValue`, `copyValue`, `nextRepetitionLevel`, `eofReached` | `commitV1` serialises them, `openFile` decodes them in place |
| bit packing, LEB128 (`libstx`, external) | block buffers | `encode`, `flush`, `next`, `peek` | levels and packed values |
| `CSTableReader` | header, columns | `openFile`, column lookup | `RecordMaterializer` |
| `TableSchema` | `columns_`, `columns_by_name_` | `add*`, copying, `fromProtobuf`, `flatColumns` | writers, shredder, materializer |
| `RecordShredder` | writer, schema | `addRecordFromProtobuf`, `addRecordsFromCSV` | column writers, `addRow` |
| `RecordMaterializer` | one read-ahead state per column | `nextRecord`, `skipRecord` | column readers |
| v2 column readers | none | `read*` of zeros | `openFile`, `RecordMaterializer` |
| `LockManager`, `BitPackedIntPageWriter` | empty | none | stubs in this version |
| `cstable_tool` | none | command line | the classes above |

What is hard here, and what makes each part correct:

* **A commit is five kinds of writes with failures, kills and power losses
  between any two of them**, and readers open the file at any time.  Correct
  means: what a metablock refers to is durable before the metablock is
  (`PublishedIsDurable`), pages never overlap (`PagesDisjoint`), a commit that
  returned survives (`AckedSurvives`), readers keep their version, and the
  published version changes all at once (`ImplementsAtomicTable`).
* **The open page of a stream is rewritten in place** by a later commit or
  append although published indexes list it.  It is safe because the buffer is
  never emptied (`BuffersHold`).
* **One call is several appends**, each of which can raise (`ValuesHaveLevels`),
  and whatever has raised before, a commit must list every page of every stream
  (`PublishesEveryStream`).
* **Level streams are cut into blocks, padded, peeked and flushed again** when
  commit is repeated (`ReadsBack`, `PeekAgrees`, `CommitIsRepeatable`), values
  go through narrower or unsigned encodings (`TypedReadsBack`), and a reader
  that also copies must keep its streams together (`CopiesFaithfully`).
* **Shredding and materializing are inverse** only if levels, list indexes and
  the one-entry read-ahead agree over all columns, in whatever order a hash map
  visits them (`RoundTrip`, `InStep`, `ColumnsAligned`, `LevelsFit`), and when
  copying the schema has put its columns in another order, too.
* **A CSV import writes cell by cell** and stops in the middle of a row when one
  of them is not acceptable; headers leave columns out and reorder them
  (`RowsReadBack`, `ColumnsAligned`).

`PROJECT.json` lists the hazards at their lines.  The program has no threads of
its own: the interleavings are those of a writer process with reader processes,
the kernel and the device.

## Modules

```
PageManager  <- PageWriters <- CSTableV2 <- MCCSTableV2        (v0.2.0)
                               CSTableV2 --refines--> AtomicTable
  proofs: CSTableV2 <- CSTableV2_proofs <- CSTableV2_durable <- CSTableV2_atomic
                       CSTableV2_proofs <- CSTableV2_levels
ColumnTypes  <- V1Columns <- CSTableV1 <- MCCSTableV1          (v0.1.0)
  proofs: V1Columns <- V1Columns_proofs;
          CSTableV1, V1Columns_proofs <- CSTableV1_proofs
ColumnTypes, SchemaPaths <- Records <- CSVImport               (records)
  Records, TableSchema <- MCTables <- MCRecords
                          MCTables, CSVImport <- MCCSVImport
  proofs: Records <- Records_proofs;
          CSVImport, Records_proofs <- CSVImport_proofs
```

**PageManager** keeps the file twice, as the kernel shows it (`cache`,
`idxCache`, `hdr`) and as it would be after a power loss (`disk`, `idxDisk`,
`hdrDisk`).  `writePage` changes the first, possibly only in part when it
raises; `fsync` copies it to the second; `WriteBack` lets the kernel copy any
sector earlier.  The address unit is the 8-byte word that the page writers
store.  An index page is kept as the sequence it serialises, at the address of
the page, and its serialised size is any member of `IndexSizes`.

**PageWriters** has the streams.  `<<i, t>>` is the data, repetition-level or
definition-level stream of column `i`.  `appendValue` is the whole method:
first page, full page written and next page allocated, value appended.
`writeUnsignedInt` queues the `appendValue` calls in `todo`, in the code's
order, because each of them may raise.  The index is made of pairs of a
`PageIndexKey` and a writer; `registered` keeps the double registration of the
level writers.  A key has the `column_id` of its column, which `TableSchema`
leaves uninitialised, so it may be any number, also that of another column; the
`stream` in a pair or an entry says which writer it belongs to and is not in the
file.

**CSTableV2** is the writer, its readers and the machine.  `CreateFile` and
`OpenColumn` are `createFile` and the constructor's loop; `WriteColumn`,
`AppendValue` and `AddRows` fill the transaction; `CommitBegin` and the actions
of `CommitStep` are `commitV2`, `PageIndex::write` and
`PageManager::writeTransaction`, one action per call that reaches the kernel,
each with its failure.  `pc` says before which call the writer stands.
`OpenFile` is `CSTableReader::openFile`.  A schema is the list of its flat columns.  `WriterEnds` (destruction or a kill),
`KernelWritesBack` and `PowerLoss` are the environment.

**AtomicTable** is the promise of the class comment of `CSTableWriter`: a
staged version nobody sees, one published at once, one that is durable, and
readers that keep theirs.  The refinement mapping reads, from a metablock, the
words of the pages its index lists.

**ColumnTypes** has the logical types and the encodings: what the typed writes
hand to `addDatum`, what each writer class keeps of it (a flag, 32 or 64 bits),
what each reader class's typed reads make of that, and the types that writers
and readers report, which are not always the column's.

**V1Columns** has the v1 encoders, the serialised body of a column and the
readers that decode it in place, for all seven encodings, and `copyValue`;
**CSTableV1** the file: `createFile`, column writes, `commitV1` (header, then
each body, each write failing in part), readers that open at any time, read,
peek and copy into a column of another encoding.  The address unit is a length,
a fixed-width value, a byte of a LEB128 integer, a character, or a packed block.

**TableSchema** has the `add` methods, with the map that owns the columns and
the list of pointers beside it (a name that is added twice leaves a pointer to a
freed column), the copy constructor as the set of orders a hash map may yield,
and `fromProtobuf`.  Its schemas are nested, and what works on them recurses.

**SchemaPaths** has a schema, of a table or of messages, the way the rest of the
code uses it: as a *tree*, a function from the path of every field to what the
schema says of it and the names of the fields below, in their order.
`flatColumns` and the levels that `listFlatColumns` and `createColumns` count on
their way down are counts over the prefixes of a path.  `IsTree` says what makes
a function such a tree; `treeOf` of `TableSchema` makes one of a nested schema.

**Records** has the shredder and the materializer.  A message maps the path of
every field to the children of that field in the whole message, each known by
its *place*, the indexes on the way down to it.  The recursion of the shredder
is the list `todo` of the calls of `addProtoRecordField` and `writeProtoNull`
that are still to be made: `AddRecord` starts it, `AddObject`, `AddValue`,
`AddAbsent`, `WriteNulls` and `WriteNull` make the first call of it, `Raise` is
the exception that drops the rest, `AddRow` ends it.  `OpenMaterializer`
constructs a materializer with a selection of columns; then any mix of
`nextRecord` and `skipRecord` follows, and each turn of their loops, over the
columns in any order and over the entries of a record, is a step.  A column here
is the sequence of its entries with the values as its encoding keeps them;
`ReadsBack` is the reason why that is enough for v0.1.0.  With
`Version = "v0_2_0"` the columns are read through the stubs of that format.

**CSVImport** adds `addRecordsFromCSV` to `Records`: `BeginImport` checks the
header, `ImportRow` takes the next row, `ImportCell` writes a cell,
`RefuseCell` raises in the middle of the row where the code does,
`ImportMissing` writes the columns that the header leaves out, `EndRow` is
`addRow`, and `EndImport` is the end of the file.  A cell is the record of what
each conversion makes of its text.  `Strict` chooses whether messages and files
adhere to the schema: no field that is not repeated twice in an object, no row
shorter than the header, no column twice in the header.

**MCTables** builds the tables of the instances: every copy that `createFile`
may make of a schema, with all messages up to `MaxNodes` fields.

## Runs

| run | instance | shows |
|---|---|---|
| `v2_store` | one stream, pages of two words in two sectors, three values, three commits, one reader, 10 words of device | `TypeOK`, `PagesDisjoint`, `BuffersHold`, `PublishedIsDurable`, `FileSizeCovers`, `AckedSurvives`, `ImplementsAtomicTable` |
| `v2_streams` | an optional column (two streams), a repeated one (three), two required columns with equal or different ids, a schema with an unsupported encoding, one without columns; pages of one word, two values per stream, two commits, 7 words of device | `PagesDisjoint`, `ValuesHaveLevels`, `PublishesEveryStream` |
| `v1_table` | schemas with every encoding, repeated and optional or required, signed and unsigned, blocks of two values, three entries in all, three copied, two commits | `TypeOK`, `ReadsBack`, `PeekAgrees`, `TypedReadsBack`, `CopiesFaithfully`, `CommitIsRepeatable` |
| `records` | four tables (lists in lists, an optional object in a list, a required object, a column declared twice), all messages with six fields together in at most three records | `RoundTrip`, `ColumnsAligned`, `InStep`, `LevelsFit` |
| `csv` | three tables (a required number and a list, an optional object, a required object beside a boolean), every header, rows of an empty cell, "1" and "true", messages in between; four rows and message fields together | `RowsReadBack`, `ColumnsAligned`, `InStep` |
| `v2_error`, `v2_page_size`, `v2_column_id`, `v1_error`, `v1_boolean`, `records_v2`, `csv_strict` | the same models | a line of documentation that the code does not keep (below) |

**Why the bounds are enough to be interesting.**  Three values in pages of two
words reach the first page, a full page, and the page that every value after it
takes, with the open page rewritten by the next commit.  Three commits reach a
first index, a second one beside it, and a third, which raises after two that returned because
reusing an index page is not implemented.  A sector of one word is the
finest-grained power loss.  In `v2_store` 10 words hold
whatever three commits allocate, so every write may succeed as well as fail;
in `v2_streams` 7 words do not: pages and the index page are allocated behind
the end of the device, and writing them must raise.  There a page is one word,
so that the second value of each stream takes a second page and an index lists
written pages and the open one.  Elsewhere a write may
raise at any time (an I/O error, a short write).  In the v1 runs, three entries with blocks of two
are a full block, a padded one, and the boundary between them; `Max32 = 2` and
`Group = 2` make the value 2 too large for the 32-bit encodings and two bytes
long in LEB128.  Six fields are enough for two levels of lists with an empty and
a filled element beside each other, in a record that is followed by another.
`Max64 = 4` gives -1 and 1 different representations that no 32-bit encoding
of the instance shares.  Two calls and four rows or fields are a message before or after an
import, or two imports, the second of which breaks off in any of its cells.
`csv_strict` allows one row or field, so that no message can hold a field twice
and the import alone is to blame.

No symmetry is used: there is one reader, and values are compared as numbers.

**Fairness.**  None is assumed, and no liveness property is stated.  The library
has no threads, no waiting and no scheduling: each of its calls is a loop over
data that is finite when the call begins, and ends by its shape.  Nothing
obliges a caller to make a call, the kernel to write anything back before an
`fsync`, or a reader to do anything.

**Deadlock** is checked in the v2 runs.  In the v1 and record runs it is not:
there a state in which the writer is gone and every record is read is a normal
end.

Each property of a passing run has a mutant in `PROJECT.json`: a definition of
the model changed the way a plausible bug would change the code (`Foo_variant`
beside `Foo`), under which TLC finds the property violated.

## What the runs found

1. `v2_error`: the last `fsync` of `writeTransaction` comes after the metablock
   is visible.  When it raises, `commit` raises and readers see the
   transaction; `CSTableWriter.h:30-31` promises that none of the changes do.
2. `v2_page_size`: `UInt64PageWriter::appendValue` never empties `page_buf_`.
   From the second page on, every value takes a page of its own, and
   `writePage` is given more data than the page holds, against
   `PageManager.h:38`.  The pages after the first hold the beginning of the
   buffer again, so the values beyond the first page are not in the file.
   (The same fact is what makes rewriting an open page harmless, see the
   proofs.)
3. `v2_column_id`: `listFlatColumns` (`TableSchema.cc:315`) does not initialise
   `column_id`, and the page writers register under it.  Two columns may be
   committed under one key with different pages; in the index entry that
   `cstable.h:92-95` describes nothing else says whose pages it lists.
4. `v1_error`: `commitV1` writes the header first; a failure behind it leaves a
   file that opens and whose columns are not there, against
   `CSTableWriter.h:30-31`.
5. `v1_boolean`: `BitPackedIntColumnReader::readBoolean` compares with `> 1`, so
   a boolean column in the encoding that `README.md:39-40` names reads true
   back as false.
6. `records_v2`: a table in the v0.2.0 format can be written, opened and
   materialized, and every value is 0: `UInt64PageReader` is a stub.
   `README.md:22` lists re-materialization as a feature of the version.
7. `csv_strict`: `addRecordsFromCSV` accepts rows that are shorter than the
   header (an empty line is one) and headers that name a column twice.  The
   columns then hold different numbers of records, against `README.md:9` and
   `README.md:16-17`, and records behind are put together from cells of
   different rows.

Further facts that the models show: a second `commit` of the same writer
succeeds, although `CSTableWriter.h:123-125` says that one cannot commit again
(`v2_store` makes such commits); a message that is refused for a missing required field
(`RecordShredder.cc:155`) leaves the entries of the columns before that field
behind, so that later records are put together from different messages; a null cell is
written with definition level 0 even when the object around it has other
values, so an optional object of an imported row is there only if one of the
columns that are *read* has a value, and a required field of an optional object
may be left empty (`rowMessage` states what a row means in these terms); the
writer of a boolean column reports unsigned integers, so "true" is not accepted
for it, only a number; a last row without a row separator is dropped.

Because of 2, `ImplementsAtomicTable` is about what the page writers *hold* (the
pages and the part of the buffer that goes to them), not about the values the
caller wrote.

## Proofs

Every invariant, action property and refinement that the runs `v2_store`,
`v2_streams` and `v1_table` check is proved for all values of the constants:
any number of columns, readers, values, rows and commits, any sizes and widths.
Of the runs
`records` and `csv`, everything but `RoundTrip` and `RowsReadBack` is proved, for
any schemas, any messages and any rows.

| theorem | module | states |
|---|---|---|
| `TypeCorrect` | `CSTableV2_proofs` | `Spec => []TypeOK` |
| `StoreInvariant` | `CSTableV2_durable` | `Spec => []StoreInv` |
| `PagesNeverOverlap`, `ListedPagesHold`, `WriteAhead`, `FileSizeIsSafe` | `CSTableV2_durable` | `PagesDisjoint`, `BuffersHold`, `PublishedIsDurable`, `FileSizeCovers` |
| `AckedInvariant`, `CommitSurvives` | `CSTableV2_durable` | `AckedInv`, `AckedSurvives` |
| `IndexInvariant`, `EveryStreamPublished` | `CSTableV2_atomic` | `IndexInv`, `PublishesEveryStream` |
| `TableIsAtomic` | `CSTableV2_atomic` | `Spec => ImplementsAtomicTable` |
| `ValuesAreAnnounced` | `CSTableV2_levels` | `ValuesHaveLevels` |
| `TableInvariant` | `CSTableV1_proofs` | `Spec => []IInv` |
| `TypesKept`, `TableReadsBack`, `PeeksAgree`, `CopiesAreFaithful`, `CommitRepeats` | `CSTableV1_proofs` | `TypeOK`, `ReadsBack`, `PeekAgrees`, `CopiesFaithfully`, `CommitIsRepeatable` |
| `TypesReadBack` | `CSTableV1_proofs` | `WellTyped` implies `Spec => []TypedReadsBack` |
| `Invariant` | `Records_proofs` | `Spec => []Inv` |
| `WrittenLevelsFit` | `Records_proofs` | `Spec => []LevelsFit` |
| `RecordsAligned` | `Records_proofs` | `Strict` implies `Spec => []ColumnsAligned` |
| `ColumnsInStep` | `Records_proofs` | `Version = "v0_1_0"` implies `Spec => []InStep` |
| `CSVInvariant`, `ImportAligned`, `ImportInStep` | `CSVImport_proofs` | the same of `CSVSpec`, for headers and rows that adhere to the schema |

### v0.2.0

*Types.*  `TypeOK` alone is not inductive: `OpenColumn` indexes `columns_` with
`opened + 1` and `WriteIndexEntry` indexes `page_writers_`, so the proof carries
`PositionOK`, which relates the position of the writer to those counters.

*The write-ahead rule.*  `PublishedIsDurable` compares disk and kernel for the
words of every page a reachable metablock lists.  The difficult step is the one
that writes such a page again.  `BuffersHold` says that a listed page holds a
prefix of its stream's buffer, so a second write puts the same words where the
first did; `Layout` (with `PagesDisjoint`) says that no other page has those
words.  `ReadyToPublish` carries the fact from the first `fsync` to the
metablock, and `Fresh` starts the induction before the file exists.
`StoreInv` is the conjunction of all of them with `TypeOK` and `PositionOK`.
`BuffersHold` is a conjunct that holds only while the writer lives; after that
nobody writes.

*Acknowledged commits.*  `AckedInv`: transaction ids are always 1
(`current_txid_` is never advanced), so every commit overwrites slot 1 and slot
0 stays empty; both copies of slot 1 are at least as new as the last commit
that returned, and the index about to be published lies behind it.

*The index.*  `PublishesEveryStream` speaks of the step in which a version
becomes visible: each stream of each column, and nothing else, has an entry
under the column's id that lists its pages, all of them, up to the last value
appended.  Three facts carry it there.  `StreamsRegistered`: the page writers
are those of the open columns, no more and no fewer, and when a commit runs all
columns are open.  `EntriesCurrent`: the entries built so far, and then the
index page in the file, are those of the page writers in their order, because
nothing is appended while a commit runs.  `NoPageNoValues`: a stream whose entry
lists no page has no values.  The theorem holds for any ids; that ids tell the
columns apart is what `v2_column_id` refutes.

*Levels.*  `ValuesHaveLevels` speaks of a writer between two calls.  `LevelsInv`
extends it into the call: a value on the list `todo` is the last thing on it,
and the full definition level that announces it is either right before it or
already in its buffer, one ahead of the values.  The counting is by cardinality
of the set of positions.

*The refinement.*  `TableIsAtomic` maps the metablock that `openHeader` picks
(in the kernel, on the disk, and per reader) to the table that its index and
pages describe.  From `StoreInv`, `AckedInv` and `IndexInv`: only
`WriteMetaBlock` changes what is visible, and publishes exactly the memory of
the page writers (`PublishesMemory`); only a write-back of the header or an
`fsync` changes what is durable, and makes it what is visible (`Hardens`);
every other step leaves the three views alone although it may write pages
(`KeepsStable`, `KeepsViews`).

### v0.1.0

*The codecs* (`V1Columns_proofs`).  For any block size: what a bit pack encoder
holds are the full blocks of the values and the rest (`Packs`), flushing pads
the rest once (`Pads`), and a decoder that has taken `v` values from the blocks
stands at value `v + 1`, whatever mix of `next` and `peek` brought it there
(`DecoderAt`).  For any group size, `readVarUInt` undoes `appendVarUInt`.  The
words of a plain column are the words of its values one behind the other
(`Lays`), and a read consumes exactly those of one value.  `ReaderAt` puts the
three streams together: a reader that has read `n` entries stands at entry
`n + 1` of both level streams and behind as many values as the first `n`
entries have; `ReaderOpens`, `ReaderReads`, `ReaderPeeks` and `ReaderCopies`
say that opening, reading, peeking and copying keep it and yield the entry.

The operators involved are recursive functions (`appendVarUInt`, `readVarUInt`,
`bodyOffset`, `WrittenDirectly`).  The induction is over sets instead of
predicates (`NatSetInduction`), which the provers can instantiate; the function
that a definition chooses is shown to exist first.  `readVarUInt` is written
from the last group to the first, which is the sum that the loop of the code
accumulates.

*The table* (`CSTableV1_proofs`).  `IInv` has six parts.  `ShapeInv`: types.
`ContentInv`: each column writer holds the entries written to it, open before
the first commit and flushed after it.  `LayoutInv`: since the first commit the
offsets are those that another commit would compute, so the bodies are disjoint
(`Regions`).  `FileInv`: a word of a body is right or was never written; the
bodies before `next` are complete during a commit, all are after one that has
returned.  `HeaderInv`: the header in the file is the one of this layout.
`ReadersInv`: every column of every open reader is at `ReaderAt`, its body is
complete, and what it has yielded, foretold and copied is right.  The steps that
carry the argument: committing again changes neither writers nor layout
(`FlushedAgain`), so a body that is written again is written over by itself
(`WrittenAgain`, `CommitRepeats`) and readers of the mapped file do not notice
(`GrowFrame`); and a preamble that is there is right, therefore its lengths are,
therefore a body that looks complete is (`BodyCompleteIs`).

`TypesReadBack` has a hypothesis, `WellTyped`: booleans and only they are kept
in bits, signed integers in an integer encoding, and within 64 bits.  It holds
in `v1_table`; `v1_boolean` shows that without it the statement is false.

### Records

*The shredder* (`Records_proofs`).  `ColumnsAligned` and `LevelsFit` speak of
columns between two calls; while a record is cut into entries the columns are
not aligned, and after a call that raised they never are again.  What is
inductive is about the calls that `todo` still holds.  A call *covers* the
columns below its field and *owes* a column the start of a record or not
(`Owes`: its repetition level is 0 and it has not come to a first child).
`IsItem` gives a call its levels: those that the path of its field counts.  The
first call makes way for the calls it leads to, which owe exactly what it owed
(`Hands`, `HandsOnce`: below an object every column is below exactly one of its
fields), or it writes the entry (`Writes`).  Hence per column: as long as the
row is being added one call owes it a record and the column holds `num_rows_`
of them, or none does and it holds one more (`Exact`); when messages repeat what
must not be repeated, or calls have raised, it holds at least as many
(`Enough`), which is what the reader needs.  `Starts` says that the first entry
of a column, written or owed, starts a record.

*The materializer.*  `ReadsTo`: a column reader that is not in the middle of a
record stands right behind one, with the first entry of the next one pending or
at the end of the column, and the records before number the calls that have come
to the column.  Because a column holds at least `num_rows_` records
(`Enough`), a reader that is asked for one more is never at the end.

*CSV* (`CSVImport_proofs`).  The cells of a row and its missing columns are
calls, too; `HeaderInv` says that the header names columns, each once, so that a
row owes every column one entry (`RowCalls`).  A refused cell is a call that
raised.  The steps of `Records` are not proved again.

`RecordsAligned` and the theorems of `CSVImport_proofs` have the hypothesis
`Strict`; `csv_strict` shows that without it they are false.  `ColumnsInStep`
and `ImportInStep` are about v0.1.0: the stubs of v0.2.0 never reach an end.

### Assumptions

All are on constants and evaluated by TLC in the runs: `SizesAssumption` (sizes
are natural numbers, the sector size and the header are not empty, the header
ends at a sector), `MarkersAssumption`, `IndexMarkerAssumption` and
`TableMarkerAssumption` (the markers are not values), `WritersAssumption` and
`TableAssumption` of `CSTableV2` (page sizes, the index overhead, the schema and
value sets); `WidthAssumption` (`Max32`, `Max64`), `CodecAssumption` (a block and
a group are not empty, `Garbage` is neither a number nor a block) and
`TableAssumption` of `CSTableV1` (bounds are natural numbers, values are
integers, a schema is a sequence of column configurations);
`RecordsAssumption` (table and message schemas are trees that agree where they
know the same field, messages are messages of their schema; TLC evaluates it on
all tables and messages of the instances).

### Only model-checked

`RoundTrip` and `RowsReadBack`: they relate all entries of a record, in all
columns, to the tree of its message, by an order of places that the entries only
hint at through their levels.  What the schema builders of `TableSchema` compute
(`copies`, `fromProtobuf`, `treeOf`): they recurse over nested schemas; TLC
evaluates on all instances that the trees they make satisfy `IsTree` and `Agree`,
from which the proofs start.

## What the models assume and leave out

* v0.2.0: a sector is written atomically, as `cstable.h:27-28` assumes, and a
  metablock or header write happens as a whole or not at all.  A failed `fsync`
  leaves pages as they were, some perhaps written back.  The directory entry of
  the file is taken to be durable.  Checksums are abstracted to valid or not
  valid.  Column ids are part of the index keys; the column list of the
  header, which repeats them, is left out, and so is `column_readers_by_id_`,
  which `CSTableReader.cc:158-159` fills with the columns whose id is not 0 and
  in which nothing looks anything up.  The 32-bit wrap of
  `PageRef::size` is left out.  The only page writer is that of unsigned
  integers; the result of `openColumnV2` for other logical types is not
  modelled.  The v2 column readers are stubs, so what a version *contains* is
  read as `PageIndex::write` and the format description lay it out; `Records`
  models what the stubs themselves yield.
* v0.1.0: no power loss, because nothing is ever synced; a header is written as
  a whole or not at all; no column is written after `commit`, as the
  `CSTableWriter.h` comment demands.  Columns are found by position instead of
  by name.  Words that the code reserves and never writes are `Garbage`.  The
  bit layout inside a packed block is `simdcomp`'s and is left out, and so are
  reads of another kind of type than was written (a number as a string, a string
  as a number), among them `BooleanColumnReader::readString`, which compares a
  pointer; nothing in `src/src` takes these paths.
* Records: children of different fields of one object have no order between
  them; in the instances the message schema has the fields and types of the
  table (a field it lacks raises).  Column names are paths, so two paths that join to the same dotted
  name are not confused.  The shredder walks the writer's copy of the schema;
  a shredder that is given the caller's own schema, in which a name was added
  twice, would follow a pointer to a freed column.  After a record that raised,
  the columns keep what it had written; the properties then speak of the records before it.
* CSV: the text of the file (separators, quotes, byte order mark) and the texts
  behind a converted cell are left out; `std::stoull` and its like take a prefix
  of the text, which is part of "what the conversion makes of it".
* Not modelled: `LockManager` and `BitPackedIntPageWriter` (empty),
  `cstable_tool` (argument parsing; its import and dump are commented out), JSON
  import and signed integer fields of `TableSchema` (declared, not defined),
  libstx and third-party code except where `src/src` uses it.

## Plan

Built, in order of importance: the v0.2.0 store and its proofs, the refinement
of `AtomicTable`, v0.1.0 files with typed values and copying and their proofs,
schemas, records and CSV import with the proofs of alignment, levels and
read-ahead.  What is left is proving more:

1. `RoundTrip`: give every entry of a record the place in the message that it
   stands for, show that the calls in `todo` write the places of a column in
   order, and that the list indexes of the materializer find them again.
2. Shorter proofs where lemmas overlap (`BodyCompleteIs` and
   `BodyInIsComplete`, the frames of the v2 steps).
