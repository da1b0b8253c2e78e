----------------------------- MODULE CSTableV1 -----------------------------
(***************************************************************************)
(* A v0.1.0 table file: everything is kept in memory until commitV1 writes *)
(* the header and then one body per column; readers map the file and       *)
(* decode the bodies in place.                                             *)
(*                                                                         *)
(* Every write that commitV1 hands to the kernel is a step of its own.     *)
(* After commit was called the caller writes nothing more (CSTableWriter.h *)
(* 107-125 rules it out), but may call commit again, for instance because  *)
(* the first call raised.                                                  *)
(***************************************************************************)
EXTENDS V1Columns

CONSTANTS
  Readers,
  Schemas,          \* the flat column lists createFile may be called with
  Values,           \* values written to a column
  SignedValues,     \* the same for a column of signed integers
  CopyTo,           \* per encoding: the encoding a column is copied to
  MaxVals,          \* bound: entries of all columns together
  MaxCopies,        \* bound: calls of copyValue on a reader
  MaxRows,          \* bound: rows counted by addRow and addRows
  MaxCommits,       \* bound: calls of commit
  Capacity,         \* bound: words of the file
  NoHeader,         \* the file is empty
  NoReader,         \* a reader that has no file open
  Corrupt           \* a reader that was opened on an incomplete file

LogicalTypes == {"BOOLEAN", "UNSIGNED_INT", "SIGNED_INT", "STRING", "FLOAT",
                 "DATETIME"}
ColumnConfig == [logical_type : LogicalTypes, storage_type : Encodings,
                 rlevel_max : Nat, dlevel_max : Nat]

ASSUME TableAssumption ==
  /\ MaxVals \in Nat /\ MaxRows \in Nat /\ MaxCommits \in Nat
  /\ MaxCopies \in Nat
  /\ Capacity \in Nat
  /\ Values \subseteq Nat /\ SignedValues \subseteq Int
  /\ CopyTo \in [Encodings -> Encodings]
  /\ \A s \in Schemas : s \in Seq(ColumnConfig)

Addr == 0 .. (Capacity - 1)

VARIABLES
  pc,               \* absent, idle, header, body (in commitV1), dead
  columns_,         \* per column: its configuration, body_offset, body_size
  column_writers_,
  num_rows_,
  next,             \* commitV1: the column whose body is written next
  commits,          \* calls of commit
  committed,        \* some commit has returned
  hdr,              \* the file header: the row count and columns_
  file,             \* the words of the column bodies
  rd,               \* per reader: its column readers
  wrote             \* history: the entries written to every column

writerVars == <<columns_, column_writers_, num_rows_, next, commits, committed>>
vars == <<pc, columns_, column_writers_, num_rows_, next, commits, committed,
          hdr, file, rd, wrote>>

\* The fixed part of the header, and one column header.
kHeaderSize == 1
kColumnHeaderSize == 1

----------------------------------------------------------------------------
(* CSTableWriter. *)

\* createFile writes nothing in this format.
CreateFile ==
  /\ pc = "absent"
  /\ pc' = "idle"
  /\ \E s \in Schemas :
       /\ columns_' = [i \in DOMAIN s |->
                         [config |-> s[i], body_offset |-> 0, body_size |-> 0]]
       /\ column_writers_' = [i \in DOMAIN s |-> ColumnWriter(s[i])]
       /\ wrote' = [i \in DOMAIN s |-> <<>>]
  /\ UNCHANGED <<num_rows_, next, commits, committed, hdr, file, rd>>

\* The transaction is open.
Filling == pc = "idle" /\ commits = 0

TotalWritten ==
  LET sum[i \in 0 .. Len(wrote)] ==
        IF i = 0 THEN 0 ELSE sum[i - 1] + Len(wrote[i])
  IN  sum[Len(wrote)]

Write(i, w, rlvl, dlvl, v) ==
  /\ column_writers_' = [column_writers_ EXCEPT ![i] = w]
  /\ wrote' = [wrote EXCEPT ![i] =
                 Append(@, [rlvl |-> rlvl, dlvl |-> dlvl, val |-> v])]

ValuesOf(type) ==
  CASE type = "BOOLEAN" -> BOOLEAN
    [] type = "SIGNED_INT" -> SignedValues
    [] OTHER -> Values

\* The caller writes one value of the column's type, with the full definition
\* level, or one null.
WriteColumn ==
  /\ Filling
  /\ TotalWritten < MaxVals
  /\ \E i \in DOMAIN columns_ :
       LET c == columns_[i].config
           w == column_writers_[i]
       IN  \E rlvl \in 0 .. c.rlevel_max :
             \/ \E v \in ValuesOf(c.logical_type) :
                  Write(i, addDatum(c, w, rlvl, c.dlevel_max,
                                    datum(c.logical_type, v)),
                        rlvl, c.dlevel_max, v)
             \/ \E dlvl \in 0 .. (c.dlevel_max - 1) :
                  Write(i, writeNull(w, rlvl, dlvl), rlvl, dlvl, 0)
  /\ UNCHANGED <<pc, columns_, num_rows_, next, commits, committed, hdr, file,
                 rd>>

AddRows ==
  /\ Filling
  /\ \E n \in 1 .. (MaxRows - num_rows_) : num_rows_' = num_rows_ + n
  /\ UNCHANGED <<pc, columns_, column_writers_, next, commits, committed, hdr,
                 file, rd, wrote>>

\* Where commitV1 places the body of column i: behind the header and the
\* bodies before it.
bodyOffset(cols, ws, i) ==
  LET off[k \in 1 .. Len(ws)] ==
        IF k = 1 THEN kHeaderSize + Len(ws) * kColumnHeaderSize
        ELSE off[k - 1] + bodySize(cols[k - 1].config, ws[k - 1])
  IN  off[i]

\* commitV1 up to the first write: flush the columns and lay out the file.
CommitBegin ==
  /\ pc = "idle"
  /\ commits < MaxCommits
  /\ commits' = commits + 1
  /\ pc' = "header"
  /\ LET ws == [i \in DOMAIN columns_ |->
                  commitColumn(columns_[i].config, column_writers_[i])]
     IN  /\ column_writers_' = ws
         /\ columns_' =
              [i \in DOMAIN columns_ |->
                 [columns_[i] EXCEPT
                    !.body_offset = bodyOffset(columns_, ws, i),
                    !.body_size = bodySize(columns_[i].config, ws[i])]]
  /\ UNCHANGED <<num_rows_, next, committed, hdr, file, rd, wrote>>

\* The header goes first.
WriteHeader ==
  /\ pc = "header"
  /\ hdr' = [num_rows |-> num_rows_, columns |-> columns_]
  /\ next' = 1
  /\ IF columns_ = <<>> THEN pc' = "idle" /\ committed' = TRUE
                        ELSE pc' = "body" /\ UNCHANGED committed
  /\ UNCHANGED <<columns_, column_writers_, num_rows_, commits, file, rd,
                 wrote>>

WriteHeaderRaises ==
  /\ pc = "header"
  /\ pc' = "idle"
  /\ UNCHANGED <<writerVars, hdr, file, rd, wrote>>

\* The file after n words of the body of column i: what the column did not
\* fill of its buffer is not initialised.
BodyWritten(i, n) ==
  LET col  == columns_[i]
      body == writeBody(col.config, column_writers_[i])
  IN  [a \in Addr |->
         IF a \in col.body_offset .. (col.body_offset + n - 1)
         THEN IF a - col.body_offset < Len(body)
              THEN body[a - col.body_offset + 1] ELSE Garbage
         ELSE file[a]]

\* One turn of the second loop of commitV1.
WriteBody ==
  /\ pc = "body"
  /\ columns_[next].body_offset + columns_[next].body_size <= Capacity
  /\ file' = BodyWritten(next, columns_[next].body_size)
  /\ next' = next + 1
  /\ IF next = Len(columns_) THEN pc' = "idle" /\ committed' = TRUE
                             ELSE UNCHANGED <<pc, committed>>
  /\ UNCHANGED <<columns_, column_writers_, num_rows_, commits, hdr, rd,
                 wrote>>

\* writePage raises after a part of the body was written, or none of it.
WriteBodyRaises ==
  /\ pc = "body"
  /\ \E n \in 0 .. (columns_[next].body_size - 1) :
       file' = BodyWritten(next, n)
  /\ pc' = "idle"
  /\ UNCHANGED <<writerVars, hdr, rd, wrote>>

\* The writer is destroyed, or its process is killed.
WriterEnds ==
  /\ pc \notin {"absent", "dead"}
  /\ pc' = "dead"
  /\ UNCHANGED <<writerVars, hdr, file, rd, wrote>>

----------------------------------------------------------------------------
(* CSTableReader. *)

\* The words of the body of column col that a reader may look at are there.
BodyComplete(col) ==
  LET o == col.body_offset
  IN  /\ \A a \in o .. (o + Preamble - 1) : a \in Addr /\ file[a] # Garbage
      /\ \A a \in o .. (o + Preamble + file[o + 1] + file[o + 2] + file[o + 3]
                          - slack(col.config) - 1) :
           a \in Addr /\ file[a] # Garbage
FileComplete == \A i \in DOMAIN hdr.columns : BodyComplete(hdr.columns[i])

\* The column of another table that a column is copied to.
copyConfig(c) == [c EXCEPT !.storage_type = CopyTo[@]]

\* What a reader keeps per column: the v1::ColumnReader, the last entry that a
\* read yielded, the last level that nextRepetitionLevel yielded, the writer
\* it copies to and which entries it has copied.
OpenColumnV1(col) ==
  [config |-> col.config,
   reader |-> ColumnReader(col.config, file, col.body_offset),
   got |-> NoReader, peeked |-> NoReader,
   copy |-> ColumnWriter(copyConfig(col.config)), copied |-> <<>>]

\* Opening an empty file raises; opening one whose bodies are not there reads
\* words that nobody has written.
OpenFile(r) ==
  /\ rd[r] = NoReader
  /\ hdr # NoHeader
  /\ rd' = [rd EXCEPT ![r] =
              IF FileComplete THEN [i \in DOMAIN hdr.columns |->
                                      OpenColumnV1(hdr.columns[i])]
                              ELSE Corrupt]
  /\ UNCHANGED <<pc, writerVars, hdr, file, wrote>>

CloseFile(r) ==
  /\ rd[r] # NoReader
  /\ rd' = [rd EXCEPT ![r] = NoReader]
  /\ UNCHANGED <<pc, writerVars, hdr, file, wrote>>

Open(r) == rd[r] \notin {NoReader, Corrupt}

\* A read moves the reader of a column on by one entry.
CanRead(x) ==
  ~ eofReached(x.reader) /\ ~ readRaises(x.config, file, x.reader)
Consumed(x) ==
  [x EXCEPT !.reader = afterRead(x.config, file, @),
            !.got = readEntry(x.config, file, x.reader),
            !.peeked = NoReader]

\* readBoolean, readUnsignedInt, ... and skipValue, until the end is reached.
ReadValue(r, i) ==
  /\ CanRead(rd[r][i])
  /\ rd' = [rd EXCEPT ![r][i] = Consumed(@)]
  /\ UNCHANGED <<pc, writerVars, hdr, file, wrote>>

CopyValue(r, i) ==
  LET x == rd[r][i]
      t == copyConfig(x.config)
  IN  /\ CanRead(x)
      /\ Len(x.copied) < MaxCopies
      /\ rd' = [rd EXCEPT ![r][i] =
                  [Consumed(x) EXCEPT
                     !.copy = copyValue(x.config, file, x.reader, t, @),
                     !.copied = Append(@, x.reader.vals_read_ + 1)]]
      /\ UNCHANGED <<pc, writerVars, hdr, file, wrote>>

NextRepetitionLevel(r, i) ==
  LET x == rd[r][i]
  IN  /\ x.peeked = NoReader
      /\ rd' = [rd EXCEPT ![r][i] =
                  [x EXCEPT !.reader = afterNextRepetitionLevel(file, @),
                            !.peeked = nextRepetitionLevel(file, x.reader)]]
      /\ UNCHANGED <<pc, writerVars, hdr, file, wrote>>

----------------------------------------------------------------------------
Init ==
  /\ pc = "absent"
  /\ columns_ = <<>> /\ column_writers_ = <<>>
  /\ num_rows_ = 0 /\ next = 0 /\ commits = 0 /\ committed = FALSE
  /\ hdr = NoHeader
  /\ file = [a \in Addr |-> Garbage]
  /\ rd = [r \in Readers |-> NoReader]
  /\ wrote = <<>>

CommitStep ==
  WriteHeader \/ WriteHeaderRaises \/ WriteBody \/ WriteBodyRaises

Next ==
  \/ CreateFile \/ WriteColumn \/ AddRows \/ CommitBegin \/ CommitStep
  \/ WriterEnds
  \/ \E r \in Readers :
       \/ OpenFile(r)
       \/ CloseFile(r)
       \/ /\ Open(r)
          /\ \E i \in DOMAIN rd[r] :
               ReadValue(r, i) \/ CopyValue(r, i) \/ NextRepetitionLevel(r, i)

Spec == Init /\ [][Next]_vars

----------------------------------------------------------------------------
(* Correctness. *)

\* The writer, the file and the readers have the shape of the code's members.
TypeOK ==
  /\ pc \in {"absent", "idle", "header", "body", "dead"}
  /\ Len(column_writers_) = Len(columns_) /\ Len(wrote) = Len(columns_)
  /\ num_rows_ \in 0 .. MaxRows
  /\ next \in 0 .. (Len(columns_) + 1)
  /\ commits \in 0 .. MaxCommits
  /\ committed \in BOOLEAN
  /\ DOMAIN file = Addr
  /\ \A r \in {q \in Readers : Open(q)} :
       \A i \in DOMAIN rd[r] :
         rd[r][i].reader.vals_read_ \in 0 .. rd[r][i].reader.vals_total_

\* Entry k of column i as its column keeps it.
Kept(i, k) ==
  LET c == columns_[i].config
  IN  stored(c, datum(c.logical_type, wrote[i][k].val))

Defined(i, k) == wrote[i][k].dlvl = columns_[i].config.dlevel_max

\* A reader of a complete file gets, from every column, exactly the entries
\* that were written, in order and to the last one: the level streams and the
\* values are cut into blocks, padded and read at different speeds, and still
\* stay aligned; no read before eofReached leaves its buffer.
ReadsBack ==
  \A r \in {q \in Readers : Open(q)} : \A i \in DOMAIN rd[r] :
    LET x == rd[r][i]
        k == x.reader.vals_read_
    IN  /\ x.reader.vals_total_ = Len(wrote[i])
        /\ ~ eofReached(x.reader) => ~ readRaises(x.config, file, x.reader)
        /\ x.got # NoReader =>
             /\ x.got.rlvl = wrote[i][k].rlvl
             /\ x.got.dlvl = wrote[i][k].dlvl
             /\ Defined(i, k) => x.got.val = Kept(i, k)

\* nextRepetitionLevel foretells the level of the next entry, and 0 (the start
\* of a record) behind the last one; that it decodes a block early never
\* disturbs a later read (ReadsBack).
PeekAgrees ==
  \A r \in {q \in Readers : Open(q)} : \A i \in DOMAIN rd[r] :
    LET x == rd[r][i]
        k == x.reader.vals_read_
    IN  x.peeked # NoReader
          => x.peeked = IF k < Len(wrote[i]) THEN wrote[i][k + 1].rlvl ELSE 0

\* A value that the encoding of its column can hold.
Representable(c, v) ==
  c.storage_type \in {"UINT32_BITPACKED", "UINT32_PLAIN"}
    => datum(c.logical_type, v) < Max32

\* A typed read yields what the typed write of the column's type was given,
\* true and false, negative numbers and values at the limit of the encoding
\* included.
TypedReadsBack ==
  \A r \in {q \in Readers : Open(q)} : \A i \in DOMAIN rd[r] :
    LET x == rd[r][i]
        k == x.reader.vals_read_
        c == x.config
    IN  x.got # NoReader /\ Defined(i, k) =>
          LET v == wrote[i][k].val
          IN  Representable(c, v) => readAs(c, c.logical_type, x.got.val) = v

\* The entry e of a column c, written directly to the column that c is copied
\* to; and the column that the entries ks of the entries g would make.
WrittenEntry(c, w, e) ==
  IF e.dlvl = c.dlevel_max
  THEN addDatum(copyConfig(c), w, e.rlvl, e.dlvl,
                stored(c, datum(c.logical_type, e.val)))
  ELSE writeNull(w, e.rlvl, e.dlvl)

WrittenDirectly(c, g, ks) ==
  LET w[n \in 0 .. Len(ks)] ==
        IF n = 0 THEN ColumnWriter(copyConfig(c))
        ELSE WrittenEntry(c, w[n - 1], g[ks[n]])
  IN  w[Len(ks)]

\* copyValue makes of any choice of entries, interleaved with reads and peeks
\* and over block boundaries, the very column that writing them makes, in
\* another encoding, too.
CopiesFaithfully ==
  \A r \in {q \in Readers : Open(q)} : \A i \in DOMAIN rd[r] :
    rd[r][i].copy
      = WrittenDirectly(columns_[i].config, wrote[i], rd[r][i].copied)

\* A commit that is called again, because the first call raised or for no
\* reason, completes the file: flushing twice adds no second padding.  Once a
\* commit has returned the file is complete and nothing changes it any more.
CommitIsRepeatable ==
  [][committed' => FileComplete' /\ (committed => UNCHANGED <<hdr, file>>)]_vars

----------------------------------------------------------------------------
(* The inductive invariant of the table. *)

Off(i) == columns_[i].body_offset
Size(i) == columns_[i].body_size
Body(i) == writeBody(columns_[i].config, column_writers_[i])

\* The word of the body of column i that belongs at word a of the file.
BodyWord(i, a) ==
  IF a - Off(i) < Len(Body(i)) THEN Body(i)[a - Off(i) + 1] ELSE Garbage

\* Since the first commit the layout is what another one would compute.
LayoutInv ==
  commits > 0 =>
    \A i \in DOMAIN columns_ :
      /\ Off(i) \in Nat
      /\ Size(i) = bodySize(columns_[i].config, column_writers_[i])
      /\ Off(i) = IF i = 1 THEN kHeaderSize + Len(columns_) * kColumnHeaderSize
                           ELSE Off(i - 1) + Size(i - 1)

\* All the words of the body of column i are in the file.
BodyIn(i) ==
  \A a \in Off(i) .. (Off(i) + Size(i) - 1) :
    a \in Addr /\ file[a] = BodyWord(i, a)

\* A word of a body is right, or nobody has written it yet.
FileInv ==
  /\ commits = 0 => \A a \in Addr : file[a] = Garbage
  /\ commits > 0 =>
       \A i \in DOMAIN columns_ : \A a \in Off(i) .. (Off(i) + Size(i) - 1) :
         a \in Addr => file[a] \in {Garbage, BodyWord(i, a)}
  /\ pc = "body" => /\ next \in DOMAIN columns_
                    /\ \A i \in 1 .. (next - 1) : BodyIn(i)
  /\ committed => \A i \in DOMAIN columns_ : BodyIn(i)

\* The header of the file is the one that another commit would write.
HeaderInv ==
  /\ pc \in {"header", "body"} => commits > 0
  /\ hdr # NoHeader \/ committed \/ pc = "body"
       => commits > 0 /\ hdr = [num_rows |-> num_rows_, columns |-> columns_]

----------------------------------------------------------------------------
(* What the comments claim and the code does not do. *)

\* CSTableWriter.h:30-31: all changes become visible at the same time, or none
\* if an error occurs.
AllOrNothing ==
  hdr # NoHeader /\ pc \notin {"header", "body"} => FileComplete
=============================================================================
