------------------------------ MODULE Records ------------------------------
(***************************************************************************)
(* Records: the RecordShredder that cuts a message into the entries of the *)
(* columns of a nested schema, and the RecordMaterializer that puts it     *)
(* together again.                                                         *)
(*                                                                         *)
(* A column is the sequence of the entries written to it, with the values  *)
(* as its encoding keeps them: that a v0.1.0 column reads back as this     *)
(* sequence is what CSTableV1 checks.  A message maps the path of every    *)
(* field of its schema to the children of that field in the whole message: *)
(* a child is known by its place, the sequence of the indexes on the way   *)
(* down to it.  The order in which an object holds children of different   *)
(* fields is left out.                                                     *)
(*                                                                         *)
(* The recursion of the shredder is a list of the calls still to be made,  *)
(* in their order; one step makes the first of them.                       *)
(***************************************************************************)
EXTENDS SchemaPaths, ColumnTypes

CONSTANTS
  Version,          \* the binary format: v0_1_0 or v0_2_0
  Tables,           \* per table: a message schema, a table schema for it, and
                    \* messages by the number of their fields
  Values,           \* numbers and times in messages
  Texts,            \* strings in messages
  Doubles,          \* doubles in messages
  Obj,              \* an object in a message: its children say the rest
  Strict,           \* messages adhere to their schema
  MaxNodes,         \* bound: fields of all messages together
  MaxRecords        \* bound: calls of addRecordFromProtobuf

ValuesOf(f) ==
  CASE IsObject(f)        -> {Obj}
    [] f.type = "BOOLEAN" -> BOOLEAN
    [] f.type = "STRING"  -> Texts
    [] f.type = "DOUBLE"  -> Doubles
    [] OTHER              -> Values

\* The messages of a schema: every child but the message itself is the next one
\* of its field in an object that is there.  A required field may be missing:
\* the shredder has to find out.  A field that is not repeated may be there
\* twice when messages do not adhere to their schema.
IsMessage(fs, m) ==
  /\ DOMAIN m = DOMAIN fs
  /\ DOMAIN m[<<>>] = {<<>>}
  /\ \A n \in DOMAIN fs : \A a \in DOMAIN m[n] :
       /\ a \in Seq(Nat \ {0})
       /\ Len(a) = Len(n)
       /\ m[n][a] \in ValuesOf(fs[n])
       /\ n # <<>> =>
            /\ Front(a) \in DOMAIN m[Front(n)]
            /\ \A i \in 1 .. Last(a) : Append(Front(a), i) \in DOMAIN m[n]
            /\ Last(a) = 1 \/ fs[n].repeated \/ ~ Strict

\* Where the two schemas of a table know the same field they agree on it.
Agree(fs, tree) ==
  \A n \in DOMAIN fs \cap DOMAIN tree :
    /\ IsObject(fs[n]) = IsObject(tree[n])
    /\ fs[n].repeated = tree[n].repeated
    /\ CanBeAbsent(fs[n]) = CanBeAbsent(tree[n])

ASSUME RecordsAssumption ==
  /\ Version \in {"v0_1_0", "v0_2_0"}
  /\ MaxNodes \in Nat /\ MaxRecords \in Nat
  /\ Values \subseteq Nat
  /\ Strict \in BOOLEAN
  /\ \A t \in DOMAIN Tables :
       /\ IsTree(Tables[t].fields)
       /\ IsTree(Tables[t].schema)
       /\ Agree(Tables[t].fields, Tables[t].schema)
       /\ \A n \in 0 .. MaxNodes : \A m \in Tables[t].messages[n] :
            IsMessage(Tables[t].fields, m)

VARIABLES
  table,            \* the table of Tables that is built
  cols,             \* per column: the entries written
  num_rows_,
  calls,            \* calls of addRecordFromProtobuf
  nodes,            \* fields of their messages
  failed,           \* one of them has raised
  msgs,             \* history: the messages added before that
  adding,           \* the message that is being added
  todo,             \* the calls that are still to be made for it
  columns_,         \* materializer: the state of each column it reads
  call,             \* the call it is in, or was in last
  left,             \* columns that call has not come to yet
  current,          \* the column it is in the middle of
  indexes,          \* the indexes there
  record,           \* the record nextRecord builds
  done              \* calls of nextRecord and skipRecord

shredderVars ==
  <<cols, num_rows_, calls, nodes, failed, msgs, adding, todo>>
materializerVars ==
  <<columns_, call, left, current, indexes, record, done>>
vars == <<table, shredderVars, materializerVars>>

fields == Tables[table].fields
schema == Tables[table].schema

\* The columns of the table, as column_writers_by_name_ and the file have them.
Configs == [t \in DOMAIN Tables |-> flatColumns(Tables[t].schema)]
configs == Configs[table]

NoMessage == <<>>
NoColumn == <<>>
Closed == <<>>

----------------------------------------------------------------------------
(* RecordShredder.                                                         *)

\* A call of addProtoRecordField for the object at a place; i is the child of
\* the field that its loop comes to next.
addProtoRecordField(name, at, r, rmax, d) ==
  [call |-> "field", name |-> name, at |-> at, i |-> 1, r |-> r,
   rmax |-> rmax, d |-> d]

\* A call of writeProtoNull; the place is that of the object without the field.
writeProtoNull(name, at, r, d) ==
  [call |-> "null", name |-> name, at |-> at, r |-> r, d |-> d]

\* A call for every field of an object of the table schema.
ForEach(name, Call(_)) ==
  [j \in DOMAIN schema[name].sub |-> Call(Append(name, schema[name].sub[j]))]

\* A mutant of nextR: the level of the first child is kept.
nextR_same(r, rmax, i) == r

\* A mutant of nextR: the level is counted up once too often.
nextR_deep(r, rmax, i) == IF i = 1 THEN r ELSE rmax + 1

\* The repetition level of child i of a field.
nextR(r, rmax, i) == IF i = 1 THEN r ELSE rmax

\* The first call to be made, and what it computes.
first   == Head(todo)
rmax    == IF schema[first.name].repeated THEN first.rmax + 1 ELSE first.rmax
next_r  == nextR(first.r, rmax, first.i)
next_d  == IF CanBeAbsent(schema[first.name]) THEN first.d + 1 ELSE first.d
child   == Append(first.at, first.i)
present == child \in DOMAIN adding[first.name]

\* The calls behind this child: the loop goes on when there is another one.
rest ==
  IF Append(first.at, first.i + 1) \in DOMAIN adding[first.name]
  THEN <<[first EXCEPT !.i = @ + 1]>> \o Tail(todo)
  ELSE Tail(todo)

\* What makes a call raise: the message schema does not know the field, signed
\* integers are not implemented, and a required field is missing.
refused ==
  \/ first.name \notin DOMAIN fields
  \/ present /\ schema[first.name].type = "SIGNED_INT"
  \/ ~ present /\ ~ CanBeAbsent(schema[first.name])

writeColumn(name, r, d, v) ==
  cols' = [cols EXCEPT ![name] = Append(@, [r |-> r, d |-> d, v |-> v])]

Busy(kind) == adding # NoMessage /\ todo # <<>> /\ first.call = kind

Shredding ==
  UNCHANGED <<table, num_rows_, calls, nodes, failed, msgs, adding,
              materializerVars>>

\* A child that is an object: its fields come next.
AddObject ==
  /\ Busy("field") /\ ~ refused
  /\ present /\ IsObject(schema[first.name])
  /\ todo' = ForEach(first.name, LAMBDA n :
               addProtoRecordField(n, child, next_r, rmax, next_d)) \o rest
  /\ Shredding /\ UNCHANGED cols

\* writeProtoField: the value goes into the column as its encoding keeps it.
AddValue ==
  /\ Busy("field") /\ ~ refused
  /\ present /\ ~ IsObject(schema[first.name])
  /\ writeColumn(first.name, next_r, next_d,
                 stored(configs[first.name],
                        datum(schema[first.name].type, adding[first.name][child])))
  /\ todo' = rest
  /\ Shredding

\* No child at all.
AddAbsent ==
  /\ Busy("field") /\ ~ refused
  /\ ~ present
  /\ todo' = <<writeProtoNull(first.name, first.at, first.r, first.d)>> \o Tail(todo)
  /\ Shredding /\ UNCHANGED cols

\* The entries that were written stay, the row is not counted, and the caller
\* may go on.
Raise ==
  /\ Busy("field") /\ refused
  /\ todo' = <<>>
  /\ adding' = NoMessage
  /\ failed' = TRUE
  /\ UNCHANGED <<table, cols, num_rows_, calls, nodes, msgs, materializerVars>>

WriteNulls ==
  /\ Busy("null") /\ IsObject(schema[first.name])
  /\ todo' = ForEach(first.name, LAMBDA n :
               writeProtoNull(n, first.at, first.r, first.d)) \o Tail(todo)
  /\ Shredding /\ UNCHANGED cols

WriteNull ==
  /\ Busy("null") /\ ~ IsObject(schema[first.name])
  /\ writeColumn(first.name, first.r, first.d, 0)
  /\ todo' = Tail(todo)
  /\ Shredding

\* addRecordFromProtobuf.
AddRecord ==
  /\ columns_ = Closed
  /\ adding = NoMessage
  /\ calls < MaxRecords
  /\ calls' = calls + 1
  /\ \E n \in 0 .. MaxNodes - nodes : \E m \in Tables[table].messages[n] :
       /\ nodes' = nodes + n
       /\ adding' = m
  /\ todo' = ForEach(<<>>, LAMBDA n : addProtoRecordField(n, <<>>, 0, 0, 0))
  /\ UNCHANGED <<table, cols, num_rows_, failed, msgs, materializerVars>>

\* addRow.
AddRow ==
  /\ adding # NoMessage /\ todo = <<>>
  /\ num_rows_' = num_rows_ + 1
  /\ msgs' = IF failed THEN msgs ELSE Append(msgs, adding)
  /\ adding' = NoMessage
  /\ UNCHANGED <<table, cols, calls, nodes, failed, todo, materializerVars>>

----------------------------------------------------------------------------
(* RecordMaterializer. *)

\* A value is there when its definition level is the maximum of the column.
defined(c, e) == e.d = configs[c].dlevel_max

\* The value that a message field of this type gets: an integer that the
\* column yields is a number, a time, or true when it is 1.
fieldValue(type, v) ==
  CASE type = "UINT32"  -> v % Max32
    [] type = "BOOLEAN" -> v = 1
    [] OTHER            -> v

\* The index that each field on the way down to column c has by the indexes.
placeOf(c, ix) ==
  [k \in 1 .. Len(c) |->
     IF fields[SubSeq(c, 1, k)].repeated
     THEN ix[rlevel(fields, SubSeq(c, 1, k))] + 1 ELSE 1]

newRecord == [n \in DOMAIN fields |-> IF n = <<>> THEN <<>> :> Obj ELSE <<>>]

\* insertValue and insertNull: walk down to the object that holds the field,
\* creating what is not there yet; for a null, as far as its level reaches.
insert(c, e, ix, rec) ==
  LET p == placeOf(c, ix)
      above(n)   == n # <<>> /\ n # c /\ IsPrefix(n, c)
      reached(n) == above(n) /\ (defined(c, e) \/ dlevel(fields, n) <= e.d)
      upTo(n)    == {Append(SubSeq(p, 1, Len(n) - 1), i) : i \in 1 .. p[Len(n)]}
      before     == {a \in DOMAIN rec[c] : Front(a) = Front(p)}
      added      == Append(Front(p), Cardinality(before) + 1)
  IN  [n \in DOMAIN rec |->
         IF reached(n) THEN rec[n] @@ [a \in upTo(n) |-> Obj]
         ELSE IF n = c /\ defined(c, e)
         THEN rec[n] @@ (added :> fieldValue(fields[c].type, e.v))
         ELSE rec[n]]

\* A mutant of bump: the deeper indexes are kept.
bump_keep(ix, r) ==
  [k \in DOMAIN ix |-> IF k = r THEN ix[k] + 1 ELSE ix[k]]

\* An entry with level r > 0 starts the next element of list r.
bump(ix, r) ==
  [k \in DOMAIN ix |-> IF r = 0 \/ k < r THEN ix[k]
                       ELSE IF k = r THEN ix[k] + 1 ELSE 0]

\* The readers of v0.2.0 columns are stubs: they never reach an end, and every
\* read yields zeros.
eofReached(c, s) == Version = "v0_1_0" /\ s.pos >= Len(cols[c])
fetched(c, s) ==
  IF Version = "v0_1_0" THEN cols[c][s.pos] ELSE [r |-> 0, d |-> 0, v |-> 0]

\* A mutant of fetchIfNotPending: what was read ahead is dropped.
fetchIfNotPending_always(c, s) ==
  IF eofReached(c, s) THEN [s EXCEPT !.raised = ~ s.pending]
  ELSE [s EXCEPT !.pos = @ + 1, !.pending = TRUE]

\* The entry at pos is the one that was fetched last.
fetchIfNotPending(c, s) ==
  IF s.pending THEN s
  ELSE IF eofReached(c, s) THEN [s EXCEPT !.raised = TRUE]
  ELSE [s EXCEPT !.pos = @ + 1, !.pending = TRUE]

consume(s) == [s EXCEPT !.pending = FALSE]

\* One turn of the loop over the entries of a record: the column is read one
\* entry ahead, unless the end is reached.
turn(c, s) ==
  LET f == fetchIfNotPending(c, s)
  IN  IF f.raised THEN f
      ELSE IF eofReached(c, f) THEN consume(f)
      ELSE fetchIfNotPending(c, consume(f))

\* Another turn follows when that entry belongs to the record.
goesOn(c, s) ==
  LET g == turn(c, s) IN ~ g.raised /\ g.pending /\ fetched(c, g).r # 0

\* A column that nothing was read of yet.
columnState == [pos |-> 0, pending |-> FALSE, raised |-> FALSE]

\* The columns that the message schema and the table know, or those of them that
\* the caller names.
createColumns(names) ==
  LET all == Leaves(fields) \cap DOMAIN configs
  IN  IF names = {} THEN all ELSE names \cap all

\* The constructor.
OpenMaterializer ==
  /\ adding = NoMessage
  /\ columns_ = Closed
  /\ num_rows_ > 0
  /\ \E names \in SUBSET DOMAIN configs :
       columns_' = [c \in createColumns(names) |-> columnState]
  /\ UNCHANGED <<table, shredderVars, call, left, current, indexes, record,
                 done>>

\* The caller asks for as many records as the table counts.
Begin(kind) ==
  /\ columns_ # Closed
  /\ left = {} /\ current = NoColumn
  /\ done < num_rows_
  /\ call' = kind
  /\ left' = DOMAIN columns_
  /\ record' = newRecord
  /\ done' = done + 1
  /\ UNCHANGED <<table, shredderVars, columns_, current, indexes>>
NextRecord == Begin("nextRecord")
SkipRecord == Begin("skipRecord")

\* The columns come in the order of a hash map.
Turn(c) ==
  /\ columns_' = [columns_ EXCEPT ![c] = turn(c, @)]
  /\ current' = IF goesOn(c, columns_[c]) THEN c ELSE NoColumn
  /\ left' = left \ {c}
  /\ UNCHANGED <<table, shredderVars, call, done>>

\* loadColumn.
LoadColumn(c) ==
  /\ call = "nextRecord"
  /\ Turn(c)
  /\ LET f    == fetchIfNotPending(c, columns_[c])
         zero == [k \in 1 .. configs[c].rlevel_max |-> 0]
         ix   == bump(IF current = c THEN indexes ELSE zero, fetched(c, f).r)
     IN  /\ record' = IF f.raised THEN record
                      ELSE insert(c, fetched(c, f), ix, record)
         /\ indexes' = IF goesOn(c, columns_[c]) THEN ix ELSE <<>>

\* The same loop in skipRecord.
SkipColumn(c) ==
  /\ call = "skipRecord"
  /\ Turn(c)
  /\ UNCHANGED <<indexes, record>>

----------------------------------------------------------------------------
(* A table is filled and then read. *)

\* createFile has made the columns.
Init ==
  /\ table \in DOMAIN Tables
  /\ cols = [c \in DOMAIN configs |-> <<>>]
  /\ num_rows_ = 0 /\ calls = 0 /\ nodes = 0
  /\ failed = FALSE /\ msgs = <<>>
  /\ adding = NoMessage /\ todo = <<>>
  /\ columns_ = Closed /\ call = "none" /\ left = {}
  /\ current = NoColumn /\ indexes = <<>> /\ record = <<>>
  /\ done = 0

Next ==
  \/ AddRecord \/ AddRow
  \/ AddObject \/ AddValue \/ AddAbsent \/ Raise \/ WriteNulls \/ WriteNull
  \/ OpenMaterializer \/ NextRecord \/ SkipRecord
  \/ \E c \in IF current = NoColumn THEN left ELSE {current} :
       LoadColumn(c) \/ SkipColumn(c)

Spec == Init /\ [][Next]_vars

----------------------------------------------------------------------------
(* Correctness. *)

\* Between two calls of the materializer.
Returned == left = {} /\ current = NoColumn

\* A field is read when one of the columns of the materializer is below it.
IsRead(n) == n = <<>> \/ \E c \in DOMAIN columns_ : IsPrefix(n, c)

\* What is left of a message when only these columns are read.
Project(m) ==
  [n \in DOMAIN fields |->
     [a \in IF IsRead(n) THEN DOMAIN m[n] ELSE {} |-> m[n][a]]]

\* nextRecord yields the message that was added: whatever the nesting, absent
\* and repeated fields, the selection of columns, the order of the columns in
\* the hash map and the records skipped before; a record that failed does not
\* disturb those added before it.
RoundTrip ==
  call = "nextRecord" /\ Returned /\ done <= Len(msgs)
  => record = Project(msgs[done])

RecordsIn(es) == Cardinality({i \in DOMAIN es : es[i].r = 0})

\* As long as no call has failed, every column holds as many records as
\* num_rows_ counts: no column misses a record or splits one in two.
ColumnsAligned ==
  ~ failed /\ adding = NoMessage =>
    \A c \in DOMAIN cols : RecordsIn(cols[c]) = num_rows_

\* After every call each column has used up the same number of records: the
\* entry read ahead belongs to the next one, and no read runs past the end.
InStep ==
  Returned =>
    \A c \in DOMAIN columns_ :
      LET s    == columns_[c]
          used == IF s.pending THEN s.pos - 1 ELSE s.pos
      IN  /\ ~ s.raised
          /\ RecordsIn(SubSeq(cols[c], 1, used)) = done

\* The levels the shredder writes are those that TableSchema announced for the
\* column, and a column starts with a record.
LevelsFit ==
  \A c \in DOMAIN cols : \A i \in DOMAIN cols[c] :
    /\ cols[c][i].r <= configs[c].rlevel_max
    /\ cols[c][i].d <= configs[c].dlevel_max
    /\ i = 1 => cols[c][i].r = 0
=============================================================================
