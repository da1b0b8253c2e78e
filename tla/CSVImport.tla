----------------------------- MODULE CSVImport -----------------------------
(***************************************************************************)
(* RecordShredder::addRecordsFromCSV: the rows of a CSV file are added to  *)
(* a table, beside records added from messages, and materialized again.    *)
(*                                                                         *)
(* A cell is what the conversions make of its text: null for the ones that *)
(* Human::isNullOrEmpty accepts, else its string and the results of        *)
(* std::stoull, std::stoll, std::stod, Human::parseTime and                *)
(* Human::parseBoolean, each of them Raises when there is none.  The cells *)
(* of a row are calls still to be made, as the fields of a message are.    *)
(***************************************************************************)
EXTENDS Records

CONSTANTS
  Cells,
  Raises,           \* the text of a cell cannot be converted
  NoImport          \* no import is under way

VARIABLES
  csv,              \* the columns that the header of the file names
  imported          \* history: the records in msgs that are rows

csvVars == <<vars, csv, imported>>

----------------------------------------------------------------------------
(* The header. *)

\* The header lists names of columns of the table, or of none.
Unknown == <<"unknown">>
Headers ==
  LET names == DOMAIN configs
  IN  (IF Strict THEN SetToAllKPermutations(names) \ {<<>>}
       ELSE UNION {[1 .. n -> names] : n \in 1 .. (Cardinality(names) + 1)})
      \cup {<<Unknown>>}

required(c) == configs[c].dlevel_max = 0

missing_columns(header) == DOMAIN configs \ ToSet(header)

\* Every name is a column, and what is missing can be null.
headerAccepted(header) ==
  /\ ToSet(header) \subseteq DOMAIN configs
  /\ ~ \E c \in missing_columns(header) : required(c)

\* The first row is read; nothing is written before it is accepted.
BeginImport ==
  /\ csv = NoImport
  /\ adding = NoMessage
  /\ columns_ = Closed
  /\ calls < MaxRecords
  /\ \E header \in Headers :
       csv' = IF headerAccepted(header) THEN header ELSE NoImport
  /\ calls' = calls + 1
  /\ UNCHANGED <<table, cols, num_rows_, nodes, failed, msgs, adding, todo,
                 materializerVars, imported>>

----------------------------------------------------------------------------
(* The rows. *)

\* What the text is converted to, by the type that the column writer says.
parsed(type, cell) ==
  CASE type = "STRING"       -> cell.text
    [] type = "UNSIGNED_INT" -> cell.uint
    [] type = "SIGNED_INT"   -> cell.sint
    [] type = "DATETIME"     -> cell.time
    [] type = "FLOAT"        -> cell.double
    [] type = "BOOLEAN"      -> cell.bool = TRUE

\* What a cell writes: the definition level and the value.
cellValue(c, cell) ==
  stored(configs[c], datum(writerType(configs[c]),
                           parsed(writerType(configs[c]), cell)))

\* A cell that cannot be written: a required column has no null, and the text
\* must be what the column holds.
badCell(c, cell) ==
  IF cell.null THEN required(c)
  ELSE parsed(writerType(configs[c]), cell) = Raises

\* A mutant of writeCell: a null cell is passed over.
writeCell_skipNull(c, cell) ==
  IF cell.null THEN cols' = cols
  ELSE writeColumn(c, 0, configs[c].dlevel_max, cellValue(c, cell))

\* A mutant of writeCell: a value gets the definition level of a null.
writeCell_level(c, cell) ==
  IF cell.null THEN writeColumn(c, 0, 0, 0)
  ELSE writeColumn(c, 0, 0, cellValue(c, cell))

writeCell(c, cell) ==
  IF cell.null THEN writeColumn(c, 0, 0, 0)
  ELSE writeColumn(c, 0, configs[c].dlevel_max, cellValue(c, cell))

\* A row has a cell per column, or one more, which nobody looks at.  When it
\* does not adhere to the schema it has fewer; an empty line has one.
Rows ==
  LET n    == Len(csv)
      full == [1 .. n -> Cells]
  IN  full \cup {Append(row, row[1]) : row \in full}
      \cup IF Strict THEN {} ELSE UNION {[1 .. k -> Cells] : k \in 1 .. (n - 1)}

\* The cell that a row has for every column.
CellsOf(row) ==
  [c \in DOMAIN configs |->
     IF c \in ToSet(csv) THEN row[CHOOSE i \in DOMAIN csv : csv[i] = c]
     ELSE [null |-> TRUE]]

\* A row that is followed by a row separator: its cells as far as there are
\* columns, then the missing columns.
ImportRow ==
  /\ csv # NoImport
  /\ adding = NoMessage
  /\ nodes < MaxNodes
  /\ nodes' = nodes + 1
  /\ \E row \in Rows :
       LET n       == IF Len(row) < Len(csv) THEN Len(row) ELSE Len(csv)
           missing == SetToSeq(missing_columns(csv))
       IN  /\ adding' = row
           /\ todo' = [i \in 1 .. n |->
                         [call |-> "cell", name |-> csv[i], cell |-> row[i]]]
                      \o [i \in DOMAIN missing |->
                            writeProtoNull(missing[i], <<>>, 0, 0)]
  /\ UNCHANGED <<table, cols, num_rows_, calls, failed, msgs, materializerVars,
                 csv, imported>>

ImportCell ==
  /\ Busy("cell") /\ ~ badCell(first.name, first.cell)
  /\ writeCell(first.name, first.cell)
  /\ todo' = Tail(todo)
  /\ Shredding /\ UNCHANGED <<csv, imported>>

\* The cells before it stay, the row is not counted and the import is over.
RefuseCell ==
  /\ Busy("cell") /\ badCell(first.name, first.cell)
  /\ todo' = <<>>
  /\ adding' = NoMessage
  /\ failed' = TRUE
  /\ csv' = NoImport
  /\ UNCHANGED <<table, cols, num_rows_, calls, nodes, msgs, materializerVars,
                 imported>>

ImportMissing == csv # NoImport /\ WriteNull /\ UNCHANGED <<csv, imported>>

\* addRow.
EndRow ==
  /\ csv # NoImport
  /\ adding # NoMessage /\ todo = <<>>
  /\ num_rows_' = num_rows_ + 1
  /\ msgs' = IF failed \/ Len(adding) < Len(csv) THEN msgs
             ELSE Append(msgs, CellsOf(adding))
  /\ imported' = imported \cup (DOMAIN msgs' \ DOMAIN msgs)
  /\ adding' = NoMessage
  /\ UNCHANGED <<table, cols, calls, nodes, failed, todo, materializerVars,
                 csv>>

\* The end of the file.  A last row that no row separator follows is read and
\* then dropped: readNextRow returns false for it, too.
EndImport ==
  /\ csv # NoImport
  /\ adding = NoMessage
  /\ csv' = NoImport
  /\ UNCHANGED <<vars, imported>>

----------------------------------------------------------------------------
CSVInit == Init /\ csv = NoImport /\ imported = {}

\* The import is one call: nothing else uses the table meanwhile.
CSVNext ==
  \/ csv = NoImport /\ Next /\ UNCHANGED <<csv, imported>>
  \/ BeginImport \/ ImportRow \/ ImportCell \/ RefuseCell \/ ImportMissing
  \/ EndRow \/ EndImport

CSVSpec == CSVInit /\ [][CSVNext]_csvVars

----------------------------------------------------------------------------
(* Correctness. *)

\* The value of a cell for a message field of this type: a word for a truth
\* value means what it says, a number is true when it is not 0.
meaning(type, cell) ==
  CASE type = "STRING"   -> cell.text
    [] type = "DOUBLE"   -> cell.double
    [] type = "DATETIME" -> cell.time
    [] type = "BOOLEAN"  -> IF cell.bool # Raises THEN cell.bool
                            ELSE cell.uint > 0
    [] OTHER             -> cell.uint

\* The message that a row stands for, as far as its columns are read: a field
\* is there when the row has a cell for it, an object when one of its fields is
\* or when it can not be absent.
rowMessage(cells) ==
  LET read(n)  == {c \in DOMAIN columns_ : IsPrefix(n, c)}
      value(n) == \E c \in read(n) : ~ cells[c].null
      here(n)  ==
        \/ n = <<>>
        \/ value(n)
        \/ IsObject(fields[n]) /\ read(n) # {} /\ dlevel(fields, n) = 0
      content(n) ==
        IF IsObject(fields[n]) THEN Obj ELSE meaning(fields[n].type, cells[n])
  IN  [n \in DOMAIN fields |->
         [a \in IF here(n) THEN {[k \in 1 .. Len(n) |-> 1]} ELSE {} |->
            content(n)]]

\* nextRecord yields what the cells of the row say, whatever the order of the
\* columns in the header and the columns the header leaves out, among records
\* that were added from messages; an import that breaks off does not disturb
\* the rows before.
RowsReadBack ==
  call = "nextRecord" /\ Returned /\ done <= Len(msgs)
  => record = IF done \in imported THEN rowMessage(msgs[done])
              ELSE Project(msgs[done])
=============================================================================
