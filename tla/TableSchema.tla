---------------------------- MODULE TableSchema ----------------------------
(***************************************************************************)
(* TableSchema: building a schema, copying it and deriving it from the     *)
(* schema of a message.                                                    *)
(*                                                                         *)
(* A schema is the list columns_ of pointers to its columns; the columns   *)
(* are owned by the hash map columns_by_name_, which holds one per name.   *)
(***************************************************************************)
EXTENDS Integers, FiniteSets, SequencesExt

CONSTANT Freed      \* a pointer to a column that was freed

Column(name, type, encoding, repeated, optional) ==
  [id |-> name, type |-> type, encoding |-> encoding, repeated |-> repeated,
   optional |-> optional, sub |-> <<>>]

----------------------------------------------------------------------------
(* The add methods. *)

\* The columns that columns_by_name_ owns.
Owned(columns) == {columns[i] : i \in DOMAIN columns} \ {Freed}

\* How they all end: the pointer goes into columns_, the column into the map.
\* When the name is taken the map does not keep the column and frees it.
emplace(columns, col) ==
  Append(columns, IF \E c \in Owned(columns) : c.id = col.id THEN Freed ELSE col)

addColumn(columns, name, type, encoding, repeated, optional) ==
  emplace(columns, Column(name, type, encoding, repeated, optional))

addBool(columns, name, optional, encoding) ==
  addColumn(columns, name, "BOOLEAN", encoding, FALSE, optional)
addBoolArray(columns, name, optional, encoding) ==
  addColumn(columns, name, "BOOLEAN", encoding, TRUE, optional)

addUnsignedInteger(columns, name, optional, encoding) ==
  addColumn(columns, name, "UNSIGNED_INT", encoding, FALSE, optional)
addUnsignedIntegerArray(columns, name, optional, encoding) ==
  addColumn(columns, name, "UNSIGNED_INT", encoding, TRUE, optional)

addFloat(columns, name, optional, encoding) ==
  addColumn(columns, name, "FLOAT", encoding, FALSE, optional)
addFloatArray(columns, name, optional, encoding) ==
  addColumn(columns, name, "FLOAT", encoding, TRUE, optional)

addString(columns, name, optional, encoding) ==
  addColumn(columns, name, "STRING", encoding, FALSE, optional)
addStringArray(columns, name, optional, encoding) ==
  addColumn(columns, name, "STRING", encoding, TRUE, optional)

\* A subrecord keeps a copy of its schema.
Subrecord(name, sub, repeated, optional) ==
  [Column(name, "SUBRECORD", "NONE", repeated, optional)
     EXCEPT !.sub = SelectSeq(sub, LAMBDA c : c # Freed)]

addSubrecord(columns, name, sub, optional) ==
  emplace(columns, Subrecord(name, sub, FALSE, optional))
addSubrecordArray(columns, name, sub, optional) ==
  emplace(columns, Subrecord(name, sub, TRUE, optional))

----------------------------------------------------------------------------
(* Copying and converting. *)

\* The copies a schema may have: the constructor walks columns_by_name_, so
\* the columns come in any order, in every subrecord, too.
RECURSIVE copies(_)
copies(columns) ==
  UNION {{[i \in DOMAIN order |-> [order[i] EXCEPT !.sub = subs[i]]] :
            subs \in {f \in [DOMAIN order ->
                               UNION {copies(c.sub) : c \in Owned(columns)}] :
                        \A i \in DOMAIN order : f[i] \in copies(order[i].sub)}} :
           order \in SetToSeqs(Owned(columns))}

RECURSIVE fromProtobuf(_)
fromProtobuf(fs) ==
  LET field(rs, f) ==
        CASE f.type = "OBJECT" /\ f.repeated ->
               addSubrecordArray(rs, f.id, fromProtobuf(f.sub), f.optional)
          [] f.type = "OBJECT" /\ ~ f.repeated ->
               addSubrecord(rs, f.id, fromProtobuf(f.sub), f.optional)
          [] f.type = "BOOLEAN" ->
               addColumn(rs, f.id, "BOOLEAN", "BOOLEAN_BITPACKED", f.repeated,
                         f.optional)
          [] f.type = "STRING" ->
               addColumn(rs, f.id, "STRING", "STRING_PLAIN", f.repeated,
                         f.optional)
          [] f.type \in {"UINT64", "UINT32"} ->
               addColumn(rs, f.id, "UNSIGNED_INT", "UINT64_LEB128", f.repeated,
                         f.optional)
          [] f.type = "DOUBLE" ->
               addColumn(rs, f.id, "FLOAT", "FLOAT_IEEE754", f.repeated,
                         f.optional)
          [] f.type = "DATETIME" ->
               addColumn(rs, f.id, "DATETIME", "UINT64_LEB128", f.repeated,
                         f.optional)
  IN  FoldLeft(field, <<>>, fs)

----------------------------------------------------------------------------
(* The paths. *)

\* The tree of a schema without freed columns, or of a message schema.
RECURSIVE below(_, _)
below(name, f) ==
  (name :> [f EXCEPT !.sub = [i \in DOMAIN f.sub |-> f.sub[i].id]])
  @@ FoldLeft(LAMBDA t, g : t @@ below(Append(name, g.id), g), <<>>, f.sub)

treeOf(fs) == below(<<>>, Subrecord("", fs, FALSE, FALSE))
=============================================================================
