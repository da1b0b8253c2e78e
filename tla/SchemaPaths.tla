---------------------------- MODULE SchemaPaths ----------------------------
(***************************************************************************)
(* A nested schema, of a table or of messages, by the paths of its fields. *)
(*                                                                         *)
(* A tree maps the path of every field, the sequence of the names down to  *)
(* it, to what the schema says of the field and to the names of the fields *)
(* below it, in their order.  The empty path stands for the schema itself. *)
(* The path of a field without fields below it is the name of a column.    *)
(***************************************************************************)
EXTENDS Integers, FiniteSets, SequencesExt

CanBeAbsent(f) == f.optional \/ f.repeated

IsObject(f) == f.type \in {"SUBRECORD", "OBJECT"}

Leaves(tree) == {n \in DOMAIN tree : ~ IsObject(tree[n])}

----------------------------------------------------------------------------
(* The flat columns. *)

\* How many of the fields on a path are lists, and how many can be absent:
\* what listFlatColumns and createColumns count on their way down.
rlevel(tree, n) ==
  Cardinality({k \in 1 .. Len(n) : tree[SubSeq(n, 1, k)].repeated})
dlevel(tree, n) ==
  Cardinality({k \in 1 .. Len(n) : CanBeAbsent(tree[SubSeq(n, 1, k)])})

\* The ColumnConfig of every column.
flatColumns(tree) ==
  [c \in Leaves(tree) |->
     [storage_type |-> tree[c].encoding, logical_type |-> tree[c].type,
      rlevel_max |-> rlevel(tree, c), dlevel_max |-> dlevel(tree, c)]]

----------------------------------------------------------------------------
(* What makes a function such a tree: every field is listed once, in the   *)
(* object above it.                                                        *)

IsTree(tree) ==
  /\ IsFiniteSet(DOMAIN tree)
  /\ <<>> \in DOMAIN tree
  /\ IsObject(tree[<<>>])
  /\ \A n \in DOMAIN tree :
       /\ n \in Seq(STRING)
       /\ tree[n].repeated \in BOOLEAN
       /\ tree[n].optional \in BOOLEAN
       /\ tree[n].sub \in Seq(STRING)
       /\ \A i, j \in DOMAIN tree[n].sub :
            tree[n].sub[i] = tree[n].sub[j] => i = j
       /\ \A i \in DOMAIN tree[n].sub :
            IsObject(tree[n]) /\ Append(n, tree[n].sub[i]) \in DOMAIN tree
       /\ \A k \in 0 .. Len(n) - 1 :
            /\ SubSeq(n, 1, k) \in DOMAIN tree
            /\ \E i \in DOMAIN tree[SubSeq(n, 1, k)].sub :
                 tree[SubSeq(n, 1, k)].sub[i] = n[k + 1]
=============================================================================
