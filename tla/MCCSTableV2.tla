--------------------------- MODULE MCCSTableV2 ---------------------------
(***************************************************************************)
(* Small instances of CSTableV2: a page holds one or two words.            *)
(***************************************************************************)
EXTENDS CSTableV2

\* Leaf columns, before they get an id.
Required == [rlevel_max |-> 0, dlevel_max |-> 0, plain |-> TRUE]
Optional == [rlevel_max |-> 0, dlevel_max |-> 1, plain |-> TRUE]
Repeated == [rlevel_max |-> 1, dlevel_max |-> 1, plain |-> TRUE]
Packed   == [rlevel_max |-> 0, dlevel_max |-> 0, plain |-> FALSE]

\* The flat columns of leaves: column_id is not initialised, so the columns
\* may hold any ids.
FlatColumns(leaves, ids) ==
  {[i \in DOMAIN leaves |->
      [column_id |-> f[i], rlevel_max |-> leaves[i].rlevel_max,
       dlevel_max |-> leaves[i].dlevel_max, plain |-> leaves[i].plain]] :
     f \in [DOMAIN leaves -> ids]}

\* One stream, so that it grows over several pages.
OneStream == FlatColumns(<<Required>>, {0})
\* Two or three streams that share the file, in one column or in two; and
\* schemas createFile cannot serve.
TwoStreams ==
  UNION {FlatColumns(s, {0}) :
           s \in {<<Optional>>, <<Repeated>>, <<Required, Packed>>, <<>>}}
    \cup FlatColumns(<<Required, Required>>, {0, 1})
\* Two columns, for what their ids tell.
TwoColumns == FlatColumns(<<Required, Required>>, {0, 1})
=============================================================================
