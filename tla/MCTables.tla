---------------------------- MODULE MCTables ----------------------------
(***************************************************************************)
(* What the instances of Records and CSVImport share: tables whose schema  *)
(* is any copy of the one given, with the messages up to MaxNodes fields.  *)
(***************************************************************************)
EXTENDS Records, TableSchema

Field(id, type, repeated, optional) ==
  [id |-> id, type |-> type, repeated |-> repeated, optional |-> optional,
   sub |-> <<>>]
Object(id, repeated, optional, sub) ==
  [id |-> id, type |-> "OBJECT", repeated |-> repeated, optional |-> optional,
   sub |-> sub]

\* The messages with one child more.
oneMore(fs, m) ==
  UNION {LET siblings(a) == {b \in DOMAIN m[n] : Front(b) = a}
             free == {a \in DOMAIN m[Front(n)] :
                        siblings(a) = {} \/ fs[n].repeated \/ ~ Strict}
             next(a) == Append(a, Cardinality(siblings(a)) + 1)
         IN  {(n :> (m[n] @@ (next(a) :> v))) @@ m :
                a \in free, v \in ValuesOf(fs[n])} :
           n \in DOMAIN fs \ {<<>>}}

\* The messages by the number of their fields.
messagesOf(fs) ==
  LET nothing == [n \in DOMAIN fs |-> IF n = <<>> THEN <<>> :> Obj ELSE <<>>]
      grown[n \in 0 .. MaxNodes] ==
        IF n = 0 THEN {nothing}
        ELSE UNION {oneMore(fs, m) : m \in grown[n - 1]}
  IN  grown

\* A table for every copy that createFile may make of the schema.
withCopies(fs, columns) ==
  LET tree == treeOf(fs)
      ms   == messagesOf(tree)
      cs   == SetToSeq(copies(columns))
  IN  [i \in DOMAIN cs |->
         [fields |-> tree, schema |-> treeOf(cs[i]),
          messages |-> [n \in 0 .. MaxNodes |-> ms[n]]]]
=============================================================================
