----------------------------- MODULE MCRecords -----------------------------
(***************************************************************************)
(* Small tables for Records.                                               *)
(***************************************************************************)
EXTENDS MCTables

Derived(fs) == withCopies(fs, fromProtobuf(fs))

\* Lists in lists beside an optional field.
ListsInLists ==
  Derived(<<Object("a", TRUE, FALSE,
              <<Object("b", TRUE, FALSE, <<Field("x", "STRING", FALSE, TRUE)>>),
                Field("y", "BOOLEAN", FALSE, TRUE)>>)>>)

\* An optional object in a list, in a schema that is built by hand.
ObjectInList ==
  withCopies(<<Object("a", TRUE, FALSE,
                 <<Object("o", FALSE, TRUE,
                     <<Field("x", "UINT32", TRUE, FALSE)>>)>>)>>,
             addSubrecordArray(<<>>, "a",
               addSubrecord(<<>>, "o",
                 addUnsignedIntegerArray(<<>>, "x", FALSE, "UINT32_PLAIN"),
                 TRUE),
               FALSE))

\* A required object with a required field behind a list of values.
RequiredObject ==
  Derived(<<Field("l", "DOUBLE", TRUE, FALSE),
            Object("o", FALSE, FALSE,
              <<Field("q", "DATETIME", FALSE, FALSE)>>)>>)

\* Two columns of which one is declared a second time, differently.
DeclaredTwice ==
  withCopies(<<Field("f", "DOUBLE", FALSE, TRUE),
               Field("b", "BOOLEAN", TRUE, FALSE)>>,
             addFloatArray(
               addFloat(
                 addBoolArray(<<>>, "b", FALSE, "UINT32_BITPACKED"),
                 "f", TRUE, "FLOAT_IEEE754"),
               "b", TRUE, "FLOAT_IEEE754"))

NestedTables ==
  ListsInLists \o ObjectInList \o RequiredObject \o DeclaredTwice

\* The one kind of column that the v0.2.0 format has.
PlainTable ==
  withCopies(<<Field("x", "UINT64", FALSE, FALSE)>>,
             addUnsignedInteger(<<>>, "x", FALSE, "UINT64_PLAIN"))
=============================================================================
