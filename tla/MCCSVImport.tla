---------------------------- MODULE MCCSVImport ----------------------------
(***************************************************************************)
(* Small tables and cells for CSVImport.                                   *)
(***************************************************************************)
EXTENDS CSVImport, MCTables

\* A required number and a list of strings.
NumberAndList ==
  withCopies(<<Field("n", "UINT64", FALSE, FALSE),
                Field("s", "STRING", TRUE, FALSE)>>,
             addStringArray(
                addUnsignedInteger(<<>>, "n", FALSE, "UINT64_LEB128"),
                "s", FALSE, "STRING_PLAIN"))

\* An optional object with a required and an optional field.
OptionalObject ==
  withCopies(<<Object("o", FALSE, TRUE,
                  <<Field("t", "DATETIME", FALSE, FALSE),
                    Field("d", "DOUBLE", FALSE, TRUE)>>)>>,
             addSubrecord(<<>>, "o",
                addFloat(
                  addColumn(<<>>, "t", "DATETIME", "UINT64_PLAIN", FALSE, FALSE),
                  "d", TRUE, "FLOAT_IEEE754"),
                TRUE))

\* A required object with an optional field, beside an optional boolean.
ObjectAndFlag ==
  withCopies(<<Object("p", FALSE, FALSE, <<Field("s", "STRING", FALSE, TRUE)>>),
                Field("b", "BOOLEAN", FALSE, TRUE)>>,
             addBool(
                addSubrecord(<<>>, "p",
                  addString(<<>>, "s", TRUE, "STRING_PLAIN"), FALSE),
                "b", TRUE, "BOOLEAN_BITPACKED"))

CSVTables == NumberAndList \o OptionalObject \o ObjectAndFlag

\* The empty cell, "1" and "true".
SomeCells ==
  {[null |-> TRUE],
   [null |-> FALSE, text |-> "1", uint |-> 1, sint |-> 1, double |-> "1.0",
    time |-> 6, bool |-> Raises],
   [null |-> FALSE, text |-> "true", uint |-> Raises, sint |-> Raises,
    double |-> Raises, time |-> Raises, bool |-> TRUE]}
=============================================================================
