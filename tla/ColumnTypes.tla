---------------------------- MODULE ColumnTypes ----------------------------
(***************************************************************************)
(* The logical types and the encodings of a column: what a typed write     *)
(* hands to the column, what a column of each encoding keeps of it, and    *)
(* what a typed read makes of that again.                                  *)
(*                                                                         *)
(* A double stands for its bit pattern, a time for its microseconds.       *)
(* Columns whose encoding README.md does not list for their type (a double *)
(* in an integer column, a number in a string column) are left out.        *)
(***************************************************************************)
EXTENDS Integers

CONSTANTS
  Max32,            \* 2^32: the values a 32-bit encoding can hold
  Max64             \* 2^64

ASSUME WidthAssumption ==
  /\ Max32 \in Nat \ {0}
  /\ Max64 \in Nat \ {0}
  /\ Max32 <= Max64

Encodings == {"BOOLEAN_BITPACKED", "UINT32_BITPACKED", "UINT32_PLAIN",
              "UINT64_PLAIN", "UINT64_LEB128", "FLOAT_IEEE754",
              "STRING_PLAIN"}

\* A column: rlevel_max, dlevel_max, storage_type and logical_type of a
\* ColumnConfig.
IsPacked(c) == c.storage_type \in {"BOOLEAN_BITPACKED", "UINT32_BITPACKED"}

----------------------------------------------------------------------------
(* Writing. *)

\* What writeBoolean, writeSignedInt, ... hand to addDatum.
datum(type, v) ==
  CASE type = "BOOLEAN" -> IF v THEN 1 ELSE 0
    [] type = "SIGNED_INT" -> v % Max64
    [] OTHER -> v

\* What addDatum of each writer class keeps.
BooleanColumnWriter(u)      == IF u > 0 THEN 1 ELSE 0
BitPackedIntColumnWriter(u) == u % Max32
UInt32ColumnWriter(u)       == u % Max32
UInt64ColumnWriter(u)       == u
LEB128ColumnWriter(u)       == u
DoubleColumnWriter(u)       == u
StringColumnWriter(s)       == s

stored(c, d) ==
  CASE c.storage_type = "BOOLEAN_BITPACKED" -> BooleanColumnWriter(d)
    [] c.storage_type = "UINT32_BITPACKED"  -> BitPackedIntColumnWriter(d)
    [] c.storage_type = "UINT32_PLAIN"      -> UInt32ColumnWriter(d)
    [] c.storage_type = "UINT64_PLAIN"      -> UInt64ColumnWriter(d)
    [] c.storage_type = "UINT64_LEB128"     -> LEB128ColumnWriter(d)
    [] c.storage_type = "FLOAT_IEEE754"     -> DoubleColumnWriter(d)
    [] c.storage_type = "STRING_PLAIN"      -> StringColumnWriter(d)

\* type() of the writers: the plain and the variable-length columns know their
\* logical type, a boolean column calls itself an unsigned integer.
writerType(c) ==
  CASE IsPacked(c) -> "UNSIGNED_INT"
    [] c.storage_type = "FLOAT_IEEE754" -> "FLOAT"
    [] c.storage_type = "STRING_PLAIN" -> "STRING"
    [] OTHER -> c.logical_type

----------------------------------------------------------------------------
(* Reading. *)

\* type() of the readers: no reader knows the logical type.
readerType(c) ==
  CASE c.storage_type = "BOOLEAN_BITPACKED" -> "BOOLEAN"
    [] c.storage_type = "FLOAT_IEEE754" -> "FLOAT"
    [] c.storage_type = "STRING_PLAIN" -> "STRING"
    [] OTHER -> "UNSIGNED_INT"

\* A mutant of toSigned: the sign is lost.
toSigned_plain(u) == u

\* An unsigned 64-bit integer is assigned to a signed one.
toSigned(u) == IF 2 * u >= Max64 THEN u - Max64 ELSE u

\* readBoolean, readUnsignedInt, readDateTime and readSignedInt of an integer.
asInteger(type, u) ==
  CASE type = "BOOLEAN" -> u > 1
    [] type = "SIGNED_INT" -> toSigned(u)
    [] OTHER -> u

\* What the typed reads of each reader class make of a value.
BooleanColumnReader(type, u) ==
  IF type = "BOOLEAN" THEN u > 0 ELSE asInteger(type, u)
BitPackedIntColumnReader(type, u) == asInteger(type, u)
UInt32ColumnReader(type, u)       == asInteger(type, u)
UInt64ColumnReader(type, u)       == asInteger(type, u)
LEB128ColumnReader(type, u)       == asInteger(type, u)
DoubleColumnReader(u)             == u
StringColumnReader(s)             == s

readAs(c, type, u) ==
  CASE c.storage_type = "BOOLEAN_BITPACKED" -> BooleanColumnReader(type, u)
    [] c.storage_type = "UINT32_BITPACKED"  -> BitPackedIntColumnReader(type, u)
    [] c.storage_type = "UINT32_PLAIN"      -> UInt32ColumnReader(type, u)
    [] c.storage_type = "UINT64_PLAIN"      -> UInt64ColumnReader(type, u)
    [] c.storage_type = "UINT64_LEB128"     -> LEB128ColumnReader(type, u)
    [] c.storage_type = "FLOAT_IEEE754"     -> DoubleColumnReader(u)
    [] c.storage_type = "STRING_PLAIN"      -> StringColumnReader(u)
=============================================================================
