---------------------------- MODULE MCCSTableV1 ----------------------------
(***************************************************************************)
(* Small instances of CSTableV1: a packed block holds two values.          *)
(***************************************************************************)
EXTENDS CSTableV1

Column(type, encoding, rmax, dmax) ==
  [logical_type |-> type, storage_type |-> encoding,
   rlevel_max |-> rmax, dlevel_max |-> dmax]

\* Every encoding, repeated and optional or required; two columns; none.
AllEncodings ==
  {<<>>,
   <<Column("BOOLEAN", "BOOLEAN_BITPACKED", 1, 1)>>,
   <<Column("UNSIGNED_INT", "UINT32_BITPACKED", 1, 1)>>,
   <<Column("UNSIGNED_INT", "UINT32_PLAIN", 0, 1)>>,
   <<Column("SIGNED_INT", "UINT64_PLAIN", 0, 0)>>,
   <<Column("FLOAT", "FLOAT_IEEE754", 1, 0)>>,
   <<Column("STRING", "STRING_PLAIN", 0, 0),
     Column("SIGNED_INT", "UINT64_LEB128", 1, 1)>>}

\* An integer column is copied to one of another encoding, the others to one
\* of their own.
OtherIntegers ==
  [BOOLEAN_BITPACKED |-> "UINT32_BITPACKED", UINT32_BITPACKED |-> "UINT64_LEB128",
   UINT32_PLAIN |-> "BOOLEAN_BITPACKED", UINT64_PLAIN |-> "UINT32_PLAIN",
   UINT64_LEB128 |-> "UINT64_PLAIN", FLOAT_IEEE754 |-> "FLOAT_IEEE754",
   STRING_PLAIN |-> "STRING_PLAIN"]

\* A negative and a positive number.
Signs == {-1, 1}

\* Two columns, for the order in which the file is written.
TwoColumns ==
  {<<Column("UNSIGNED_INT", "UINT64_LEB128", 0, 1),
     Column("UNSIGNED_INT", "UINT64_LEB128", 0, 1)>>}

\* A boolean column in the encoding that README.md names for it.
PackedBoolean == {<<Column("BOOLEAN", "UINT32_BITPACKED", 0, 0)>>}
=============================================================================
