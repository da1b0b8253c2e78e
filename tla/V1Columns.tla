----------------------------- MODULE V1Columns -----------------------------
(***************************************************************************)
(* The columns of a v0.1.0 table: the bit packed level streams             *)
(* (stx::util::BitPackEncoder and BitPackDecoder), the v1 column writers,  *)
(* the body a column is serialised to, and the v1 column readers, which    *)
(* decode the body in place.                                               *)
(*                                                                         *)
(* The unit of the address space is a word: a length, a fixed-width value, *)
(* a byte of a variable-length integer, a character, or a packed block of  *)
(* BlockSize values.  A string is represented by its length n: it is the   *)
(* string of n times the character n.                                      *)
(***************************************************************************)
EXTENDS ColumnTypes, Sequences, FiniteSetsExt

CONSTANTS
  BlockSize,        \* values of a packed block (128)
  Group,            \* 2^7: the values of one byte of a LEB128 integer
  Garbage           \* a word that nobody has written

ASSUME CodecAssumption ==
  /\ BlockSize \in Nat \ {0}
  /\ Group \in Nat \ {0, 1}
  /\ Garbage \notin Nat \cup [1 .. BlockSize -> Nat]

----------------------------------------------------------------------------
(* BitPackEncoder. *)

\* maxbits_ is 0 for a stream whose maximum is 0.
BitPackEncoder(max_val) == [maxbits_ |-> max_val, inbuf_ |-> <<>>, buf_ |-> <<>>]

\* A mutant of flush: a full block is flushed only when commit pads it.
flush_always(e) ==
  [e EXCEPT !.buf_ = Append(@, [i \in 1 .. BlockSize |->
                       IF i <= Len(e.inbuf_) THEN e.inbuf_[i] ELSE 0]),
            !.inbuf_ = <<>>]

\* An empty buffer is not flushed; a partial one is padded with zeros.
flush(e) ==
  IF e.inbuf_ = <<>> THEN e
  ELSE [e EXCEPT !.buf_ = Append(@, [i \in 1 .. BlockSize |->
                            IF i <= Len(e.inbuf_) THEN e.inbuf_[i] ELSE 0]),
                 !.inbuf_ = <<>>]

encode(e, value) ==
  IF e.maxbits_ = 0 THEN e
  ELSE LET f == [e EXCEPT !.inbuf_ = Append(@, value)]
       IN  IF Len(f.inbuf_) = BlockSize THEN flush(f) ELSE f

----------------------------------------------------------------------------
(* BitPackDecoder: it reads the words base .. base + size_ - 1 of file f. *)

BitPackDecoder(base, size, max_val) ==
  [base |-> base, size_ |-> size, maxbits_ |-> max_val, pos_ |-> 0,
   outbuf_ |-> <<>>, outbuf_pos_ |-> BlockSize]

\* fetch at the end of the data: next raises, peek returns 0.
AtEnd(dec) ==
  /\ dec.maxbits_ # 0
  /\ dec.outbuf_pos_ = BlockSize
  /\ dec.pos_ >= dec.size_

\* A mutant of unpacked: the block is decoded again after a peek.
unpacked_twice(f, dec) ==
  IF dec.outbuf_pos_ \in {0, BlockSize} /\ dec.pos_ < dec.size_
  THEN [dec EXCEPT !.outbuf_ = f[dec.base + dec.pos_], !.pos_ = @ + 1,
                   !.outbuf_pos_ = 0]
  ELSE dec

\* fetch decodes the next block when the last one is used up.
unpacked(f, dec) ==
  IF dec.outbuf_pos_ = BlockSize
  THEN [dec EXCEPT !.outbuf_ = f[dec.base + dec.pos_], !.pos_ = @ + 1,
                   !.outbuf_pos_ = 0]
  ELSE dec

\* The value that next and peek return, and the decoder they leave behind.
value(f, dec) ==
  IF dec.maxbits_ = 0 \/ AtEnd(dec) THEN 0
  ELSE LET u == unpacked(f, dec)
       IN  IF u.outbuf_ = Garbage THEN Garbage ELSE u.outbuf_[u.outbuf_pos_ + 1]
afterNext(f, dec) ==
  IF dec.maxbits_ = 0 THEN dec
  ELSE LET u == unpacked(f, dec) IN [u EXCEPT !.outbuf_pos_ = @ + 1]
afterPeek(f, dec) ==
  IF dec.maxbits_ = 0 \/ AtEnd(dec) THEN dec ELSE unpacked(f, dec)

----------------------------------------------------------------------------
(* v1::ColumnWriter and its subclasses. *)

\* A packed column keeps its values in an encoder, the others in a buffer.
\* Integers are packed with 32 bits, booleans with one.
ColumnWriter(c) ==
  [rlvl_writer_ |-> BitPackEncoder(c.rlevel_max),
   dlvl_writer_ |-> BitPackEncoder(c.dlevel_max),
   data_writer_ |-> IF IsPacked(c) THEN BitPackEncoder(1) ELSE <<>>,
   num_vals_ |-> 0]

\* The low bits first; all bytes but the last carry the continuation bit.
appendVarUInt(v) ==
  LET leb[n \in 0 .. v] ==
        IF n < Group THEN <<n>>
        ELSE <<(n % Group) + Group>> \o leb[n \div Group]
  IN  leb[v]

\* The words that a column appends for one value.
words(c, v) ==
  CASE c.storage_type = "UINT64_LEB128" -> appendVarUInt(v)
    [] c.storage_type = "STRING_PLAIN" -> <<v>> \o [i \in 1 .. v |-> v]
    [] OTHER -> <<stored(c, v)>>

writeNull(w, rlvl, dlvl) ==
  [w EXCEPT !.rlvl_writer_ = encode(@, rlvl),
            !.dlvl_writer_ = encode(@, dlvl),
            !.num_vals_ = @ + 1]

\* A mutant of addDatum: the value is appended although it is not defined.
addDatum_noDlvl(c, w, rlvl, dlvl, v) ==
  [w EXCEPT !.rlvl_writer_ = encode(@, rlvl),
            !.data_writer_ = IF IsPacked(c) THEN encode(@, stored(c, v))
                                            ELSE @ \o words(c, v),
            !.num_vals_ = @ + 1]

addDatum(c, w, rlvl, dlvl, v) ==
  [w EXCEPT !.rlvl_writer_ = encode(@, rlvl),
            !.dlvl_writer_ = encode(@, dlvl),
            !.data_writer_ = IF IsPacked(c) THEN encode(@, stored(c, v))
                                            ELSE @ \o words(c, v),
            !.num_vals_ = @ + 1]

\* commit pads the level streams and, in a packed column, the values.
commitColumn(c, w) ==
  [w EXCEPT !.rlvl_writer_ = flush(@),
            !.dlvl_writer_ = flush(@),
            !.data_writer_ = IF IsPacked(c) THEN flush(@) ELSE @]

\* The words that the column's own write appends: a bit packed integer column
\* starts with its maximum.
dataWords(c, w) ==
  (IF c.storage_type = "UINT32_BITPACKED" THEN <<Max32 - 1>> ELSE <<>>)
  \o (IF IsPacked(c) THEN w.data_writer_.buf_ ELSE w.data_writer_)

\* The size it announces: the plain fixed-width columns announce one word
\* more than they write.
slack(c) ==
  IF c.storage_type \in {"UINT32_PLAIN", "UINT64_PLAIN", "FLOAT_IEEE754"}
  THEN 1 ELSE 0
dataSize(c, w) == Len(dataWords(c, w)) + slack(c)

\* The four length fields of a body.
Preamble == 4

bodySize(c, w) ==
  Preamble + Len(w.rlvl_writer_.buf_) + Len(w.dlvl_writer_.buf_)
    + dataSize(c, w)

\* ColumnWriter::write(void*, size_t): the words of the body.
writeBody(c, w) ==
  <<w.num_vals_, Len(w.rlvl_writer_.buf_), Len(w.dlvl_writer_.buf_),
    dataSize(c, w)>>
  \o w.rlvl_writer_.buf_ \o w.dlvl_writer_.buf_ \o dataWords(c, w)

----------------------------------------------------------------------------
(* v1::ColumnReader and its subclasses. *)

\* The constructor reads the length fields of the body at word o of file f.
ColumnReader(c, f, o) ==
  LET rlvls == o + Preamble
      dlvls == rlvls + f[o + 1]
      data  == dlvls + f[o + 2]
      skip  == IF c.storage_type = "UINT32_BITPACKED" THEN 1 ELSE 0
  IN  [vals_total_ |-> f[o], vals_read_ |-> 0,
       rlvl_reader_ |-> BitPackDecoder(rlvls, f[o + 1], c.rlevel_max),
       dlvl_reader_ |-> BitPackDecoder(dlvls, f[o + 2], c.dlevel_max),
       data_reader_ |-> BitPackDecoder(data + skip, f[o + 3] - skip, 1)]

\* A mutant of eofReached: an off-by-one.
eofReached_late(cr) == cr.vals_read_ > cr.vals_total_

eofReached(cr) == cr.vals_read_ >= cr.vals_total_

\* A plain column keeps only a position in its data.  readVarUInt reads up to
\* the first byte without a continuation bit, readString a length and then
\* that many characters; Left + 1 words are asked for when they are not there.
Left(dec) == dec.size_ - dec.pos_
readLength(c, f, dec) ==
  LET o == dec.base + dec.pos_
      ends == {k \in 1 .. Left(dec) : f[o + k - 1] < Group}
  IN  CASE c.storage_type = "UINT64_LEB128" ->
             IF ends = {} THEN Left(dec) + 1
             ELSE Min(ends)
        [] c.storage_type = "STRING_PLAIN" /\ Left(dec) > 0 -> 1 + f[o]
        [] OTHER -> 1

\* Byte k weighs Group ^ (k - 1): val[k] is the value of the last k bytes.
readVarUInt(f, o, n) ==
  LET end == o + n
      val[k \in 0 .. n] ==
        IF k = 0 THEN 0
        ELSE (f[end - k] % Group) + Group * val[k - 1]
  IN  val[n]

plainValue(c, f, dec) ==
  LET o == dec.base + dec.pos_
      n == readLength(c, f, dec)
  IN  CASE c.storage_type = "UINT64_LEB128" -> readVarUInt(f, o, n)
        [] c.storage_type = "STRING_PLAIN" ->
             IF (\A k \in 1 .. (n - 1) : f[o + k] = f[o]) THEN f[o] ELSE Garbage
        [] OTHER -> f[o]

\* The next value is there: the definition level is the maximum.
defined(c, f, cr) == value(f, cr.dlvl_reader_) = c.dlevel_max

\* A read that would leave its buffer raises.
readRaises(c, f, cr) ==
  \/ AtEnd(cr.rlvl_reader_)
  \/ AtEnd(cr.dlvl_reader_)
  \/ /\ defined(c, f, cr)
     /\ IF IsPacked(c) THEN AtEnd(cr.data_reader_)
        ELSE readLength(c, f, cr.data_reader_) > Left(cr.data_reader_)

\* The levels and the value as the column keeps it.
readEntry(c, f, cr) ==
  [rlvl |-> value(f, cr.rlvl_reader_),
   dlvl |-> value(f, cr.dlvl_reader_),
   val  |-> IF ~ defined(c, f, cr) THEN 0
            ELSE IF IsPacked(c) THEN value(f, cr.data_reader_)
            ELSE plainValue(c, f, cr.data_reader_)]

\* The position moves on by n words.
advanced(dec, n) == [dec EXCEPT !.pos_ = @ + n]

afterRead(c, f, cr) ==
  [cr EXCEPT
     !.rlvl_reader_ = afterNext(f, @),
     !.dlvl_reader_ = afterNext(f, @),
     !.vals_read_ = @ + 1,
     !.data_reader_ =
        IF ~ defined(c, f, cr) THEN @
        ELSE IF IsPacked(c) THEN afterNext(f, @)
        ELSE advanced(@, readLength(c, f, @))]

\* A mutant of copyValue: a null is passed over.
copyValue_noNull(c, f, cr, t, w) ==
  LET e == readEntry(c, f, cr)
  IN  IF defined(c, f, cr)
      THEN addDatum(t, w, e.rlvl, e.dlvl,
                    datum(readerType(c), readAs(c, readerType(c), e.val)))
      ELSE w

\* copyValue into the writer w of a column t: every reader class reads and
\* writes by its own type.
copyValue(c, f, cr, t, w) ==
  LET e == readEntry(c, f, cr)
  IN  IF defined(c, f, cr)
      THEN addDatum(t, w, e.rlvl, e.dlvl,
                    datum(readerType(c), readAs(c, readerType(c), e.val)))
      ELSE writeNull(w, e.rlvl, e.dlvl)

nextRepetitionLevel(f, cr) == value(f, cr.rlvl_reader_)
afterNextRepetitionLevel(f, cr) ==
  [cr EXCEPT !.rlvl_reader_ = afterPeek(f, @)]
=============================================================================
