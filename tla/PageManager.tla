---------------------------- MODULE PageManager ----------------------------
(***************************************************************************)
(* The v0.2.0 table file: cstable::PageManager on top of stx::File, and    *)
(* the two metablocks of the file header.                                  *)
(*                                                                         *)
(* The unit of the address space is one 8-byte word, the size of the       *)
(* values the page writers store.  A file is kept twice: what the kernel   *)
(* holds (cache, which every reader on the machine sees) and what survives *)
(* a power loss (disk).  pwrite changes the first, fsync copies the first  *)
(* to the second, and the kernel may write back any sector earlier; a      *)
(* sector is written atomically (the assumption of cstable.h:27-28).       *)
(***************************************************************************)
EXTENDS Integers, Sequences

CONSTANTS
  kSectorSize,      \* words of one 512-byte sector
  HeaderSize,       \* words of the padded file header
  Capacity,         \* bound: words the device can hold
  NoHeader,         \* the file has no header (not created, or lost)
  NoMetaBlock,      \* a slot whose checksum does not match
  NoIndex,          \* no readable index page starts at this address
  NoPage            \* None<PageRef>

ASSUME SizesAssumption ==
  /\ kSectorSize \in Nat \ {0}
  /\ HeaderSize \in Nat \ {0}
  /\ HeaderSize % kSectorSize = 0
  /\ Capacity \in Nat

VARIABLES
  offset_,          \* PageManager::offset_: end of the allocated space
  cache, disk,      \* words of the data pages
  idxCache, idxDisk,\* the index page that starts at an address
  hdr, hdrDisk      \* metablock slots 0 and 1

fileVars == <<cache, disk, idxCache, idxDisk, hdr, hdrDisk>>

Addr == 0 .. (Capacity - 1)
Slots == 0 .. 1

PageRef == [offset : Nat, size : Nat]

\* The index is abstracted to the value that PageIndex::write serialises.
MetaBlock == [transaction_id : Nat, num_rows : Nat, head : PageRef,
              file_size : Nat]

Header == [Slots -> MetaBlock \cup {NoMetaBlock}]

\* The markers are no values of the types they stand beside.
ASSUME MarkersAssumption ==
  /\ NoPage \notin PageRef
  /\ NoMetaBlock \notin MetaBlock
  /\ NoHeader \notin Header

\* Words of a page.
Words(p) == p.offset .. (p.offset + p.size - 1)

----------------------------------------------------------------------------
(* Layout. *)

padToNextSector(val) ==
  ((val + (kSectorSize - 1)) \div kSectorSize) * kSectorSize

\* allocPage returns the page at offset_ ...
allocPage(size) == [offset |-> offset_, size |-> padToNextSector(size)]

\* A mutant of newOffset: the space is handed out a second time.
newOffset_noAdvance(p) == offset_

\* ... and moves offset_ to the end of the page.
newOffset(p) == offset_ + p.size

getOffset == offset_

Fits(p) == p.offset + p.size <= Capacity

----------------------------------------------------------------------------
(* Writing. *)

\* writePage pads the buffer with zeros up to the page size; a longer buffer
\* is cut at the page size, because pwrite is given page_size bytes.
PageWord(buf, i) == IF i <= Len(buf) THEN buf[i] ELSE 0

\* The file after the first n words of writePage(p, buf) reached the kernel.
Written(f, p, buf, n) ==
  [a \in Addr |-> IF a \in p.offset .. (p.offset + n - 1)
                  THEN PageWord(buf, a - p.offset + 1)
                  ELSE f[a]]

writePage(p, buf) ==
  /\ Fits(p)
  /\ cache' = Written(cache, p, buf, p.size)

\* pwrite writes less than it was asked for, or nothing: it raises.
writePageRaises(p, buf) ==
  \E n \in 0 .. (p.size - 1) : cache' = Written(cache, p, buf, n)

\* A mutant of fsync: the data pages are not flushed.
fsync_noData ==
  /\ hdrDisk' = hdr
  /\ idxDisk' = idxCache
  /\ UNCHANGED disk

\* A mutant of fsync: the header is not flushed.
fsync_noHeader ==
  /\ disk' = cache
  /\ idxDisk' = idxCache
  /\ UNCHANGED hdrDisk

fsync ==
  /\ disk' = cache
  /\ idxDisk' = idxCache
  /\ hdrDisk' = hdr

\* The slot that writeTransaction overwrites.
mb_index(mb) == mb.transaction_id % 2

\* writeTransaction, between its two fsyncs.
writeMetaBlock(mb) == hdr' = [hdr EXCEPT ![mb_index(mb)] = mb]

----------------------------------------------------------------------------
(* Reading. *)

\* readHeader returns the valid metablock with the larger transaction id, and
\* raises (NoMetaBlock) when neither checksum matches.
readHeader(h) ==
  IF h[0] = NoMetaBlock THEN h[1]
  ELSE IF h[1] = NoMetaBlock \/ h[0].transaction_id > h[1].transaction_id
       THEN h[0] ELSE h[1]

\* What opening a file with header h yields.
openHeader(h) == IF h = NoHeader THEN NoMetaBlock ELSE readHeader(h)

----------------------------------------------------------------------------
(* The kernel and the device. *)

Sector(a) == {b \in Addr : b \div kSectorSize = a \div kSectorSize}

WriteBackSector(a) ==
  /\ disk' = [b \in Addr |-> IF b \in Sector(a) THEN cache[b] ELSE disk[b]]
  /\ UNCHANGED <<idxDisk, hdrDisk>>

\* An index page spans many sectors; until the last one is on disk the page
\* cannot be read, and index pages are never rewritten.
WriteBackIndex(a) ==
  /\ idxDisk' = [idxDisk EXCEPT ![a] = idxCache[a]]
  /\ UNCHANGED <<disk, hdrDisk>>

WriteBackHeader ==
  /\ hdrDisk' = hdr
  /\ UNCHANGED <<disk, idxDisk>>

WriteBack ==
  /\ \/ \E a \in Addr : cache[a] # disk[a] /\ WriteBackSector(a)
     \/ \E a \in Addr : idxCache[a] # idxDisk[a] /\ WriteBackIndex(a)
     \/ hdr # hdrDisk /\ WriteBackHeader
  /\ UNCHANGED <<cache, idxCache, hdr, offset_>>

LoseCache ==
  /\ cache' = disk
  /\ idxCache' = idxDisk
  /\ hdr' = hdrDisk
  /\ UNCHANGED <<disk, idxDisk, hdrDisk, offset_>>

FileInit ==
  /\ offset_ = 0
  /\ cache = [a \in Addr |-> 0]
  /\ disk = cache
  /\ idxCache = [a \in Addr |-> NoIndex]
  /\ idxDisk = idxCache
  /\ hdr = NoHeader
  /\ hdrDisk = NoHeader
=============================================================================
