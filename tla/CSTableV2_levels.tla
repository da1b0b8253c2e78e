-------------------------- MODULE CSTableV2_levels --------------------------
(***************************************************************************)
(* A column of a v0.2.0 table never holds more values than definition      *)
(* levels that announce one, also after a column write that raised half    *)
(* way.                                                                    *)
(*                                                                         *)
(* The argument: the appendValue call for a value is the last one of its   *)
(* column write and follows the one for its definition level (LevelAhead), *)
(* so that dropping the rest of the calls can only drop the value.         *)
(***************************************************************************)
EXTENDS CSTableV2_proofs, FiniteSetTheorems

----------------------------------------------------------------------------
(* Counting the full definition levels. *)

\* The positions of a value in a sequence.
Positions(s, x) == {j \in DOMAIN s : s[j] = x}

\* Positions can be counted.
LEMMA PositionsFinite ==
  ASSUME NEW s \in Seq(Nat), NEW x
  PROVE  IsFiniteSet(Positions(s, x)) /\ Cardinality(Positions(s, x)) \in Nat
<1>1. Positions(s, x) \in SUBSET (1 .. Len(s)) /\ Len(s) \in Nat
  BY LenProperties DEF Positions
<1>2. IsFiniteSet(1 .. Len(s))
  BY <1>1, FS_Interval
<1>3. IsFiniteSet(Positions(s, x))
  BY <1>1, <1>2, FS_Subset
<1> QED
  BY <1>3, FS_CardinalityType

\* Appending never lowers the count, and appending x raises it by one.
LEMMA PositionsGrow ==
  ASSUME NEW s \in Seq(Nat), NEW x, NEW v \in Nat
  PROVE  Cardinality(Positions(Append(s, v), x))
           = IF v = x THEN Cardinality(Positions(s, x)) + 1
                      ELSE Cardinality(Positions(s, x))
<1>1. /\ Len(s) \in Nat /\ DOMAIN Append(s, v) = 1 .. (Len(s) + 1)
      /\ DOMAIN s = 1 .. Len(s)
      /\ \A j \in 1 .. Len(s) : Append(s, v)[j] = s[j]
      /\ Append(s, v)[Len(s) + 1] = v
  BY AppendProperties, LenProperties
<1>2. CASE v = x
  <2>1. Positions(Append(s, v), x) = Positions(s, x) \cup {Len(s) + 1}
    BY <1>1, <1>2 DEF Positions
  <2>2. Len(s) + 1 \notin Positions(s, x)
    BY <1>1 DEF Positions
  <2> QED
    BY <1>2, <2>1, <2>2, PositionsFinite, FS_AddElement
<1>3. CASE v # x
  <2>1. Positions(Append(s, v), x) = Positions(s, x)
    BY <1>1, <1>3 DEF Positions
  <2> QED
    BY <1>3, <2>1
<1> QED
  BY <1>2, <1>3

\* The full definition levels, as positions of a buffer.
LEMMA FullLevelsArePositions ==
  \A i : FullLevels(i)
           = Positions(page_buf_[<<i, "DLEVEL">>], columns_[i].dlevel_max)
BY DEF FullLevels, Positions

----------------------------------------------------------------------------
(* The steps. *)

\* A writer with empty buffers has no values and no levels.
LEMMA EmptyBuffers ==
  ASSUME todo' = <<>>, \A w \in Streams : page_buf_'[w] = <<>>,
         NEW i \in 1 .. MaxColumns
  PROVE  LevelAhead(i)'
<1>1. <<i, "DATA">> \in Streams /\ <<i, "DLEVEL">> \in Streams
  BY DEF Streams, EntryType
<1>2. page_buf_'[<<i, "DATA">>] = <<>> /\ page_buf_'[<<i, "DLEVEL">>] = <<>>
  BY <1>1
<1>3. FullLevels(i)' = {}
  BY <1>2 DEF FullLevels
<1>4. Cardinality(FullLevels(i)') = 0
  BY <1>3, FS_EmptySet
<1> QED
  BY <1>2, <1>4 DEF LevelAhead

\* The calls that levels schedules: none for a value, and the definition level
\* last when the column has one.
LEMMA LevelsShape ==
  ASSUME NEW i \in 1 .. MaxColumns, NEW c \in ColumnConfig,
         NEW rlvl \in Nat, NEW dlvl \in Nat
  PROVE  LET s == levels(i, c, rlvl, dlvl)
         IN  /\ s \in Seq([key : Streams, value : Nat])
             /\ \A k \in DOMAIN s : s[k].key[2] # "DATA"
             /\ c.dlevel_max > 0 =>
                  /\ Len(s) > 0
                  /\ s[Len(s)] = [key |-> <<i, "DLEVEL">>, value |-> dlvl]
<1> DEFINE S == [key : Streams, value : Nat]
           s == levels(i, c, rlvl, dlvl)
           r == [key |-> <<i, "RLEVEL">>, value |-> rlvl]
           d == [key |-> <<i, "DLEVEL">>, value |-> dlvl]
           R == IF c.rlevel_max > 0 THEN <<r>> ELSE <<>>
           D == IF c.dlevel_max > 0 THEN <<d>> ELSE <<>>
<1>1. s \in Seq(S)
  BY LevelsType
<1>2. r.key[2] # "DATA" /\ d.key[2] # "DATA"
  OBVIOUS
<1>3. /\ s = R \o D
      /\ r \in S /\ d \in S
  BY DEF levels, Streams, EntryType
<1> HIDE DEF r, d, s, S
<1>5. R \in Seq(S) /\ D \in Seq(S)
  BY <1>3
<1>6. /\ Len(R) \in Nat /\ \A k \in 1 .. Len(R) : R[k] = r
      /\ Len(D) \in Nat /\ \A k \in 1 .. Len(D) : D[k] = d
      /\ c.dlevel_max > 0 => Len(D) = 1
  <2>1. R = <<r>> \/ R = <<>>
    OBVIOUS
  <2>2. D = <<d>> \/ D = <<>>
    OBVIOUS
  <2>3. c.dlevel_max > 0 => D = <<d>>
    OBVIOUS
  <2> HIDE DEF R, D
  <2> QED
    BY <2>1, <2>2, <2>3
<1> HIDE DEF R, D
<1>7. /\ DOMAIN s = 1 .. (Len(R) + Len(D)) /\ Len(s) = Len(R) + Len(D)
      /\ \A k \in 1 .. (Len(R) + Len(D)) :
           s[k] = IF k <= Len(R) THEN R[k] ELSE D[k - Len(R)]
  BY <1>1, <1>3, <1>5, ConcatProperties, LenProperties
<1>8. \A k \in DOMAIN s : s[k] = r \/ s[k] = d
  BY <1>6, <1>7
<1>9. ASSUME c.dlevel_max > 0
      PROVE  Len(s) > 0 /\ s[Len(s)] = d
  <2>1. Len(D) = 1 /\ D[1] = d /\ Len(s) = Len(R) + 1
    BY <1>6, <1>7, <1>9
  <2>2. s[Len(R) + 1] = D[(Len(R) + 1) - Len(R)]
    BY <1>6, <1>7, <2>1
  <2> QED
    BY <1>6, <2>1, <2>2
<1> QED
  BY <1>1, <1>2, <1>8, <1>9 DEF s, d, S

\* A write of a column puts the levels of its value on the list first.
LEMMA LevelsWriteColumn ==
  ASSUME TypeInv, LevelsInv, WriteColumn, NEW n \in 1 .. opened
  PROVE  LevelAhead(n)'
<1> USE DEF TypeInv
<1>1. /\ UNCHANGED <<page_buf_, columns_, opened>>
      /\ LevelAhead(n)
  BY DEF WriteColumn, LevelsInv, writerVars
<1>2. PICK i \in 1 .. opened : \E rlvl \in 0 .. columns_[i].rlevel_max :
        \/ \E v \in Values :
             writeUnsignedInt(i, columns_[i], rlvl, columns_[i].dlevel_max, v)
        \/ \E dlvl \in 0 .. (columns_[i].dlevel_max - 1) :
             writeNull(i, columns_[i], rlvl, dlvl)
  BY DEF WriteColumn
<1>3. PICK rlvl \in 0 .. columns_[i].rlevel_max :
        \/ \E v \in Values :
             writeUnsignedInt(i, columns_[i], rlvl, columns_[i].dlevel_max, v)
        \/ \E dlvl \in 0 .. (columns_[i].dlevel_max - 1) :
             writeNull(i, columns_[i], rlvl, dlvl)
  BY <1>2
<1>4. i \in 1 .. Len(columns_) /\ i \in 1 .. MaxColumns
  BY <1>2, LenProperties, WritersAssumption DEF TypeOK
<1>5. columns_[i] \in ColumnConfig
  BY <1>4 DEF TypeOK
<1>6. rlvl \in Nat /\ columns_[i].dlevel_max \in Nat
  BY <1>5 DEF ColumnConfig
<1>7. SUFFICES ASSUME columns_[n].dlevel_max > 0,
                      NEW k \in DOMAIN todo', todo'[k].key = <<n, "DATA">>
               PROVE  /\ k = Len(todo') /\ k # 1
                      /\ todo'[k - 1] = [key |-> <<n, "DLEVEL">>,
                                         value |-> columns_[n].dlevel_max]
  BY <1>1 DEF LevelAhead, FullLevels
<1>8. CASE \E dlvl \in 0 .. (columns_[i].dlevel_max - 1) :
             writeNull(i, columns_[i], rlvl, dlvl)
  <2>1. PICK dlvl \in Nat : todo' = levels(i, columns_[i], rlvl, dlvl)
    BY <1>6, <1>8 DEF writeNull
  <2>2. todo'[k].key[2] # "DATA"
    BY <1>4, <1>5, <1>6, <1>7, <2>1, LevelsShape
  <2> QED
    BY <1>7, <2>2
<1>9. CASE \E v \in Values :
             writeUnsignedInt(i, columns_[i], rlvl, columns_[i].dlevel_max, v)
  <2>1. PICK v \in Values :
          todo' = levels(i, columns_[i], rlvl, columns_[i].dlevel_max)
                    \o <<[key |-> <<i, "DATA">>, value |-> v]>>
    BY <1>9 DEF writeUnsignedInt
  <2> DEFINE s == levels(i, columns_[i], rlvl, columns_[i].dlevel_max)
             x == [key |-> <<i, "DATA">>, value |-> v]
             S == [key : Streams, value : Nat]
  <2>2. /\ s \in Seq(S)
        /\ \A j \in DOMAIN s : s[j].key[2] # "DATA"
        /\ columns_[i].dlevel_max > 0 =>
             /\ Len(s) > 0
             /\ s[Len(s)] = [key |-> <<i, "DLEVEL">>,
                             value |-> columns_[i].dlevel_max]
    BY <1>4, <1>5, <1>6, LevelsShape
  <2>3. x \in S /\ x.key = <<i, "DATA">>
    BY <1>4, <2>1, TableAssumption DEF Streams, EntryType
  <2> HIDE DEF s, x, S
  <2>4. <<x>> \in Seq(S) /\ Len(<<x>>) = 1 /\ <<x>>[1] = x
    BY <2>3
  <2>5. /\ Len(s) \in Nat /\ DOMAIN s = 1 .. Len(s)
        /\ DOMAIN todo' = 1 .. (Len(s) + 1) /\ Len(todo') = Len(s) + 1
        /\ \A j \in 1 .. (Len(s) + 1) :
             todo'[j] = IF j <= Len(s) THEN s[j] ELSE <<x>>[j - Len(s)]
    BY <2>1, <2>2, <2>4, ConcatProperties, LenProperties DEF s, x
  <2>6. k = Len(s) + 1
    <3>1. todo'[k].key[2] = "DATA"
      BY <1>7
    <3> QED
      BY <1>7, <2>2, <2>5, <3>1
  <2>7. todo'[k] = <<x>>[k - Len(s)] /\ k - Len(s) = 1
    BY <2>5, <2>6
  <2>8. i = n
    BY <1>7, <2>3, <2>4, <2>7
  <2> QED
    BY <1>7, <2>2, <2>5, <2>6, <2>8
<1> QED
  BY <1>3, <1>8, <1>9

\* What the rest of a column write still holds of the calls.
LEMMA TailOfTodo ==
  ASSUME TypeOK, todo # <<>>, NEW k \in DOMAIN Tail(todo)
  PROVE  /\ k + 1 \in DOMAIN todo /\ Tail(todo)[k] = todo[k + 1]
         /\ Len(Tail(todo)) = Len(todo) - 1 /\ Len(todo) \in Nat
         /\ k \in Nat /\ k >= 1 /\ k \in DOMAIN todo
<1>1. todo \in Seq([key : Streams, value : Nat])
  BY DEF TypeOK
<1>2. /\ Len(todo) \in Nat /\ Tail(todo) \in Seq([key : Streams, value : Nat])
      /\ Len(Tail(todo)) = Len(todo) - 1
      /\ \A j \in 1 .. Len(Tail(todo)) : Tail(todo)[j] = todo[j + 1]
  BY <1>1, HeadTailProperties, LenProperties
<1>3. DOMAIN Tail(todo) = 1 .. (Len(todo) - 1) /\ DOMAIN todo = 1 .. Len(todo)
  BY <1>1, <1>2, LenProperties
<1> QED
  BY <1>2, <1>3

\* appendValue adds one value to one buffer.
LEMMA AppendedBuffer ==
  ASSUME TypeOK, AppendValue
  PROVE  /\ todo # <<>> /\ todo' = Tail(todo)
         /\ todo[1] \in [key : Streams, value : Nat]
         /\ page_buf_' = [page_buf_ EXCEPT ![todo[1].key]
                                        = Append(@, todo[1].value)]
         /\ UNCHANGED <<columns_, opened>>
<1>1. todo \in Seq([key : Streams, value : Nat]) /\ todo # <<>>
  BY DEF AppendValue, TypeOK
<1>2. Head(todo) \in [key : Streams, value : Nat]
  BY <1>1, HeadTailProperties
<1>3. Head(todo) = todo[1]
  BY <1>1
<1> QED
  BY <1>1, <1>2, <1>3 DEF AppendValue, appendValue, AppendToPage,
     AppendToFirstPage, AppendToNextPage, writerVars

\* What is appended next comes off the list.
LEMMA LevelsAppendValue ==
  ASSUME TypeInv, LevelsInv, AppendValue, NEW n \in 1 .. opened
  PROVE  LevelAhead(n)'
<1> USE DEF TypeInv
<1> DEFINE data == <<n, "DATA">>
           dlev == <<n, "DLEVEL">>
           w == todo[1].key
           v == todo[1].value
           max == columns_[n].dlevel_max
           full == Cardinality(Positions(page_buf_[dlev], max))
           full2 == Cardinality(Positions(page_buf_'[dlev], max))
<1>1. /\ todo # <<>> /\ todo' = Tail(todo) /\ w \in Streams /\ v \in Nat
      /\ page_buf_' = [page_buf_ EXCEPT ![w] = Append(@, v)]
      /\ UNCHANGED <<columns_, opened>>
  BY AppendedBuffer
<1>2. n \in 1 .. MaxColumns
  BY LenProperties, WritersAssumption DEF TypeOK
<1>3. data \in Streams /\ dlev \in Streams /\ data # dlev
  BY <1>2 DEF Streams, EntryType
<1>4. page_buf_[data] \in Seq(Nat) /\ page_buf_[dlev] \in Seq(Nat)
  BY <1>3 DEF TypeOK
<1>5. Len(page_buf_[data]) \in Nat /\ full \in Nat
  BY <1>4, PositionsFinite, LenProperties
<1>6. SUFFICES ASSUME max > 0
               PROVE  /\ Len(page_buf_'[data]) <= full2
                      /\ \A k \in DOMAIN todo' : todo'[k].key = data =>
                           /\ k = Len(todo')
                           /\ IF k = 1 THEN Len(page_buf_'[data]) < full2
                              ELSE todo'[k - 1] = [key |-> dlev, value |-> max]
  BY <1>1 DEF LevelAhead, FullLevels, Positions
<1>7. /\ Len(page_buf_[data]) <= full
      /\ \A k \in DOMAIN todo : todo[k].key = data =>
           /\ k = Len(todo)
           /\ IF k = 1 THEN Len(page_buf_[data]) < full
              ELSE todo[k - 1] = [key |-> dlev, value |-> max]
  BY <1>6, FullLevelsArePositions DEF LevelsInv, LevelAhead
<1>8. todo \in Seq([key : Streams, value : Nat]) /\ 1 \in DOMAIN todo
  BY <1>1 DEF TypeOK
<1> HIDE DEF w, v, full, full2, max
<1>9. CASE w = data
  <2>1. Len(todo) = 1 /\ Len(page_buf_[data]) < full
    BY <1>7, <1>8, <1>9 DEF w
  <2>2. DOMAIN todo' = {}
    BY <1>1, <1>8, <2>1, SMTT(60)
  <2>3. /\ page_buf_'[dlev] = page_buf_[dlev]
        /\ page_buf_'[data] = Append(page_buf_[data], v)
    BY <1>1, <1>3, <1>9 DEF TypeOK
  <2>4. Len(page_buf_'[data]) = Len(page_buf_[data]) + 1 /\ full2 = full
    BY <1>1, <1>4, <2>3, AppendProperties DEF full, full2
  <2> QED
    BY <1>5, <2>1, <2>2, <2>4
<1>10. CASE w # data
  <2>1. page_buf_'[data] = page_buf_[data]
    BY <1>1, <1>3, <1>10 DEF TypeOK
  <2>2. /\ full2 \in Nat /\ full2 >= full
        /\ w = dlev /\ v = max => full2 = full + 1
    <3>1. CASE w = dlev
      <4>1. page_buf_'[dlev] = Append(page_buf_[dlev], v)
        BY <1>1, <1>3, <3>1 DEF TypeOK
      <4>2. full2 = IF v = max THEN full + 1 ELSE full
        <5>1. PICK s \in Seq(Nat) : s = page_buf_[dlev]
          BY <1>4
        <5>2. Cardinality(Positions(Append(s, v), max))
                = IF v = max THEN Cardinality(Positions(s, max)) + 1
                             ELSE Cardinality(Positions(s, max))
          BY <1>1, PositionsGrow
        <5> QED
          BY <4>1, <5>1, <5>2 DEF full, full2
      <4> QED
        BY <1>5, <4>2
    <3>2. CASE w # dlev
      <4>1. page_buf_'[dlev] = page_buf_[dlev]
        BY <1>1, <1>3, <3>2 DEF TypeOK
      <4> QED
        BY <1>5, <3>2, <4>1 DEF full, full2
    <3> QED
      BY <3>1, <3>2
  <2>3. Len(page_buf_'[data]) <= full2
    BY <1>5, <1>7, <2>1, <2>2
  <2>4. ASSUME NEW k \in DOMAIN todo', todo'[k].key = data
        PROVE  /\ k = Len(todo')
               /\ IF k = 1 THEN Len(page_buf_'[data]) < full2
                  ELSE todo'[k - 1] = [key |-> dlev, value |-> max]
    <3>1. /\ k + 1 \in DOMAIN todo /\ todo'[k] = todo[k + 1]
          /\ Len(todo') = Len(todo) - 1 /\ Len(todo) \in Nat
          /\ k \in Nat /\ k >= 1
      BY <1>1, <2>4, TailOfTodo
    <3>2. k + 1 = Len(todo) /\ todo[k] = [key |-> dlev, value |-> max]
      <4>1. k + 1 # 1 /\ (k + 1) - 1 = k
        BY <3>1
      <4> QED
        BY <1>7, <2>4, <3>1, <4>1
    <3>3. k = Len(todo')
      BY <3>1, <3>2
    <3>4. CASE k = 1
      <4>1. w = dlev /\ v = max
        BY <3>2, <3>4 DEF w, v
      <4> QED
        BY <1>5, <1>7, <2>1, <2>2, <3>3, <3>4, <4>1
    <3>5. CASE k # 1
      <4>1. k - 1 \in DOMAIN todo' /\ (k - 1) + 1 = k
        BY <1>1, <1>8, <2>4, <3>1, <3>5, HeadTailProperties
      <4>2. todo'[k - 1] = todo[k]
        BY <1>1, <4>1, TailOfTodo
      <4> QED
        BY <3>2, <3>3, <3>5, <4>2
    <3> QED
      BY <3>4, <3>5
  <2> QED
    BY <2>3, <2>4
<1> QED
  BY <1>9, <1>10

\* Every step keeps the levels ahead of the values.
LEMMA LevelsNext ==
  ASSUME TypeInv, TypeInv', LevelsInv, [Next]_vars
  PROVE  LevelsInv'
<1> USE DEF TypeInv
<1>1. ASSUME NEW n \in 1 .. opened' PROVE n \in 1 .. MaxColumns
  BY LenProperties, WritersAssumption DEF TypeOK
<1>2. CASE pc = "absent" /\ opened' = opened
  <2>1. /\ opened = 0 /\ todo = <<>>
        /\ \A w \in Streams : page_buf_[w] = <<>>
    BY <1>2 DEF PositionOK, LevelsInv
  <2>2. UNCHANGED <<todo, page_buf_>> \/ LoseBuffers
    BY <1>2
       DEF Next, CommitStep, vars, writerVars, CreateFile, CreateFileRaises,
           OpenColumn, OpenColumnRaises, WriteColumn, AppendValue,
           AppendValueRaises, AddRows, CommitBegin, WriteIndexEntry,
           WriteIndexEntryRaises, EmptyIndex, ReuseIndexRaises,
           WriteIndexPage, FSyncPages, WriteMetaBlock, FSyncMetaBlock,
           FSyncMetaBlockRaises, WriterEnds, KernelWritesBack, PowerLoss,
           OpenFile, CloseFile, Idle
  <2> QED
    BY <1>2, <2>1, <2>2 DEF LevelsInv, LoseBuffers
<1>3. CASE OpenColumn
  <2>1. todo' = <<>> /\ \A w \in Streams : page_buf_'[w] = <<>>
    BY <1>3 DEF OpenColumn, LevelsInv
  <2> QED
    BY <1>1, <2>1, EmptyBuffers DEF LevelsInv
<1>4. CASE LoseBuffers /\ pc' = "dead"
  <2>1. todo' = <<>> /\ \A w \in Streams : page_buf_'[w] = <<>>
    BY <1>4 DEF LoseBuffers
  <2> QED
    BY <1>1, <1>4, <2>1, EmptyBuffers DEF LevelsInv
<1>5. CASE WriteColumn
  <2>1. pc' = "idle" /\ UNCHANGED opened
    BY <1>5 DEF WriteColumn, Idle, writerVars
  <2> QED
    BY <1>5, <2>1, LevelsWriteColumn DEF LevelsInv
<1>6. CASE AppendValue
  <2>1. pc' = "idle" /\ UNCHANGED opened
    BY <1>6 DEF AppendValue, writerVars
  <2> QED
    BY <1>6, <2>1, LevelsAppendValue DEF LevelsInv
<1>7. CASE AppendValueRaises
  <2>1. /\ pc' = "idle" /\ UNCHANGED <<opened, columns_, page_buf_>>
        /\ todo' = <<>>
    BY <1>7 DEF AppendValueRaises, appendValueRaises, writerVars
  <2>2. \A i : FullLevels(i)' = FullLevels(i)
    BY <2>1 DEF FullLevels
  <2>3. DOMAIN todo' = {}
    BY <2>1
  <2> QED
    BY <2>1, <2>2, <2>3 DEF LevelsInv, LevelAhead
<1>8. CASE /\ UNCHANGED <<opened, columns_, page_buf_, todo>>
           /\ pc' \in {"absent", "opening"} => pc' = pc
  <2>1. \A i : FullLevels(i)' = FullLevels(i)
    BY <1>8 DEF FullLevels
  <2> QED
    BY <1>8, <2>1 DEF LevelsInv, LevelAhead
<1> QED
  BY <1>2, <1>3, <1>4, <1>5, <1>6, <1>7, <1>8
     DEF Next, CommitStep, vars, writerVars, CreateFile, CreateFileRaises,
         OpenColumnRaises, AddRows, CommitBegin, WriteIndexEntry,
         WriteIndexEntryRaises, EmptyIndex, ReuseIndexRaises, WriteIndexPage,
         FSyncPages, WriteMetaBlock, FSyncMetaBlock, FSyncMetaBlockRaises,
         WriterEnds, KernelWritesBack, PowerLoss, OpenFile, CloseFile

\* writeUnsignedInt of a v0.2.0 column appends the definition level before the
\* value: whatever raises, no value is left without a level that announces it.
THEOREM ValuesAreAnnounced == Spec => []ValuesHaveLevels
<1>1. Init => LevelsInv
  BY DEF Init, PageWritersInit, LevelsInv
<1>2. TypeInv /\ TypeInv' /\ LevelsInv /\ [Next]_vars => LevelsInv'
  BY LevelsNext
<1>3. LevelsInv => ValuesHaveLevels
  BY DEF LevelsInv, LevelAhead, ValuesHaveLevels, FullLevels
<1>4. Spec => []TypeInv
  BY TypeInit, TypeNext, PTL DEF Spec
<1> QED
  BY <1>1, <1>2, <1>3, <1>4, PTL DEF Spec
=============================================================================
