-------------------------- MODULE CSVImport_proofs --------------------------
(***************************************************************************)
(* Proofs about CSVImport: what Records_proofs shows of tables that        *)
(* messages are added to holds of tables that rows are imported into, as   *)
(* long as headers and rows adhere to the schema.                          *)
(***************************************************************************)
EXTENDS CSVImport, Records_proofs

\* The columns that a header names are columns of the table, each named once,
\* and no materializer reads the table while its rows are imported.
HeaderInv ==
  csv # NoImport =>
    /\ columns_ = Closed
    /\ IsSeq(csv)
    /\ csv # <<>>
    /\ \A i \in DOMAIN csv : csv[i] \in Leaves(schema)
    /\ \A i, j \in DOMAIN csv : csv[i] = csv[j] => i = j

CSVInv == Inv /\ HeaderInv

----------------------------------------------------------------------------
(* Headers. *)

\* The list of a finite set names each of its elements once.
LEMMA SetToSeqIs ==
  ASSUME NEW S, IsFiniteSet(S), NEW s, s = SetToSeq(S)
  PROVE  /\ IsSeq(s)
         /\ \A i \in DOMAIN s : s[i] \in S
         /\ \A i, j \in DOMAIN s : s[i] = s[j] => i = j
         /\ \A e \in S : \E i \in DOMAIN s : s[i] = e
<1>1. PICK n \in Nat : n = Cardinality(S)
  BY FS_CardinalityType
<1>2. IsFiniteSet(1 .. n) /\ Cardinality(1 .. n) = n
  BY FS_Interval
<1>3. ExistsBijection(1 .. n, S)
  BY <1>1, <1>2, FS_SameCardinalityBij
<1>4. \E f \in [1 .. n -> S] : IsInjective(f)
  BY <1>3 DEF ExistsBijection, Bijection, Injection
<1>5. s \in [1 .. n -> S] /\ IsInjective(s)
  <2>1. s = CHOOSE f \in [1 .. n -> S] : IsInjective(f)
    BY <1>1 DEF SetToSeq
  <2> QED
    BY <1>4, <2>1
<1>6. s \in Injection(1 .. n, S)
  BY <1>5 DEF Injection
<1>7. s \in Surjection(1 .. n, S)
  BY <1>1, <1>2, <1>6, FS_Injection
<1>8. \A e \in S : \E i \in 1 .. n : s[i] = e
  BY <1>7 DEF Surjection
<1>9. IsSeq(s) /\ DOMAIN s = 1 .. n
  BY <1>5, FunctionIsSeq
<1> QED
  BY <1>5, <1>8, <1>9 DEF IsInjective

LEMMA ColumnsFinite ==
  ASSUME table \in DOMAIN Tables
  PROVE  IsFiniteSet(DOMAIN configs)
<1>1. IsFiniteSet(DOMAIN schema) /\ DOMAIN configs = Leaves(schema)
  BY TableTrees DEF IsTree
<1>2. Leaves(schema) \subseteq DOMAIN schema
  BY DEF Leaves
<1> QED
  BY <1>1, <1>2, FS_Subset

\* A header names each of its columns once.
LEMMA HeaderIs ==
  ASSUME Strict, table \in DOMAIN Tables, NEW h \in Headers
  PROVE  /\ IsSeq(h) /\ h # <<>>
         /\ \A i, j \in DOMAIN h : h[i] = h[j] => i = j
<1>1. CASE h = <<Unknown>>
  <2>1. h \in Seq({Unknown}) /\ DOMAIN h = {1} /\ h # <<>>
    BY <1>1
  <2> QED
    BY <2>1, SeqIsSeq
<1>2. CASE h \in SetToAllKPermutations(DOMAIN configs) \ {<<>>}
  <2>1. PICK N \in SUBSET DOMAIN configs : h \in SetToSeqs(N)
    BY <1>2 DEF SetToAllKPermutations
  <2>2. IsFiniteSet(N)
    BY ColumnsFinite, FS_Subset
  <2>3. PICK n \in Nat : n = Cardinality(N)
    BY <2>2, FS_CardinalityType
  <2>4. /\ h \in [1 .. n -> N]
        /\ \A i, j \in 1 .. n : i # j => h[i] # h[j]
    BY <2>1, <2>3 DEF SetToSeqs
  <2>5. IsSeq(h) /\ DOMAIN h = 1 .. n
    BY <2>4, FunctionIsSeq
  <2> QED
    BY <1>2, <2>4, <2>5
<1> QED
  BY <1>1, <1>2 DEF Headers

----------------------------------------------------------------------------
(* The steps of an import. *)

LEMMA BeginImportInv ==
  ASSUME CSVInv, Strict, BeginImport
  PROVE  CSVInv'
<1>1. /\ UNCHANGED <<table, cols, num_rows_, nodes, failed, adding, todo,
                     columns_, left, current, done>>
      /\ columns_ = Closed
  BY DEF BeginImport, materializerVars
<1>2. /\ ReadStep /\ done' \in Nat /\ (adding # NoMessage => columns_' = Closed)
  BY <1>1 DEF ReadStep, CSVInv, Inv, TypeInv
<1>3. ReadInv => ReadInv'
  BY <1>1 DEF ReadInv
<1>4. Inv'
  BY <1>2, <1>3, ReadKeepsInv DEF CSVInv, Inv
<1>5. ASSUME csv' # NoImport
      PROVE  HeaderInv'
  <2>1. PICK h \in Headers : headerAccepted(h) /\ csv' = h
    BY <1>5 DEF BeginImport
  <2>2. /\ IsSeq(h) /\ h # <<>>
        /\ \A i, j \in DOMAIN h : h[i] = h[j] => i = j
    BY HeaderIs DEF CSVInv, Inv, TypeInv
  <2>3. \A i \in DOMAIN h : h[i] \in Leaves(schema)
    BY <2>1, TableTrees DEF headerAccepted, ToSet, CSVInv, Inv, TypeInv
  <2>4. schema' = schema
    BY <1>1 DEF schema
  <2> QED
    BY <1>1, <2>1, <2>2, <2>3, <2>4 DEF HeaderInv
<1> QED
  BY <1>4, <1>5 DEF CSVInv, HeaderInv

\* The header of an import stays what it is.
LEMMA HeaderKept ==
  ASSUME HeaderInv, UNCHANGED <<table, columns_>>, csv' = csv \/ csv' = NoImport
  PROVE  HeaderInv'
<1>1. schema' = schema
  BY DEF schema
<1> QED
  BY <1>1 DEF HeaderInv

LEMMA LevelsNat ==
  ASSUME NEW T, IsTree(T), NEW n \in DOMAIN T
  PROVE  rlevel(T, n) \in Nat /\ dlevel(T, n) \in Nat
<1>1. PICK l \in Nat : l = Len(n)
  BY TreeNode
<1>2. PICK R : R = {k \in 1 .. l : T[SubSeq(n, 1, k)].repeated}
  OBVIOUS
<1>3. PICK D : D = {k \in 1 .. l : CanBeAbsent(T[SubSeq(n, 1, k)])}
  OBVIOUS
<1>4. R \subseteq 1 .. l /\ D \subseteq 1 .. l
  BY <1>2, <1>3
<1>5. Cardinality(R) \in Nat /\ Cardinality(D) \in Nat
  BY <1>4, CountStep
<1> QED
  BY <1>1, <1>2, <1>3, <1>5 DEF rlevel, dlevel

(* The calls A of the row's cells and B of the missing columns, by header. *)
RowOf(T, h, s, A, B) ==
  /\ IsSeq(h) /\ \A i \in DOMAIN h : h[i] \in Leaves(T)
  /\ \A i, j \in DOMAIN h : h[i] = h[j] => i = j
  /\ IsSeq(s) /\ \A i \in DOMAIN s : s[i] \in Leaves(T) \ ToSet(h)
  /\ \A i, j \in DOMAIN s : s[i] = s[j] => i = j
  /\ \A e \in Leaves(T) \ ToSet(h) : \E i \in DOMAIN s : s[i] = e
  /\ IsSeq(A) /\ DOMAIN A = DOMAIN h
  /\ \A i \in DOMAIN A : A[i].call = "cell" /\ A[i].name = h[i]
  /\ IsSeq(B) /\ DOMAIN B = DOMAIN s
  /\ \A i \in DOMAIN B : /\ B[i].call = "null" /\ B[i].name = s[i]
                         /\ B[i].r = 0 /\ B[i].d = 0

(* Every call is owed to a column, and every column is owed exactly one.   *)
OwedOnce(T, F, m, S) ==
  /\ \A k \in DOMAIN S : IsItem(T, F, m, S[k])
  /\ \A c \in Leaves(T) :
       /\ \A k \in DOMAIN S : Covers(S[k], c) => Owes(S[k], c)
       /\ \E k \in DOMAIN S :
            /\ Owes(S[k], c)
            /\ \A l \in DOMAIN S : Owes(S[l], c) => l = k

\* A row has a call for every cell that belongs to a column and one for every
\* column that the header does not name.
LEMMA RowCalls ==
  ASSUME NEW T, IsTree(T), NEW F, NEW m, NEW h, NEW s, NEW A, NEW B,
         RowOf(T, h, s, A, B)
  PROVE  OwedOnce(T, F, m, A \o B)
<1>0. /\ IsSeq(h) /\ \A i \in DOMAIN h : h[i] \in Leaves(T)
      /\ \A i, j \in DOMAIN h : h[i] = h[j] => i = j
      /\ IsSeq(s) /\ \A i \in DOMAIN s : s[i] \in Leaves(T) \ ToSet(h)
      /\ \A i, j \in DOMAIN s : s[i] = s[j] => i = j
      /\ \A e \in Leaves(T) \ ToSet(h) : \E i \in DOMAIN s : s[i] = e
      /\ IsSeq(A) /\ DOMAIN A = DOMAIN h
      /\ \A i \in DOMAIN A : A[i].call = "cell" /\ A[i].name = h[i]
      /\ IsSeq(B) /\ DOMAIN B = DOMAIN s
      /\ \A i \in DOMAIN B : /\ B[i].call = "null" /\ B[i].name = s[i]
                             /\ B[i].r = 0 /\ B[i].d = 0
  BY DEF RowOf
<1> DEFINE S == A \o B
<1>1. /\ Len(A) \in Nat /\ Len(B) \in Nat
      /\ DOMAIN A = 1 .. Len(A) /\ DOMAIN B = 1 .. Len(B)
      /\ DOMAIN S = 1 .. Len(A) + Len(B)
      /\ \A i \in 1 .. Len(A) : S[i] = A[i]
      /\ \A i \in 1 .. Len(B) : S[Len(A) + i] = B[i]
  BY <1>0, ConcatIs, SeqProperties
<1> HIDE DEF S
<1>2. \A k \in DOMAIN S : \/ k \in DOMAIN A /\ S[k] = A[k]
                          \/ \E i \in DOMAIN B : k = Len(A) + i /\ S[k] = B[i]
  <2>1. SUFFICES ASSUME NEW k \in DOMAIN S, k \notin DOMAIN A
                 PROVE  \E i \in DOMAIN B : k = Len(A) + i /\ S[k] = B[i]
    BY <1>1
  <2>2. PICK i \in DOMAIN B : i = k - Len(A)
    BY <1>1, <2>1
  <2>3. k = Len(A) + i
    BY <1>1, <2>1, <2>2
  <2> QED
    BY <1>1, <2>3
<1>3. ASSUME NEW c \in Leaves(T)
      PROVE  c \in DOMAIN T /\ c # <<>> /\ rlevel(T, c) \in Nat /\ dlevel(T, c) \in Nat
  <2>1. c \in DOMAIN T /\ c # <<>>
    BY <1>3 DEF Leaves, IsTree
  <2> QED
    BY <2>1, LevelsNat
<1>4. ASSUME NEW k \in DOMAIN S
      PROVE  /\ IsItem(T, F, m, S[k])
             /\ S[k].name \in Leaves(T)
             /\ \A c : Owes(S[k], c) <=> Covers(S[k], c)
  <2>1. CASE k \in DOMAIN A /\ S[k] = A[k]
    <3>1. S[k].call = "cell" /\ S[k].name \in Leaves(T)
      BY <1>0, <2>1
    <3>2. IsItem(T, F, m, S[k])
      BY <1>3, <3>1 DEF IsItem
    <3> QED
      BY <3>1, <3>2 DEF Owes
  <2>2. ASSUME NEW i \in DOMAIN B, S[k] = B[i]
        PROVE  /\ IsItem(T, F, m, S[k])
               /\ S[k].name \in Leaves(T)
               /\ \A c : Owes(S[k], c) <=> Covers(S[k], c)
    <3>1. /\ S[k].call = "null" /\ S[k].name \in Leaves(T)
          /\ S[k].r = 0 /\ S[k].d = 0
      BY <1>0, <2>2
    <3>2. IsItem(T, F, m, S[k])
      BY <1>3, <3>1 DEF IsItem
    <3> QED
      BY <3>1, <3>2 DEF Owes
  <2> QED
    BY <1>2, <2>1, <2>2
<1>5. ASSUME NEW c \in Leaves(T)
      PROVE  \E k \in DOMAIN S :
               /\ Owes(S[k], c)
               /\ \A l \in DOMAIN S : Owes(S[l], c) => l = k
  <2>1. \A k \in DOMAIN S : Owes(S[k], c) <=> S[k].name = c
    BY <1>4, LeafCovers DEF Covers
  <2>2. CASE c \in ToSet(h)
    <3>1. PICK i \in DOMAIN h : h[i] = c
      BY <1>0, <2>2 DEF ToSet
    <3>2. i \in DOMAIN S /\ S[i].name = c
      BY <1>0, <1>1, <3>1
    <3>3. ASSUME NEW l \in DOMAIN S, S[l].name = c
          PROVE  l = i
      <4>1. CASE l \in DOMAIN A /\ S[l] = A[l]
        BY <1>0, <3>1, <3>3, <4>1
      <4>2. ASSUME NEW j \in DOMAIN B, S[l] = B[j] PROVE FALSE
        BY <1>0, <2>2, <3>3, <4>2
      <4> QED
        BY <1>2, <4>1, <4>2
    <3> QED
      BY <2>1, <3>2, <3>3
  <2>3. CASE c \notin ToSet(h)
    <3>1. PICK i \in DOMAIN s : s[i] = c
      BY <1>0, <2>3
    <3>2. PICK k \in DOMAIN S : k = Len(A) + i /\ S[k] = B[i]
      BY <1>0, <1>1, <3>1
    <3>3. ASSUME NEW l \in DOMAIN S, S[l].name = c
          PROVE  l = k
      <4>1. CASE l \in DOMAIN A /\ S[l] = A[l]
        BY <1>0, <2>3, <3>3, <4>1 DEF ToSet
      <4>2. ASSUME NEW j \in DOMAIN B, l = Len(A) + j, S[l] = B[j] PROVE l = k
        <5>1. j = i
          BY <1>0, <3>1, <3>3, <4>2
        <5> QED
          BY <3>2, <4>2, <5>1
      <4> QED
        BY <1>2, <4>1, <4>2
    <3>4. S[k].name = c
      BY <1>0, <3>1, <3>2
    <3> QED
      BY <2>1, <3>3, <3>4
  <2> QED
    BY <2>2, <2>3
<1> QED
  BY <1>4, <1>5 DEF S, OwedOnce

LEMMA ImportRowInv ==
  ASSUME CSVInv, Strict, ImportRow
  PROVE  CSVInv'
<1>1. /\ csv # NoImport /\ adding = NoMessage /\ csv' = csv
      /\ UNCHANGED <<table, cols, num_rows_, failed, columns_, left, current,
                     done>>
  BY DEF ImportRow, materializerVars
<1>2. nodes' \in Nat
  BY DEF ImportRow, CSVInv, Inv, TypeInv
<1>3. /\ columns_ = Closed /\ IsSeq(csv) /\ csv # <<>>
      /\ \A i \in DOMAIN csv : csv[i] \in Leaves(schema)
      /\ \A i, j \in DOMAIN csv : csv[i] = csv[j] => i = j
  BY <1>1 DEF CSVInv, HeaderInv
<1>4. /\ table \in DOMAIN Tables /\ IsTree(schema)
      /\ DOMAIN configs = Leaves(schema) /\ DOMAIN cols = Leaves(schema)
  BY TableTrees DEF CSVInv, Inv, TypeInv
<1>5. Len(csv) \in Nat /\ Len(csv) >= 1 /\ DOMAIN csv = 1 .. Len(csv)
  BY <1>3, SeqProperties, TailIs
<1>6. PICK row \in Rows :
        LET n       == IF Len(row) < Len(csv) THEN Len(row) ELSE Len(csv)
            missing == SetToSeq(missing_columns(csv))
        IN  /\ adding' = row
            /\ todo' = [i \in 1 .. n |->
                          [call |-> "cell", name |-> csv[i], cell |-> row[i]]]
                       \o [i \in DOMAIN missing |->
                             writeProtoNull(missing[i], <<>>, 0, 0)]
  BY DEF ImportRow
<1>7. Len(row) \in Nat /\ Len(row) >= Len(csv) /\ row # <<>>
  <2>1. ASSUME NEW full, full \in [1 .. Len(csv) -> Cells]
        PROVE  IsSeq(full) /\ Len(full) = Len(csv)
    BY <1>5, <2>1, FunctionIsSeq
  <2>2. CASE row \in [1 .. Len(csv) -> Cells]
    BY <1>5, <2>1, <2>2, EmptyIs
  <2>3. ASSUME NEW full \in [1 .. Len(csv) -> Cells], row = Append(full, full[1])
        PROVE  Len(row) \in Nat /\ Len(row) >= Len(csv) /\ row # <<>>
    BY <1>5, <2>1, <2>3, AppendIs
  <2> QED
    BY <2>2, <2>3 DEF Rows
<1>8. PICK s : s = SetToSeq(missing_columns(csv))
  OBVIOUS
<1>9. PICK A : A = [i \in 1 .. Len(csv) |->
                      [call |-> "cell", name |-> csv[i], cell |-> row[i]]]
  OBVIOUS
<1>10. PICK B : B = [i \in DOMAIN s |-> writeProtoNull(s[i], <<>>, 0, 0)]
  OBVIOUS
<1>11. adding' = row /\ todo' = A \o B
  <2>1. ~ Len(row) < Len(csv)
    BY <1>5, <1>7
  <2> QED
    BY <1>6, <1>8, <1>9, <1>10, <2>1
<1>12. /\ IsSeq(s)
       /\ \A i \in DOMAIN s : s[i] \in Leaves(schema) \ ToSet(csv)
       /\ \A i, j \in DOMAIN s : s[i] = s[j] => i = j
       /\ \A e \in Leaves(schema) \ ToSet(csv) : \E i \in DOMAIN s : s[i] = e
  <2>1. missing_columns(csv) = Leaves(schema) \ ToSet(csv)
    BY <1>4 DEF missing_columns
  <2>2. IsFiniteSet(missing_columns(csv))
    <3>1. missing_columns(csv) \subseteq DOMAIN configs
      BY DEF missing_columns
    <3> QED
      BY <1>4, <3>1, ColumnsFinite, FS_Subset
  <2>3. PICK M : M = missing_columns(csv)
    OBVIOUS
  <2>4. /\ IsSeq(s)
        /\ \A i \in DOMAIN s : s[i] \in M
        /\ \A i, j \in DOMAIN s : s[i] = s[j] => i = j
        /\ \A e \in M : \E i \in DOMAIN s : s[i] = e
    BY <1>8, <2>2, <2>3, SetToSeqIs
  <2> QED
    BY <2>1, <2>3, <2>4
<1>13. /\ IsSeq(A) /\ DOMAIN A = DOMAIN csv
       /\ \A i \in DOMAIN A : A[i].call = "cell" /\ A[i].name = csv[i]
  <2>1. PICK n \in Nat : n = Len(csv)
    BY <1>5
  <2>2. DOMAIN A = 1 .. n /\ A = [i \in 1 .. n |-> A[i]]
    BY <1>9, <2>1
  <2>3. IsSeq(A)
    BY <2>2, FunctionIsSeq
  <2> QED
    BY <1>5, <1>9, <2>3
<1>14. /\ IsSeq(B) /\ DOMAIN B = DOMAIN s
       /\ \A i \in DOMAIN B : /\ B[i].call = "null" /\ B[i].name = s[i]
                              /\ B[i].r = 0 /\ B[i].d = 0
  <2>1. PICK n \in Nat : DOMAIN s = 1 .. n
    BY <1>12, SeqProperties
  <2>2. DOMAIN B = 1 .. n /\ B = [i \in 1 .. n |-> B[i]]
    BY <1>10, <2>1
  <2>3. IsSeq(B)
    BY <2>2, FunctionIsSeq
  <2> QED
    BY <1>10, <2>3 DEF writeProtoNull
<1>15. PICK T : T = schema
  OBVIOUS
<1>16. PICK F : F = fields
  OBVIOUS
<1>17. PICK h : h = csv
  OBVIOUS
<1>18. IsTree(T) /\ RowOf(T, h, s, A, B)
  BY <1>3, <1>4, <1>12, <1>13, <1>14, <1>15, <1>17 DEF RowOf
<1>19. OwedOnce(T, F, row, A \o B)
  BY <1>18, RowCalls
<1>20. adding' # NoMessage
  BY <1>7, <1>11 DEF NoMessage
<1>21. IsSeq(todo')
  BY <1>11, <1>13, <1>14, ConcatIs
<1>22. \A k \in DOMAIN todo' : IsItem(schema, fields, adding', todo'[k])
  BY <1>11, <1>15, <1>16, <1>19 DEF OwedOnce
<1>23. \A c \in DOMAIN cols :
         /\ \A k \in DOMAIN todo' : Covers(todo'[k], c) => Owes(todo'[k], c)
         /\ \E k \in DOMAIN todo' :
              /\ Owes(todo'[k], c)
              /\ \A l \in DOMAIN todo' : Owes(todo'[l], c) => l = k
  BY <1>4, <1>11, <1>15, <1>19 DEF OwedOnce
<1>24. Inv'
  BY <1>1, <1>2, <1>3, <1>20, <1>21, <1>22, <1>23, RowBegunInv DEF CSVInv
<1> QED
  BY <1>1, <1>24, HeaderKept DEF CSVInv

LEMMA ImportCellInv ==
  ASSUME CSVInv, ImportCell
  PROVE  CSVInv'
<1>1. /\ adding # NoMessage /\ todo # <<>> /\ first.call = "cell"
      /\ todo' = Tail(todo) /\ writeCell(first.name, first.cell)
      /\ csv' = csv
  BY DEF ImportCell, Busy
<1>2. /\ ShredStep /\ UNCHANGED <<table, columns_>>
  BY DEF ImportCell, Shredding, ShredStep, materializerVars
<1>3. /\ IsItem(schema, fields, adding, first) /\ IsTree(schema)
      /\ first.name \in DOMAIN schema /\ IsSeq(first.name)
  BY <1>1, FirstCall DEF CSVInv
<1>4. first.name \in Leaves(schema)
  BY <1>1, <1>3 DEF IsItem
<1>5. Owes(first, first.name)
  BY <1>1, <1>3, PrefixOfItself DEF Owes, Covers
<1>6. rlevel(schema, first.name) \in Nat /\ dlevel(schema, first.name) \in Nat
  BY <1>3, LevelsNat
<1>7. configs[first.name].dlevel_max = dlevel(schema, first.name)
  BY <1>4, TableTrees DEF CSVInv, Inv, TypeInv
<1>8. PICK r : r = 0
  OBVIOUS
<1>9. \E d, v : /\ writeColumn(first.name, r, d, v)
                /\ d <= dlevel(schema, first.name)
  <2>1. CASE first.cell.null
    <3>1. writeColumn(first.name, r, 0, 0)
      BY <1>1, <1>8, <2>1 DEF writeCell
    <3> QED
      BY <1>6, <3>1
  <2>2. CASE ~ first.cell.null
    <3>1. PICK d : d = configs[first.name].dlevel_max
      OBVIOUS
    <3>2. PICK v : v = cellValue(first.name, first.cell)
      OBVIOUS
    <3>3. writeColumn(first.name, r, d, v)
      BY <1>1, <1>8, <2>2, <3>1, <3>2 DEF writeCell
    <3> QED
      BY <1>6, <1>7, <3>1, <3>3
  <2> QED
    BY <2>1, <2>2
<1>10. PICK d, v : /\ writeColumn(first.name, r, d, v)
                   /\ d <= dlevel(schema, first.name)
  BY <1>9
<1>11. /\ Owes(first, first.name) <=> r = 0
       /\ r <= rlevel(schema, first.name)
  BY <1>5, <1>6, <1>8
<1>12. Inv'
  BY <1>1, <1>2, <1>4, <1>10, <1>11, LastCallInv DEF CSVInv
<1> QED
  BY <1>1, <1>2, <1>12, HeaderKept DEF CSVInv

LEMMA RefuseCellInv ==
  ASSUME CSVInv, RefuseCell
  PROVE  CSVInv'
<1>1. /\ todo' = <<>> /\ adding' = NoMessage /\ failed' = TRUE
      /\ csv' = NoImport
      /\ UNCHANGED <<table, cols, num_rows_, nodes, columns_, left, current,
                     done>>
  BY DEF RefuseCell, materializerVars
<1> QED
  BY <1>1, GivenUpInv DEF CSVInv, HeaderInv

LEMMA ImportMissingInv ==
  ASSUME CSVInv, ImportMissing
  PROVE  CSVInv'
<1>1. WriteNull /\ csv' = csv /\ UNCHANGED <<table, columns_>>
  BY DEF ImportMissing, WriteNull, Shredding, materializerVars
<1> QED
  BY <1>1, WriteNullInv, HeaderKept DEF CSVInv

LEMMA EndRowInv ==
  ASSUME CSVInv, EndRow
  PROVE  CSVInv'
<1>1. /\ adding # NoMessage /\ todo = <<>> /\ todo' = todo
      /\ num_rows_' = num_rows_ + 1 /\ adding' = NoMessage /\ csv' = csv
      /\ UNCHANGED <<table, cols, nodes, failed, columns_, left, current, done>>
  BY DEF EndRow, materializerVars
<1> QED
  BY <1>1, RowDoneInv, HeaderKept DEF CSVInv

----------------------------------------------------------------------------
(* The theorems. *)

LEMMA CSVInitInv ==
  ASSUME CSVInit
  PROVE  CSVInv
BY InitInv DEF CSVInit, CSVInv, HeaderInv

LEMMA CSVNextInv ==
  ASSUME CSVInv, Strict, [CSVNext]_csvVars
  PROVE  CSVInv'
<1>1. CASE csv = NoImport /\ Next /\ UNCHANGED <<csv, imported>>
  BY <1>1, NextInv DEF CSVInv, HeaderInv
<1>2. CASE BeginImport
  BY <1>2, BeginImportInv
<1>3. CASE ImportRow
  BY <1>3, ImportRowInv
<1>4. CASE ImportCell
  BY <1>4, ImportCellInv
<1>5. CASE RefuseCell
  BY <1>5, RefuseCellInv
<1>6. CASE ImportMissing
  BY <1>6, ImportMissingInv
<1>7. CASE EndRow
  BY <1>7, EndRowInv
<1>8. CASE EndImport
  <2>1. /\ [Next]_vars /\ csv' = NoImport
    BY <1>8 DEF EndImport
  <2> QED
    BY <2>1, NextInv DEF CSVInv, HeaderInv
<1>9. CASE UNCHANGED csvVars
  <2>1. /\ [Next]_vars /\ csv' = csv /\ UNCHANGED <<table, columns_>>
    BY <1>9 DEF csvVars, vars, materializerVars
  <2> QED
    BY <2>1, NextInv, HeaderKept DEF CSVInv
<1> QED
  BY <1>1, <1>2, <1>3, <1>4, <1>5, <1>6, <1>7, <1>8, <1>9 DEF CSVNext

\* The same holds while rows are imported beside messages, when header and rows
\* adhere to the schema: the cells of a row and its missing columns owe each
\* column one entry.
THEOREM CSVInvariant ==
  ASSUME Strict
  PROVE  CSVSpec => []CSVInv
<1>1. CSVInit => CSVInv
  BY CSVInitInv
<1>2. CSVInv /\ [CSVNext]_csvVars => CSVInv'
  BY CSVNextInv
<1> QED
  BY <1>1, <1>2, PTL DEF CSVSpec

\* Rows and messages that adhere to the schema, in any order and with any
\* header, leave as many records in every column as addRow counts.
THEOREM ImportAligned ==
  ASSUME Strict
  PROVE  CSVSpec => []ColumnsAligned
<1>1. CSVInv => ColumnsAligned
  BY InvAligned DEF CSVInv
<1> QED
  BY <1>1, CSVInvariant, PTL

\* The materializer stays in step over imported rows, too.
THEOREM ImportInStep ==
  ASSUME Strict, Version = "v0_1_0"
  PROVE  CSVSpec => []InStep
<1>1. CSVInv => InStep
  BY InvInStep DEF CSVInv
<1> QED
  BY <1>1, CSVInvariant, PTL
=============================================================================
