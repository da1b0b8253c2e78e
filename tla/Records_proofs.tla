--------------------------- MODULE Records_proofs ---------------------------
(***************************************************************************)
(* Proofs about Records, for all schemas, messages and bounds.             *)
(*                                                                         *)
(* The argument for the shredder: a call still to be made covers the       *)
(* columns below its field, and owes each of them the start of a record or *)
(* not (Owes).  It makes way for calls that owe the same (Replaces), or it *)
(* writes what it owes.  So a column lags behind the row that is being     *)
(* added as long as one call owes it a record, and no longer (Enough,      *)
(* Exact).                                                                 *)
(*                                                                         *)
(* For the materializer: a reader that is not in the middle of a record    *)
(* stands right behind one, with the first entry of the next one pending,  *)
(* or at the end of the column (ReadsTo); the number of records that lie   *)
(* before is the number of calls that have come to the column.             *)
(***************************************************************************)
EXTENDS Records, SequenceTheorems, FiniteSetTheorems, TLAPS

----------------------------------------------------------------------------
(* Sequences.  Entries hold values of any kind, so a sequence is one over  *)
(* the set of its own elements.                                            *)

IsSeq(s) == s \in Seq(Range(s))

\* What a sequence over any set is.
LEMMA SeqIsSeq ==
  ASSUME NEW S, NEW s \in Seq(S)
  PROVE  IsSeq(s) /\ Len(s) \in Nat /\ DOMAIN s = 1 .. Len(s)
<1>1. Len(s) \in Nat /\ DOMAIN s = 1 .. Len(s) /\ s \in [1 .. Len(s) -> S]
  BY LenProperties
<1>2. s \in [1 .. Len(s) -> Range(s)]
  BY <1>1 DEF Range
<1>3. s \in Seq(Range(s))
  BY <1>1, <1>2, SeqDef
<1> QED
  BY <1>1, <1>3 DEF IsSeq

\* A function over 1 .. n is a sequence.
LEMMA FunctionIsSeq ==
  ASSUME NEW n \in Nat, NEW s, DOMAIN s = 1 .. n, s = [i \in 1 .. n |-> s[i]]
  PROVE  IsSeq(s) /\ Len(s) = n
<1>1. s \in [1 .. n -> Range(s)]
  BY DEF Range
<1>2. s \in Seq(Range(s))
  BY <1>1, SeqDef
<1>3. Len(s) = n
  BY <1>2, LenProperties
<1> QED
  BY <1>2, <1>3 DEF IsSeq

LEMMA SeqProperties ==
  ASSUME NEW s, IsSeq(s)
  PROVE  Len(s) \in Nat /\ DOMAIN s = 1 .. Len(s)
BY LenProperties DEF IsSeq

\* Append, one element at a time.
LEMMA AppendIs ==
  ASSUME NEW s, IsSeq(s), NEW e
  PROVE  /\ IsSeq(Append(s, e))
         /\ Len(Append(s, e)) = Len(s) + 1
         /\ \A i \in 1 .. Len(s) : Append(s, e)[i] = s[i]
         /\ Append(s, e)[Len(s) + 1] = e
         /\ Append(s, e) # <<>>
<1> DEFINE S == Range(s) \cup {e}
<1>1. s \in Seq(S)
  BY SeqMonotonic DEF IsSeq
<1>2. Append(s, e) \in Seq(S)
  BY <1>1
<1>3. IsSeq(Append(s, e))
  BY <1>2, SeqIsSeq
<1> QED
  BY <1>1, <1>3, AppendProperties

\* Concatenation.
LEMMA ConcatIs ==
  ASSUME NEW s, IsSeq(s), NEW t, IsSeq(t)
  PROVE  /\ IsSeq(s \o t)
         /\ Len(s \o t) = Len(s) + Len(t)
         /\ \A i \in 1 .. Len(s) : (s \o t)[i] = s[i]
         /\ \A i \in 1 .. Len(t) : (s \o t)[Len(s) + i] = t[i]
<1> DEFINE S == Range(s) \cup Range(t)
<1>1. s \in Seq(S) /\ t \in Seq(S)
  BY SeqMonotonic DEF IsSeq
<1>2. s \o t \in Seq(S)
  BY <1>1
<1>3. IsSeq(s \o t)
  BY <1>2, SeqIsSeq
<1>4. Len(s) \in Nat /\ Len(t) \in Nat
  BY SeqProperties
<1>5. ASSUME NEW i \in 1 .. Len(t)
      PROVE  (s \o t)[Len(s) + i] = t[i]
  BY <1>1, <1>4, <1>5, ConcatProperties
<1> QED
  BY <1>1, <1>3, <1>5, ConcatProperties

\* The first element and the others.
LEMMA TailIs ==
  ASSUME NEW s, IsSeq(s), s # <<>>
  PROVE  /\ IsSeq(Tail(s))
         /\ Len(s) >= 1
         /\ Len(Tail(s)) = Len(s) - 1
         /\ Head(s) = s[1]
         /\ \A i \in 1 .. Len(s) - 1 : Tail(s)[i] = s[i + 1]
<1>1. s \in Seq(Range(s)) /\ Len(s) \in Nat
  BY SeqProperties DEF IsSeq
<1>2. /\ Tail(s) \in Seq(Range(s))
      /\ Len(Tail(s)) = Len(s) - 1
      /\ \A i \in 1 .. Len(s) - 1 : Tail(s)[i] = s[i + 1]
  BY <1>1, HeadTailProperties
<1>3. Len(s) >= 1
  BY <1>1, EmptySeq
<1>4. Head(s) = s[1]
  BY <1>1
<1> QED
  BY <1>2, <1>3, <1>4, SeqIsSeq

\* A part from the start on.
LEMMA PrefixIs ==
  ASSUME NEW s, IsSeq(s), NEW k \in 0 .. Len(s)
  PROVE  /\ IsSeq(SubSeq(s, 1, k))
         /\ Len(SubSeq(s, 1, k)) = k
         /\ \A i \in 1 .. k : SubSeq(s, 1, k)[i] = s[i]
<1>1. s \in Seq(Range(s)) /\ Len(s) \in Nat
  BY SeqProperties DEF IsSeq
<1>2. \A i \in 1 .. k : s[i] \in Range(s)
  BY <1>1, ElementOfSeq
<1>3. /\ SubSeq(s, 1, k) \in Seq(Range(s))
      /\ Len(SubSeq(s, 1, k)) = k
      /\ \A i \in 1 .. k : SubSeq(s, 1, k)[i] = s[i]
  BY <1>1, <1>2, SubSeqProperties
<1> QED
  BY <1>3, SeqIsSeq

\* Two sequences are equal when their elements are.
LEMMA SeqsEqual ==
  ASSUME NEW s, IsSeq(s), NEW t, IsSeq(t), Len(s) = Len(t),
         \A i \in 1 .. Len(t) : s[i] = t[i]
  PROVE  s = t
<1>1. s \in Seq(Range(s) \cup Range(t)) /\ t \in Seq(Range(s) \cup Range(t))
  BY SeqMonotonic DEF IsSeq
<1> QED
  BY <1>1, SeqEqual

\* Front and Last undo Append, and the other way round.
LEMMA FrontAppend ==
  ASSUME NEW s, IsSeq(s), NEW e
  PROVE  Front(Append(s, e)) = s /\ Last(Append(s, e)) = e
<1>1. /\ IsSeq(Append(s, e)) /\ Len(Append(s, e)) = Len(s) + 1
      /\ \A i \in 1 .. Len(s) : Append(s, e)[i] = s[i]
      /\ Append(s, e)[Len(s) + 1] = e
      /\ Len(s) \in Nat
  BY AppendIs, SeqProperties
<1>2. /\ IsSeq(Front(Append(s, e))) /\ Len(Front(Append(s, e))) = Len(s)
      /\ \A i \in 1 .. Len(s) : Front(Append(s, e))[i] = s[i]
  <2>1. Len(s) \in 0 .. Len(Append(s, e)) /\ Len(Append(s, e)) - 1 = Len(s)
    BY <1>1
  <2>2. Front(Append(s, e)) = SubSeq(Append(s, e), 1, Len(s))
    BY <2>1 DEF Front
  <2> QED
    BY <1>1, <2>1, <2>2, PrefixIs
<1>3. Front(Append(s, e)) = s
  BY <1>2, SeqsEqual
<1> QED
  BY <1>1, <1>3 DEF Last

LEMMA AppendFront ==
  ASSUME NEW s, IsSeq(s), s # <<>>
  PROVE  /\ IsSeq(Front(s))
         /\ Len(Front(s)) = Len(s) - 1
         /\ Len(s) \in Nat \ {0}
         /\ \A i \in 1 .. Len(s) - 1 : Front(s)[i] = s[i]
         /\ Append(Front(s), Last(s)) = s
<1>1. Len(s) \in Nat /\ Len(s) >= 1
  BY TailIs, SeqProperties
<1>2. /\ IsSeq(Front(s)) /\ Len(Front(s)) = Len(s) - 1
      /\ \A i \in 1 .. Len(s) - 1 : Front(s)[i] = s[i]
  <2>1. Len(s) - 1 \in 0 .. Len(s)
    BY <1>1
  <2> QED
    BY <2>1, PrefixIs DEF Front
<1>3. /\ IsSeq(Append(Front(s), Last(s)))
      /\ Len(Append(Front(s), Last(s))) = Len(s)
      /\ \A i \in 1 .. Len(s) - 1 : Append(Front(s), Last(s))[i] = Front(s)[i]
      /\ Append(Front(s), Last(s))[Len(s)] = Last(s)
  BY <1>1, <1>2, AppendIs
<1>4. \A i \in 1 .. Len(s) : Append(Front(s), Last(s))[i] = s[i]
  BY <1>1, <1>2, <1>3 DEF Last
<1>5. Append(Front(s), Last(s)) = s
  BY <1>3, <1>4, SeqsEqual
<1> QED
  BY <1>1, <1>2, <1>5

\* Being a prefix, element by element.
LEMMA PrefixByElements ==
  ASSUME NEW s, IsSeq(s), NEW t, IsSeq(t)
  PROVE  IsPrefix(s, t) <=>
           Len(s) <= Len(t) /\ \A i \in 1 .. Len(s) : s[i] = t[i]
<1>1. Len(s) \in Nat /\ Len(t) \in Nat
  BY SeqProperties
<1>2. /\ IsSeq(SubSeq(s, 1, Len(s))) /\ Len(SubSeq(s, 1, Len(s))) = Len(s)
      /\ \A i \in 1 .. Len(s) : SubSeq(s, 1, Len(s))[i] = s[i]
  BY <1>1, PrefixIs
<1>3. SUFFICES ASSUME Len(s) <= Len(t)
               PROVE  SubSeq(s, 1, Len(s)) = SubSeq(t, 1, Len(s)) <=>
                        \A i \in 1 .. Len(s) : s[i] = t[i]
  BY <1>1 DEF IsPrefix
<1>4. /\ IsSeq(SubSeq(t, 1, Len(s))) /\ Len(SubSeq(t, 1, Len(s))) = Len(s)
      /\ \A i \in 1 .. Len(s) : SubSeq(t, 1, Len(s))[i] = t[i]
  BY <1>1, <1>3, PrefixIs
<1>5. ASSUME \A i \in 1 .. Len(s) : s[i] = t[i]
      PROVE  SubSeq(s, 1, Len(s)) = SubSeq(t, 1, Len(s))
  <2>1. \A i \in 1 .. Len(s) :
          SubSeq(s, 1, Len(s))[i] = SubSeq(t, 1, Len(s))[i]
    BY <1>2, <1>4, <1>5
  <2> QED
    BY <1>2, <1>4, <2>1, SeqsEqual
<1>6. ASSUME SubSeq(s, 1, Len(s)) = SubSeq(t, 1, Len(s))
      PROVE  \A i \in 1 .. Len(s) : s[i] = t[i]
  BY <1>2, <1>4, <1>6
<1> QED
  BY <1>5, <1>6

\* What a prefix is cut out of.
LEMMA PrefixIsPart ==
  ASSUME NEW s, IsSeq(s), NEW t, IsSeq(t), IsPrefix(s, t)
  PROVE  SubSeq(t, 1, Len(s)) = s /\ Len(s) \in 0 .. Len(t)
<1>1. Len(s) \in Nat /\ Len(t) \in Nat /\ Len(s) <= Len(t)
      /\ \A i \in 1 .. Len(s) : s[i] = t[i]
  BY SeqProperties, PrefixByElements
<1>2. /\ IsSeq(SubSeq(t, 1, Len(s))) /\ Len(SubSeq(t, 1, Len(s))) = Len(s)
      /\ \A i \in 1 .. Len(s) : SubSeq(t, 1, Len(s))[i] = t[i]
  BY <1>1, PrefixIs
<1>3. \A i \in 1 .. Len(s) : SubSeq(t, 1, Len(s))[i] = s[i]
  BY <1>1, <1>2
<1>4. SubSeq(t, 1, Len(s)) = s
  BY <1>2, <1>3, SeqsEqual
<1> QED
  BY <1>1, <1>4

\* Adding one number to a set of smaller ones.
LEMMA CountStep ==
  ASSUME NEW n \in Nat, NEW S, S \subseteq 1 .. n
  PROVE  /\ Cardinality(S) \in Nat
         /\ Cardinality(S \cup {n + 1}) = Cardinality(S) + 1
<1>1. IsFiniteSet(S)
  <2>1. IsFiniteSet(1 .. n)
    BY FS_Interval
  <2> QED
    BY <2>1, FS_Subset
<1>2. Cardinality(S) \in Nat
  BY <1>1, FS_CardinalityType
<1>3. n + 1 \notin S
  OBVIOUS
<1> QED
  BY <1>1, <1>2, <1>3, FS_AddElement

----------------------------------------------------------------------------
(* Trees. *)

LEMMA TreeNode ==
  ASSUME NEW T, IsTree(T), NEW n \in DOMAIN T
  PROVE  /\ IsSeq(n) /\ Len(n) \in Nat
         /\ IsSeq(T[n].sub)
         /\ T[n].repeated \in BOOLEAN
         /\ T[n].optional \in BOOLEAN
         /\ CanBeAbsent(T[n]) \in BOOLEAN
         /\ T[n].repeated => CanBeAbsent(T[n])
<1>1. n \in Seq(STRING) /\ T[n].sub \in Seq(STRING)
  BY DEF IsTree
<1>2. T[n].repeated \in BOOLEAN /\ T[n].optional \in BOOLEAN
  BY DEF IsTree
<1> QED
  BY <1>1, <1>2, SeqIsSeq DEF CanBeAbsent

\* The fields of an object.
LEMMA TreeChild ==
  ASSUME NEW T, IsTree(T), NEW n \in DOMAIN T, NEW i \in DOMAIN T[n].sub
  PROVE  /\ Append(n, T[n].sub[i]) \in DOMAIN T
         /\ Append(n, T[n].sub[i]) # <<>>
         /\ Front(Append(n, T[n].sub[i])) = n
         /\ IsObject(T[n])
<1>1. IsSeq(n)
  BY TreeNode
<1>2. PICK u : u = T[n].sub[i]
  OBVIOUS
<1>3. Append(n, u) # <<>> /\ Front(Append(n, u)) = n
  BY <1>1, AppendIs, FrontAppend
<1>4. IsObject(T[n]) /\ Append(n, u) \in DOMAIN T
  BY <1>2 DEF IsTree
<1> QED
  BY <1>2, <1>3, <1>4

\* A field below another one is, or is below, one field of it.
LEMMA TreeBelow ==
  ASSUME NEW T, IsTree(T), NEW n \in DOMAIN T, NEW c \in DOMAIN T,
         IsPrefix(n, c), c # n
  PROVE  \E i \in DOMAIN T[n].sub : IsPrefix(Append(n, T[n].sub[i]), c)
<1>1. IsSeq(n) /\ IsSeq(c) /\ Len(n) \in Nat /\ Len(c) \in Nat
  BY TreeNode
<1>2. Len(n) <= Len(c) /\ \A i \in 1 .. Len(n) : n[i] = c[i]
  BY <1>1, PrefixByElements
<1>3. Len(n) # Len(c)
  <2>1. SUFFICES ASSUME Len(n) = Len(c) PROVE FALSE
    OBVIOUS
  <2>2. \A i \in 1 .. Len(c) : n[i] = c[i]
    BY <1>2, <2>1
  <2>3. n = c
    BY <1>1, <2>1, <2>2, SeqsEqual
  <2> QED
    BY <2>3
<1>4. SubSeq(c, 1, Len(n)) = n
  BY <1>1, PrefixIsPart
<1>5. Len(n) \in 0 .. Len(c) - 1
  BY <1>1, <1>2, <1>3
<1>6. PICK i \in DOMAIN T[n].sub : T[n].sub[i] = c[Len(n) + 1]
  <2>1. \A k \in 0 .. Len(c) - 1 :
          \E i \in DOMAIN T[SubSeq(c, 1, k)].sub :
            T[SubSeq(c, 1, k)].sub[i] = c[k + 1]
    BY DEF IsTree
  <2>2. \E i \in DOMAIN T[SubSeq(c, 1, Len(n))].sub :
          T[SubSeq(c, 1, Len(n))].sub[i] = c[Len(n) + 1]
    BY <1>5, <2>1
  <2> QED
    BY <1>4, <2>2
<1> DEFINE a == Append(n, T[n].sub[i])
<1>7. /\ IsSeq(a) /\ Len(a) = Len(n) + 1
      /\ \A k \in 1 .. Len(n) : a[k] = n[k]
      /\ a[Len(n) + 1] = c[Len(n) + 1]
  BY <1>1, <1>6, AppendIs
<1>8. Len(a) <= Len(c) /\ \A k \in 1 .. Len(a) : a[k] = c[k]
  BY <1>1, <1>2, <1>5, <1>7
<1>9. IsPrefix(a, c)
  BY <1>1, <1>7, <1>8, PrefixByElements
<1> QED
  BY <1>9

\* It is below one of them only, and below the object itself.
LEMMA BelowOne ==
  ASSUME NEW n, IsSeq(n), NEW c, IsSeq(c), NEW u, IsPrefix(Append(n, u), c)
  PROVE  /\ IsPrefix(n, c) /\ c # n
         /\ Len(n) < Len(c) /\ c[Len(n) + 1] = u
<1> DEFINE a == Append(n, u)
<1>1. /\ IsSeq(a) /\ Len(a) = Len(n) + 1 /\ Len(n) \in Nat /\ Len(c) \in Nat
      /\ \A k \in 1 .. Len(n) : a[k] = n[k]
      /\ a[Len(n) + 1] = u
  BY AppendIs, SeqProperties
<1>2. Len(a) <= Len(c) /\ \A k \in 1 .. Len(a) : a[k] = c[k]
  BY <1>1, PrefixByElements
<1>3. Len(n) < Len(c) /\ c[Len(n) + 1] = u /\ \A k \in 1 .. Len(n) : n[k] = c[k]
  BY <1>1, <1>2
<1>4. IsPrefix(n, c)
  BY <1>1, <1>3, PrefixByElements
<1> QED
  BY <1>1, <1>3, <1>4

LEMMA PrefixOfItself ==
  ASSUME NEW n, IsSeq(n)
  PROVE  IsPrefix(n, n) /\ IsPrefix(<<>>, n)
<1>1. IsSeq(<<>>) /\ Len(<<>>) = 0
  BY EmptySeq, SeqIsSeq
<1>2. Len(n) \in Nat
  BY SeqProperties
<1> QED
  BY <1>1, <1>2, PrefixByElements

\* A longer path has one level more where its last field counts.
LEMMA LevelsAppend ==
  ASSUME NEW T, IsTree(T), NEW n \in DOMAIN T, NEW u,
         Append(n, u) \in DOMAIN T
  PROVE  /\ rlevel(T, n) \in Nat
         /\ dlevel(T, n) \in Nat
         /\ rlevel(T, Append(n, u)) =
              rlevel(T, n) + IF T[Append(n, u)].repeated THEN 1 ELSE 0
         /\ dlevel(T, Append(n, u)) =
              dlevel(T, n) + IF CanBeAbsent(T[Append(n, u)]) THEN 1 ELSE 0
<1> DEFINE a == Append(n, u)
<1>1. /\ IsSeq(n) /\ IsSeq(a) /\ Len(n) \in Nat /\ Len(a) = Len(n) + 1
      /\ \A k \in 1 .. Len(n) : a[k] = n[k]
      /\ T[a].repeated \in BOOLEAN /\ CanBeAbsent(T[a]) \in BOOLEAN
  BY TreeNode, AppendIs
<1>2. \A k \in 1 .. Len(n) : SubSeq(a, 1, k) = SubSeq(n, 1, k)
  <2>1. SUFFICES ASSUME NEW k \in 1 .. Len(n)
                 PROVE  SubSeq(a, 1, k) = SubSeq(n, 1, k)
    OBVIOUS
  <2>2. k \in 0 .. Len(n) /\ k \in 0 .. Len(a)
    BY <1>1
  <2>3. /\ IsSeq(SubSeq(n, 1, k)) /\ Len(SubSeq(n, 1, k)) = k
        /\ \A i \in 1 .. k : SubSeq(n, 1, k)[i] = n[i]
    BY <1>1, <2>2, PrefixIs
  <2>4. /\ IsSeq(SubSeq(a, 1, k)) /\ Len(SubSeq(a, 1, k)) = k
        /\ \A i \in 1 .. k : SubSeq(a, 1, k)[i] = a[i]
    BY <1>1, <2>2, PrefixIs
  <2>5. \A i \in 1 .. Len(SubSeq(n, 1, k)) :
          SubSeq(a, 1, k)[i] = SubSeq(n, 1, k)[i]
    BY <1>1, <2>3, <2>4
  <2> QED
    BY <2>3, <2>4, <2>5, SeqsEqual
<1>3. SubSeq(a, 1, Len(n) + 1) = a
  <2>1. a \in Seq(Range(a))
    BY <1>1 DEF IsSeq
  <2> QED
    BY <1>1, <2>1, SubSeqFull
<1>4. /\ rlevel(T, n) \in Nat
      /\ rlevel(T, a) = rlevel(T, n) + IF T[a].repeated THEN 1 ELSE 0
  <2> DEFINE R == {k \in 1 .. Len(n) : T[SubSeq(n, 1, k)].repeated}
             Q == {k \in 1 .. Len(a) : T[SubSeq(a, 1, k)].repeated}
  <2>1. R \subseteq 1 .. Len(n)
    OBVIOUS
  <2>2. \A k : k \in Q <=> (k \in R \/ (k = Len(n) + 1 /\ T[a].repeated))
    <3>1. SUFFICES ASSUME NEW k
                   PROVE  k \in Q <=> (k \in R \/ (k = Len(n) + 1 /\ T[a].repeated))
      OBVIOUS
    <3>2. CASE k \in 1 .. Len(n)
      <4>1. SubSeq(a, 1, k) = SubSeq(n, 1, k) /\ k \in 1 .. Len(a)
        BY <1>1, <1>2, <3>2
      <4>2. k # Len(n) + 1
        BY <1>1, <3>2
      <4> QED
        BY <3>2, <4>1, <4>2 DEF CanBeAbsent
    <3>3. CASE k = Len(n) + 1
      <4>1. k \in 1 .. Len(a) /\ k \notin 1 .. Len(n)
        BY <1>1, <3>3
      <4> QED
        BY <1>3, <3>3, <4>1 DEF CanBeAbsent
    <3>4. CASE k \notin 1 .. Len(n) /\ k # Len(n) + 1
      BY <1>1, <3>4
    <3> QED
      BY <3>2, <3>3, <3>4
  <2>3. /\ Cardinality(R) \in Nat
        /\ Cardinality(R \cup {Len(n) + 1}) = Cardinality(R) + 1
    BY <1>1, <2>1, CountStep
  <2>6. rlevel(T, n) = Cardinality(R) /\ rlevel(T, a) = Cardinality(Q)
    BY DEF rlevel
  <2> HIDE DEF Q, R
  <2>4. CASE T[a].repeated
    <3>1. Q = R \cup {Len(n) + 1}
      BY <2>2, <2>4
    <3> QED
      BY <2>3, <2>4, <2>6, <3>1
  <2>5. CASE ~ T[a].repeated
    <3>1. Q = R
      BY <2>2, <2>5
    <3> QED
      BY <2>3, <2>5, <2>6, <3>1
  <2> QED
    BY <2>4, <2>5
<1>5. /\ dlevel(T, n) \in Nat
      /\ dlevel(T, a) = dlevel(T, n) + IF CanBeAbsent(T[a]) THEN 1 ELSE 0
  <2> DEFINE R == {k \in 1 .. Len(n) : CanBeAbsent(T[SubSeq(n, 1, k)])}
             Q == {k \in 1 .. Len(a) : CanBeAbsent(T[SubSeq(a, 1, k)])}
  <2>1. R \subseteq 1 .. Len(n)
    OBVIOUS
  <2>2. \A k : k \in Q <=> (k \in R \/ (k = Len(n) + 1 /\ CanBeAbsent(T[a])))
    <3>1. SUFFICES ASSUME NEW k
                   PROVE  k \in Q <=> (k \in R \/ (k = Len(n) + 1 /\ CanBeAbsent(T[a])))
      OBVIOUS
    <3>2. CASE k \in 1 .. Len(n)
      <4>1. SubSeq(a, 1, k) = SubSeq(n, 1, k) /\ k \in 1 .. Len(a)
        BY <1>1, <1>2, <3>2
      <4>2. k # Len(n) + 1
        BY <1>1, <3>2
      <4> QED
        BY <3>2, <4>1, <4>2 DEF CanBeAbsent
    <3>3. CASE k = Len(n) + 1
      <4>1. k \in 1 .. Len(a) /\ k \notin 1 .. Len(n)
        BY <1>1, <3>3
      <4> QED
        BY <1>3, <3>3, <4>1 DEF CanBeAbsent
    <3>4. CASE k \notin 1 .. Len(n) /\ k # Len(n) + 1
      BY <1>1, <3>4
    <3> QED
      BY <3>2, <3>3, <3>4
  <2>3. /\ Cardinality(R) \in Nat
        /\ Cardinality(R \cup {Len(n) + 1}) = Cardinality(R) + 1
    BY <1>1, <2>1, CountStep
  <2>6. dlevel(T, n) = Cardinality(R) /\ dlevel(T, a) = Cardinality(Q)
    BY DEF dlevel
  <2> HIDE DEF Q, R
  <2>4. CASE CanBeAbsent(T[a])
    <3>1. Q = R \cup {Len(n) + 1}
      BY <2>2, <2>4
    <3> QED
      BY <2>3, <2>4, <2>6, <3>1
  <2>5. CASE ~ CanBeAbsent(T[a])
    <3>1. Q = R
      BY <2>2, <2>5
    <3> QED
      BY <2>3, <2>5, <2>6, <3>1
  <2> QED
    BY <2>4, <2>5
<1> QED
  BY <1>4, <1>5

\* The empty path has no levels.
LEMMA LevelsEmpty ==
  ASSUME NEW T
  PROVE  rlevel(T, <<>>) = 0 /\ dlevel(T, <<>>) = 0
<1>1. Len(<<>>) = 0
  BY EmptySeq
<1>2. 1 .. Len(<<>>) = {}
  BY <1>1
<1> QED
  BY <1>2, FS_EmptySet DEF rlevel, dlevel

----------------------------------------------------------------------------
(* Records in a column. *)

Count(es, n) == Cardinality({i \in 1 .. n : es[i].r = 0})

\* Each entry with level 0 is one more record.
LEMMA CountNext ==
  ASSUME NEW es, NEW n \in Nat
  PROVE  /\ Count(es, n) \in Nat
         /\ es[n + 1].r = 0 => Count(es, n + 1) = Count(es, n) + 1
         /\ es[n + 1].r # 0 => Count(es, n + 1) = Count(es, n)
         /\ Count(es, 0) = 0
<1> DEFINE R == {i \in 1 .. n : es[i].r = 0}
           Q == {i \in 1 .. n + 1 : es[i].r = 0}
<1>1. R \subseteq 1 .. n
  OBVIOUS
<1>2. Cardinality(R) \in Nat /\ Cardinality(R \cup {n + 1}) = Cardinality(R) + 1
  BY <1>1, CountStep
<1>3. es[n + 1].r = 0 => Q = R \cup {n + 1}
  OBVIOUS
<1>4. es[n + 1].r # 0 => Q = R
  OBVIOUS
<1>5. {i \in 1 .. 0 : es[i].r = 0} = {}
  OBVIOUS
<1> HIDE DEF R, Q
<1>6. Count(es, n) = Cardinality(R) /\ Count(es, n + 1) = Cardinality(Q)
  BY DEF Count, R, Q
<1>7. Count(es, 0) = 0
  BY <1>5, FS_EmptySet DEF Count
<1> QED
  BY <1>2, <1>3, <1>4, <1>6, <1>7

LEMMA CountIsRecordsIn ==
  ASSUME NEW es, IsSeq(es)
  PROVE  /\ RecordsIn(es) = Count(es, Len(es))
         /\ \A n \in 0 .. Len(es) : RecordsIn(SubSeq(es, 1, n)) = Count(es, n)
<1>1. Len(es) \in Nat /\ DOMAIN es = 1 .. Len(es)
  BY SeqProperties
<1>2. ASSUME NEW n \in 0 .. Len(es)
      PROVE  RecordsIn(SubSeq(es, 1, n)) = Count(es, n)
  <2>1. /\ IsSeq(SubSeq(es, 1, n)) /\ Len(SubSeq(es, 1, n)) = n
        /\ \A i \in 1 .. n : SubSeq(es, 1, n)[i] = es[i]
    BY PrefixIs
  <2>2. DOMAIN SubSeq(es, 1, n) = 1 .. n
    BY <2>1, SeqProperties
  <2>3. {i \in DOMAIN SubSeq(es, 1, n) : SubSeq(es, 1, n)[i].r = 0} =
          {i \in 1 .. n : es[i].r = 0}
    BY <2>1, <2>2
  <2> QED
    BY <2>3 DEF RecordsIn, Count
<1> QED
  BY <1>1, <1>2 DEF RecordsIn, Count

\* More entries, more records.
LEMMA CountGrows ==
  ASSUME NEW es, NEW n \in Nat, NEW m \in 0 .. n
  PROVE  Count(es, m) <= Count(es, n)
<1> DEFINE R == {i \in 1 .. m : es[i].r = 0}
           Q == {i \in 1 .. n : es[i].r = 0}
<1>1. IsFiniteSet(1 .. n)
  BY FS_Interval
<1>2. IsFiniteSet(Q)
  BY <1>1, FS_Subset
<1>3. R \subseteq Q
  OBVIOUS
<1>4. Cardinality(R) <= Cardinality(Q)
  BY <1>2, <1>3, FS_Subset
<1> QED
  BY <1>4 DEF Count

\* An entry that is appended.
LEMMA RecordsAppend ==
  ASSUME NEW es, IsSeq(es), NEW e
  PROVE  /\ RecordsIn(es) \in Nat
         /\ e.r = 0 => RecordsIn(Append(es, e)) = RecordsIn(es) + 1
         /\ e.r # 0 => RecordsIn(Append(es, e)) = RecordsIn(es)
<1> DEFINE fs == Append(es, e)
<1>1. /\ IsSeq(fs) /\ Len(fs) = Len(es) + 1 /\ Len(es) \in Nat
      /\ \A i \in 1 .. Len(es) : fs[i] = es[i]
      /\ fs[Len(es) + 1] = e
  BY AppendIs, SeqProperties
<1>2. Count(fs, Len(es)) = Count(es, Len(es))
  <2>1. {i \in 1 .. Len(es) : fs[i].r = 0} = {i \in 1 .. Len(es) : es[i].r = 0}
    BY <1>1
  <2> QED
    BY <2>1 DEF Count
<1>3. RecordsIn(fs) = Count(fs, Len(es) + 1) /\ RecordsIn(es) = Count(es, Len(es))
  BY <1>1, CountIsRecordsIn
<1>4. PICK n \in Nat : n = Len(es)
  BY <1>1
<1>5. /\ Count(fs, n) \in Nat
      /\ fs[n + 1].r = 0 => Count(fs, n + 1) = Count(fs, n) + 1
      /\ fs[n + 1].r # 0 => Count(fs, n + 1) = Count(fs, n)
  BY <1>4, CountNext
<1> QED
  BY <1>1, <1>2, <1>3, <1>4, <1>5

----------------------------------------------------------------------------
(* The inductive invariant: the calls still to be made.                    *)

\* What a call in the list carries: the levels it may write are those of its
\* field, F the message schema, T the table schema, m the message.
IsItem(T, F, m, x) ==
  /\ x.name \in DOMAIN T
  /\ x.name # <<>>
  /\ x.call \in {"field", "null", "cell"}
  /\ x.call = "field" =>
       /\ IsMessage(F, m)
       /\ IsSeq(x.at)
       /\ "i" \in DOMAIN x
       /\ x.i \in Nat \ {0}
       /\ x.r \in Nat
       /\ x.rmax = rlevel(T, Front(x.name))
       /\ x.d = dlevel(T, Front(x.name))
       /\ x.r <= x.rmax
       /\ x.i > 1 => /\ x.name \in DOMAIN F
                     /\ Append(x.at, x.i) \in DOMAIN m[x.name]
       /\ x.i > 1 /\ Strict => T[x.name].repeated
  /\ x.call = "null" =>
       /\ x.r \in Nat /\ x.d \in Nat
       /\ x.r <= rlevel(T, x.name)
       /\ x.d <= dlevel(T, x.name)
  /\ x.call = "cell" => x.name \in Leaves(T)

Covers(x, c) == IsPrefix(x.name, c)

\* The call will start a record in column c.
Owes(x, c) ==
  /\ Covers(x, c)
  /\ \/ x.call = "cell"
     \/ x.call = "null" /\ x.r = 0
     \/ x.call = "field" /\ x.r = 0 /\ x.i = 1

\* The first entry of a column starts a record, or is going to.
Starts(q, es, c) ==
  /\ es # <<>> => es[1].r = 0
  /\ \A k \in DOMAIN q :
       Covers(q[k], c) /\ ~ Owes(q[k], c) =>
         \/ es # <<>>
         \/ \E l \in 1 .. k - 1 : Owes(q[l], c)

\* A column has an entry for every row, and an entry for the row that is being
\* added or a call that writes it.
Enough(q, es, n, busy, c) ==
  /\ RecordsIn(es) >= n
  /\ busy => \/ RecordsIn(es) >= n + 1
             \/ \E k \in DOMAIN q : Owes(q[k], c)

\* It has one only, or one call for it.
Exact(q, es, n, busy, c) ==
  /\ ~ busy => RecordsIn(es) = n
  /\ busy => \/ /\ RecordsIn(es) = n + 1
                /\ \A k \in DOMAIN q : ~ Owes(q[k], c)
             \/ /\ RecordsIn(es) = n
                /\ \E k \in DOMAIN q :
                     /\ Owes(q[k], c)
                     /\ \A l \in DOMAIN q : Owes(q[l], c) => l = k

\* The levels are those of the column.
Fits(T, es, c) ==
  \A i \in DOMAIN es :
    /\ es[i].r <= rlevel(T, c)
    /\ es[i].d <= dlevel(T, c)

TypeInv ==
  /\ table \in DOMAIN Tables
  /\ DOMAIN cols = Leaves(schema)
  /\ \A c \in DOMAIN cols : IsSeq(cols[c])
  /\ num_rows_ \in Nat
  /\ nodes \in Nat
  /\ done \in Nat
  /\ failed \in BOOLEAN
  /\ IsSeq(todo)
  /\ adding = NoMessage => todo = <<>>
  /\ adding # NoMessage => columns_ = Closed

TodoInv == \A k \in DOMAIN todo : IsItem(schema, fields, adding, todo[k])

ColumnInv ==
  \A c \in DOMAIN cols :
    /\ Starts(todo, cols[c], c)
    /\ Fits(schema, cols[c], c)
    /\ Enough(todo, cols[c], num_rows_, adding # NoMessage, c)
    /\ Strict /\ ~ failed =>
         Exact(todo, cols[c], num_rows_, adding # NoMessage, c)

----------------------------------------------------------------------------
(* The columns while they are read. *)

\* The entries that have been used up.
Used(s) == IF s.pending THEN s.pos - 1 ELSE s.pos

\* s is the state of column c with the entries es: n records are used up, and
\* in the middle of one of them the next entry has been read.
ReadsTo(s, es, n, middle) ==
  /\ DOMAIN s = {"pos", "pending", "raised"}
  /\ s.pos \in 0 .. Len(es)
  /\ s.pending \in BOOLEAN
  /\ s.raised = FALSE
  /\ s.pending => s.pos >= 1 /\ (es[s.pos].r # 0 <=> middle)
  /\ ~ s.pending => ~ middle /\ (s.pos = 0 \/ s.pos = Len(es))
  /\ Count(es, Used(s)) = n

ReadInv ==
  /\ columns_ = Closed => done = 0
  /\ DOMAIN columns_ \subseteq DOMAIN cols
  /\ left \subseteq DOMAIN columns_
  /\ left # {} => done > 0
  /\ current # NoColumn => current \in DOMAIN columns_ \ left
  /\ done <= num_rows_
  /\ \A c \in DOMAIN columns_ :
       ReadsTo(columns_[c], cols[c], IF c \in left THEN done - 1 ELSE done,
               c = current)

Inv == TypeInv /\ TodoInv /\ ColumnInv /\ (Version = "v0_1_0" => ReadInv)

----------------------------------------------------------------------------
(* The first call makes way for those that it leads to.                    *)

\* q2 is q with the calls S in place of the first one.
Replaces(q2, q, S) ==
  /\ IsSeq(q2)
  /\ Len(q2) = Len(S) + (Len(q) - 1)
  /\ \A k \in 1 .. Len(S) : q2[k] = S[k]
  /\ \A k \in 2 .. Len(q) : q2[Len(S) + (k - 1)] = q[k]

LEMMA ReplacesHead ==
  ASSUME NEW q, IsSeq(q), q # <<>>, NEW S, IsSeq(S)
  PROVE  Replaces(S \o Tail(q), q, S)
<1>1. /\ IsSeq(Tail(q)) /\ Len(q) >= 1 /\ Len(Tail(q)) = Len(q) - 1
      /\ \A i \in 1 .. Len(q) - 1 : Tail(q)[i] = q[i + 1]
  BY TailIs
<1>2. /\ IsSeq(S \o Tail(q))
      /\ Len(S \o Tail(q)) = Len(S) + Len(Tail(q))
      /\ \A i \in 1 .. Len(S) : (S \o Tail(q))[i] = S[i]
      /\ \A i \in 1 .. Len(Tail(q)) : (S \o Tail(q))[Len(S) + i] = Tail(q)[i]
  BY <1>1, ConcatIs
<1>3. Len(q) \in Nat /\ Len(S) \in Nat
  BY SeqProperties
<1>4. ASSUME NEW k \in 2 .. Len(q)
      PROVE  (S \o Tail(q))[Len(S) + (k - 1)] = q[k]
  <2>1. PICK i \in 1 .. Len(q) - 1 : i = k - 1
    BY <1>3
  <2>2. i \in 1 .. Len(Tail(q)) /\ i + 1 = k
    BY <1>1, <1>3, <2>1
  <2> QED
    BY <1>1, <1>2, <2>1, <2>2
<1> QED
  BY <1>1, <1>2, <1>4 DEF Replaces

\* Where the elements of the new list come from.
LEMMA ReplacesParts ==
  ASSUME NEW q, IsSeq(q), q # <<>>, NEW S, IsSeq(S), NEW q2,
         Replaces(q2, q, S)
  PROVE  /\ Len(q) \in Nat /\ Len(q) >= 1 /\ Len(S) \in Nat
         /\ DOMAIN q = 1 .. Len(q) /\ DOMAIN S = 1 .. Len(S)
         /\ DOMAIN q2 = 1 .. Len(S) + (Len(q) - 1)
         /\ \A k \in DOMAIN S : k \in DOMAIN q2 /\ q2[k] = S[k]
         /\ \A k \in DOMAIN q \ {1} :
              Len(S) + (k - 1) \in DOMAIN q2 /\ q2[Len(S) + (k - 1)] = q[k]
         /\ \A j \in DOMAIN q2 : j \in DOMAIN S
              \/ \E k \in DOMAIN q \ {1} : j = Len(S) + (k - 1)
<1>1. Len(q) \in Nat /\ Len(q) >= 1 /\ Len(S) \in Nat
      /\ DOMAIN q = 1 .. Len(q) /\ DOMAIN S = 1 .. Len(S)
  BY SeqProperties, TailIs
<1>2. DOMAIN q2 = 1 .. Len(S) + (Len(q) - 1)
  BY SeqProperties DEF Replaces
<1>3. \A k \in DOMAIN S : k \in DOMAIN q2 /\ q2[k] = S[k]
  BY <1>1, <1>2 DEF Replaces
<1>4. \A k \in DOMAIN q \ {1} :
        Len(S) + (k - 1) \in DOMAIN q2 /\ q2[Len(S) + (k - 1)] = q[k]
  BY <1>1, <1>2 DEF Replaces
<1>5. ASSUME NEW j \in DOMAIN q2, j \notin DOMAIN S
      PROVE  \E k \in DOMAIN q \ {1} : j = Len(S) + (k - 1)
  <2>1. j \in Int /\ j > Len(S) /\ j <= Len(S) + (Len(q) - 1)
    BY <1>1, <1>2, <1>5
  <2>2. PICK k \in Int : k = j - Len(S) + 1
    BY <1>1, <2>1
  <2>3. k \in DOMAIN q \ {1} /\ j = Len(S) + (k - 1)
    BY <1>1, <2>1, <2>2
  <2> QED
    BY <2>3
<1> QED
  BY <1>1, <1>2, <1>3, <1>4, <1>5

\* The call x hands on to the calls S what it owes to column c.
Hands(x, S, c) ==
  /\ Owes(x, c) => \E k \in DOMAIN S : Owes(S[k], c)
  /\ \A k \in DOMAIN S : Covers(S[k], c) => Covers(x, c)
  /\ \A k \in DOMAIN S :
       Covers(S[k], c) /\ ~ Owes(S[k], c) /\ Owes(x, c) =>
         \E l \in 1 .. k - 1 : Owes(S[l], c)

\* To one of them, and only if it owes anything.
HandsOnce(x, S, c) ==
  /\ \A k, l \in DOMAIN S : Owes(S[k], c) /\ Owes(S[l], c) => k = l
  /\ \A k \in DOMAIN S : Owes(S[k], c) => Owes(x, c)

\* The call x writes the entry e to column c.
Writes(x, S, e, c) ==
  /\ Covers(x, c)
  /\ Owes(x, c) => e.r = 0
  /\ \A k \in DOMAIN S : ~ Owes(S[k], c)

LEMMA HandsStarts ==
  ASSUME NEW q, IsSeq(q), q # <<>>, NEW S, IsSeq(S), NEW q2,
         Replaces(q2, q, S), NEW es, NEW c,
         Starts(q, es, c), Hands(q[1], S, c)
  PROVE  Starts(q2, es, c)
<1>1. /\ Len(q) \in Nat /\ Len(q) >= 1 /\ Len(S) \in Nat
      /\ DOMAIN q = 1 .. Len(q) /\ DOMAIN S = 1 .. Len(S)
      /\ DOMAIN q2 = 1 .. Len(S) + (Len(q) - 1)
      /\ \A k \in DOMAIN S : k \in DOMAIN q2 /\ q2[k] = S[k]
      /\ \A k \in DOMAIN q \ {1} :
           Len(S) + (k - 1) \in DOMAIN q2 /\ q2[Len(S) + (k - 1)] = q[k]
      /\ \A j \in DOMAIN q2 : j \in DOMAIN S
           \/ \E k \in DOMAIN q \ {1} : j = Len(S) + (k - 1)
  BY ReplacesParts
<1>2. SUFFICES ASSUME NEW j \in DOMAIN q2, Covers(q2[j], c),
                      ~ Owes(q2[j], c), es = <<>>
               PROVE  \E l \in 1 .. j - 1 : Owes(q2[l], c)
  BY DEF Starts
<1>3. CASE j \in DOMAIN S
  <2>1. Covers(S[j], c) /\ ~ Owes(S[j], c)
    BY <1>1, <1>2, <1>3
  <2>2. Covers(q[1], c)
    BY <1>3, <2>1 DEF Hands
  <2>3. Owes(q[1], c)
    <3>1. 1 \in DOMAIN q /\ 1 .. 1 - 1 = {}
      BY <1>1
    <3> QED
      BY <1>2, <2>2, <3>1 DEF Starts
  <2>4. PICK l \in 1 .. j - 1 : Owes(S[l], c)
    BY <1>3, <2>1, <2>3 DEF Hands
  <2>5. l \in DOMAIN S
    BY <1>1, <1>3
  <2> QED
    BY <1>1, <2>4, <2>5
<1>4. ASSUME NEW k \in DOMAIN q \ {1}, j = Len(S) + (k - 1)
      PROVE  \E l \in 1 .. j - 1 : Owes(q2[l], c)
  <2>1. Covers(q[k], c) /\ ~ Owes(q[k], c)
    BY <1>1, <1>2, <1>4
  <2>2. PICK l \in 1 .. k - 1 : Owes(q[l], c)
    BY <1>2, <2>1 DEF Starts
  <2>3. CASE l = 1
    <3>1. PICK i \in DOMAIN S : Owes(S[i], c)
      BY <2>2, <2>3 DEF Hands
    <3>2. i \in 1 .. j - 1 /\ Owes(q2[i], c)
      BY <1>1, <1>4, <3>1
    <3> QED
      BY <3>2
  <2>4. CASE l # 1
    <3>1. l \in DOMAIN q \ {1}
      BY <1>1, <2>4
    <3>2. Owes(q2[Len(S) + (l - 1)], c)
      BY <1>1, <2>2, <3>1
    <3>3. Len(S) + (l - 1) \in 1 .. j - 1
      BY <1>1, <1>4, <2>4
    <3> QED
      BY <3>2, <3>3
  <2> QED
    BY <2>3, <2>4
<1> QED
  BY <1>1, <1>3, <1>4

LEMMA HandsEnough ==
  ASSUME NEW q, IsSeq(q), q # <<>>, NEW S, IsSeq(S), NEW q2,
         Replaces(q2, q, S), NEW es, NEW c, NEW n,
         Enough(q, es, n, TRUE, c), Hands(q[1], S, c)
  PROVE  Enough(q2, es, n, TRUE, c)
<1>1. /\ DOMAIN q = 1 .. Len(q) /\ DOMAIN S = 1 .. Len(S)
      /\ \A k \in DOMAIN S : k \in DOMAIN q2 /\ q2[k] = S[k]
      /\ \A k \in DOMAIN q \ {1} :
           Len(S) + (k - 1) \in DOMAIN q2 /\ q2[Len(S) + (k - 1)] = q[k]
  BY ReplacesParts
<1>2. SUFFICES ASSUME NEW k \in DOMAIN q, Owes(q[k], c)
               PROVE  \E j \in DOMAIN q2 : Owes(q2[j], c)
  BY DEF Enough
<1>3. CASE k = 1
  <2>1. PICK i \in DOMAIN S : Owes(S[i], c)
    BY <1>2, <1>3 DEF Hands
  <2> QED
    BY <1>1, <2>1
<1>4. CASE k # 1
  BY <1>1, <1>2, <1>4
<1> QED
  BY <1>3, <1>4

LEMMA HandsExact ==
  ASSUME NEW q, IsSeq(q), q # <<>>, NEW S, IsSeq(S), NEW q2,
         Replaces(q2, q, S), NEW es, NEW c, NEW n,
         Exact(q, es, n, TRUE, c), Hands(q[1], S, c), HandsOnce(q[1], S, c)
  PROVE  Exact(q2, es, n, TRUE, c)
<1>1. /\ Len(q) \in Nat /\ Len(q) >= 1 /\ Len(S) \in Nat
      /\ DOMAIN q = 1 .. Len(q) /\ DOMAIN S = 1 .. Len(S)
      /\ \A k \in DOMAIN S : k \in DOMAIN q2 /\ q2[k] = S[k]
      /\ \A k \in DOMAIN q \ {1} :
           Len(S) + (k - 1) \in DOMAIN q2 /\ q2[Len(S) + (k - 1)] = q[k]
      /\ \A j \in DOMAIN q2 : j \in DOMAIN S
           \/ \E k \in DOMAIN q \ {1} : j = Len(S) + (k - 1)
  BY ReplacesParts
<1>2. 1 \in DOMAIN q
  BY <1>1
<1>3. CASE RecordsIn(es) = n + 1 /\ \A k \in DOMAIN q : ~ Owes(q[k], c)
  <2>1. ASSUME NEW j \in DOMAIN q2, Owes(q2[j], c) PROVE FALSE
    <3>1. CASE j \in DOMAIN S
      BY <1>1, <1>2, <1>3, <2>1, <3>1 DEF HandsOnce
    <3>2. ASSUME NEW k \in DOMAIN q \ {1}, j = Len(S) + (k - 1) PROVE FALSE
      BY <1>1, <1>3, <2>1, <3>2
    <3> QED
      BY <1>1, <3>1, <3>2
  <2> QED
    BY <1>3, <2>1 DEF Exact
<1>4. ASSUME RecordsIn(es) = n, NEW k \in DOMAIN q, Owes(q[k], c),
             \A l \in DOMAIN q : Owes(q[l], c) => l = k
      PROVE  Exact(q2, es, n, TRUE, c)
  <2>1. SUFFICES \E j \in DOMAIN q2 :
                   /\ Owes(q2[j], c)
                   /\ \A l \in DOMAIN q2 : Owes(q2[l], c) => l = j
    BY <1>4 DEF Exact
  <2>2. CASE k = 1
    <3>1. PICK i \in DOMAIN S : Owes(S[i], c)
      BY <1>4, <2>2 DEF Hands
    <3>2. ASSUME NEW l \in DOMAIN q2, Owes(q2[l], c) PROVE l = i
      <4>1. CASE l \in DOMAIN S
        BY <1>1, <3>1, <3>2, <4>1 DEF HandsOnce
      <4>2. ASSUME NEW m \in DOMAIN q \ {1}, l = Len(S) + (m - 1) PROVE FALSE
        BY <1>1, <1>4, <2>2, <3>2, <4>2
      <4> QED
        BY <1>1, <4>1, <4>2
    <3> QED
      BY <1>1, <3>1, <3>2
  <2>3. CASE k # 1
    <3>1. ~ Owes(q[1], c)
      BY <1>2, <1>4, <2>3
    <3>2. PICK i \in DOMAIN q2 : i = Len(S) + (k - 1) /\ Owes(q2[i], c)
      BY <1>1, <1>4, <2>3
    <3>3. ASSUME NEW l \in DOMAIN q2, Owes(q2[l], c) PROVE l = i
      <4>1. CASE l \in DOMAIN S
        BY <1>1, <3>1, <3>3, <4>1 DEF HandsOnce
      <4>2. ASSUME NEW m \in DOMAIN q \ {1}, l = Len(S) + (m - 1) PROVE m = k
        BY <1>1, <1>4, <3>3, <4>2
      <4> QED
        BY <1>1, <3>2, <4>1, <4>2
    <3> QED
      BY <3>2, <3>3
  <2> QED
    BY <2>2, <2>3
<1> QED
  BY <1>3, <1>4 DEF Exact

LEMMA WritesStarts ==
  ASSUME NEW q, IsSeq(q), q # <<>>, NEW S, IsSeq(S), NEW q2,
         NEW es, IsSeq(es), NEW c, NEW e,
         Starts(q, es, c), Writes(q[1], S, e, c)
  PROVE  Starts(q2, Append(es, e), c)
<1>1. /\ Len(es) \in Nat /\ Append(es, e) # <<>>
      /\ \A i \in 1 .. Len(es) : Append(es, e)[i] = es[i]
      /\ Append(es, e)[Len(es) + 1] = e
  BY AppendIs, SeqProperties
<1>2. Append(es, e)[1].r = 0
  <2>1. CASE es = <<>>
    <3>1. Len(es) = 0 /\ 1 \in DOMAIN q /\ 1 .. 1 - 1 = {}
      BY <2>1, EmptySeq, SeqProperties, TailIs
    <3>2. Owes(q[1], c)
      BY <2>1, <3>1 DEF Starts, Writes
    <3> QED
      BY <1>1, <3>1, <3>2 DEF Writes
  <2>2. CASE es # <<>>
    <3>1. 1 \in 1 .. Len(es)
      BY <1>1, <2>2, TailIs
    <3> QED
      BY <1>1, <2>2, <3>1 DEF Starts
  <2> QED
    BY <2>1, <2>2
<1> QED
  BY <1>1, <1>2 DEF Starts

LEMMA WritesEnough ==
  ASSUME NEW q, IsSeq(q), q # <<>>, NEW S, IsSeq(S), NEW q2,
         Replaces(q2, q, S), NEW es, IsSeq(es), NEW c, NEW n \in Nat, NEW e,
         Enough(q, es, n, TRUE, c), Writes(q[1], S, e, c)
  PROVE  Enough(q2, Append(es, e), n, TRUE, c)
<1>1. /\ DOMAIN q = 1 .. Len(q) /\ DOMAIN S = 1 .. Len(S)
      /\ \A k \in DOMAIN q \ {1} :
           Len(S) + (k - 1) \in DOMAIN q2 /\ q2[Len(S) + (k - 1)] = q[k]
  BY ReplacesParts
<1>2. /\ RecordsIn(es) \in Nat
      /\ e.r = 0 => RecordsIn(Append(es, e)) = RecordsIn(es) + 1
      /\ e.r # 0 => RecordsIn(Append(es, e)) = RecordsIn(es)
  BY RecordsAppend
<1>3. RecordsIn(Append(es, e)) \in Nat
      /\ RecordsIn(Append(es, e)) >= RecordsIn(es)
  BY <1>2
<1>4. CASE RecordsIn(es) >= n + 1
  BY <1>2, <1>3, <1>4 DEF Enough
<1>5. ASSUME NEW k \in DOMAIN q, Owes(q[k], c), RecordsIn(es) >= n
      PROVE  Enough(q2, Append(es, e), n, TRUE, c)
  <2>1. CASE k = 1
    <3>1. RecordsIn(Append(es, e)) >= n + 1
      BY <1>2, <1>5, <2>1 DEF Writes
    <3> QED
      BY <1>3, <3>1 DEF Enough
  <2>2. CASE k # 1
    <3>1. \E j \in DOMAIN q2 : Owes(q2[j], c)
      BY <1>1, <1>5, <2>2
    <3>2. RecordsIn(Append(es, e)) >= n
      BY <1>2, <1>3, <1>5
    <3> QED
      BY <3>1, <3>2 DEF Enough
  <2> QED
    BY <2>1, <2>2
<1> QED
  BY <1>4, <1>5 DEF Enough

LEMMA WritesExact ==
  ASSUME NEW q, IsSeq(q), q # <<>>, NEW S, IsSeq(S), NEW q2,
         Replaces(q2, q, S), NEW es, IsSeq(es), NEW c, NEW n \in Nat, NEW e,
         Exact(q, es, n, TRUE, c), Writes(q[1], S, e, c),
         e.r = 0 => Owes(q[1], c)
  PROVE  Exact(q2, Append(es, e), n, TRUE, c)
<1>1. /\ Len(q) \in Nat /\ Len(q) >= 1 /\ Len(S) \in Nat
      /\ DOMAIN q = 1 .. Len(q) /\ DOMAIN S = 1 .. Len(S)
      /\ \A k \in DOMAIN S : k \in DOMAIN q2 /\ q2[k] = S[k]
      /\ \A k \in DOMAIN q \ {1} :
           Len(S) + (k - 1) \in DOMAIN q2 /\ q2[Len(S) + (k - 1)] = q[k]
      /\ \A j \in DOMAIN q2 : j \in DOMAIN S
           \/ \E k \in DOMAIN q \ {1} : j = Len(S) + (k - 1)
  BY ReplacesParts
<1>2. /\ RecordsIn(es) \in Nat
      /\ e.r = 0 => RecordsIn(Append(es, e)) = RecordsIn(es) + 1
      /\ e.r # 0 => RecordsIn(Append(es, e)) = RecordsIn(es)
  BY RecordsAppend
<1>3. 1 \in DOMAIN q
  BY <1>1
<1>4. \A j \in DOMAIN q2 : Owes(q2[j], c) =>
        \E k \in DOMAIN q \ {1} : j = Len(S) + (k - 1) /\ Owes(q[k], c)
  BY <1>1 DEF Writes
<1>5. CASE RecordsIn(es) = n + 1 /\ \A k \in DOMAIN q : ~ Owes(q[k], c)
  <2>1. e.r # 0
    BY <1>3, <1>5
  <2>2. RecordsIn(Append(es, e)) = n + 1
    BY <1>2, <1>5, <2>1
  <2>3. \A j \in DOMAIN q2 : ~ Owes(q2[j], c)
    BY <1>4, <1>5
  <2> QED
    BY <2>2, <2>3 DEF Exact
<1>6. ASSUME RecordsIn(es) = n, NEW k \in DOMAIN q, Owes(q[k], c),
             \A l \in DOMAIN q : Owes(q[l], c) => l = k
      PROVE  Exact(q2, Append(es, e), n, TRUE, c)
  <2>1. CASE k = 1
    <3>1. RecordsIn(Append(es, e)) = n + 1
      BY <1>2, <1>6, <2>1 DEF Writes
    <3>2. \A j \in DOMAIN q2 : ~ Owes(q2[j], c)
      BY <1>4, <1>6, <2>1
    <3> QED
      BY <3>1, <3>2 DEF Exact
  <2>2. CASE k # 1
    <3>1. ~ Owes(q[1], c)
      BY <1>3, <1>6, <2>2
    <3>2. RecordsIn(Append(es, e)) = n
      BY <1>2, <1>6, <3>1
    <3>3. PICK i \in DOMAIN q2 : i = Len(S) + (k - 1) /\ Owes(q2[i], c)
      BY <1>1, <1>6, <2>2
    <3>4. ASSUME NEW l \in DOMAIN q2, Owes(q2[l], c) PROVE l = i
      <4>1. PICK m \in DOMAIN q \ {1} : l = Len(S) + (m - 1) /\ Owes(q[m], c)
        BY <1>4, <3>4
      <4> QED
        BY <1>6, <3>3, <4>1
    <3> QED
      BY <3>2, <3>3, <3>4 DEF Exact
  <2> QED
    BY <2>1, <2>2
<1> QED
  BY <1>5, <1>6 DEF Exact

----------------------------------------------------------------------------
(* What each kind of call leads to.                                        *)

\* A column is below one field of an object at most, and below one of them
\* when it is below the object.
LEMMA OneChild ==
  ASSUME NEW T, IsTree(T), NEW n \in DOMAIN T, IsObject(T[n]),
         NEW c \in Leaves(T),
         NEW A, DOMAIN A = DOMAIN T[n].sub,
         \A j \in DOMAIN A : A[j].name = Append(n, T[n].sub[j])
  PROVE  /\ \A j \in DOMAIN A : Covers(A[j], c) => IsPrefix(n, c)
         /\ \A j, l \in DOMAIN A : Covers(A[j], c) /\ Covers(A[l], c) => j = l
         /\ IsPrefix(n, c) => \E j \in DOMAIN A : Covers(A[j], c)
<1>1. c \in DOMAIN T /\ c # n
  BY DEF Leaves
<1>2. IsSeq(n) /\ IsSeq(c)
  BY <1>1, TreeNode
<1>3. ASSUME NEW j \in DOMAIN A, Covers(A[j], c)
      PROVE  IsPrefix(n, c) /\ c[Len(n) + 1] = T[n].sub[j]
  <2>1. IsPrefix(Append(n, T[n].sub[j]), c)
    BY <1>3 DEF Covers
  <2> QED
    BY <1>2, <2>1, BelowOne
<1>4. ASSUME NEW j \in DOMAIN A, NEW l \in DOMAIN A,
             Covers(A[j], c), Covers(A[l], c)
      PROVE  j = l
  <2>1. T[n].sub[j] = T[n].sub[l]
    BY <1>3, <1>4
  <2> QED
    BY <2>1 DEF IsTree
<1>5. ASSUME IsPrefix(n, c)
      PROVE  \E j \in DOMAIN A : Covers(A[j], c)
  <2>1. PICK i \in DOMAIN T[n].sub : IsPrefix(Append(n, T[n].sub[i]), c)
    BY <1>1, <1>5, TreeBelow
  <2> QED
    BY <2>1 DEF Covers
<1> QED
  BY <1>3, <1>4, <1>5

\* The columns below a leaf are the leaf.
LEMMA LeafCovers ==
  ASSUME NEW T, IsTree(T), NEW n \in Leaves(T), NEW c \in Leaves(T)
  PROVE  IsPrefix(n, c) <=> n = c
<1>1. n \in DOMAIN T /\ c \in DOMAIN T /\ ~ IsObject(T[n])
  BY DEF Leaves
<1>2. IsSeq(c)
  BY <1>1, TreeNode
<1>3. ASSUME IsPrefix(n, c), n # c PROVE FALSE
  <2>1. PICK i \in DOMAIN T[n].sub : IsPrefix(Append(n, T[n].sub[i]), c)
    BY <1>1, <1>3, TreeBelow
  <2> QED
    BY <1>1, <2>1, TreeChild
<1> QED
  BY <1>2, <1>3, PrefixOfItself

\* The level of child i of a field is at most that of the field, and under a
\* message that adheres to its schema it is 0 for the first child only.
LEMMA ItemLevels ==
  ASSUME NEW T, IsTree(T), NEW F, NEW m, NEW x, IsItem(T, F, m, x),
         x.call = "field",
         NEW rm, rm = IF T[x.name].repeated THEN x.rmax + 1 ELSE x.rmax,
         NEW r2, r2 = IF x.i = 1 THEN x.r ELSE rm
  PROVE  /\ rm = rlevel(T, x.name) /\ rm \in Nat
         /\ r2 \in Nat /\ r2 <= rm
         /\ x.r <= rm
         /\ x.d \in Nat /\ dlevel(T, x.name) \in Nat
         /\ x.d <= dlevel(T, x.name)
         /\ CanBeAbsent(T[x.name]) => x.d + 1 = dlevel(T, x.name)
         /\ ~ CanBeAbsent(T[x.name]) => x.d = dlevel(T, x.name)
         /\ Strict /\ r2 = 0 => x.r = 0 /\ x.i = 1
<1>1. /\ x.name \in DOMAIN T /\ x.name # <<>>
      /\ x.i \in Nat \ {0} /\ x.r \in Nat /\ x.r <= x.rmax
      /\ x.rmax = rlevel(T, Front(x.name)) /\ x.d = dlevel(T, Front(x.name))
      /\ x.i > 1 /\ Strict => T[x.name].repeated
  BY DEF IsItem
<1>2. /\ IsSeq(x.name) /\ T[x.name].repeated \in BOOLEAN
      /\ CanBeAbsent(T[x.name]) \in BOOLEAN
  BY <1>1, TreeNode
<1>3. /\ Append(Front(x.name), Last(x.name)) = x.name
      /\ Len(x.name) \in Nat \ {0}
  BY <1>1, <1>2, AppendFront
<1>4. Front(x.name) \in DOMAIN T
  <2>1. Len(x.name) - 1 \in 0 .. Len(x.name) - 1
    BY <1>3
  <2>2. \A k \in 0 .. Len(x.name) - 1 : SubSeq(x.name, 1, k) \in DOMAIN T
    BY <1>1 DEF IsTree
  <2>3. SubSeq(x.name, 1, Len(x.name) - 1) \in DOMAIN T
    BY <2>1, <2>2
  <2> QED
    BY <2>3 DEF Front
<1>5. PICK f \in DOMAIN T : f = Front(x.name)
  BY <1>4
<1>6. PICK u : u = Last(x.name)
  OBVIOUS
<1>7. Append(f, u) = x.name /\ Append(f, u) \in DOMAIN T
  BY <1>1, <1>3, <1>5, <1>6
<1>8. /\ rlevel(T, f) \in Nat
      /\ dlevel(T, f) \in Nat
      /\ rlevel(T, Append(f, u)) =
           rlevel(T, f) + IF T[Append(f, u)].repeated THEN 1 ELSE 0
      /\ dlevel(T, Append(f, u)) =
           dlevel(T, f) + IF CanBeAbsent(T[Append(f, u)]) THEN 1 ELSE 0
  BY <1>7, LevelsAppend
<1>9. /\ x.rmax \in Nat /\ x.d \in Nat
      /\ rlevel(T, x.name) = x.rmax + IF T[x.name].repeated THEN 1 ELSE 0
      /\ dlevel(T, x.name) = x.d + IF CanBeAbsent(T[x.name]) THEN 1 ELSE 0
  BY <1>1, <1>5, <1>7, <1>8
<1>10. rm = rlevel(T, x.name) /\ rm \in Nat
  BY <1>2, <1>9
<1>11. r2 \in Nat /\ r2 <= rm /\ x.r <= rm
  BY <1>1, <1>9, <1>10
<1>12. dlevel(T, x.name) \in Nat /\ x.d <= dlevel(T, x.name)
  BY <1>2, <1>9
<1>13. Strict /\ r2 = 0 => x.r = 0 /\ x.i = 1
  BY <1>1, <1>9
<1> QED
  BY <1>2, <1>9, <1>10, <1>11, <1>12, <1>13

\* A call that hands nothing on to a column it has nothing to do with.
LEMMA HandsNothing ==
  ASSUME NEW x, NEW S, NEW c, ~ Covers(x, c),
         \A k \in DOMAIN S : S[k].name = x.name
  PROVE  Hands(x, S, c) /\ HandsOnce(x, S, c)
BY DEF Hands, HandsOnce, Owes, Covers

\* The children of an object, and the next one of its field.
LEMMA ObjectHands ==
  ASSUME NEW T, IsTree(T), NEW F, NEW m, NEW x, IsItem(T, F, m, x),
         x.call = "field", IsObject(T[x.name]), NEW c \in Leaves(T),
         NEW rm, rm = IF T[x.name].repeated THEN x.rmax + 1 ELSE x.rmax,
         NEW r2, r2 = IF x.i = 1 THEN x.r ELSE rm,
         NEW A, IsSeq(A), DOMAIN A = DOMAIN T[x.name].sub,
         \A j \in DOMAIN A : /\ A[j].name = Append(x.name, T[x.name].sub[j])
                             /\ A[j].call = "field"
                             /\ A[j].i = 1
                             /\ A[j].r = r2,
         NEW B, IsSeq(B), Len(B) <= 1,
         \A k \in DOMAIN B : /\ B[k].name = x.name
                             /\ B[k].call = "field"
                             /\ B[k].i = x.i + 1
  PROVE  /\ Hands(x, A \o B, c)
         /\ Strict => HandsOnce(x, A \o B, c)
<1>1. x.name \in DOMAIN T /\ x.i \in Nat \ {0}
  BY DEF IsItem
<1>2. /\ \A j \in DOMAIN A : Covers(A[j], c) => IsPrefix(x.name, c)
      /\ \A j, l \in DOMAIN A : Covers(A[j], c) /\ Covers(A[l], c) => j = l
      /\ IsPrefix(x.name, c) => \E j \in DOMAIN A : Covers(A[j], c)
  BY <1>1, OneChild
<1>3. Strict /\ r2 = 0 => x.r = 0 /\ x.i = 1
  BY ItemLevels
<1>4. \A j \in DOMAIN A : Owes(A[j], c) <=> Covers(A[j], c) /\ r2 = 0
  BY DEF Owes
<1>5. \A k \in DOMAIN B : ~ Owes(B[k], c)
  BY <1>1 DEF Owes
<1>6. Owes(x, c) <=> IsPrefix(x.name, c) /\ x.r = 0 /\ x.i = 1
  BY DEF Owes, Covers
<1> DEFINE S == A \o B
<1>7. /\ Len(A) \in Nat /\ Len(B) \in Nat
      /\ DOMAIN A = 1 .. Len(A) /\ DOMAIN B = 1 .. Len(B)
      /\ IsSeq(S) /\ Len(S) = Len(A) + Len(B) /\ DOMAIN S = 1 .. Len(S)
      /\ \A i \in 1 .. Len(A) : S[i] = A[i]
      /\ \A i \in 1 .. Len(B) : S[Len(A) + i] = B[i]
  BY ConcatIs, SeqProperties
<1> HIDE DEF S
<1>8. \A k \in DOMAIN S : \/ k \in DOMAIN A /\ S[k] = A[k]
                          \/ k = Len(A) + 1 /\ 1 \in DOMAIN B /\ S[k] = B[1]
  BY <1>7
<1>9. \A j \in DOMAIN A : j \in DOMAIN S /\ S[j] = A[j]
  BY <1>7
<1>10. Owes(x, c) => \E k \in DOMAIN A : Owes(A[k], c)
  BY <1>2, <1>4, <1>6
<1>11. ASSUME NEW k \in DOMAIN S, Covers(S[k], c)
       PROVE  Covers(x, c)
  BY <1>2, <1>8, <1>11 DEF Covers
<1>12. ASSUME NEW k \in DOMAIN S, Covers(S[k], c), ~ Owes(S[k], c), Owes(x, c)
       PROVE  \E l \in 1 .. k - 1 : Owes(S[l], c)
  <2>1. CASE k \in DOMAIN A /\ S[k] = A[k]
    BY <1>4, <1>6, <1>12, <2>1
  <2>2. CASE k = Len(A) + 1
    <3>1. PICK l \in DOMAIN A : Owes(A[l], c)
      BY <1>10, <1>12
    <3> QED
      BY <1>7, <1>9, <2>2, <3>1
  <2> QED
    BY <1>8, <1>12, <2>1, <2>2
<1>13. Hands(x, S, c)
  BY <1>9, <1>10, <1>11, <1>12 DEF Hands
<1>14. ASSUME Strict PROVE HandsOnce(x, S, c)
  <2>1. \A k \in DOMAIN S : Owes(S[k], c) => k \in DOMAIN A /\ Owes(A[k], c)
    BY <1>5, <1>8
  <2>2. \A k, l \in DOMAIN S : Owes(S[k], c) /\ Owes(S[l], c) => k = l
    BY <1>2, <1>4, <2>1
  <2>3. \A k \in DOMAIN S : Owes(S[k], c) => Owes(x, c)
    BY <1>2, <1>3, <1>4, <1>6, <1>14, <2>1
  <2> QED
    BY <2>2, <2>3 DEF HandsOnce
<1> QED
  BY <1>13, <1>14 DEF S

\* The nulls below an absent object.
LEMMA NullHands ==
  ASSUME NEW T, IsTree(T), NEW x, x.name \in DOMAIN T,
         x.call = "null", IsObject(T[x.name]), NEW c \in Leaves(T),
         NEW A, DOMAIN A = DOMAIN T[x.name].sub,
         \A j \in DOMAIN A : /\ A[j].name = Append(x.name, T[x.name].sub[j])
                             /\ A[j].call = "null"
                             /\ A[j].r = x.r
  PROVE  Hands(x, A, c) /\ HandsOnce(x, A, c)
<1>1. /\ \A j \in DOMAIN A : Covers(A[j], c) => IsPrefix(x.name, c)
      /\ \A j, l \in DOMAIN A : Covers(A[j], c) /\ Covers(A[l], c) => j = l
      /\ IsPrefix(x.name, c) => \E j \in DOMAIN A : Covers(A[j], c)
  BY OneChild
<1>2. \A j \in DOMAIN A : Owes(A[j], c) <=> Covers(A[j], c) /\ x.r = 0
  BY DEF Owes
<1>3. Owes(x, c) <=> IsPrefix(x.name, c) /\ x.r = 0
  BY DEF Owes, Covers
<1>4. Hands(x, A, c)
  BY <1>1, <1>2, <1>3 DEF Hands, Covers
<1>5. HandsOnce(x, A, c)
  BY <1>1, <1>2, <1>3 DEF HandsOnce
<1> QED
  BY <1>4, <1>5

\* The null in place of the first child.
LEMMA AbsentHands ==
  ASSUME NEW x, x.call = "field", x.i = 1, NEW c,
         NEW y, y.call = "null", y.name = x.name, y.r = x.r
  PROVE  Hands(x, <<y>>, c) /\ HandsOnce(x, <<y>>, c)
<1>1. DOMAIN <<y>> = {1} /\ <<y>>[1] = y
  OBVIOUS
<1>2. (Owes(x, c) <=> Owes(y, c)) /\ (Covers(x, c) <=> Covers(y, c))
  BY DEF Owes, Covers
<1> QED
  BY <1>1, <1>2 DEF Hands, HandsOnce

----------------------------------------------------------------------------
(* The steps of the shredder.                                              *)

LEMMA TableTrees ==
  ASSUME table \in DOMAIN Tables
  PROVE  /\ IsTree(schema) /\ IsTree(fields) /\ Agree(fields, schema)
         /\ DOMAIN configs = Leaves(schema)
         /\ \A c \in Leaves(schema) :
              /\ configs[c].rlevel_max = rlevel(schema, c)
              /\ configs[c].dlevel_max = dlevel(schema, c)
BY RecordsAssumption DEF schema, fields, configs, Configs, flatColumns

LEMMA EmptyIs ==
  /\ IsSeq(<<>>) /\ Len(<<>>) = 0 /\ DOMAIN <<>> = {}
  /\ RecordsIn(<<>>) = 0
<1>1. Len(<<>>) = 0 /\ IsSeq(<<>>)
  BY EmptySeq, SeqIsSeq
<1>2. DOMAIN <<>> = {}
  BY <1>1, SeqProperties
<1>3. {i \in DOMAIN <<>> : <<>>[i].r = 0} = {}
  BY <1>2
<1> QED
  BY <1>1, <1>2, <1>3, FS_EmptySet DEF RecordsIn

\* The steps that make one call do not touch what the others see.
ShredStep ==
  UNCHANGED <<table, num_rows_, nodes, failed, adding, columns_, left, current,
              done>>

\* What a step does to a column.
ColumnStep(S, c) ==
  \/ /\ cols'[c] = cols[c]
     /\ Hands(todo[1], S, c)
     /\ Strict => HandsOnce(todo[1], S, c)
  \/ \E e : /\ cols'[c] = Append(cols[c], e)
            /\ Writes(todo[1], S, e, c)
            /\ Strict => (e.r = 0 => Owes(todo[1], c))
            /\ e.r <= rlevel(schema, c)
            /\ e.d <= dlevel(schema, c)

\* A step that makes the first call and keeps to ColumnStep keeps the invariant.
LEMMA ShredKeepsInv ==
  ASSUME Inv, ShredStep, adding # NoMessage, todo # <<>>,
         NEW S, IsSeq(S), todo' = S \o Tail(todo),
         \A k \in DOMAIN S : IsItem(schema, fields, adding, S[k]),
         DOMAIN cols' = DOMAIN cols,
         \A c \in DOMAIN cols : ColumnStep(S, c)
  PROVE  Inv'
<1>1. IsSeq(todo) /\ TypeInv /\ TodoInv /\ ColumnInv
  BY DEF Inv, TypeInv
<1>2. schema' = schema /\ fields' = fields
  BY DEF ShredStep, schema, fields
<1>3. Replaces(todo', todo, S)
  BY <1>1, ReplacesHead
<1>4. /\ \A k \in DOMAIN S : k \in DOMAIN todo' /\ todo'[k] = S[k]
      /\ \A k \in DOMAIN todo \ {1} :
           /\ Len(S) + (k - 1) \in DOMAIN todo'
           /\ todo'[Len(S) + (k - 1)] = todo[k]
      /\ \A j \in DOMAIN todo' : j \in DOMAIN S
           \/ \E k \in DOMAIN todo \ {1} : j = Len(S) + (k - 1)
  <2>1. PICK q : q = todo
    OBVIOUS
  <2>2. PICK q2 : q2 = todo'
    OBVIOUS
  <2>3. IsSeq(q) /\ q # <<>> /\ Replaces(q2, q, S)
    BY <1>1, <1>3, <2>1, <2>2
  <2>4. /\ \A k \in DOMAIN S : k \in DOMAIN q2 /\ q2[k] = S[k]
        /\ \A k \in DOMAIN q \ {1} :
             Len(S) + (k - 1) \in DOMAIN q2 /\ q2[Len(S) + (k - 1)] = q[k]
        /\ \A j \in DOMAIN q2 : j \in DOMAIN S
             \/ \E k \in DOMAIN q \ {1} : j = Len(S) + (k - 1)
    BY <2>3, ReplacesParts
  <2> QED
    BY <2>1, <2>2, <2>4
<1>5. TodoInv'
  <2>1. SUFFICES ASSUME NEW j \in DOMAIN todo'
                 PROVE  IsItem(schema, fields, adding, todo'[j])
    BY <1>2 DEF TodoInv, ShredStep
  <2>2. CASE j \in DOMAIN S
    BY <1>4, <2>2
  <2>3. ASSUME NEW k \in DOMAIN todo \ {1}, j = Len(S) + (k - 1)
        PROVE  IsItem(schema, fields, adding, todo'[j])
    BY <1>1, <1>4, <2>3 DEF TodoInv
  <2> QED
    BY <1>4, <2>2, <2>3
<1>6. \A c \in DOMAIN cols :
        /\ IsSeq(cols'[c])
        /\ Starts(todo', cols'[c], c)
        /\ Fits(schema, cols'[c], c)
        /\ Enough(todo', cols'[c], num_rows_, TRUE, c)
        /\ Strict /\ ~ failed => Exact(todo', cols'[c], num_rows_, TRUE, c)
  <2>1. SUFFICES ASSUME NEW c \in DOMAIN cols
                 PROVE  /\ IsSeq(cols'[c])
                        /\ Starts(todo', cols'[c], c)
                        /\ Fits(schema, cols'[c], c)
                        /\ Enough(todo', cols'[c], num_rows_, TRUE, c)
                        /\ Strict /\ ~ failed =>
                             Exact(todo', cols'[c], num_rows_, TRUE, c)
    OBVIOUS
  <2>2. /\ IsSeq(cols[c]) /\ num_rows_ \in Nat
        /\ Starts(todo, cols[c], c)
        /\ Fits(schema, cols[c], c)
        /\ Enough(todo, cols[c], num_rows_, TRUE, c)
        /\ Strict /\ ~ failed => Exact(todo, cols[c], num_rows_, TRUE, c)
    BY <1>1, <2>1 DEF ColumnInv, TypeInv
  <2>3. CASE /\ cols'[c] = cols[c]
             /\ Hands(todo[1], S, c)
             /\ Strict => HandsOnce(todo[1], S, c)
    <3>1. Starts(todo', cols[c], c)
      BY <1>1, <1>3, <2>2, <2>3, HandsStarts
    <3>2. Enough(todo', cols[c], num_rows_, TRUE, c)
      BY <1>1, <1>3, <2>2, <2>3, HandsEnough
    <3>3. Strict /\ ~ failed => Exact(todo', cols[c], num_rows_, TRUE, c)
      BY <1>1, <1>3, <2>2, <2>3, HandsExact
    <3> QED
      BY <2>2, <2>3, <3>1, <3>2, <3>3
  <2>4. ASSUME NEW e, cols'[c] = Append(cols[c], e), Writes(todo[1], S, e, c),
               Strict => (e.r = 0 => Owes(todo[1], c)),
               e.r <= rlevel(schema, c), e.d <= dlevel(schema, c)
        PROVE  /\ IsSeq(cols'[c])
               /\ Starts(todo', cols'[c], c)
               /\ Fits(schema, cols'[c], c)
               /\ Enough(todo', cols'[c], num_rows_, TRUE, c)
               /\ Strict /\ ~ failed =>
                    Exact(todo', cols'[c], num_rows_, TRUE, c)
    <3>1. Starts(todo', Append(cols[c], e), c)
      BY <1>1, <2>2, <2>4, WritesStarts
    <3>2. Enough(todo', Append(cols[c], e), num_rows_, TRUE, c)
      BY <1>1, <1>3, <2>2, <2>4, WritesEnough
    <3>3. ASSUME Strict, ~ failed
          PROVE  Exact(todo', Append(cols[c], e), num_rows_, TRUE, c)
      BY <1>1, <1>3, <2>2, <2>4, <3>3, WritesExact
    <3>4. /\ IsSeq(Append(cols[c], e))
          /\ Len(Append(cols[c], e)) = Len(cols[c]) + 1
          /\ \A i \in 1 .. Len(cols[c]) : Append(cols[c], e)[i] = cols[c][i]
          /\ Append(cols[c], e)[Len(cols[c]) + 1] = e
      BY <2>2, AppendIs
    <3>5. /\ Len(cols[c]) \in Nat /\ DOMAIN cols[c] = 1 .. Len(cols[c])
          /\ DOMAIN Append(cols[c], e) = 1 .. Len(cols[c]) + 1
      BY <2>2, <3>4, SeqProperties
    <3>6. \A i \in DOMAIN Append(cols[c], e) :
            \/ i \in DOMAIN cols[c] /\ Append(cols[c], e)[i] = cols[c][i]
            \/ Append(cols[c], e)[i] = e
      BY <3>4, <3>5
    <3>7. Fits(schema, Append(cols[c], e), c)
      BY <2>2, <2>4, <3>6 DEF Fits
    <3> QED
      BY <2>4, <3>1, <3>2, <3>3, <3>4, <3>7
  <2> QED
    BY <2>3, <2>4 DEF ColumnStep
<1>7. TypeInv'
  BY <1>1, <1>2, <1>3, <1>6 DEF TypeInv, ShredStep, Replaces
<1>8. ColumnInv'
  BY <1>2, <1>6 DEF ColumnInv, ShredStep
<1>9. ASSUME ReadInv PROVE ReadInv'
  <2>1. columns_ = Closed /\ DOMAIN columns_ = {}
    BY <1>1, EmptyIs DEF TypeInv, Closed
  <2> QED
    BY <1>9, <2>1 DEF ReadInv, ShredStep
<1> QED
  BY <1>5, <1>7, <1>8, <1>9 DEF Inv

\* The first call of the list.
LEMMA FirstCall ==
  ASSUME Inv, todo # <<>>
  PROVE  /\ IsSeq(todo) /\ first = todo[1]
         /\ IsItem(schema, fields, adding, first)
         /\ IsTree(schema) /\ IsTree(fields) /\ Agree(fields, schema)
         /\ first.name \in DOMAIN schema
         /\ IsSeq(first.name)
<1>1. IsSeq(todo) /\ TodoInv /\ table \in DOMAIN Tables
  BY DEF Inv, TypeInv
<1>2. first = todo[1] /\ 1 \in DOMAIN todo
  BY <1>1, TailIs, SeqProperties DEF first
<1>3. IsItem(schema, fields, adding, first)
  BY <1>1, <1>2 DEF TodoInv
<1>4. IsTree(schema) /\ IsTree(fields) /\ Agree(fields, schema)
  BY <1>1, TableTrees
<1>5. first.name \in DOMAIN schema
  BY <1>3 DEF IsItem
<1> QED
  BY <1>1, <1>2, <1>3, <1>4, <1>5, TreeNode

\* The calls behind a child of a field.
Behind ==
  IF Append(first.at, first.i + 1) \in DOMAIN adding[first.name]
  THEN <<[first EXCEPT !.i = @ + 1]>> ELSE <<>>

LEMMA RestIs ==
  ASSUME Inv, todo # <<>>, first.call = "field", first.name \in DOMAIN fields
  PROVE  /\ IsSeq(Behind) /\ Len(Behind) <= 1
         /\ rest = Behind \o Tail(todo)
         /\ \A k \in DOMAIN Behind :
              /\ IsItem(schema, fields, adding, Behind[k])
              /\ Behind[k].name = first.name
              /\ Behind[k].call = "field"
              /\ Behind[k].i = first.i + 1
<1>1. /\ IsSeq(todo) /\ first = todo[1]
      /\ IsItem(schema, fields, adding, first)
      /\ Agree(fields, schema) /\ first.name \in DOMAIN schema
  BY FirstCall
<1>2. IsSeq(Tail(todo))
  BY <1>1, TailIs
<1>3. CASE Append(first.at, first.i + 1) \in DOMAIN adding[first.name]
  <2>1. PICK y : y = [first EXCEPT !.i = @ + 1]
    OBVIOUS
  <2>2. /\ y.name = first.name /\ y.call = "field" /\ y.i = first.i + 1
        /\ y.at = first.at /\ y.r = first.r /\ y.rmax = first.rmax
        /\ y.d = first.d /\ DOMAIN y = DOMAIN first
    BY <2>1
  <2>3. Behind = <<y>> /\ IsSeq(Behind) /\ Len(Behind) = 1
        /\ DOMAIN Behind = {1} /\ Behind[1] = y
    <3>1. <<y>> \in Seq({y}) /\ Len(<<y>>) = 1 /\ DOMAIN <<y>> = {1}
          /\ <<y>>[1] = y
      OBVIOUS
    <3> QED
      BY <1>3, <2>1, <3>1, SeqIsSeq DEF Behind
  <2>4. /\ IsMessage(fields, adding) /\ IsSeq(first.at)
        /\ first.i \in Nat \ {0} /\ first.name # <<>>
    BY <1>1 DEF IsItem
  <2>5. Strict => schema[first.name].repeated
    <3>1. PICK a : a = Append(first.at, first.i + 1)
      OBVIOUS
    <3>2. Last(a) = first.i + 1
      BY <2>4, <3>1, FrontAppend
    <3>3. Last(a) = 1 \/ fields[first.name].repeated \/ ~ Strict
      BY <1>3, <2>4, <3>1 DEF IsMessage
    <3>4. fields[first.name].repeated = schema[first.name].repeated
      BY <1>1 DEF Agree
    <3> QED
      BY <2>4, <3>2, <3>3, <3>4
  <2>6. IsItem(schema, fields, adding, y)
    BY <1>1, <1>3, <2>2, <2>4, <2>5 DEF IsItem
  <2>7. rest = <<y>> \o Tail(todo)
    BY <1>3, <2>1 DEF rest
  <2>8. rest = Behind \o Tail(todo)
    BY <2>3, <2>7
  <2>9. \A k \in DOMAIN Behind : Behind[k] = y
    BY <2>3
  <2> QED
    BY <2>2, <2>3, <2>6, <2>8, <2>9
<1>4. CASE Append(first.at, first.i + 1) \notin DOMAIN adding[first.name]
  <2>1. Behind = <<>> /\ rest = Tail(todo)
    BY <1>4 DEF Behind, rest
  <2>2. <<>> \o Tail(todo) = Tail(todo)
    BY <1>2, ConcatEmptySeq DEF IsSeq
  <2> QED
    BY <2>1, <2>2, EmptyIs
<1> QED
  BY <1>3, <1>4

LEMMA ConcatAssoc ==
  ASSUME NEW s, IsSeq(s), NEW t, IsSeq(t), NEW u, IsSeq(u)
  PROVE  s \o (t \o u) = (s \o t) \o u
<1> DEFINE S == Range(s) \cup Range(t) \cup Range(u)
<1>1. s \in Seq(S) /\ t \in Seq(S) /\ u \in Seq(S)
  BY SeqMonotonic DEF IsSeq
<1> HIDE DEF S
<1> QED
  BY <1>1, ConcatAssociative

\* The calls for the fields of an object are a sequence.
LEMMA ChildrenAre ==
  ASSUME NEW T, IsTree(T), NEW n \in DOMAIN T, NEW A,
         DOMAIN A = DOMAIN T[n].sub, A = [j \in DOMAIN T[n].sub |-> A[j]]
  PROVE  IsSeq(A)
<1>1. /\ IsSeq(T[n].sub) /\ Len(T[n].sub) \in Nat
      /\ DOMAIN T[n].sub = 1 .. Len(T[n].sub)
  BY TreeNode, SeqProperties
<1> QED
  BY <1>1, FunctionIsSeq

LEMMA ObjectItems ==
  ASSUME NEW T, IsTree(T), NEW F, NEW m, IsMessage(F, m), NEW n \in DOMAIN T,
         NEW at, IsSeq(at), NEW r \in Nat, NEW rm, rm = rlevel(T, n), r <= rm,
         NEW d, d = dlevel(T, n),
         NEW A, DOMAIN A = DOMAIN T[n].sub,
         \A j \in DOMAIN A :
           /\ A[j].name = Append(n, T[n].sub[j])
           /\ A[j].call = "field" /\ A[j].at = at /\ A[j].i = 1
           /\ A[j].r = r /\ A[j].rmax = rm /\ A[j].d = d
           /\ "i" \in DOMAIN A[j]
  PROVE  \A j \in DOMAIN A : IsItem(T, F, m, A[j])
<1>1. SUFFICES ASSUME NEW j \in DOMAIN A
               PROVE  IsItem(T, F, m, A[j])
  OBVIOUS
<1>2. /\ Append(n, T[n].sub[j]) \in DOMAIN T
      /\ Append(n, T[n].sub[j]) # <<>>
      /\ Front(Append(n, T[n].sub[j])) = n
  BY TreeChild
<1>3. A[j].name \in DOMAIN T /\ A[j].name # <<>> /\ Front(A[j].name) = n
  BY <1>2
<1> QED
  BY <1>3 DEF IsItem

LEMMA NullItems ==
  ASSUME NEW T, IsTree(T), NEW F, NEW m, NEW n \in DOMAIN T,
         NEW r \in Nat, r <= rlevel(T, n), NEW d \in Nat, d <= dlevel(T, n),
         NEW A, DOMAIN A = DOMAIN T[n].sub,
         \A j \in DOMAIN A :
           /\ A[j].name = Append(n, T[n].sub[j])
           /\ A[j].call = "null" /\ A[j].r = r /\ A[j].d = d
  PROVE  \A j \in DOMAIN A : IsItem(T, F, m, A[j])
<1>1. SUFFICES ASSUME NEW j \in DOMAIN A
               PROVE  IsItem(T, F, m, A[j])
  OBVIOUS
<1>2. PICK u : u = T[n].sub[j]
  OBVIOUS
<1>3. Append(n, u) \in DOMAIN T /\ Append(n, u) # <<>>
  BY <1>2, TreeChild
<1>4. /\ rlevel(T, n) \in Nat
      /\ dlevel(T, n) \in Nat
      /\ rlevel(T, Append(n, u)) =
           rlevel(T, n) + IF T[Append(n, u)].repeated THEN 1 ELSE 0
      /\ dlevel(T, Append(n, u)) =
           dlevel(T, n) + IF CanBeAbsent(T[Append(n, u)]) THEN 1 ELSE 0
  BY <1>3, LevelsAppend
<1>5. r <= rlevel(T, Append(n, u)) /\ d <= dlevel(T, Append(n, u))
  BY <1>4
<1>6. A[j].name = Append(n, u) /\ A[j].call = "null" /\ A[j].r = r /\ A[j].d = d
  BY <1>2
<1> QED
  BY <1>3, <1>5, <1>6 DEF IsItem

LEMMA AddObjectInv ==
  ASSUME Inv, AddObject
  PROVE  Inv'
<1>1. /\ adding # NoMessage /\ todo # <<>> /\ first.call = "field"
      /\ first.name \in DOMAIN fields /\ IsObject(schema[first.name])
  BY DEF AddObject, Busy, refused
<1>2. /\ IsSeq(todo) /\ first = todo[1]
      /\ IsItem(schema, fields, adding, first)
      /\ IsTree(schema) /\ first.name \in DOMAIN schema
      /\ IsSeq(first.name)
  BY <1>1, FirstCall
<1>3. /\ IsMessage(fields, adding) /\ IsSeq(first.at)
      /\ first.i \in Nat \ {0}
  BY <1>1, <1>2 DEF IsItem
<1>4. /\ IsSeq(Behind) /\ Len(Behind) <= 1
      /\ rest = Behind \o Tail(todo)
      /\ \A k \in DOMAIN Behind :
           /\ IsItem(schema, fields, adding, Behind[k])
           /\ Behind[k].name = first.name
           /\ Behind[k].call = "field"
           /\ Behind[k].i = first.i + 1
  BY <1>1, RestIs
<1>5. PICK A : A = [j \in DOMAIN schema[first.name].sub |->
                      addProtoRecordField(Append(first.name, schema[first.name].sub[j]),
                                          child, next_r, rmax, next_d)]
  OBVIOUS
<1>6. todo' = A \o rest
  BY <1>5 DEF AddObject, ForEach
<1>7. /\ DOMAIN A = DOMAIN schema[first.name].sub
      /\ A = [j \in DOMAIN schema[first.name].sub |-> A[j]]
      /\ \A j \in DOMAIN A :
           /\ A[j].name = Append(first.name, schema[first.name].sub[j])
           /\ A[j].call = "field" /\ A[j].at = child /\ A[j].i = 1
           /\ A[j].r = next_r /\ A[j].rmax = rmax /\ A[j].d = next_d
           /\ "i" \in DOMAIN A[j]
  BY <1>5 DEF addProtoRecordField
<1>8. IsSeq(A)
  BY <1>2, <1>7, ChildrenAre
<1>9. /\ rmax = IF schema[first.name].repeated THEN first.rmax + 1 ELSE first.rmax
      /\ next_r = IF first.i = 1 THEN first.r ELSE rmax
  BY DEF rmax, next_r, nextR
<1>10. /\ rmax = rlevel(schema, first.name)
       /\ next_r \in Nat /\ next_r <= rmax
       /\ next_d = dlevel(schema, first.name)
  BY <1>1, <1>2, <1>9, ItemLevels DEF next_d
<1>11. \A j \in DOMAIN A : IsItem(schema, fields, adding, A[j])
  <2>1. IsSeq(child)
    BY <1>3, AppendIs DEF child
  <2>2. PICK T : T = schema
    OBVIOUS
  <2>3. PICK n : n = first.name
    OBVIOUS
  <2>4. PICK at : at = child
    OBVIOUS
  <2>5. PICK r : r = next_r
    OBVIOUS
  <2>6. PICK rm : rm = rmax
    OBVIOUS
  <2>7. PICK d : d = next_d
    OBVIOUS
  <2>8. PICK m : m = adding
    OBVIOUS
  <2>9. PICK F : F = fields
    OBVIOUS
  <2>10. /\ IsTree(T) /\ IsMessage(F, m) /\ n \in DOMAIN T /\ IsSeq(at)
         /\ r \in Nat /\ rm = rlevel(T, n) /\ r <= rm /\ d = dlevel(T, n)
    BY <1>2, <1>3, <1>10, <2>1, <2>2, <2>3, <2>4, <2>5, <2>6, <2>7, <2>8, <2>9
  <2>11. /\ DOMAIN A = DOMAIN T[n].sub
         /\ \A j \in DOMAIN A :
              /\ A[j].name = Append(n, T[n].sub[j])
              /\ A[j].call = "field" /\ A[j].at = at /\ A[j].i = 1
              /\ A[j].r = r /\ A[j].rmax = rm /\ A[j].d = d
              /\ "i" \in DOMAIN A[j]
    BY <1>7, <2>2, <2>3, <2>4, <2>5, <2>6, <2>7
  <2>12. \A j \in DOMAIN A : IsItem(T, F, m, A[j])
    BY <2>10, <2>11, ObjectItems
  <2> QED
    BY <2>2, <2>8, <2>9, <2>12
<1> DEFINE S == A \o Behind
<1>12. IsSeq(S) /\ todo' = S \o Tail(todo)
  <2>1. IsSeq(Tail(todo))
    BY <1>1, <1>2, TailIs
  <2>2. IsSeq(S)
    BY <1>4, <1>8, ConcatIs
  <2>3. A \o (Behind \o Tail(todo)) = (A \o Behind) \o Tail(todo)
    <3>1. PICK B : B = Behind
      OBVIOUS
    <3>2. PICK t : t = Tail(todo)
      OBVIOUS
    <3>3. A \o (B \o t) = (A \o B) \o t
      <4>1. IsSeq(A) /\ IsSeq(B) /\ IsSeq(t)
        BY <1>4, <1>8, <2>1, <3>1, <3>2
      <4> QED
        BY <4>1, ConcatAssoc, SMTT(60)
    <3> QED
      BY <3>1, <3>2, <3>3
  <2> QED
    BY <1>4, <1>6, <2>2, <2>3
<1>13. \A k \in DOMAIN S : IsItem(schema, fields, adding, S[k])
  <2>1. /\ Len(A) \in Nat /\ Len(Behind) \in Nat
        /\ DOMAIN A = 1 .. Len(A) /\ DOMAIN Behind = 1 .. Len(Behind)
        /\ Len(S) = Len(A) + Len(Behind) /\ DOMAIN S = 1 .. Len(S)
        /\ \A i \in 1 .. Len(A) : S[i] = A[i]
        /\ \A i \in 1 .. Len(Behind) : S[Len(A) + i] = Behind[i]
    BY <1>4, <1>8, ConcatIs, SeqProperties
  <2> HIDE DEF S
  <2>2. \A k \in DOMAIN S : \/ k \in DOMAIN A /\ S[k] = A[k]
                            \/ 1 \in DOMAIN Behind /\ S[k] = Behind[1]
    BY <1>4, <2>1
  <2> QED
    BY <1>4, <1>11, <2>2
<1>14. \A c \in DOMAIN cols : ColumnStep(S, c)
  <2>1. SUFFICES ASSUME NEW c \in DOMAIN cols
                 PROVE  /\ Hands(first, S, c)
                        /\ Strict => HandsOnce(first, S, c)
    BY <1>2 DEF ColumnStep, AddObject
  <2>2. c \in Leaves(schema)
    BY DEF Inv, TypeInv
  <2>4. PICK T : T = schema
    OBVIOUS
  <2>5. PICK x : x = first
    OBVIOUS
  <2>6. PICK B : B = Behind
    OBVIOUS
  <2>7. PICK rm : rm = rmax
    OBVIOUS
  <2>8. PICK r2 : r2 = next_r
    OBVIOUS
  <2>3. /\ \A j \in DOMAIN A :
             /\ A[j].name = Append(first.name, schema[first.name].sub[j])
             /\ A[j].call = "field"
             /\ A[j].i = 1
             /\ A[j].r = next_r
        /\ \A k \in DOMAIN Behind : /\ Behind[k].name = first.name
                                    /\ Behind[k].call = "field"
                                    /\ Behind[k].i = first.i + 1
    BY <1>4, <1>7
  <2>9. /\ IsTree(T) /\ IsItem(T, fields, adding, x)
        /\ x.call = "field" /\ IsObject(T[x.name]) /\ c \in Leaves(T)
        /\ rm = IF T[x.name].repeated THEN x.rmax + 1 ELSE x.rmax
        /\ r2 = IF x.i = 1 THEN x.r ELSE rm
    BY <1>1, <1>2, <1>9, <2>2, <2>4, <2>5, <2>7, <2>8
  <2>10. /\ DOMAIN A = DOMAIN T[x.name].sub
         /\ \A j \in DOMAIN A :
              /\ A[j].name = Append(x.name, T[x.name].sub[j])
              /\ A[j].call = "field"
              /\ A[j].i = 1
              /\ A[j].r = r2
         /\ IsSeq(B) /\ Len(B) <= 1
         /\ \A k \in DOMAIN B : /\ B[k].name = x.name
                                /\ B[k].call = "field"
                                /\ B[k].i = x.i + 1
    BY <1>4, <1>7, <2>3, <2>4, <2>5, <2>6, <2>8
  <2>11. Hands(x, A \o B, c) /\ (Strict => HandsOnce(x, A \o B, c))
    BY <1>8, <2>9, <2>10, ObjectHands
  <2> QED
    BY <2>5, <2>6, <2>11
<1>15. ShredStep /\ DOMAIN cols' = DOMAIN cols
  BY DEF AddObject, Shredding, ShredStep, materializerVars
<1> HIDE DEF S
<1> QED
  BY <1>1, <1>12, <1>13, <1>14, <1>15, ShredKeepsInv

LEMMA AddAbsentInv ==
  ASSUME Inv, AddAbsent
  PROVE  Inv'
<1>1. /\ adding # NoMessage /\ todo # <<>> /\ first.call = "field"
      /\ first.name \in DOMAIN fields /\ ~ present
  BY DEF AddAbsent, Busy, refused
<1>2. /\ IsSeq(todo) /\ first = todo[1]
      /\ IsItem(schema, fields, adding, first)
      /\ IsTree(schema) /\ first.name \in DOMAIN schema
  BY <1>1, FirstCall
<1>3. first.i = 1 /\ first.r \in Nat /\ first.name # <<>>
  BY <1>1, <1>2 DEF IsItem, present, child
<1>4. PICK y : y = writeProtoNull(first.name, first.at, first.r, first.d)
  OBVIOUS
<1>5. /\ y.call = "null" /\ y.name = first.name /\ y.r = first.r
      /\ y.d = first.d
  BY <1>4 DEF writeProtoNull
<1>6. IsItem(schema, fields, adding, y)
  <2>1. /\ rmax = IF schema[first.name].repeated THEN first.rmax + 1 ELSE first.rmax
        /\ next_r = IF first.i = 1 THEN first.r ELSE rmax
    BY DEF rmax, next_r, nextR
  <2>2. /\ rmax = rlevel(schema, first.name) /\ first.r <= rmax
        /\ first.d \in Nat /\ first.d <= dlevel(schema, first.name)
    BY <1>1, <1>2, <2>1, ItemLevels
  <2> QED
    BY <1>2, <1>3, <1>5, <2>2 DEF IsItem
<1>7. PICK S : S = <<y>>
  OBVIOUS
<1>8. IsSeq(S) /\ DOMAIN S = {1} /\ S[1] = y
  <2>1. S \in Seq({y}) /\ DOMAIN S = {1} /\ S[1] = y
    BY <1>7
  <2> QED
    BY <2>1, SeqIsSeq
<1>9. todo' = S \o Tail(todo)
  BY <1>4, <1>7 DEF AddAbsent
<1>10. \A k \in DOMAIN S : IsItem(schema, fields, adding, S[k])
  BY <1>6, <1>8
<1>11. \A c \in DOMAIN cols : ColumnStep(S, c)
  <2>1. ASSUME NEW c
        PROVE  Hands(first, S, c) /\ HandsOnce(first, S, c)
    BY <1>1, <1>3, <1>5, <1>7, AbsentHands
  <2> QED
    BY <1>2, <2>1 DEF ColumnStep, AddAbsent
<1>12. ShredStep /\ DOMAIN cols' = DOMAIN cols
  BY DEF AddAbsent, Shredding, ShredStep, materializerVars
<1> QED
  BY <1>1, <1>8, <1>9, <1>10, <1>11, <1>12, ShredKeepsInv

LEMMA WriteNullsInv ==
  ASSUME Inv, WriteNulls
  PROVE  Inv'
<1>1. /\ adding # NoMessage /\ todo # <<>> /\ first.call = "null"
      /\ IsObject(schema[first.name])
  BY DEF WriteNulls, Busy
<1>2. /\ IsSeq(todo) /\ first = todo[1]
      /\ IsItem(schema, fields, adding, first)
      /\ IsTree(schema) /\ first.name \in DOMAIN schema
  BY <1>1, FirstCall
<1>3. /\ first.r \in Nat /\ first.d \in Nat
      /\ first.r <= rlevel(schema, first.name)
      /\ first.d <= dlevel(schema, first.name)
  BY <1>1, <1>2 DEF IsItem
<1>4. PICK A : A = [j \in DOMAIN schema[first.name].sub |->
                      writeProtoNull(Append(first.name, schema[first.name].sub[j]),
                                     first.at, first.r, first.d)]
  OBVIOUS
<1>5. todo' = A \o Tail(todo)
  BY <1>4 DEF WriteNulls, ForEach
<1>6. /\ DOMAIN A = DOMAIN schema[first.name].sub
      /\ A = [j \in DOMAIN schema[first.name].sub |-> A[j]]
      /\ \A j \in DOMAIN A :
           /\ A[j].name = Append(first.name, schema[first.name].sub[j])
           /\ A[j].call = "null" /\ A[j].r = first.r /\ A[j].d = first.d
  BY <1>4 DEF writeProtoNull
<1>7. IsSeq(A)
  BY <1>2, <1>6, ChildrenAre
<1>8. \A j \in DOMAIN A : IsItem(schema, fields, adding, A[j])
  <2>1. PICK T : T = schema
    OBVIOUS
  <2>2. PICK n : n = first.name
    OBVIOUS
  <2>3. PICK r : r = first.r
    OBVIOUS
  <2>4. PICK d : d = first.d
    OBVIOUS
  <2>5. /\ IsTree(T) /\ n \in DOMAIN T
        /\ r \in Nat /\ r <= rlevel(T, n) /\ d \in Nat /\ d <= dlevel(T, n)
        /\ DOMAIN A = DOMAIN T[n].sub
        /\ \A j \in DOMAIN A :
             /\ A[j].name = Append(n, T[n].sub[j])
             /\ A[j].call = "null" /\ A[j].r = r /\ A[j].d = d
    BY <1>2, <1>3, <1>6, <2>1, <2>2, <2>3, <2>4
  <2>6. \A j \in DOMAIN A : IsItem(T, fields, adding, A[j])
    BY <2>5, NullItems
  <2> QED
    BY <2>1, <2>6
<1>9. \A c \in DOMAIN cols : ColumnStep(A, c)
  <2>1. ASSUME NEW c \in Leaves(schema)
        PROVE  Hands(first, A, c) /\ HandsOnce(first, A, c)
    <3>1. PICK T : T = schema
      OBVIOUS
    <3>2. PICK x : x = first
      OBVIOUS
    <3>3. /\ IsTree(T) /\ x.name \in DOMAIN T /\ x.call = "null"
          /\ IsObject(T[x.name]) /\ c \in Leaves(T)
          /\ DOMAIN A = DOMAIN T[x.name].sub
          /\ \A j \in DOMAIN A :
               /\ A[j].name = Append(x.name, T[x.name].sub[j])
               /\ A[j].call = "null"
               /\ A[j].r = x.r
      BY <1>1, <1>2, <1>6, <2>1, <3>1, <3>2
    <3>4. Hands(x, A, c) /\ HandsOnce(x, A, c)
      BY <3>3, NullHands
    <3> QED
      BY <3>2, <3>4
  <2> QED
    BY <1>2, <2>1 DEF ColumnStep, WriteNulls, Inv, TypeInv
<1>10. ShredStep /\ DOMAIN cols' = DOMAIN cols
  BY DEF WriteNulls, Shredding, ShredStep, materializerVars
<1> QED
  BY <1>1, <1>5, <1>7, <1>8, <1>9, <1>10, ShredKeepsInv

\* A call that writes one entry, for its own column.
LEMMA WriteColumnStep ==
  ASSUME TypeInv, todo # <<>>, first = todo[1], first.name \in Leaves(schema),
         NEW S, \A k \in DOMAIN S : S[k].name = first.name /\ ~ Owes(S[k], first.name),
         NEW r, NEW d, NEW v, writeColumn(first.name, r, d, v),
         Owes(first, first.name) => r = 0,
         Strict /\ r = 0 => Owes(first, first.name),
         r <= rlevel(schema, first.name), d <= dlevel(schema, first.name)
  PROVE  /\ DOMAIN cols' = DOMAIN cols
         /\ \A c \in DOMAIN cols : ColumnStep(S, c)
<1>1. PICK e : e = [r |-> r, d |-> d, v |-> v]
  OBVIOUS
<1>2. e.r = r /\ e.d = d
  BY <1>1
<1>3. cols' = [cols EXCEPT ![first.name] = Append(@, e)]
  BY <1>1 DEF writeColumn
<1>4. DOMAIN cols = Leaves(schema) /\ IsTree(schema)
  BY TableTrees DEF TypeInv
<1>5. DOMAIN cols' = DOMAIN cols
  BY <1>3
<1>6. ASSUME NEW c \in DOMAIN cols
      PROVE  ColumnStep(S, c)
  <2>1. IsPrefix(first.name, c) <=> first.name = c
    BY <1>4, LeafCovers
  <2>2. CASE c = first.name
    <3>1. cols'[c] = Append(cols[c], e)
      BY <1>3, <2>2
    <3>2. Covers(first, c)
      BY <2>1, <2>2 DEF Covers
    <3>3. Writes(first, S, e, c)
      BY <1>2, <2>2, <3>2 DEF Writes
    <3> QED
      BY <1>2, <2>2, <3>1, <3>3 DEF ColumnStep
  <2>3. CASE c # first.name
    <3>1. cols'[c] = cols[c]
      BY <1>3, <2>3
    <3>2. ~ Covers(first, c)
      BY <2>1, <2>3 DEF Covers
    <3>3. \A k \in DOMAIN S : S[k].name = first.name
      OBVIOUS
    <3>4. Hands(first, S, c) /\ HandsOnce(first, S, c)
      BY <3>2, <3>3, HandsNothing
    <3> QED
      BY <3>1, <3>4 DEF ColumnStep
  <2> QED
    BY <2>2, <2>3
<1> QED
  BY <1>5, <1>6

LEMMA AddValueInv ==
  ASSUME Inv, AddValue
  PROVE  Inv'
<1>1. /\ adding # NoMessage /\ todo # <<>> /\ first.call = "field"
      /\ first.name \in DOMAIN fields /\ ~ IsObject(schema[first.name])
      /\ todo' = rest
  BY DEF AddValue, Busy, refused
<1>2. /\ IsSeq(todo) /\ first = todo[1]
      /\ IsItem(schema, fields, adding, first)
      /\ IsTree(schema) /\ first.name \in DOMAIN schema
      /\ IsSeq(first.name)
  BY <1>1, FirstCall
<1>3. first.i \in Nat \ {0}
  BY <1>1, <1>2 DEF IsItem
<1>4. /\ IsSeq(Behind)
      /\ rest = Behind \o Tail(todo)
      /\ \A k \in DOMAIN Behind :
           /\ IsItem(schema, fields, adding, Behind[k])
           /\ Behind[k].name = first.name
           /\ Behind[k].call = "field"
           /\ Behind[k].i = first.i + 1
  BY <1>1, RestIs
<1>5. /\ rmax = IF schema[first.name].repeated THEN first.rmax + 1 ELSE first.rmax
      /\ next_r = IF first.i = 1 THEN first.r ELSE rmax
  BY DEF rmax, next_r, nextR
<1>6. /\ rmax = rlevel(schema, first.name)
      /\ next_r \in Nat /\ next_r <= rmax
      /\ next_d = dlevel(schema, first.name) /\ next_d \in Nat
      /\ Strict /\ next_r = 0 => first.r = 0 /\ first.i = 1
  BY <1>1, <1>2, <1>5, ItemLevels DEF next_d
<1>7. PICK S : S = Behind
  OBVIOUS
<1>8. PICK r : r = next_r
  OBVIOUS
<1>9. PICK d : d = next_d
  OBVIOUS
<1>10. PICK v : v = stored(configs[first.name],
                           datum(schema[first.name].type, adding[first.name][child]))
  OBVIOUS
<1>11. writeColumn(first.name, r, d, v)
  BY <1>8, <1>9, <1>10 DEF AddValue
<1>12. \A k \in DOMAIN S : S[k].name = first.name /\ ~ Owes(S[k], first.name)
  BY <1>3, <1>4, <1>7 DEF Owes
<1>13. /\ Owes(first, first.name) => r = 0
       /\ Strict /\ r = 0 => Owes(first, first.name)
  <2>1. Covers(first, first.name)
    BY <1>2, PrefixOfItself DEF Covers
  <2> QED
    BY <1>1, <1>5, <1>6, <1>8, <2>1 DEF Owes
<1>14. r <= rlevel(schema, first.name) /\ d <= dlevel(schema, first.name)
  BY <1>6, <1>8, <1>9
<1>15. TypeInv /\ first.name \in Leaves(schema)
  BY <1>1, <1>2 DEF Inv, Leaves
<1>16. /\ DOMAIN cols' = DOMAIN cols
       /\ \A c \in DOMAIN cols : ColumnStep(S, c)
  BY <1>1, <1>2, <1>11, <1>12, <1>13, <1>14, <1>15, WriteColumnStep
<1>17. ShredStep
  BY DEF AddValue, Shredding, ShredStep, materializerVars
<1>18. /\ IsSeq(S) /\ todo' = S \o Tail(todo)
       /\ \A k \in DOMAIN S : IsItem(schema, fields, adding, S[k])
  BY <1>1, <1>4, <1>7
<1> QED
  BY <1>1, <1>16, <1>17, <1>18, ShredKeepsInv

\* A call that writes one entry and leads to no other.
LEMMA LastCallInv ==
  ASSUME Inv, ShredStep, adding # NoMessage, todo # <<>>, todo' = Tail(todo),
         first.name \in Leaves(schema),
         NEW r, NEW d, NEW v, writeColumn(first.name, r, d, v),
         Owes(first, first.name) <=> r = 0,
         r <= rlevel(schema, first.name), d <= dlevel(schema, first.name)
  PROVE  Inv'
<1>1. IsSeq(todo) /\ first = todo[1]
  BY FirstCall
<1>2. PICK S : S = <<>>
  OBVIOUS
<1>3. IsSeq(S) /\ DOMAIN S = {}
  BY <1>2, EmptyIs
<1>4. todo' = S \o Tail(todo)
  <2>1. IsSeq(Tail(todo))
    BY <1>1, TailIs
  <2> QED
    BY <1>2, <2>1, ConcatEmptySeq DEF IsSeq
<1>5. TypeInv
  BY DEF Inv
<1>6. /\ Owes(first, first.name) => r = 0
      /\ Strict /\ r = 0 => Owes(first, first.name)
      /\ \A k \in DOMAIN S : S[k].name = first.name /\ ~ Owes(S[k], first.name)
  BY <1>3
<1>7. /\ DOMAIN cols' = DOMAIN cols
      /\ \A c \in DOMAIN cols : ColumnStep(S, c)
  BY <1>1, <1>5, <1>6, WriteColumnStep
<1>8. \A k \in DOMAIN S : IsItem(schema, fields, adding, S[k])
  BY <1>3
<1> QED
  BY <1>3, <1>4, <1>7, <1>8, ShredKeepsInv

LEMMA WriteNullInv ==
  ASSUME Inv, WriteNull
  PROVE  Inv'
<1>1. /\ adding # NoMessage /\ todo # <<>> /\ first.call = "null"
      /\ ~ IsObject(schema[first.name])
      /\ todo' = Tail(todo)
      /\ writeColumn(first.name, first.r, first.d, 0)
  BY DEF WriteNull, Busy
<1>2. /\ IsItem(schema, fields, adding, first)
      /\ first.name \in DOMAIN schema /\ IsSeq(first.name)
  BY <1>1, FirstCall
<1>3. /\ first.r <= rlevel(schema, first.name)
      /\ first.d <= dlevel(schema, first.name)
  BY <1>1, <1>2 DEF IsItem
<1>4. Owes(first, first.name) <=> first.r = 0
  <2>1. Covers(first, first.name)
    BY <1>2, PrefixOfItself DEF Covers
  <2> QED
    BY <1>1, <2>1 DEF Owes
<1>5. first.name \in Leaves(schema)
  BY <1>1, <1>2 DEF Leaves
<1>6. ShredStep
  BY DEF WriteNull, Shredding, ShredStep, materializerVars
<1>7. PICK r : r = first.r
  OBVIOUS
<1>8. PICK d : d = first.d
  OBVIOUS
<1>9. /\ writeColumn(first.name, r, d, 0)
      /\ Owes(first, first.name) <=> r = 0
      /\ r <= rlevel(schema, first.name) /\ d <= dlevel(schema, first.name)
  BY <1>1, <1>3, <1>4, <1>7, <1>8
<1> QED
  BY <1>1, <1>5, <1>6, <1>9, LastCallInv

\* No call is left, and the row is not counted.
LEMMA GivenUpInv ==
  ASSUME Inv, todo' = <<>>, adding' = NoMessage, failed' = TRUE,
         UNCHANGED <<table, cols, num_rows_, nodes, columns_, left, current,
                     done>>
  PROVE  Inv'
<1>1. schema' = schema /\ fields' = fields
  BY DEF schema, fields
<1>2. TypeInv'
  BY <1>1, EmptyIs DEF Inv, TypeInv
<1>3. TodoInv'
  BY EmptyIs DEF TodoInv
<1>4. ColumnInv'
  <2>1. SUFFICES ASSUME NEW c \in DOMAIN cols
                 PROVE  /\ Starts(<<>>, cols[c], c)
                        /\ Fits(schema, cols[c], c)
                        /\ Enough(<<>>, cols[c], num_rows_, FALSE, c)
    BY <1>1 DEF ColumnInv
  <2>2. /\ Starts(todo, cols[c], c)
        /\ Fits(schema, cols[c], c)
        /\ Enough(todo, cols[c], num_rows_, adding # NoMessage, c)
    BY <2>1 DEF Inv, ColumnInv
  <2> QED
    BY <2>2, EmptyIs DEF Starts, Enough
<1>5. ASSUME ReadInv PROVE ReadInv'
  BY <1>5 DEF ReadInv
<1> QED
  BY <1>2, <1>3, <1>4, <1>5 DEF Inv

LEMMA RaiseInv ==
  ASSUME Inv, Raise
  PROVE  Inv'
BY GivenUpInv DEF Raise, materializerVars

\* The row is complete.
LEMMA RowDoneInv ==
  ASSUME Inv, adding # NoMessage, todo = <<>>, todo' = todo,
         num_rows_' = num_rows_ + 1, adding' = NoMessage,
         UNCHANGED <<table, cols, nodes, failed, columns_, left, current, done>>
  PROVE  Inv'
<1>1. schema' = schema /\ fields' = fields
  BY DEF schema, fields
<1>2. TypeInv'
  BY <1>1, EmptyIs DEF Inv, TypeInv
<1>3. TodoInv'
  BY EmptyIs DEF TodoInv
<1>4. ColumnInv'
  <2>1. SUFFICES ASSUME NEW c \in DOMAIN cols
                 PROVE  /\ Starts(<<>>, cols[c], c)
                        /\ Fits(schema, cols[c], c)
                        /\ Enough(<<>>, cols[c], num_rows_ + 1, FALSE, c)
                        /\ Strict /\ ~ failed =>
                             Exact(<<>>, cols[c], num_rows_ + 1, FALSE, c)
    BY <1>1 DEF ColumnInv
  <2>2. /\ Starts(<<>>, cols[c], c)
        /\ Fits(schema, cols[c], c)
        /\ Enough(<<>>, cols[c], num_rows_, TRUE, c)
        /\ Strict /\ ~ failed => Exact(<<>>, cols[c], num_rows_, TRUE, c)
    BY <2>1 DEF Inv, ColumnInv
  <2>3. Enough(<<>>, cols[c], num_rows_ + 1, FALSE, c)
    BY <2>2, EmptyIs DEF Enough
  <2>4. Strict /\ ~ failed => Exact(<<>>, cols[c], num_rows_ + 1, FALSE, c)
    BY <2>2, EmptyIs DEF Exact
  <2> QED
    BY <2>2, <2>3, <2>4
<1>5. ASSUME ReadInv PROVE ReadInv'
  <2>1. columns_ = Closed /\ DOMAIN columns_ = {} /\ num_rows_ \in Nat
        /\ done \in Nat
    BY EmptyIs DEF Inv, TypeInv, Closed
  <2> QED
    BY <1>5, <2>1 DEF ReadInv
<1> QED
  BY <1>2, <1>3, <1>4, <1>5 DEF Inv

LEMMA AddRowInv ==
  ASSUME Inv, AddRow
  PROVE  Inv'
BY RowDoneInv DEF AddRow, materializerVars

\* A row is begun with calls of which one is for each column.
LEMMA RowBegunInv ==
  ASSUME Inv, adding = NoMessage, columns_ = Closed, adding' # NoMessage,
         nodes' \in Nat, IsSeq(todo'),
         \A k \in DOMAIN todo' : IsItem(schema, fields, adding', todo'[k]),
         \A c \in DOMAIN cols :
           /\ \A k \in DOMAIN todo' :
                Covers(todo'[k], c) => Owes(todo'[k], c)
           /\ \E k \in DOMAIN todo' :
                /\ Owes(todo'[k], c)
                /\ \A l \in DOMAIN todo' : Owes(todo'[l], c) => l = k,
         UNCHANGED <<table, cols, num_rows_, failed, columns_, left, current,
                     done>>
  PROVE  Inv'
<1>1. schema' = schema /\ fields' = fields
  BY DEF schema, fields
<1>2. TypeInv'
  BY <1>1 DEF Inv, TypeInv
<1>3. TodoInv'
  BY <1>1 DEF TodoInv
<1>4. ColumnInv'
  <2>1. SUFFICES ASSUME NEW c \in DOMAIN cols
                 PROVE  /\ Starts(todo', cols[c], c)
                        /\ Fits(schema, cols[c], c)
                        /\ Enough(todo', cols[c], num_rows_, TRUE, c)
                        /\ Strict /\ ~ failed =>
                             Exact(todo', cols[c], num_rows_, TRUE, c)
    BY <1>1 DEF ColumnInv
  <2>2. /\ Starts(todo, cols[c], c)
        /\ Fits(schema, cols[c], c)
        /\ Enough(todo, cols[c], num_rows_, FALSE, c)
        /\ Strict /\ ~ failed => Exact(todo, cols[c], num_rows_, FALSE, c)
    BY <2>1 DEF Inv, ColumnInv
  <2>3. Starts(todo', cols[c], c)
    BY <2>1, <2>2 DEF Starts
  <2>4. Enough(todo', cols[c], num_rows_, TRUE, c)
    BY <2>1, <2>2 DEF Enough
  <2>5. Strict /\ ~ failed => Exact(todo', cols[c], num_rows_, TRUE, c)
    BY <2>1, <2>2 DEF Exact
  <2> QED
    BY <2>2, <2>3, <2>4, <2>5
<1>5. ASSUME ReadInv PROVE ReadInv'
  BY <1>5 DEF ReadInv
<1> QED
  BY <1>2, <1>3, <1>4, <1>5 DEF Inv

LEMMA AddRecordInv ==
  ASSUME Inv, AddRecord
  PROVE  Inv'
<1>1. /\ table \in DOMAIN Tables /\ nodes \in Nat /\ columns_ = Closed
      /\ adding = NoMessage
  BY DEF Inv, TypeInv, AddRecord
<1>2. /\ IsTree(schema) /\ <<>> \in DOMAIN schema /\ IsObject(schema[<<>>])
  BY <1>1, TableTrees DEF IsTree
<1>3. IsMessage(fields, adding') /\ nodes' \in Nat
  <2>1. PICK n \in 0 .. MaxNodes - nodes :
          \E m \in Tables[table].messages[n] : nodes' = nodes + n /\ adding' = m
    BY DEF AddRecord
  <2>2. PICK m \in Tables[table].messages[n] : nodes' = nodes + n /\ adding' = m
    BY <2>1
  <2>3. n \in 0 .. MaxNodes /\ n \in Nat
    BY <1>1, <2>1, RecordsAssumption
  <2>4. IsMessage(fields, m)
    BY <1>1, <2>2, <2>3, RecordsAssumption DEF fields
  <2> QED
    BY <1>1, <2>2, <2>3, <2>4
<1>4. adding' # NoMessage
  <2>1. <<>> \in DOMAIN adding'
    BY <1>1, <1>3, TableTrees DEF IsMessage, IsTree
  <2> QED
    BY <2>1, EmptyIs DEF NoMessage
<1>5. PICK T : T = schema
  OBVIOUS
<1>6. PICK A : A = [j \in DOMAIN T[<<>>].sub |->
                      addProtoRecordField(Append(<<>>, T[<<>>].sub[j]), <<>>, 0, 0, 0)]
  OBVIOUS
<1>7. todo' = A
  BY <1>5, <1>6 DEF AddRecord, ForEach
<1>8. /\ DOMAIN A = DOMAIN T[<<>>].sub
      /\ A = [j \in DOMAIN T[<<>>].sub |-> A[j]]
      /\ \A j \in DOMAIN A :
           /\ A[j].name = Append(<<>>, T[<<>>].sub[j])
           /\ A[j].call = "field" /\ A[j].at = <<>> /\ A[j].i = 1
           /\ A[j].r = 0 /\ A[j].rmax = 0 /\ A[j].d = 0
           /\ "i" \in DOMAIN A[j]
  BY <1>6 DEF addProtoRecordField
<1>9. IsSeq(A)
  BY <1>2, <1>5, <1>8, ChildrenAre
<1>10. \A j \in DOMAIN A : IsItem(schema, fields, adding', A[j])
  <2>1. rlevel(T, <<>>) = 0 /\ dlevel(T, <<>>) = 0 /\ IsSeq(<<>>)
    BY LevelsEmpty, EmptyIs
  <2>2. PICK m : m = adding'
    OBVIOUS
  <2>3. PICK F : F = fields
    OBVIOUS
  <2>4. \A j \in DOMAIN A : IsItem(T, F, m, A[j])
    <3>1. PICK n \in DOMAIN T : n = <<>>
      BY <1>2, <1>5
    <3>2. PICK at : at = <<>>
      OBVIOUS
    <3>3. PICK r \in Nat : r = 0
      OBVIOUS
    <3>6. PICK rm : rm = 0
      OBVIOUS
    <3>7. PICK d : d = 0
      OBVIOUS
    <3>4. /\ IsTree(T) /\ IsMessage(F, m) /\ IsSeq(at)
          /\ rm = rlevel(T, n) /\ r <= rm /\ d = dlevel(T, n)
      BY <1>2, <1>3, <1>5, <2>1, <2>2, <2>3, <3>1, <3>2, <3>3, <3>6, <3>7
    <3>5. /\ DOMAIN A = DOMAIN T[n].sub
          /\ \A j \in DOMAIN A :
               /\ A[j].name = Append(n, T[n].sub[j])
               /\ A[j].call = "field" /\ A[j].at = at /\ A[j].i = 1
               /\ A[j].r = r /\ A[j].rmax = rm /\ A[j].d = d
               /\ "i" \in DOMAIN A[j]
      BY <1>8, <3>1, <3>2, <3>3, <3>6, <3>7
    <3> QED
      BY <3>4, <3>5, ObjectItems
  <2> QED
    BY <1>5, <2>2, <2>3, <2>4
<1>11. ASSUME NEW c \in DOMAIN cols
       PROVE  /\ \A k \in DOMAIN A : Covers(A[k], c) => Owes(A[k], c)
              /\ \E k \in DOMAIN A :
                   /\ Owes(A[k], c)
                   /\ \A l \in DOMAIN A : Owes(A[l], c) => l = k
  <2>1. c \in Leaves(T) /\ IsSeq(c)
    BY <1>2, <1>5, <1>11, TreeNode DEF Inv, TypeInv, Leaves
  <2>2. IsPrefix(<<>>, c)
    BY <2>1, PrefixOfItself
  <2>3. /\ \A j, l \in DOMAIN A : Covers(A[j], c) /\ Covers(A[l], c) => j = l
        /\ IsPrefix(<<>>, c) => \E j \in DOMAIN A : Covers(A[j], c)
    <3>1. PICK n \in DOMAIN T : n = <<>>
      BY <1>2, <1>5
    <3>2. /\ IsTree(T) /\ IsObject(T[n]) /\ DOMAIN A = DOMAIN T[n].sub
          /\ \A j \in DOMAIN A : A[j].name = Append(n, T[n].sub[j])
      BY <1>2, <1>5, <1>8, <3>1
    <3>3. /\ \A j, l \in DOMAIN A : Covers(A[j], c) /\ Covers(A[l], c) => j = l
          /\ IsPrefix(n, c) => \E j \in DOMAIN A : Covers(A[j], c)
      BY <2>1, <3>2, OneChild
    <3> QED
      BY <3>1, <3>3
  <2>4. \A k \in DOMAIN A : Covers(A[k], c) <=> Owes(A[k], c)
    BY <1>8 DEF Owes
  <2> QED
    BY <2>2, <2>3, <2>4
<1>12. UNCHANGED <<table, cols, num_rows_, failed, columns_, left, current, done>>
  BY DEF AddRecord, materializerVars
<1> QED
  BY <1>1, <1>3, <1>4, <1>7, <1>9, <1>10, <1>11, <1>12, RowBegunInv

----------------------------------------------------------------------------
(* The steps of the materializer.                                          *)

\* One turn of the loop, at the start of record n of a column or in the middle
\* of it.
LEMMA TurnReads ==
  ASSUME Version = "v0_1_0", NEW c, IsSeq(cols[c]),
         cols[c] # <<>> => cols[c][1].r = 0,
         NEW n \in Nat, n >= 1, n <= RecordsIn(cols[c]), NEW s,
         \/ ReadsTo(s, cols[c], n - 1, FALSE)
         \/ ReadsTo(s, cols[c], n, TRUE)
  PROVE  ReadsTo(turn(c, s), cols[c], n, goesOn(c, s))
<1>1. PICK es : es = cols[c]
  OBVIOUS
<1>2. PICK p : p = s.pos
  OBVIOUS
<1>3. Len(es) \in Nat /\ IsSeq(es) /\ p \in 0 .. Len(es)
  BY <1>1, <1>2, SeqProperties DEF ReadsTo
<1>4. /\ DOMAIN s = {"pos", "pending", "raised"}
      /\ s.pending \in BOOLEAN /\ s.raised = FALSE
  BY <1>2 DEF ReadsTo
<1>5. RecordsIn(es) = Count(es, Len(es))
  BY <1>3, CountIsRecordsIn
<1>7. Count(es, 0) = 0
  BY CountNext
\* The entry that the record goes on with, or starts with.
<1>8. PICK f : f = fetchIfNotPending(c, s)
  OBVIOUS
<1>9. PICK k \in Nat : /\ k + 1 <= Len(es)
                       /\ DOMAIN f = {"pos", "pending", "raised"}
                       /\ f.pos = k + 1 /\ f.pending = TRUE /\ f.raised = FALSE
                       /\ Count(es, k + 1) = n
  <2>1. CASE s.pending
    <3>1. f = s /\ p >= 1
      BY <1>1, <1>2, <1>8, <2>1 DEF fetchIfNotPending, ReadsTo
    <3>2. PICK k \in Nat : k = p - 1
      BY <1>3, <3>1
    <3>3. k + 1 = p /\ k + 1 <= Len(es)
      BY <1>3, <3>2
    <3>4. Used(s) = k
      BY <1>2, <2>1, <3>2 DEF Used
    <3>5. Count(es, k + 1) = n
      <4>1. CASE ReadsTo(s, cols[c], n - 1, FALSE)
        <5>1. es[k + 1].r = 0 /\ Count(es, k) = n - 1
          BY <1>1, <1>2, <2>1, <3>3, <3>4, <4>1 DEF ReadsTo
        <5>2. PICK a \in Nat : a = Count(es, k)
          BY CountNext
        <5>3. Count(es, k + 1) = Count(es, k) + 1
          BY <5>1, CountNext
        <5> QED
          BY <5>1, <5>2, <5>3
      <4>2. CASE ReadsTo(s, cols[c], n, TRUE)
        <5>1. es[k + 1].r # 0 /\ Count(es, k) = n
          BY <1>1, <1>2, <2>1, <3>3, <3>4, <4>2 DEF ReadsTo
        <5> QED
          BY <5>1, CountNext
      <4> QED
        BY <4>1, <4>2
    <3>6. /\ DOMAIN f = {"pos", "pending", "raised"}
          /\ f.pos = k + 1 /\ f.pending = TRUE /\ f.raised = FALSE
      BY <1>2, <1>4, <2>1, <3>1, <3>3
    <3> QED
      BY <3>3, <3>5, <3>6
  <2>2. CASE ~ s.pending
    <3>1. ReadsTo(s, cols[c], n - 1, FALSE)
      BY <2>2 DEF ReadsTo
    <3>2. (p = 0 \/ p = Len(es)) /\ Count(es, p) = n - 1
      BY <1>1, <1>2, <2>2, <3>1 DEF ReadsTo, Used
    <3>3. p # Len(es)
      BY <1>1, <1>5, <3>2
    <3>4. p = 0 /\ Len(es) >= 1
      BY <1>3, <3>2, <3>3
    <3>5. es # <<>> /\ es[1].r = 0
      BY <1>1, <3>4, EmptyIs
    <3>6. Count(es, 0 + 1) = n
      <4>1. Count(es, 0 + 1) = Count(es, 0) + 1
        BY <3>5, CountNext
      <4> QED
        BY <1>7, <3>2, <3>4, <4>1
    <3>7. ~ eofReached(c, s)
      BY <1>1, <1>2, <3>4 DEF eofReached
    <3>8. f = [s EXCEPT !.pos = @ + 1, !.pending = TRUE]
      BY <1>8, <2>2, <3>7 DEF fetchIfNotPending
    <3>9. /\ DOMAIN f = {"pos", "pending", "raised"}
          /\ f.pos = 0 + 1 /\ f.pending = TRUE /\ f.raised = FALSE
      BY <1>2, <1>4, <3>4, <3>8
    <3> QED
      BY <3>4, <3>6, <3>9
  <2> QED
    BY <1>4, <2>1, <2>2
<1>10. ~ f.raised /\ f.pos = k + 1 /\ f.pending
  BY <1>9
<1>11. PICK g : g = turn(c, s)
  OBVIOUS
<1>12. CASE k + 1 = Len(es)
  <2>1. eofReached(c, f)
    BY <1>1, <1>3, <1>10, <1>12 DEF eofReached
  <2>2. g = consume(f)
    BY <1>8, <1>10, <1>11, <2>1 DEF turn
  <2>3. DOMAIN g = {"pos", "pending", "raised"}
    BY <1>9, <2>2 DEF consume
  <2>4. g.pos = k + 1 /\ g.pending = FALSE /\ g.raised = FALSE
    BY <1>9, <2>2 DEF consume
  <2>5. goesOn(c, s) = FALSE
    BY <1>11, <2>4 DEF goesOn
  <2>6. Count(es, Used(g)) = n
    BY <1>9, <2>4 DEF Used
  <2>7. ReadsTo(g, es, n, FALSE)
    <3>1. g.pos \in 0 .. Len(es) /\ g.pos = Len(es)
      BY <1>3, <1>9, <1>12, <2>4
    <3> QED
      BY <2>3, <2>4, <2>6, <3>1 DEF ReadsTo
  <2> QED
    BY <1>1, <1>11, <2>5, <2>7
<1>13. CASE k + 1 # Len(es)
  <2>1. k + 1 < Len(es)
    BY <1>3, <1>9, <1>13
  <2>2. ~ eofReached(c, f)
    BY <1>1, <1>3, <1>10, <2>1 DEF eofReached
  <2>3. g = fetchIfNotPending(c, consume(f))
    BY <1>8, <1>10, <1>11, <2>2 DEF turn
  <2>4. PICK h : h = consume(f)
    OBVIOUS
  <2>5. DOMAIN h = {"pos", "pending", "raised"}
    BY <1>9, <2>4 DEF consume
  <2>6. h.pos = k + 1 /\ h.pending = FALSE /\ h.raised = FALSE
    BY <1>9, <2>4 DEF consume
  <2>7. ~ eofReached(c, h)
    BY <1>1, <1>3, <2>1, <2>6 DEF eofReached
  <2>8. g = [h EXCEPT !.pos = @ + 1, !.pending = TRUE]
    BY <2>3, <2>4, <2>6, <2>7 DEF fetchIfNotPending
  <2>9. DOMAIN g = {"pos", "pending", "raised"}
    BY <2>5, <2>8
  <2>10. g.pos = k + 2 /\ g.pending = TRUE /\ g.raised = FALSE
    BY <2>5, <2>6, <2>8
  <2>11. goesOn(c, s) <=> es[k + 2].r # 0
    BY <1>1, <1>11, <2>10 DEF goesOn, fetched
  <2>12. Count(es, Used(g)) = n
    <3>1. Used(g) = k + 1
      BY <2>10 DEF Used
    <3> QED
      BY <1>9, <3>1
  <2>13. ReadsTo(g, es, n, goesOn(c, s))
    <3>1. DOMAIN g = {"pos", "pending", "raised"}
      BY <2>9
    <3>2. g.pos \in 0 .. Len(es) /\ g.pos >= 1
      BY <1>3, <2>1, <2>10
    <3>3. es[g.pos].r # 0 <=> goesOn(c, s)
      BY <2>10, <2>11
    <3> QED
      BY <2>10, <2>12, <3>1, <3>2, <3>3 DEF ReadsTo
  <2> QED
    BY <1>1, <1>11, <2>13
<1> QED
  BY <1>12, <1>13

\* What the columns are to a materializer.
LEMMA ReadColumns ==
  ASSUME Inv, ReadInv, NEW c \in DOMAIN columns_
  PROVE  /\ c \in DOMAIN cols /\ c # NoColumn /\ IsSeq(cols[c])
         /\ cols[c] # <<>> => cols[c][1].r = 0
         /\ RecordsIn(cols[c]) \in Nat
         /\ RecordsIn(cols[c]) >= num_rows_
<1>1. c \in DOMAIN cols /\ c \in Leaves(schema)
  BY DEF ReadInv, Inv, TypeInv
<1>2. IsTree(schema)
  BY TableTrees DEF Inv, TypeInv
<1>3. c # NoColumn
  BY <1>1, <1>2 DEF Leaves, NoColumn, IsTree
<1>4. IsSeq(cols[c]) /\ RecordsIn(cols[c]) \in Nat
  BY <1>1, RecordsAppend DEF Inv, TypeInv
<1>5. /\ cols[c] # <<>> => cols[c][1].r = 0
      /\ RecordsIn(cols[c]) >= num_rows_
  BY <1>1 DEF Inv, ColumnInv, Starts, Enough
<1> QED
  BY <1>1, <1>3, <1>4, <1>5

\* What only the materializer changes.
ReadStep == UNCHANGED <<table, cols, num_rows_, nodes, failed, adding, todo>>

LEMMA ReadKeepsInv ==
  ASSUME Inv, ReadStep, done' \in Nat, adding # NoMessage => columns_' = Closed,
         Version = "v0_1_0" => ReadInv'
  PROVE  Inv'
<1>1. schema' = schema /\ fields' = fields
  BY DEF ReadStep, schema, fields
<1>2. TypeInv'
  BY <1>1 DEF Inv, TypeInv, ReadStep
<1>3. TodoInv'
  BY <1>1 DEF Inv, TodoInv, ReadStep
<1>4. ColumnInv'
  BY <1>1 DEF Inv, ColumnInv, ReadStep
<1> QED
  BY <1>2, <1>3, <1>4 DEF Inv

LEMMA OpenMaterializerInv ==
  ASSUME Inv, OpenMaterializer
  PROVE  Inv'
<1>1. /\ adding = NoMessage /\ columns_ = Closed /\ DOMAIN columns_ = {}
      /\ ReadStep /\ UNCHANGED <<left, current, done>>
  BY EmptyIs DEF OpenMaterializer, ReadStep, shredderVars, Closed
<1>2. PICK R : /\ R \subseteq DOMAIN configs
               /\ columns_' = [c \in R |->
                                 [pos |-> 0, pending |-> FALSE, raised |-> FALSE]]
  BY DEF OpenMaterializer, createColumns, columnState
<1>3. ASSUME ReadInv, Version = "v0_1_0"
      PROVE  ReadInv'
  <2>1. done = 0 /\ left = {} /\ current = NoColumn
    BY <1>1, <1>3 DEF ReadInv
  <2>2. DOMAIN columns_' = R /\ R \subseteq DOMAIN cols
    BY <1>2, TableTrees DEF Inv, TypeInv
  <2>3. IsTree(schema) /\ DOMAIN cols = Leaves(schema)
    BY TableTrees DEF Inv, TypeInv
  <2>4. ASSUME NEW c \in R
        PROVE  /\ c # NoColumn
               /\ ReadsTo(columns_'[c], cols[c], 0, FALSE)
    <3>1. c # NoColumn
      BY <2>2, <2>3, <2>4 DEF Leaves, NoColumn, IsTree
    <3>2. PICK s : s = columns_'[c]
      OBVIOUS
    <3>3. s = [pos |-> 0, pending |-> FALSE, raised |-> FALSE]
      BY <1>2, <2>4, <3>2
    <3>4. /\ s.pos = 0 /\ s.pending = FALSE /\ s.raised = FALSE
          /\ DOMAIN s = {"pos", "pending", "raised"}
      BY <3>3
    <3>5. Len(cols[c]) \in Nat
      BY <2>2, SeqProperties DEF Inv, TypeInv
    <3>6. Count(cols[c], 0) = 0
      BY CountNext
    <3>7. ReadsTo(s, cols[c], 0, FALSE)
      BY <3>3, <3>4, <3>5, <3>6 DEF ReadsTo, Used
    <3> QED
      BY <3>1, <3>2, <3>7
  <2>5. \A c \in DOMAIN columns_' :
          ReadsTo(columns_'[c], cols'[c],
                  IF c \in left' THEN done' - 1 ELSE done', c = current')
    <3>1. SUFFICES ASSUME NEW c \in R
                   PROVE  ReadsTo(columns_'[c], cols[c], 0, c = NoColumn)
      BY <1>1, <2>1, <2>2 DEF ReadStep
    <3>2. (c = NoColumn) = FALSE
      BY <2>4
    <3> QED
      BY <2>4, <3>2
  <2> QED
    BY <1>1, <1>3, <2>1, <2>2, <2>5 DEF ReadInv, ReadStep
<1> QED
  BY <1>1, <1>3, ReadKeepsInv DEF Inv, TypeInv

LEMMA BeginInv ==
  ASSUME Inv, NEW kind, Begin(kind)
  PROVE  Inv'
<1>1. /\ columns_ # Closed /\ left = {} /\ current = NoColumn
      /\ done < num_rows_ /\ left' = DOMAIN columns_ /\ done' = done + 1
      /\ ReadStep /\ UNCHANGED <<columns_, current>>
  BY DEF Begin, ReadStep, shredderVars
<1>2. done \in Nat /\ num_rows_ \in Nat /\ (adding # NoMessage => columns_ = Closed)
  BY DEF Inv, TypeInv
<1>3. ASSUME ReadInv, Version = "v0_1_0"
      PROVE  ReadInv'
  <2>1. \A c \in DOMAIN columns_' :
          ReadsTo(columns_'[c], cols'[c],
                  IF c \in left' THEN done' - 1 ELSE done', c = current')
    <3>1. SUFFICES ASSUME NEW c \in DOMAIN columns_
                   PROVE  ReadsTo(columns_[c], cols[c], done, c = current)
      BY <1>1, <1>2 DEF ReadStep
    <3> QED
      BY <1>1, <1>3 DEF ReadInv
  <2> QED
    BY <1>1, <1>2, <1>3, <2>1 DEF ReadInv, ReadStep
<1> QED
  BY <1>1, <1>2, <1>3, ReadKeepsInv DEF Inv

LEMMA TurnInv ==
  ASSUME Inv, NEW c \in IF current = NoColumn THEN left ELSE {current}, Turn(c)
  PROVE  Inv'
<1>1. /\ ReadStep /\ UNCHANGED <<done>>
      /\ columns_' = [columns_ EXCEPT ![c] = turn(c, columns_[c])]
      /\ current' = IF goesOn(c, columns_[c]) THEN c ELSE NoColumn
      /\ left' = left \ {c}
  BY DEF Turn, ReadStep, shredderVars
<1>2. done \in Nat /\ num_rows_ \in Nat /\ (adding # NoMessage => columns_ = Closed)
  BY DEF Inv, TypeInv
<1>3. adding # NoMessage => columns_' = Closed
  <2>1. SUFFICES ASSUME columns_ = Closed PROVE columns_' = columns_
    BY <1>2
  <2>2. columns_' = [x \in DOMAIN columns_ |-> columns_'[x]]
        /\ DOMAIN columns_' = DOMAIN columns_
    BY <1>1
  <2>3. DOMAIN columns_ = {} /\ columns_ = [x \in DOMAIN columns_ |-> columns_[x]]
    BY <2>1, EmptyIs DEF Closed
  <2> QED
    BY <2>2, <2>3
<1>4. ASSUME ReadInv, Version = "v0_1_0"
      PROVE  ReadInv'
  <2>1. /\ c \in DOMAIN columns_ /\ left \subseteq DOMAIN columns_
        /\ done <= num_rows_
        /\ current # NoColumn => current \in DOMAIN columns_ \ left
    BY <1>4 DEF ReadInv
  <2>2. /\ c \in DOMAIN cols /\ c # NoColumn /\ IsSeq(cols[c])
        /\ cols[c] # <<>> => cols[c][1].r = 0
        /\ RecordsIn(cols[c]) \in Nat
        /\ RecordsIn(cols[c]) >= num_rows_
    BY <1>4, <2>1, ReadColumns
  <2>3. /\ \/ ReadsTo(columns_[c], cols[c], done - 1, FALSE)
           \/ ReadsTo(columns_[c], cols[c], done, TRUE)
        /\ done >= 1
    <3>1. ReadsTo(columns_[c], cols[c],
                  IF c \in left THEN done - 1 ELSE done, c = current)
      BY <1>4, <2>1 DEF ReadInv
    <3>2. CASE current = NoColumn
      <4>1. c \in left /\ (c = current) = FALSE
        BY <2>2, <3>2
      <4>2. done >= 1
        BY <1>2, <1>4, <4>1 DEF ReadInv
      <4> QED
        BY <3>1, <4>1, <4>2
    <3>3. CASE current # NoColumn
      <4>1. c \notin left /\ (c = current) = TRUE
        BY <2>1, <3>3
      <4>2. ReadsTo(columns_[c], cols[c], done, TRUE)
        BY <3>1, <4>1
      <4>3. done # 0
        <5>1. PICK es : es = cols[c]
          OBVIOUS
        <5>2. PICK s : s = columns_[c]
          OBVIOUS
        <5>3. /\ s.pending \in BOOLEAN /\ s.pending /\ s.pos \in 0 .. Len(es)
              /\ s.pos >= 1 /\ es[s.pos].r # 0 /\ Count(es, s.pos - 1) = done
          BY <4>2, <5>1, <5>2 DEF ReadsTo, Used
        <5>4. Len(es) \in Nat /\ es # <<>>
          BY <2>2, <5>1, <5>3, EmptyIs, SeqProperties
        <5>5. es[1].r = 0
          BY <2>2, <5>1, <5>4
        <5>6. PICK m \in Nat : m = s.pos - 1
          BY <5>3, <5>4
        <5>7. m >= 1
          BY <5>3, <5>5, <5>6
        <5>8. PICK j \in 0 .. m : j = 1
          BY <5>7
        <5>9. Count(es, j) <= Count(es, m) /\ Count(es, m) \in Nat
          BY CountGrows, CountNext
        <5>10. Count(es, 0 + 1) = Count(es, 0) + 1 /\ Count(es, 0) = 0
          BY <5>5, CountNext
        <5>11. PICK u \in Nat : u = Count(es, m)
          BY <5>9
        <5>12. Count(es, j) = 1 /\ u >= 1
          BY <5>8, <5>9, <5>10, <5>11
        <5>13. Count(es, m) = done
          BY <5>3, <5>6
        <5>14. done = u
          BY <5>11, <5>13
        <5> QED
          BY <5>12, <5>14
      <4>4. done >= 1
        <5>1. done \in Nat
          BY <1>2
        <5> QED
          BY <4>3, <5>1
      <4> QED
        BY <4>2, <4>4
    <3> QED
      BY <3>2, <3>3
  <2>4. ReadsTo(turn(c, columns_[c]), cols[c], done, goesOn(c, columns_[c]))
    <3>1. PICK s : s = columns_[c]
      OBVIOUS
    <3>2. PICK n \in Nat : n = done
      BY <1>2
    <3>3. n >= 1 /\ n <= RecordsIn(cols[c])
      BY <1>2, <2>1, <2>2, <2>3, <3>2
    <3>4. ReadsTo(turn(c, s), cols[c], n, goesOn(c, s))
      BY <1>4, <2>2, <2>3, <3>1, <3>2, <3>3, TurnReads
    <3> QED
      BY <3>1, <3>2, <3>4
  <2>5. \A x \in DOMAIN columns_' :
          ReadsTo(columns_'[x], cols'[x],
                  IF x \in left' THEN done' - 1 ELSE done', x = current')
    <3>1. SUFFICES ASSUME NEW x \in DOMAIN columns_
                   PROVE  ReadsTo(columns_'[x], cols[x],
                            IF x \in left' THEN done - 1 ELSE done, x = current')
      BY <1>1 DEF ReadStep
    <3>2. CASE x = c
      <4>1. x \notin left' /\ columns_'[x] = turn(c, columns_[c])
        BY <1>1, <3>2
      <4>2. (x = current') <=> goesOn(c, columns_[c])
        BY <1>1, <2>2, <3>2
      <4>3. (x = current') = goesOn(c, columns_[c])
        BY <4>2 DEF goesOn
      <4> QED
        BY <2>4, <3>2, <4>1, <4>3
    <3>3. CASE x # c
      <4>1. /\ columns_'[x] = columns_[x] /\ (x \in left' <=> x \in left)
        BY <1>1, <3>3
      <4>2. x # NoColumn
        BY <1>4, ReadColumns
      <4>3. (x = current') = FALSE /\ (x = current) = FALSE
        BY <1>1, <3>3, <4>2
      <4>4. ReadsTo(columns_[x], cols[x],
                    IF x \in left THEN done - 1 ELSE done, x = current)
        BY <1>4, <3>1 DEF ReadInv
      <4> QED
        BY <4>1, <4>3, <4>4
    <3> QED
      BY <3>2, <3>3
  <2>6. columns_' # Closed
    <3>1. c \in DOMAIN columns_'
      BY <1>1, <2>1
    <3> QED
      BY <3>1, EmptyIs DEF Closed
  <2>7. DOMAIN columns_' = DOMAIN columns_
    BY <1>1
  <2>8. /\ left' \subseteq DOMAIN columns_'
        /\ left' # {} => done' > 0
        /\ current' # NoColumn => current' \in DOMAIN columns_' \ left'
        /\ done' <= num_rows_'
    BY <1>1, <1>2, <2>1, <2>3, <2>7 DEF ReadStep
  <2>9. DOMAIN columns_' \subseteq DOMAIN cols'
    BY <1>1, <1>4, <2>7 DEF ReadInv, ReadStep
  <2> QED
    BY <2>5, <2>6, <2>8, <2>9 DEF ReadInv
<1> QED
  BY <1>1, <1>2, <1>3, <1>4, ReadKeepsInv DEF Inv

----------------------------------------------------------------------------
(* The invariant holds, and what follows from it.                          *)

LEMMA InitInv ==
  ASSUME Init
  PROVE  Inv
<1>1. /\ table \in DOMAIN Tables /\ cols = [c \in DOMAIN configs |-> <<>>]
      /\ num_rows_ = 0 /\ nodes = 0 /\ failed = FALSE /\ adding = NoMessage
      /\ todo = <<>> /\ columns_ = Closed /\ left = {} /\ current = NoColumn
      /\ done = 0
  BY DEF Init
<1>2. DOMAIN cols = Leaves(schema) /\ \A c \in DOMAIN cols : cols[c] = <<>>
  BY <1>1, TableTrees
<1>3. TypeInv
  BY <1>1, <1>2, EmptyIs DEF TypeInv
<1>4. TodoInv
  BY <1>1, EmptyIs DEF TodoInv
<1>5. ColumnInv
  <2>1. SUFFICES ASSUME NEW c \in DOMAIN cols
                 PROVE  /\ Starts(<<>>, <<>>, c)
                        /\ Fits(schema, <<>>, c)
                        /\ Enough(<<>>, <<>>, 0, FALSE, c)
                        /\ Exact(<<>>, <<>>, 0, FALSE, c)
    BY <1>1, <1>2 DEF ColumnInv
  <2> QED
    BY EmptyIs DEF Starts, Fits, Enough, Exact
<1>6. ReadInv
  <2>1. DOMAIN columns_ = {}
    BY <1>1, EmptyIs DEF Closed
  <2> QED
    BY <1>1, <2>1 DEF ReadInv
<1> QED
  BY <1>3, <1>4, <1>5, <1>6 DEF Inv

LEMMA NextInv ==
  ASSUME Inv, [Next]_vars
  PROVE  Inv'
<1>1. CASE AddRecord
  BY <1>1, AddRecordInv
<1>2. CASE AddRow
  BY <1>2, AddRowInv
<1>3. CASE AddObject
  BY <1>3, AddObjectInv
<1>4. CASE AddValue
  BY <1>4, AddValueInv
<1>5. CASE AddAbsent
  BY <1>5, AddAbsentInv
<1>6. CASE Raise
  BY <1>6, RaiseInv
<1>7. CASE WriteNulls
  BY <1>7, WriteNullsInv
<1>8. CASE WriteNull
  BY <1>8, WriteNullInv
<1>9. CASE OpenMaterializer
  BY <1>9, OpenMaterializerInv
<1>10. CASE NextRecord
  BY <1>10, BeginInv DEF NextRecord
<1>11. CASE SkipRecord
  BY <1>11, BeginInv DEF SkipRecord
<1>12. ASSUME NEW c \in IF current = NoColumn THEN left ELSE {current},
              LoadColumn(c) \/ SkipColumn(c)
       PROVE  Inv'
  <2>1. Turn(c)
    BY <1>12 DEF LoadColumn, SkipColumn
  <2> QED
    BY <2>1, TurnInv
<1>13. CASE UNCHANGED vars
  <2>1. UNCHANGED <<table, cols, num_rows_, nodes, failed, adding, todo,
                    columns_, left, current, done>>
    BY <1>13 DEF vars, shredderVars, materializerVars
  <2>2. ReadStep /\ done' \in Nat /\ (adding # NoMessage => columns_' = Closed)
    BY <2>1 DEF ReadStep, Inv, TypeInv
  <2>3. ReadInv => ReadInv'
    BY <2>1 DEF ReadInv
  <2> QED
    BY <2>2, <2>3, ReadKeepsInv DEF Inv
<1> QED
  BY <1>1, <1>2, <1>3, <1>4, <1>5, <1>6, <1>7, <1>8, <1>9, <1>10, <1>11,
     <1>12, <1>13 DEF Next

\* The calls still to be made owe every column that the current record has not
\* reached exactly its share, the columns written to agree with num_rows_, and
\* each reader of the materializer has used up the records returned so far.
THEOREM Invariant == Spec => []Inv
<1>1. Init => Inv
  BY InitInv
<1>2. Inv /\ [Next]_vars => Inv'
  BY NextInv
<1> QED
  BY <1>1, <1>2, PTL DEF Spec

LEMMA InvLevelsFit ==
  ASSUME Inv
  PROVE  LevelsFit
<1>1. SUFFICES ASSUME NEW c \in DOMAIN cols, NEW i \in DOMAIN cols[c]
               PROVE  /\ cols[c][i].r <= configs[c].rlevel_max
                      /\ cols[c][i].d <= configs[c].dlevel_max
                      /\ i = 1 => cols[c][i].r = 0
  BY DEF LevelsFit
<1>2. Fits(schema, cols[c], c) /\ Starts(todo, cols[c], c)
  BY DEF Inv, ColumnInv
<1>3. /\ configs[c].rlevel_max = rlevel(schema, c)
      /\ configs[c].dlevel_max = dlevel(schema, c)
  BY TableTrees DEF Inv, TypeInv
<1>4. cols[c] # <<>>
  BY <1>1, EmptyIs
<1> QED
  BY <1>2, <1>3, <1>4 DEF Fits, Starts

LEMMA InvAligned ==
  ASSUME Inv, Strict
  PROVE  ColumnsAligned
BY DEF Inv, ColumnInv, Exact, ColumnsAligned

LEMMA InvInStep ==
  ASSUME Inv, Version = "v0_1_0"
  PROVE  InStep
<1>1. SUFFICES ASSUME Returned, NEW c \in DOMAIN columns_,
                      NEW s, s = columns_[c],
                      NEW used, used = IF s.pending THEN s.pos - 1 ELSE s.pos
               PROVE  /\ ~ s.raised
                      /\ RecordsIn(SubSeq(cols[c], 1, used)) = done
  BY DEF InStep
<1>2. ReadInv /\ left = {} /\ current = NoColumn
  BY <1>1 DEF Inv, Returned
<1>3. IsSeq(cols[c])
  BY <1>2, ReadColumns
<1>4. ReadsTo(s, cols[c], done, c = current)
  BY <1>1, <1>2 DEF ReadInv
<1>5. /\ s.raised = FALSE /\ s.pending \in BOOLEAN
      /\ s.pos \in 0 .. Len(cols[c]) /\ (s.pending => s.pos >= 1)
      /\ Count(cols[c], used) = done
  BY <1>1, <1>4 DEF ReadsTo, Used
<1>6. used \in 0 .. Len(cols[c])
  <2>1. Len(cols[c]) \in Nat
    BY <1>3, SeqProperties
  <2> QED
    BY <1>1, <1>5, <2>1
<1>7. RecordsIn(SubSeq(cols[c], 1, used)) = Count(cols[c], used)
  BY <1>3, <1>6, CountIsRecordsIn
<1> QED
  BY <1>5, <1>7

\* The levels that the shredder writes are those the schema announces for the
\* column, whatever the schema, the messages and the calls that failed.
THEOREM WrittenLevelsFit == Spec => []LevelsFit
<1>1. Inv => LevelsFit
  BY InvLevelsFit
<1> QED
  BY <1>1, Invariant, PTL

\* Messages that adhere to their schema leave as many records in every column as
\* addRow counts.
THEOREM RecordsAligned ==
  ASSUME Strict
  PROVE  Spec => []ColumnsAligned
<1>1. Inv => ColumnsAligned
  BY InvAligned
<1> QED
  BY <1>1, Invariant, PTL

\* The materializer takes one record from each column per call, whether it is
\* read or skipped, and never runs past the end.
THEOREM ColumnsInStep ==
  ASSUME Version = "v0_1_0"
  PROVE  Spec => []InStep
<1>1. Inv => InStep
  BY InvInStep
<1> QED
  BY <1>1, Invariant, PTL
=============================================================================
