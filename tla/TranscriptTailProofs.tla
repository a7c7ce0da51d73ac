------------------------- MODULE TranscriptTailProofs -------------------------
(***************************************************************************)
(* Proofs about TranscriptTail.                                            *)
(***************************************************************************)
EXTENDS TranscriptTail, FiniteSetTheorems, SequenceTheorems, WellFoundedInduction, TLAPS

-----------------------------------------------------------------------------
(* Sets of numbers *)

\* A set of natural numbers that is not empty has a least one.
LEMMA LeastNat ==
    ASSUME NEW T \in SUBSET Nat, T # {}
    PROVE  \E n \in T : \A m \in T : n <= m
<1>1. \E n \in T : \A m \in T : ~ (<<m, n>> \in OpToRel(<, Nat))
  BY NatLessThanWellFounded, WFMin
<1>2. \A m, n \in Nat : m < n => <<m, n>> \in OpToRel(<, Nat)
  BY DEF OpToRel
<1>3. \E n \in T : \A m \in T : ~ (m < n)
  BY <1>1, <1>2, Zenon
<1>. QED
  BY <1>3

\* If it is bounded it has a greatest one.
LEMMA GreatestNat ==
    ASSUME NEW T \in SUBSET Nat, T # {}, NEW b \in Nat, \A m \in T : m <= b
    PROVE  Max(T) \in T /\ \A m \in T : m <= Max(T)
<1>. DEFINE Bounds == {n \in Nat : \A m \in T : m <= n}
<1>1. PICK u \in Bounds : \A n \in Bounds : u <= n
  <2>1. b \in Bounds /\ Bounds \in SUBSET Nat
    OBVIOUS
  <2>. HIDE DEF Bounds
  <2>. QED
    BY <2>1, LeastNat
<1>2. u \in T
  <2>. SUFFICES ASSUME u \notin T PROVE FALSE
    OBVIOUS
  <2>1. u \in Nat /\ \A m \in T : m \in Nat /\ m <= u /\ m # u
    BY <1>1
  <2>2. u - 1 \in Bounds
    <3>1. PICK m0 \in T : TRUE
      OBVIOUS
    <3>2. u >= 1
      BY <2>1, <3>1
    <3>3. \A m \in T : m <= u - 1
      BY <2>1
    <3>. QED
      BY <3>2, <3>3, <2>1
  <2>. QED
    BY <1>1, <2>2
<1>. QED
  BY <1>1, <1>2 DEF Max

LEMMA MinOfTwo ==
    ASSUME NEW a \in Int, NEW b \in Int
    PROVE  Min({a, b}) = IF a <= b THEN a ELSE b
BY DEF Min

LEMMA MaxOfTwo ==
    ASSUME NEW a \in Int, NEW b \in Int
    PROVE  Max({a, b}) = IF a >= b THEN a ELSE b
BY DEF Max

-----------------------------------------------------------------------------
(* Counting from the largest number of a set *)

LEMMA FromIsFinite ==
    ASSUME NEW S \in SUBSET Nat, IsFiniteSet(S), NEW i \in Nat
    PROVE  /\ IsFiniteSet(From(S, i))
           /\ Cardinality(From(S, i)) \in 0 .. Cardinality(S)
<1>1. From(S, i) \in SUBSET S
  BY DEF From
<1>. QED
  BY <1>1, FS_Subset, FS_CardinalityType

\* The larger of two members comes first.
LEMMA FromDecreases ==
    ASSUME NEW S \in SUBSET Nat, IsFiniteSet(S), NEW i \in S, NEW j \in S, i < j
    PROVE  Cardinality(From(S, j)) < Cardinality(From(S, i))
<1>1. From(S, j) \in SUBSET From(S, i) /\ From(S, j) # From(S, i)
  <2>1. \A k \in S : k >= j => k >= i
    OBVIOUS
  <2>2. i >= i /\ ~ (i >= j)
    OBVIOUS
  <2>. QED
    BY <2>1, <2>2 DEF From
<1>. QED
  BY <1>1, FromIsFinite, FS_Subset

\* Every member has a place of its own, and every place its member.
LEMMA FromLastIs ==
    ASSUME NEW S \in SUBSET Nat, IsFiniteSet(S), NEW i \in S
    PROVE  FromLast(S, Cardinality(From(S, i))) = i
<1>1. \A j \in S : Cardinality(From(S, j)) = Cardinality(From(S, i)) => j = i
  <2>. SUFFICES ASSUME NEW j \in S, j # i,
                       Cardinality(From(S, j)) = Cardinality(From(S, i))
                PROVE  FALSE
    OBVIOUS
  <2>1. i < j \/ j < i
    OBVIOUS
  <2>2. Cardinality(From(S, i)) \in Nat /\ Cardinality(From(S, j)) \in Nat
    BY FromIsFinite, FS_CardinalityType
  <2>. QED
    BY <2>1, <2>2, FromDecreases
<1>. QED
  BY <1>1 DEF FromLast

LEMMA FromLastExists ==
    ASSUME NEW b \in Nat, NEW S \in SUBSET (1 .. b), IsFiniteSet(S),
           NEW r \in 1 .. Cardinality(S)
    PROVE  FromLast(S, r) \in S /\ Cardinality(From(S, FromLast(S, r))) = r
<1>. DEFINE T == {i \in Nat : Cardinality(From(S, i)) < r}
<1>1. Cardinality(S) \in Nat
  BY FS_CardinalityType
<1>2. \A i \in Nat : /\ IsFiniteSet(From(S, i))
                     /\ Cardinality(From(S, i)) \in Nat
  BY <1>1, FromIsFinite
<1>3. T # {}
  <2>1. From(S, b + 1) = {}
    <3>1. \A j \in S : ~ (j >= b + 1)
      OBVIOUS
    <3>. QED
      BY <3>1 DEF From
  <2>2. b + 1 \in T
    BY <2>1, FS_EmptySet
  <2>. QED
    BY <2>2
<1>4. PICK t \in T : \A n \in T : t <= n
  BY <1>3, LeastNat
<1>5. t # 0
  <2>1. From(S, 0) = S
    <3>1. \A j \in S : j >= 0
      OBVIOUS
    <3>. QED
      BY <3>1 DEF From
  <2>. QED
    BY <2>1, <1>1, <1>4
<1>. DEFINE i == t - 1
<1>6. i \in Nat /\ Cardinality(From(S, i)) >= r
  <2>1. i \in Nat /\ i \notin T
    BY <1>4, <1>5
  <2>. QED
    BY <2>1, <1>2
<1>7. i \in S /\ Cardinality(From(S, i)) = r
  <2>1. \A j \in Nat : j >= i <=> j = i \/ j >= t
    BY <1>4, <1>6
  <2>2. i \notin From(S, t)
    BY <1>4 DEF From
  <2>3. t \in Nat /\ Cardinality(From(S, t)) < r
    BY <1>4
  <2>4. i \in S
    <3>. SUFFICES ASSUME i \notin S PROVE FALSE
      OBVIOUS
    <3>1. \A j \in S : j \in Nat /\ j # i
      OBVIOUS
    <3>2. From(S, i) = From(S, t)
      BY <2>1, <3>1 DEF From
    <3>. QED
      BY <2>3, <3>2, <1>2, <1>6
  <2>5. From(S, i) = From(S, t) \cup {i}
    <3>1. \A j \in S : j >= i <=> j = i \/ j >= t
      BY <2>1
    <3>. HIDE DEF i
    <3>. QED
      BY <3>1, <2>1, <2>4 DEF From
  <2>6. Cardinality(From(S, i)) = Cardinality(From(S, t)) + 1
    BY <2>2, <2>3, <2>5, <1>2, FS_AddElement
  <2>. QED
    BY <2>3, <2>4, <2>6, <1>2, <1>6
<1>. QED
  BY <1>7 DEF FromLast

\* Moving the numbers does not change how many there are.
LEMMA ShiftedCardinality ==
    ASSUME NEW S \in SUBSET Nat, IsFiniteSet(S), NEW o \in Nat
    PROVE  /\ IsFiniteSet({j + o : j \in S})
           /\ Cardinality({j + o : j \in S}) = Cardinality(S)
<1>. DEFINE T == {j + o : j \in S}
            f == [j \in S |-> j + o]
<1>1. f \in Bijection(S, T)
  <2>1. f \in [S -> T] /\ \A t \in T : \E j \in S : f[j] = t
    OBVIOUS
  <2>2. \A i, j \in S : f[i] = f[j] => i = j
    OBVIOUS
  <2>. QED
    BY <2>1, <2>2 DEF Bijection, Injection, Surjection, IsInjective
<1>. QED
  BY <1>1, FS_Bijection DEF ExistsBijection

-----------------------------------------------------------------------------
(* Where pieces begin and end *)

LEMMA StartsAreFinite ==
    ASSUME NEW bytes \in Seq(Bytes)
    PROVE  /\ Starts(bytes) \in SUBSET (1 .. Len(bytes))
           /\ Starts(bytes) \in SUBSET Nat
           /\ IsFiniteSet(Starts(bytes))
           /\ Cardinality(Starts(bytes)) \in Nat
           /\ Newlines(bytes) \in SUBSET (1 .. Len(bytes))
           /\ IsFiniteSet(Newlines(bytes))
           /\ Cardinality(Newlines(bytes)) \in Nat
<1>1. Len(bytes) \in Nat /\ DOMAIN bytes = 1 .. Len(bytes)
  BY LenProperties
<1>2. Starts(bytes) \in SUBSET (1 .. Len(bytes)) /\ Newlines(bytes) \in SUBSET (1 .. Len(bytes))
  BY <1>1 DEF Starts, Newlines
<1>3. 1 .. Len(bytes) \in SUBSET Nat /\ IsFiniteSet(1 .. Len(bytes))
  BY <1>1, FS_Interval
<1>. QED
  BY <1>2, <1>3, FS_Subset, FS_CardinalityType

EndOf(bytes, i) == Max({j \in i .. Len(bytes) : \A k \in i .. j : bytes[k] # Newline})

\* A piece goes up to a newline or to the end of the bytes.
Ends(bytes, i, e) ==
    /\ e \in i .. Len(bytes)
    /\ \A k \in i .. e : bytes[k] # Newline
    /\ e = Len(bytes) \/ bytes[e + 1] = Newline

LEMMA EndOfIs ==
    ASSUME NEW bytes \in Seq(Bytes), NEW i \in Starts(bytes)
    PROVE  /\ Ends(bytes, i, EndOf(bytes, i))
           /\ \A e \in Nat : Ends(bytes, i, e) => e = EndOf(bytes, i)
<1>. DEFINE T == {j \in i .. Len(bytes) : \A k \in i .. j : bytes[k] # Newline}
            m == EndOf(bytes, i)
<1>1. Len(bytes) \in Nat /\ i \in 1 .. Len(bytes) /\ bytes[i] # Newline
  BY LenProperties DEF Starts
<1>2. T \in SUBSET Nat /\ i \in T /\ \A j \in T : j <= Len(bytes)
  BY <1>1
<1>3. m \in T /\ \A j \in T : j <= m
  <2>. HIDE DEF T
  <2>1. Max(T) \in T /\ \A j \in T : j <= Max(T)
    BY <1>1, <1>2, GreatestNat
  <2>. QED
    BY <2>1 DEF EndOf, T
<1>. HIDE DEF m
<1>4. m = Len(bytes) \/ bytes[m + 1] = Newline
  <2>. SUFFICES ASSUME m # Len(bytes), bytes[m + 1] # Newline PROVE FALSE
    OBVIOUS
  <2>1. m + 1 \in T
    BY <1>1, <1>3
  <2>. QED
    BY <2>1, <1>1, <1>3
<1>5. Ends(bytes, i, m)
  BY <1>3, <1>4 DEF Ends
<1>6. ASSUME NEW e \in Nat, Ends(bytes, i, e) PROVE e = m
  <2>1. e \in T
    BY <1>6 DEF Ends
  <2>2. e <= m
    BY <2>1, <1>3
  <2>3. ~ (e < m)
    BY <1>1, <1>3, <1>6 DEF Ends
  <2>. QED
    BY <2>2, <2>3, <1>1, <1>3
<1>. QED
  BY <1>5, <1>6 DEF m

\* Every byte that is not a newline belongs to a piece.
LEMMA PieceOfByte ==
    ASSUME NEW bytes \in Seq(Bytes), NEW p \in 1 .. Len(bytes), bytes[p] # Newline
    PROVE  \E s \in Starts(bytes) : s <= p /\ \A k \in s .. p : bytes[k] # Newline
<1>. DEFINE T == {s \in 1 .. p : \A k \in s .. p : bytes[k] # Newline}
<1>1. Len(bytes) \in Nat /\ DOMAIN bytes = 1 .. Len(bytes)
  BY LenProperties
<1>2. T \in SUBSET Nat /\ p \in T
  BY <1>1
<1>3. PICK s \in T : \A t \in T : s <= t
  <2>. HIDE DEF T
  <2>. QED
    BY <1>2, LeastNat
<1>4. s = 1 \/ bytes[s - 1] = Newline
  <2>. SUFFICES ASSUME s # 1, bytes[s - 1] # Newline PROVE FALSE
    OBVIOUS
  <2>1. s - 1 \in T
    BY <1>1, <1>3
  <2>. QED
    BY <2>1, <1>1, <1>3
<1>5. s \in DOMAIN bytes /\ bytes[s] # Newline
  BY <1>1, <1>3
<1>6. s \in Starts(bytes)
  BY <1>4, <1>5 DEF Starts
<1>. QED
  BY <1>3, <1>6

-----------------------------------------------------------------------------
(* The pieces of the end b of the bytes w, which begins behind place o *)

IsTail(b, w, o) == b = SubSeq(w, o + 1, Len(w))

\* A part of a part of a sequence of bytes is a part of it.
LEMMA SubSeqTwice ==
    ASSUME NEW w \in Seq(Bytes), NEW i \in 1 .. Len(w), NEW j \in 1 .. Len(w),
           NEW k \in 1 .. j - i + 1, NEW l \in 1 .. j - i + 1
    PROVE  SubSeq(SubSeq(w, i, j), k, l) = SubSeq(w, i + k - 1, i + l - 1)
  BY SubSeqOfSubSeq, SMTT(30)

LEMMA TailBytes ==
    ASSUME NEW w \in Seq(Bytes), NEW o \in 0 .. Len(w), NEW b, IsTail(b, w, o)
    PROVE  /\ b \in Seq(Bytes)
           /\ Len(w) \in Nat /\ o \in Nat /\ Len(b) \in Nat
           /\ Len(b) = Len(w) - o
           /\ \A i \in 1 .. Len(b) : b[i] = w[i + o]
           /\ DOMAIN w = 1 .. Len(w) /\ DOMAIN b = 1 .. Len(b)
<1>1. Len(w) \in Nat /\ DOMAIN w = 1 .. Len(w) /\ o \in Nat
  BY LenProperties
<1>0. Len(w) \in Nat /\ o \in Nat /\ o <= Len(w)
  BY <1>1
<1>2. \A i \in o + 1 .. Len(w) : w[i] \in Bytes
  BY <1>1, ElementOfSeq
<1>3. /\ b \in Seq(Bytes)
      /\ Len(b) = IF o + 1 <= Len(w) THEN Len(w) - (o + 1) + 1 ELSE 0
      /\ \A i \in 1 .. Len(w) - (o + 1) + 1 : b[i] = w[o + 1 + i - 1]
  BY <1>1, <1>2, SubSeqProperties DEF IsTail
<1>4. Len(b) = Len(w) - o /\ Len(b) \in Nat
  <2>1. Len(b) = IF o + 1 <= Len(w) THEN Len(w) - (o + 1) + 1 ELSE 0
    BY <1>3
  <2>2. CASE o + 1 <= Len(w)
    <3>1. Len(b) = Len(w) - (o + 1) + 1
      BY <2>1, <2>2
    <3>. QED
      BY <3>1, <2>2, <1>1
  <2>3. CASE ~ (o + 1 <= Len(w))
    <3>1. Len(b) = 0
      BY <2>1, <2>3
    <3>2. o = Len(w)
      BY <2>3, <1>0
    <3>3. Len(w) - o = 0
      BY <3>2, <1>0
    <3>. QED
      BY <3>1, <3>3
  <2>. QED
    BY <2>2, <2>3
<1>5. \A i \in 1 .. Len(b) : i \in 1 .. Len(w) - (o + 1) + 1 /\ o + 1 + i - 1 = i + o
  BY <1>1, <1>4
<1>6. DOMAIN b = 1 .. Len(b)
  BY <1>3, LenProperties
<1>. QED
  BY <1>1, <1>3, <1>4, <1>5, <1>6

LEMMA TailStarts ==
    ASSUME NEW w \in Seq(Bytes), NEW o \in 0 .. Len(w), NEW b, IsTail(b, w, o),
           NEW i \in 2 .. Len(b)
    PROVE  i \in Starts(b) <=> i + o \in Starts(w)
<1>1. /\ Len(w) \in Nat /\ o \in Nat /\ Len(b) \in Nat
      /\ Len(b) = Len(w) - o
      /\ DOMAIN w = 1 .. Len(w) /\ DOMAIN b = 1 .. Len(b)
  BY TailBytes
<1>2. i \in DOMAIN b /\ i + o \in DOMAIN w /\ i # 1 /\ i + o # 1
  BY <1>1
<1>3. b[i] = w[i + o] /\ b[i - 1] = w[(i + o) - 1]
  <2>1. \A k \in 1 .. Len(b) : b[k] = w[k + o]
    BY TailBytes
  <2>2. i - 1 \in 1 .. Len(b) /\ (i - 1) + o = (i + o) - 1
    BY <1>1
  <2>. QED
    BY <2>1, <2>2
<1>. QED
  BY <1>2, <1>3 DEF Starts

\* A piece of b ends where the piece of w ends that it is, or is the end of.
LEMMA TailEnds ==
    ASSUME NEW w \in Seq(Bytes), NEW o \in 0 .. Len(w), NEW b, IsTail(b, w, o),
           NEW i \in Starts(b), NEW s \in Starts(w), s <= i + o,
           \A k \in s .. i + o : w[k] # Newline
    PROVE  EndOf(w, s) = EndOf(b, i) + o
<1>. DEFINE e == EndOf(b, i)
<1>1. /\ Len(w) \in Nat /\ o \in Nat /\ Len(b) \in Nat
      /\ b \in Seq(Bytes) /\ Len(b) = Len(w) - o
      /\ \A k \in 1 .. Len(b) : b[k] = w[k + o]
  BY TailBytes
<1>2. i \in 1 .. Len(b) /\ s \in 1 .. Len(w)
  BY <1>1, StartsAreFinite
<1>3. Ends(b, i, e)
  BY <1>1, EndOfIs
<1>. HIDE DEF e
<1>4. /\ e \in i .. Len(b)
      /\ \A k \in i .. e : b[k] # Newline
      /\ e = Len(b) \/ b[e + 1] = Newline
  BY <1>3 DEF Ends
<1>5. \A k \in s .. e + o : w[k] # Newline
  <2>. TAKE k \in s .. e + o
  <2>1. CASE k <= i + o
    BY <2>1, <1>1, <1>2, <1>4
  <2>2. CASE k > i + o
    <3>1. k - o \in i .. e /\ k - o \in 1 .. Len(b) /\ (k - o) + o = k
      BY <2>2, <1>1, <1>2, <1>4
    <3>. QED
      BY <3>1, <1>1, <1>4
  <2>. QED
    BY <2>1, <2>2, <1>1, <1>2, <1>4
<1>6. e + o = Len(w) \/ w[(e + o) + 1] = Newline
  <2>1. CASE e = Len(b)
    BY <2>1, <1>1
  <2>2. CASE e # Len(b)
    <3>1. e + 1 \in 1 .. Len(b) /\ (e + 1) + o = (e + o) + 1
      <4>1. e \in i .. Len(b) /\ i \in 1 .. Len(b) /\ Len(b) \in Nat /\ o \in Nat
        BY <1>1, <1>2, <1>4
      <4>. QED
        BY <4>1, <2>2
    <3>. QED
      BY <3>1, <2>2, <1>1, <1>4
  <2>. QED
    BY <2>1, <2>2
<1>7. Ends(w, s, e + o)
  BY <1>1, <1>2, <1>4, <1>5, <1>6 DEF Ends
<1>8. e + o \in Nat
  BY <1>1, <1>2, <1>4
<1>. QED
  BY <1>7, <1>8, EndOfIs DEF e

\* What begins in b behind its first byte is a piece of w, in the same place
\* from the end.
LEMMA InnerPiece ==
    ASSUME NEW w \in Seq(Bytes), NEW o \in 0 .. Len(w), NEW b, IsTail(b, w, o),
           NEW i \in Starts(b), i # 1
    PROVE  /\ i + o \in Starts(w)
           /\ Cardinality(From(Starts(w), i + o)) = Cardinality(From(Starts(b), i))
           /\ PieceAt(w, i + o) = PieceAt(b, i)
<1>1. /\ Len(w) \in Nat /\ o \in Nat /\ Len(b) \in Nat
      /\ b \in Seq(Bytes) /\ Len(b) = Len(w) - o
  BY TailBytes
<1>2. i \in 2 .. Len(b)
  BY <1>1, StartsAreFinite
<1>0. \A j \in 2 .. Len(b) : j \in Starts(b) <=> j + o \in Starts(w)
  BY TailStarts
<1>3. i + o \in Starts(w)
  BY <1>0, <1>2
<1>4. Cardinality(From(Starts(w), i + o)) = Cardinality(From(Starts(b), i))
  <2>1. Starts(b) \in SUBSET (1 .. Len(b)) /\ Starts(w) \in SUBSET (1 .. Len(w))
    BY <1>1, StartsAreFinite
  <2>2. From(Starts(w), i + o) = {j + o : j \in From(Starts(b), i)}
    <3>1. ASSUME NEW k \in From(Starts(w), i + o)
          PROVE  k \in {j + o : j \in From(Starts(b), i)}
      <4>1. k \in Starts(w) /\ k \in 1 .. Len(w) /\ k >= i + o
        BY <2>1 DEF From
      <4>2. k - o \in 2 .. Len(b) /\ k - o >= i /\ (k - o) + o = k
        BY <4>1, <1>1, <1>2
      <4>3. k - o \in Starts(b)
        BY <4>1, <4>2, <1>0
      <4>4. k - o \in From(Starts(b), i)
        BY <4>2, <4>3 DEF From
      <4>. QED
        BY <4>2, <4>4
    <3>2. ASSUME NEW j \in From(Starts(b), i)
          PROVE  j + o \in From(Starts(w), i + o)
      <4>1. j \in Starts(b) /\ j \in 2 .. Len(b) /\ j >= i
        BY <2>1, <1>2 DEF From
      <4>2. j + o \in Starts(w)
        BY <4>1, <1>0
      <4>3. j + o >= i + o
        BY <4>1, <1>1, <1>2
      <4>. QED
        BY <4>2, <4>3 DEF From
    <3>. QED
      BY <3>1, <3>2
  <2>3. From(Starts(b), i) \in SUBSET Nat
    BY <2>1 DEF From
  <2>4. IsFiniteSet(From(Starts(b), i))
    BY <1>1, <1>2, StartsAreFinite, FromIsFinite
  <2>. QED
    BY <1>1, <2>2, <2>3, <2>4, ShiftedCardinality
<1>5. PieceAt(w, i + o) = PieceAt(b, i)
  <2>. DEFINE e == EndOf(b, i)
  <2>1. Ends(b, i, e)
    BY <1>1, EndOfIs
  <2>2. i + o <= i + o /\ \A k \in i + o .. i + o : w[k] # Newline
    <3>1. w[i + o] # Newline
      BY <1>3 DEF Starts
    <3>2. i + o \in Nat /\ \A k \in i + o .. i + o : k = i + o
      BY <1>1, <1>2
    <3>. QED
      BY <3>1, <3>2
  <2>3. EndOf(w, i + o) = e + o
    BY <1>3, <2>2, TailEnds
  <2>. HIDE DEF e
  <2>4. e \in i .. Len(b)
    BY <2>1 DEF Ends
  <2>5. SubSeq(SubSeq(w, o + 1, Len(w)), i, e) = SubSeq(w, o + 1 + i - 1, o + 1 + e - 1)
    <3>1. /\ o + 1 \in 1 .. Len(w) /\ Len(w) \in 1 .. Len(w)
          /\ i \in 1 .. Len(w) - (o + 1) + 1 /\ e \in 1 .. Len(w) - (o + 1) + 1
      BY <1>1, <1>2, <2>4
    <3>. QED
      BY <3>1, SubSeqTwice
  <2>6. o + 1 + i - 1 = i + o /\ o + 1 + e - 1 = e + o
    BY <1>1, <1>2, <2>4
  <2>7. SubSeq(b, i, e) = SubSeq(w, i + o, e + o)
    BY <2>5, <2>6 DEF IsTail
  <2>. QED
    BY <2>3, <2>7 DEF PieceAt, EndOf, e
<1>. QED
  BY <1>3, <1>4, <1>5

\* What b begins with, unless it is a newline, is the end of a piece of w,
\* and that piece too is the first there is from the place where b begins.
LEMMA FirstPiece ==
    ASSUME NEW w \in Seq(Bytes), NEW o \in 0 .. Len(w), NEW b, IsTail(b, w, o),
           1 \in Starts(b)
    PROVE  \E s \in Starts(w) :
              /\ Cardinality(From(Starts(w), s)) = Cardinality(Starts(b))
              /\ EndsWith(PieceAt(w, s), PieceAt(b, 1))
<1>1. /\ Len(w) \in Nat /\ o \in Nat /\ Len(b) \in Nat
      /\ b \in Seq(Bytes) /\ Len(b) = Len(w) - o
  BY TailBytes
<1>2. /\ Starts(b) \in SUBSET (1 .. Len(b)) /\ Starts(w) \in SUBSET (1 .. Len(w))
      /\ IsFiniteSet(Starts(b)) /\ IsFiniteSet(Starts(w))
      /\ Cardinality(Starts(b)) \in Nat
  BY <1>1, StartsAreFinite
<1>3. 1 <= Len(b) /\ 1 + o \in 1 .. Len(w)
  BY <1>1, <1>2
<1>4. w[1 + o] # Newline
  <2>1. b[1] # Newline
    BY DEF Starts
  <2>2. \A i \in 1 .. Len(b) : b[i] = w[i + o]
    BY TailBytes
  <2>. QED
    BY <1>3, <2>1, <2>2, <1>1
<1>5. PICK s \in Starts(w) : s <= 1 + o /\ \A k \in s .. 1 + o : w[k] # Newline
  BY <1>3, <1>4, PieceOfByte
<1>6. s \in 1 .. 1 + o
  BY <1>1, <1>2, <1>5
<1>7. \A j \in 2 .. Len(b) : j \in Starts(b) <=> j + o \in Starts(w)
  BY TailStarts
<1>8. Cardinality(From(Starts(w), s)) = Cardinality(Starts(b))
  <2>. DEFINE Rest == Starts(b) \ {1}
              Moved == {j + o : j \in Rest}
  <2>1. \A k \in Starts(w) : k > s => k > 1 + o
    <3>. SUFFICES ASSUME NEW k \in Starts(w), k > s, ~ (k > 1 + o) PROVE FALSE
      OBVIOUS
    <3>1. k \in 1 .. Len(w) /\ k - 1 \in s .. 1 + o /\ k # 1
      BY <1>1, <1>2, <1>6
    <3>2. w[k - 1] = Newline
      BY <3>1 DEF Starts
    <3>. QED
      BY <3>1, <3>2, <1>5
  <2>2. From(Starts(w), s) = Moved \cup {s}
    <3>1. ASSUME NEW k \in From(Starts(w), s), k # s
          PROVE  k \in Moved
      <4>1. k \in Starts(w) /\ k \in 1 .. Len(w) /\ k >= s
        BY <1>2 DEF From
      <4>2. k > 1 + o
        BY <2>1, <4>1, <3>1, <1>6
      <4>3. k - o \in 2 .. Len(b) /\ (k - o) + o = k
        BY <4>1, <4>2, <1>1
      <4>4. k - o \in Rest
        BY <4>1, <4>3, <1>7
      <4>. QED
        BY <4>3, <4>4
    <3>2. ASSUME NEW j \in Rest
          PROVE  j + o \in From(Starts(w), s)
      <4>1. j \in Starts(b) /\ j \in 2 .. Len(b)
        BY <1>1, <1>2
      <4>2. j + o \in Starts(w)
        BY <4>1, <1>7
      <4>3. j + o >= s
        BY <4>1, <1>1, <1>6
      <4>. QED
        BY <4>2, <4>3 DEF From
    <3>3. s \in From(Starts(w), s)
      BY <1>6 DEF From
    <3>. QED
      BY <3>1, <3>2, <3>3
  <2>3. s \notin Moved
    <3>1. \A j \in Rest : j \in 2 .. Len(b)
      BY <1>1, <1>2
    <3>2. \A j \in Rest : j + o # s
      BY <3>1, <1>1, <1>6
    <3>. QED
      BY <3>2
  <2>4. /\ Rest \in SUBSET Nat
        /\ IsFiniteSet(Rest)
        /\ Cardinality(Rest) = Cardinality(Starts(b)) - 1
    <3>1. Rest \in SUBSET Nat
      BY <1>1, <1>2
    <3>. QED
      BY <3>1, <1>2, FS_RemoveElement
  <2>. HIDE DEF Rest
  <2>5. IsFiniteSet(Moved) /\ Cardinality(Moved) = Cardinality(Rest)
    BY <1>1, <2>4, ShiftedCardinality
  <2>. HIDE DEF Moved
  <2>6. Cardinality(Moved \cup {s}) = Cardinality(Moved) + 1
    BY <2>3, <2>5, FS_AddElement
  <2>. QED
    BY <2>2, <2>4, <2>5, <2>6, <1>2
<1>9. EndsWith(PieceAt(w, s), PieceAt(b, 1))
  <2>. DEFINE e == EndOf(b, 1)
  <2>1. Ends(b, 1, e)
    BY <1>1, EndOfIs
  <2>2. EndOf(w, s) = e + o
    BY <1>5, TailEnds
  <2>. HIDE DEF e
  <2>3. e \in 1 .. Len(b)
    BY <2>1 DEF Ends
  <2>. DEFINE piece == SubSeq(w, s, e + o)
              first == o + 2 - s
  <2>4. piece \in Seq(Bytes) /\ Len(piece) = (e + o) - s + 1
    <3>1. \A k \in s .. e + o : w[k] \in Bytes
      <4>1. \A k \in s .. e + o : k \in 1 .. Len(w)
        BY <1>1, <1>6, <2>3
      <4>. QED
        BY <4>1, ElementOfSeq
    <3>2. s \in Int /\ e + o \in Int /\ s <= e + o
      BY <1>1, <1>6, <2>3
    <3>. QED
      BY <3>1, <3>2, SubSeqProperties
  <2>5. first \in 1 .. Len(piece)
    BY <2>3, <2>4, <1>1, <1>6
  <2>6. SubSeq(piece, first, Len(piece)) = SubSeq(w, o + 1, e + o)
    <3>1. /\ s \in 1 .. Len(w) /\ e + o \in 1 .. Len(w)
          /\ first \in 1 .. (e + o) - s + 1 /\ (e + o) - s + 1 \in 1 .. (e + o) - s + 1
      BY <2>3, <1>1, <1>3, <1>6
    <3>. DEFINE last == (e + o) - s + 1
    <3>2. s + first - 1 = o + 1 /\ s + last - 1 = e + o
      BY <2>3, <1>1, <1>6
    <3>. HIDE DEF first, last
    <3>3. SubSeq(SubSeq(w, s, e + o), first, last) = SubSeq(w, s + first - 1, s + last - 1)
      BY <3>1, SubSeqTwice DEF last
    <3>. QED
      BY <2>4, <3>2, <3>3 DEF last
  <2>7. SubSeq(b, 1, e) = SubSeq(w, o + 1, e + o)
    <3>1. /\ o + 1 \in 1 .. Len(w) /\ Len(w) \in 1 .. Len(w)
          /\ 1 \in 1 .. Len(w) - (o + 1) + 1 /\ e \in 1 .. Len(w) - (o + 1) + 1
      BY <1>1, <1>3, <2>3
    <3>2. SubSeq(SubSeq(w, o + 1, Len(w)), 1, e) = SubSeq(w, o + 1 + 1 - 1, o + 1 + e - 1)
      BY <3>1, SubSeqTwice
    <3>3. o + 1 + 1 - 1 = o + 1 /\ o + 1 + e - 1 = e + o
      BY <1>1, <2>3
    <3>. QED
      BY <3>2, <3>3 DEF IsTail
  <2>8. PieceAt(w, s) = piece /\ PieceAt(b, 1) = SubSeq(b, 1, e)
    BY <2>2 DEF PieceAt, EndOf, e
  <2>. HIDE DEF piece, first
  <2>. QED
    BY <2>5, <2>6, <2>7, <2>8 DEF EndsWith
<1>. QED
  BY <1>8, <1>9

\* Counted from the last, the pieces of b are those of w, but for the first,
\* of which b may have the end only.
LEMMA SamePieces ==
    ASSUME NEW w \in Seq(Bytes), NEW o \in 0 .. Len(w), NEW b, IsTail(b, w, o),
           NEW r \in 1 .. Cardinality(Starts(b))
    PROVE  LET i == FromLast(Starts(b), r)
               j == FromLast(Starts(w), r)
           IN  /\ r <= Cardinality(Starts(w))
               /\ i # 1 => PieceAt(w, j) = PieceAt(b, i)
               /\ i = 1 => r = Cardinality(Starts(b))
               /\ EndsWith(PieceAt(w, j), PieceAt(b, i))
<1>. DEFINE i == FromLast(Starts(b), r)
            j == FromLast(Starts(w), r)
<1>1. /\ Len(w) \in Nat /\ Len(b) \in Nat /\ o \in Nat
      /\ b \in Seq(Bytes)
  BY TailBytes
<1>2. /\ Starts(b) \in SUBSET (1 .. Len(b)) /\ Starts(w) \in SUBSET (1 .. Len(w))
      /\ Starts(b) \in SUBSET Nat /\ Starts(w) \in SUBSET Nat
      /\ IsFiniteSet(Starts(b)) /\ IsFiniteSet(Starts(w))
      /\ Cardinality(Starts(b)) \in Nat /\ Cardinality(Starts(w)) \in Nat
  BY <1>1, StartsAreFinite
<1>3. i \in Starts(b) /\ Cardinality(From(Starts(b), i)) = r
  BY <1>1, <1>2, FromLastExists
<1>. HIDE DEF i
<1>4. ASSUME NEW s \in Starts(w), Cardinality(From(Starts(w), s)) = r
      PROVE  j = s /\ r <= Cardinality(Starts(w))
  <2>1. s \in Nat /\ r \in Nat
    BY <1>2
  <2>2. FromLast(Starts(w), Cardinality(From(Starts(w), s))) = s
    BY <1>2, FromLastIs
  <2>3. Cardinality(From(Starts(w), s)) \in 0 .. Cardinality(Starts(w))
    BY <2>1, <1>2, FromIsFinite
  <2>. QED
    BY <2>2, <2>3, <1>2, <1>4 DEF j
<1>. HIDE DEF j
<1>5. CASE i # 1
  <2>1. /\ i + o \in Starts(w)
        /\ Cardinality(From(Starts(w), i + o)) = r
        /\ PieceAt(w, i + o) = PieceAt(b, i)
    BY <1>3, <1>5, InnerPiece
  <2>2. j = i + o /\ r <= Cardinality(Starts(w))
    BY <2>1, <1>4
  <2>3. EndsWith(PieceAt(b, i), PieceAt(b, i))
    <3>. DEFINE e == EndOf(b, i)
    <3>1. e \in i .. Len(b) /\ i \in 1 .. Len(b)
      BY <1>1, <1>2, <1>3, EndOfIs DEF Ends
    <3>. HIDE DEF e
    <3>2. \A k \in i .. e : b[k] \in Bytes
      <4>1. \A k \in i .. e : k \in 1 .. Len(b)
        BY <3>1, <1>1
      <4>. QED
        BY <4>1, <1>1, ElementOfSeq
    <3>. DEFINE piece == SubSeq(b, i, e)
    <3>3. piece \in Seq(Bytes) /\ Len(piece) = e - i + 1
      <4>1. i \in Int /\ e \in Int /\ i <= e
        BY <3>1, <1>1
      <4>. QED
        BY <4>1, <3>2, SubSeqProperties
    <3>4. 1 \in 1 .. Len(piece)
      BY <3>1, <3>3, <1>1
    <3>5. PieceAt(b, i) = piece
      BY DEF PieceAt, EndOf, e
    <3>. HIDE DEF piece
    <3>6. piece = SubSeq(piece, 1, Len(piece))
      BY <3>3, SubSeqFull
    <3>. QED
      BY <3>4, <3>5, <3>6 DEF EndsWith
  <2>. QED
    BY <2>1, <2>2, <2>3, <1>5 DEF i, j
<1>6. CASE i = 1
  <2>1. From(Starts(b), 1) = Starts(b)
    <3>1. \A k \in Starts(b) : k >= 1
      BY <1>1, <1>2
    <3>. QED
      BY <3>1 DEF From
  <2>2. r = Cardinality(Starts(b))
    BY <2>1, <1>3, <1>6
  <2>3. 1 \in Starts(b)
    BY <1>3, <1>6
  <2>4. PICK s \in Starts(w) : /\ Cardinality(From(Starts(w), s)) = r
                               /\ EndsWith(PieceAt(w, s), PieceAt(b, 1))
    BY <2>2, <2>3, FirstPiece
  <2>5. j = s /\ r <= Cardinality(Starts(w))
    BY <2>4, <1>4
  <2>. QED
    BY <2>2, <2>4, <2>5, <1>6 DEF i, j
<1>. QED
  BY <1>5, <1>6

-----------------------------------------------------------------------------
(* The last lines *)

LEMMA PieceIsBytes ==
    ASSUME NEW bytes \in Seq(Bytes), NEW i \in Starts(bytes)
    PROVE  PieceAt(bytes, i) \in Seq(Bytes)
<1>. DEFINE e == EndOf(bytes, i)
<1>1. Len(bytes) \in Nat /\ i \in 1 .. Len(bytes) /\ e \in i .. Len(bytes)
  BY StartsAreFinite, EndOfIs, EmptySeq, LenProperties DEF Ends
<1>. HIDE DEF e
<1>2. i \in Int /\ e \in Int /\ \A k \in i .. e : k \in 1 .. Len(bytes)
  BY <1>1
<1>3. \A k \in i .. e : bytes[k] \in Bytes
  BY <1>2, ElementOfSeq
<1>4. SubSeq(bytes, i, e) \in Seq(Bytes)
  BY <1>2, <1>3, SubSeqProperties
<1>. QED
  BY <1>4 DEF PieceAt, EndOf, e

LEMMA LastLinesAre ==
    ASSUME NEW bytes \in Seq(Bytes), NEW n \in Nat, NEW m \in Nat,
           m = IF n <= Cardinality(Starts(bytes)) THEN n ELSE Cardinality(Starts(bytes))
    PROVE  /\ LastLines(bytes, n) \in Seq(Seq(Bytes))
           /\ Len(LastLines(bytes, n)) = m
           /\ \A k \in 1 .. m :
                 LastLines(bytes, n)[k] = PieceAt(bytes, FromLast(Starts(bytes), m + 1 - k))
<1>. DEFINE ls == [k \in 1 .. m |-> PieceAt(bytes, FromLast(Starts(bytes), m + 1 - k))]
<1>1. /\ Len(bytes) \in Nat
      /\ Starts(bytes) \in SUBSET (1 .. Len(bytes)) /\ IsFiniteSet(Starts(bytes))
      /\ Cardinality(Starts(bytes)) \in Nat
  BY StartsAreFinite, LenProperties
<1>2. Min({n, Cardinality(Starts(bytes))}) = m
  BY <1>1, MinOfTwo
<1>3. LastLines(bytes, n) = ls
  BY <1>2 DEF LastLines
<1>4. ASSUME NEW k \in 1 .. m
      PROVE  PieceAt(bytes, FromLast(Starts(bytes), m + 1 - k)) \in Seq(Bytes)
  <2>1. m + 1 - k \in 1 .. Cardinality(Starts(bytes))
    BY <1>1
  <2>2. FromLast(Starts(bytes), m + 1 - k) \in Starts(bytes)
    BY <2>1, <1>1, FromLastExists
  <2>. QED
    BY <2>2, PieceIsBytes
<1>5. ls \in [1 .. m -> Seq(Bytes)] /\ DOMAIN ls = 1 .. m
  BY <1>4
<1>6. \A k \in 1 .. m : ls[k] = PieceAt(bytes, FromLast(Starts(bytes), m + 1 - k))
  OBVIOUS
<1>. HIDE DEF ls
<1>7. ls \in Seq(Seq(Bytes))
  BY <1>5
<1>8. Len(ls) = m
  <2>1. Len(ls) \in Nat /\ 1 .. Len(ls) = 1 .. m
    BY <1>5, <1>7, LenProperties
  <2>2. ASSUME Len(ls) > m PROVE FALSE
    BY <2>1, <2>2
  <2>3. ASSUME Len(ls) < m PROVE FALSE
    BY <2>1, <2>3
  <2>. QED
    BY <2>1, <2>2, <2>3
<1>. QED
  BY <1>3, <1>6, <1>7, <1>8

\* The last lines of b are the last lines of w, but for the first of them,
\* of which b may have the end only.
LEMMA TailLines ==
    ASSUME NEW w \in Seq(Bytes), NEW o \in 0 .. Len(w), NEW b, IsTail(b, w, o),
           NEW n \in Nat, NEW part, part = LastLines(b, n),
           NEW all, all = LastLines(w, Len(part))
    PROVE  /\ Len(all) = Len(part)
           /\ \A i \in 2 .. Len(all) : part[i] = all[i]
           /\ part # <<>> => EndsWith(all[1], part[1])
<1>. DEFINE c == Cardinality(Starts(b))
            m == IF n <= c THEN n ELSE c
<1>1. b \in Seq(Bytes)
  BY TailBytes
<1>2. c \in Nat /\ Cardinality(Starts(w)) \in Nat /\ m \in Nat /\ m <= c
  BY <1>1, StartsAreFinite
<1>3. m = IF n <= Cardinality(Starts(b)) THEN n ELSE Cardinality(Starts(b))
  OBVIOUS
<1>. HIDE DEF m, c
<1>4. /\ part \in Seq(Seq(Bytes))
      /\ Len(part) = m
      /\ \A k \in 1 .. m : part[k] = PieceAt(b, FromLast(Starts(b), m + 1 - k))
  BY <1>1, <1>2, <1>3, LastLinesAre
<1>5. \A r \in 1 .. c :
         /\ r <= Cardinality(Starts(w))
         /\ FromLast(Starts(b), r) = 1 => r = c
         /\ FromLast(Starts(b), r) # 1 =>
               PieceAt(w, FromLast(Starts(w), r)) = PieceAt(b, FromLast(Starts(b), r))
         /\ EndsWith(PieceAt(w, FromLast(Starts(w), r)), PieceAt(b, FromLast(Starts(b), r)))
  BY SamePieces DEF c
<1>6. m <= Cardinality(Starts(w))
  <2>1. CASE m = 0
    BY <2>1, <1>2
  <2>2. CASE m # 0
    BY <2>2, <1>2, <1>5
  <2>. QED
    BY <2>1, <2>2
<1>7. /\ Len(all) = m
      /\ \A k \in 1 .. m : all[k] = PieceAt(w, FromLast(Starts(w), m + 1 - k))
  <2>1. m = IF m <= Cardinality(Starts(w)) THEN m ELSE Cardinality(Starts(w))
    BY <1>6
  <2>. QED
    BY <2>1, <1>2, <1>4, LastLinesAre
<1>8. ASSUME NEW i \in 2 .. m PROVE part[i] = all[i]
  <2>1. i \in 1 .. m /\ m + 1 - i \in 1 .. c /\ m + 1 - i # c
    BY <1>2
  <2>. QED
    BY <2>1, <1>4, <1>5, <1>7
<1>9. ASSUME part # <<>> PROVE EndsWith(all[1], part[1])
  <2>1. m # 0
    BY <1>4, <1>9, EmptySeq
  <2>2. 1 \in 1 .. m /\ m + 1 - 1 = m /\ m \in 1 .. c
    BY <2>1, <1>2
  <2>. QED
    BY <2>2, <1>4, <1>5, <1>7
<1>. QED
  BY <1>4, <1>7, <1>8, <1>9

\* If w has no empty lines, n + 1 newlines in b make the last n lines of b
\* those of w.
LEMMA TailLinesAreAll ==
    ASSUME NEW w \in Seq(Bytes), NEW o \in 0 .. Len(w), NEW b, IsTail(b, w, o),
           NEW n \in Nat \ {0}, ~HasEmptyLines(w), Cardinality(Newlines(b)) >= n + 1
    PROVE  LastLines(b, n) = LastLines(w, n)
<1>. DEFINE Breaks == Newlines(b) \ {Len(b)}
            Begun == {i + 1 : i \in Breaks}
<1>1. /\ Len(w) \in Nat /\ Len(b) \in Nat /\ o \in Nat
      /\ b \in Seq(Bytes) /\ Len(b) = Len(w) - o
  BY TailBytes
<1>2. /\ Newlines(b) \in SUBSET (1 .. Len(b)) /\ IsFiniteSet(Newlines(b))
      /\ Starts(b) \in SUBSET (1 .. Len(b)) /\ IsFiniteSet(Starts(b))
      /\ Cardinality(Newlines(b)) \in Nat /\ Cardinality(Starts(b)) \in Nat
      /\ Cardinality(Starts(w)) \in Nat
  BY <1>1, StartsAreFinite
<1>3. Begun \in SUBSET (Starts(b) \ {1})
  <2>. SUFFICES ASSUME NEW i \in Breaks PROVE i + 1 \in Starts(b) \ {1}
    OBVIOUS
  <2>1. i \in 1 .. Len(b) /\ i + 1 \in 1 .. Len(b) /\ i + 1 # 1 /\ b[i] = Newline
    BY <1>1, <1>2 DEF Newlines
  <2>2. b[i + 1] # Newline
    <3>1. w[i + o] = Newline /\ b[i + 1] = w[(i + 1) + o]
      <4>1. \A k \in 1 .. Len(b) : b[k] = w[k + o]
        BY TailBytes
      <4>. QED
        BY <2>1, <4>1
    <3>2. (i + 1) + o \in 1 .. Len(w) /\ ((i + 1) + o) - 1 = i + o
      BY <2>1, <1>1
    <3>3. (i + 1) + o \notin Newlines(w)
      BY <3>1, <3>2 DEF HasEmptyLines
    <3>4. DOMAIN w = 1 .. Len(w)
      BY LenProperties
    <3>. QED
      BY <3>1, <3>2, <3>3, <3>4 DEF Newlines
  <2>3. b[(i + 1) - 1] = Newline
    BY <2>1
  <2>4. DOMAIN b = 1 .. Len(b)
    BY <1>1, LenProperties
  <2>. QED
    BY <2>1, <2>2, <2>3, <2>4 DEF Starts
<1>4. Cardinality(Starts(b) \ {1}) >= n
  <2>1. Breaks \in SUBSET Nat /\ IsFiniteSet(Breaks) /\ Cardinality(Breaks) >= n
    <3>1. Breaks \in SUBSET Nat
      BY <1>1, <1>2
    <3>2. /\ IsFiniteSet(Newlines(b) \ {Len(b)})
          /\ Cardinality(Newlines(b) \ {Len(b)}) =
               IF Len(b) \in Newlines(b) THEN Cardinality(Newlines(b)) - 1
               ELSE Cardinality(Newlines(b))
      BY <1>2, FS_RemoveElement
    <3>. QED
      BY <3>1, <3>2, <1>2
  <2>. HIDE DEF Breaks
  <2>2. Cardinality(Begun) = Cardinality(Breaks)
    BY <2>1, ShiftedCardinality
  <2>. HIDE DEF Begun
  <2>3. IsFiniteSet(Starts(b) \ {1})
    BY <1>2, FS_RemoveElement
  <2>4. Cardinality(Begun) <= Cardinality(Starts(b) \ {1})
    BY <1>3, <2>3, FS_Subset
  <2>5. Cardinality(Starts(b) \ {1}) \in Nat /\ Cardinality(Breaks) \in Nat
    BY <2>1, <2>3, FS_CardinalityType
  <2>. QED
    BY <2>1, <2>2, <2>4, <2>5
<1>. HIDE DEF Breaks, Begun
<1>5. /\ Cardinality(Starts(b)) >= n
      /\ 1 \in Starts(b) => Cardinality(Starts(b)) >= n + 1
  <2>1. Cardinality(Starts(b) \ {1}) =
          IF 1 \in Starts(b) THEN Cardinality(Starts(b)) - 1 ELSE Cardinality(Starts(b))
    BY <1>2, FS_RemoveElement
  <2>. QED
    BY <2>1, <1>2, <1>4
<1>6. ASSUME NEW r \in 1 .. n
      PROVE  /\ r <= Cardinality(Starts(w))
             /\ PieceAt(w, FromLast(Starts(w), r)) = PieceAt(b, FromLast(Starts(b), r))
  <2>1. r \in 1 .. Cardinality(Starts(b))
    BY <1>2, <1>5
  <2>2. FromLast(Starts(b), r) \in Starts(b)
    BY <2>1, <1>1, <1>2, FromLastExists
  <2>3. /\ r <= Cardinality(Starts(w))
        /\ FromLast(Starts(b), r) = 1 => r = Cardinality(Starts(b))
        /\ FromLast(Starts(b), r) # 1 =>
              PieceAt(w, FromLast(Starts(w), r)) = PieceAt(b, FromLast(Starts(b), r))
    BY <2>1, SamePieces
  <2>4. FromLast(Starts(b), r) # 1
    BY <2>2, <2>3, <1>2, <1>5
  <2>. QED
    BY <2>3, <2>4
<1>7. n <= Cardinality(Starts(w))
  BY <1>6
<1>8. /\ n = IF n <= Cardinality(Starts(b)) THEN n ELSE Cardinality(Starts(b))
      /\ n = IF n <= Cardinality(Starts(w)) THEN n ELSE Cardinality(Starts(w))
  BY <1>2, <1>5, <1>7
<1>9. /\ LastLines(b, n) \in Seq(Seq(Bytes)) /\ LastLines(w, n) \in Seq(Seq(Bytes))
      /\ Len(LastLines(b, n)) = n /\ Len(LastLines(w, n)) = n
      /\ \A k \in 1 .. n :
            /\ LastLines(b, n)[k] = PieceAt(b, FromLast(Starts(b), n + 1 - k))
            /\ LastLines(w, n)[k] = PieceAt(w, FromLast(Starts(w), n + 1 - k))
  BY <1>1, <1>8, LastLinesAre
<1>10. \A k \in 1 .. n : LastLines(b, n)[k] = LastLines(w, n)[k]
  <2>1. \A k \in 1 .. n : n + 1 - k \in 1 .. n
    OBVIOUS
  <2>. QED
    BY <2>1, <1>6, <1>9
<1>. QED
  BY <1>9, <1>10, SeqEqual

-----------------------------------------------------------------------------
(* The reader *)

\* The reader stops at the beginning of the file or once it has read enough.
IInv ==
    /\ TypeOK
    /\ pc = "split" => offset = 0 \/ Enough(buf)

\* What a read step puts in front of the part read so far is what stands in
\* front of it in the file.
LEMMA ChunkInFront ==
    ASSUME TypeOK, NEW o \in 0 .. offset
    PROVE  SubSeq(file, o + 1, offset) \o buf = SubSeq(file, o + 1, size)
<1>1. Len(file) \in Nat /\ size \in 0 .. Len(file) /\ offset \in 0 .. size
  BY LenProperties DEF TypeOK
<1>2. o + 1 \in 1 .. Len(file) + 1 /\ offset \in (o + 1) - 1 .. Len(file) /\ size \in offset .. Len(file)
  BY <1>1
<1>3. file \in Seq(Bytes) /\ buf = SubSeq(file, offset + 1, size)
  BY DEF TypeOK
<1>4. SubSeq(file, o + 1, offset) \o SubSeq(file, offset + 1, size) = SubSeq(file, o + 1, size)
  BY <1>2, <1>3, ConcatAdjacentSubSeq
<1>. QED
  BY <1>3, <1>4

LEMMA InitInv == Init => IInv
<1>. SUFFICES ASSUME Init PROVE IInv
  OBVIOUS
<1>1. <<>> \in Seq(Bytes) /\ Len(<<>>) = 0 /\ <<>> \in Seq(Seq(Bytes))
  BY EmptySeq
<1>2. SubSeq(<<>>, 0 + 1, 0) = <<>>
  BY SubSeqEmpty
<1>3. 0 \in 0 .. 0 /\ 0 <= N
  BY SizesAssumption
<1>. QED
  BY <1>1, <1>2, <1>3 DEF Init, IInv, TypeOK

LEMMA NextInv == IInv /\ [Next]_vars => IInv'
<1>. SUFFICES ASSUME IInv, [Next]_vars PROVE IInv'
  OBVIOUS
<1>1. /\ Len(file) \in Nat /\ size \in Nat /\ offset \in Nat
      /\ size <= Len(file) /\ offset <= size
      /\ ChunkSize \in Nat \ {0} /\ N \in Nat \ {0}
  BY LenProperties, SizesAssumption DEF IInv, TypeOK
<1>2. ASSUME NEW byte \in Bytes, WriteOn(byte)
      PROVE  IInv'
  <2>1. /\ file' \in Seq(Bytes)
        /\ Len(file') = Len(file) + 1
        /\ \A i \in 1 .. Len(file) : file'[i] = file[i]
    BY <1>2, AppendProperties DEF WriteOn, IInv, TypeOK
  <2>2. SubSeq(file', offset + 1, size) = SubSeq(file, offset + 1, size)
    <3>. DEFINE s == SubSeq(file', offset + 1, size)
                t == SubSeq(file, offset + 1, size)
    <3>1. \A i \in offset + 1 .. size : /\ file[i] \in Bytes
                                        /\ file'[i] = file[i]
      <4>1. \A i \in offset + 1 .. size : i \in 1 .. Len(file)
        BY <1>1
      <4>. QED
        BY <4>1, <2>1, ElementOfSeq DEF IInv, TypeOK
    <3>2. offset + 1 \in Int /\ size \in Int
      BY <1>1
    <3>3. /\ s \in Seq(Bytes) /\ t \in Seq(Bytes)
          /\ Len(s) = IF offset + 1 <= size THEN size - (offset + 1) + 1 ELSE 0
          /\ Len(t) = IF offset + 1 <= size THEN size - (offset + 1) + 1 ELSE 0
          /\ \A i \in 1 .. size - (offset + 1) + 1 :
                s[i] = file'[offset + 1 + i - 1] /\ t[i] = file[offset + 1 + i - 1]
      BY <3>1, <3>2, SubSeqProperties
    <3>. HIDE DEF s, t
    <3>4. \A i \in 1 .. Len(s) : s[i] = t[i]
      <4>. TAKE i \in 1 .. Len(s)
      <4>1. i \in 1 .. size - (offset + 1) + 1
        BY <3>3, <1>1
      <4>2. offset + 1 + i - 1 \in offset + 1 .. size
        BY <4>1, <1>1
      <4>. QED
        BY <3>1, <3>3, <4>1, <4>2
    <3>5. s = t
      BY <3>3, <3>4, SeqEqual
    <3>. QED
      BY <3>5 DEF s, t
  <2>3. UNCHANGED <<pc, size, offset, buf, lines>>
    BY <1>2 DEF WriteOn, reader
  <2>4. size \in 0 .. Len(file')
    BY <2>1, <1>1
  <2>. QED
    BY <2>1, <2>2, <2>3, <2>4 DEF IInv, TypeOK, Enough, Newlines
<1>3. ASSUME Open
      PROVE  IInv'
  <2>1. SubSeq(file, Len(file) + 1, Len(file)) = <<>>
    BY <1>1, SubSeqEmpty
  <2>2. <<>> \in Seq(Seq(Bytes)) /\ Len(<<>>) = 0
    BY EmptySeq
  <2>3. Len(file) \in 0 .. Len(file) /\ 0 <= N
    BY <1>1
  <2>. QED
    BY <2>1, <2>2, <2>3, <1>3 DEF Open, IInv, TypeOK
<1>4. ASSUME ReadChunk
      PROVE  IInv'
  <2>. DEFINE o == Max({0, offset - ChunkSize})
  <2>1. o \in 0 .. offset
    BY <1>1, MaxOfTwo
  <2>. HIDE DEF o
  <2>2. offset' = o /\ buf' = SubSeq(file, o + 1, offset) \o buf /\ UNCHANGED <<file, size, lines>>
    BY <1>4 DEF ReadChunk, o
  <2>3. buf' = SubSeq(file, o + 1, size)
    BY <2>1, <2>2, ChunkInFront DEF IInv
  <2>4. o \in 0 .. size
    BY <2>1, <1>1
  <2>5. pc' = IF offset' = 0 \/ Enough(buf') THEN "split" ELSE "read"
    BY <1>4 DEF ReadChunk
  <2>6. Enough(buf)' <=> Enough(buf')
    BY DEF Enough, Newlines
  <2>. QED
    BY <2>2, <2>3, <2>4, <2>5, <2>6 DEF IInv, TypeOK
<1>5. ASSUME UNCHANGED <<file, size>>, buf' = <<>>, offset' = size, pc' = "idle",
             lines' \in Seq(Seq(Bytes)), Len(lines') <= N
      PROVE  IInv'
  <2>1. SubSeq(file, size + 1, size) = <<>>
    BY <1>1, SubSeqEmpty
  <2>2. size \in 0 .. size
    BY <1>1
  <2>. QED
    BY <2>1, <2>2, <1>5 DEF IInv, TypeOK
<1>6. ASSUME ReturnLines
      PROVE  IInv'
  <2>1. buf \in Seq(Bytes)
    <3>1. \A i \in offset + 1 .. size : i \in 1 .. Len(file)
      BY <1>1
    <3>2. \A i \in offset + 1 .. size : file[i] \in Bytes
      BY <3>1, ElementOfSeq DEF IInv, TypeOK
    <3>3. offset + 1 \in Int /\ size \in Int
      BY <1>1
    <3>. QED
      BY <3>2, <3>3, SubSeqProperties DEF IInv, TypeOK
  <2>. DEFINE c == Cardinality(Starts(buf))
              m == IF N <= c THEN N ELSE c
  <2>2. c \in Nat
    BY <2>1, StartsAreFinite
  <2>3. m \in Nat /\ m <= N
    BY <2>2, <1>1
  <2>4. LastLines(buf, N) \in Seq(Seq(Bytes)) /\ Len(LastLines(buf, N)) <= N
    BY <2>1, <2>3, <1>1, LastLinesAre
  <2>. QED
    BY <2>4, <1>5, <1>6 DEF ReturnLines
<1>7. ASSUME ReadFails
      PROVE  IInv'
  <2>1. <<>> \in Seq(Seq(Bytes)) /\ Len(<<>>) <= N
    BY <1>1, EmptySeq
  <2>. QED
    BY <2>1, <1>5, <1>7 DEF ReadFails
<1>8. CASE UNCHANGED vars
  BY <1>8 DEF vars, reader, IInv, TypeOK, Enough, Newlines
<1>. QED
  BY <1>2, <1>3, <1>4, <1>6, <1>7, <1>8 DEF Next

LEMMA AlwaysInv == Spec => []IInv
BY InitInv, NextInv, PTL DEF Spec

\* The part read so far is, after every chunk, a stretch of the file that goes
\* up to where the end was when it was opened, and no more lines are returned
\* than were asked for, whatever the chunk size (buf and offset of
\* readLastLines, monitor.go:376-405).
THEOREM TypeCorrect == Spec => []TypeOK
<1>1. IInv => TypeOK
  BY DEF IInv
<1>. QED
  BY <1>1, AlwaysInv, PTL

\* At the moment the lines are returned the part read is the end of what was
\* written when the file was opened, and all of it or n + 1 newlines of it.
LEMMA ReturnsTailLines ==
    ASSUME IInv, Next, Returns
    PROVE  /\ Written \in Seq(Bytes)
           /\ offset \in 0 .. Len(Written)
           /\ IsTail(buf, Written, offset)
           /\ lines' = LastLines(buf, N)
           /\ offset = 0 \/ Enough(buf)
<1>1. /\ Len(file) \in Nat /\ size \in 0 .. Len(file) /\ offset \in 0 .. size
      /\ size \in Nat /\ offset \in Nat
  BY LenProperties DEF IInv, TypeOK
<1>2. Written \in Seq(Bytes) /\ Len(Written) = size
  <2>1. \A i \in 1 .. size : i \in 1 .. Len(file)
    BY <1>1
  <2>2. \A i \in 1 .. size : file[i] \in Bytes
    BY <2>1, ElementOfSeq DEF IInv, TypeOK
  <2>3. /\ SubSeq(file, 1, size) \in Seq(Bytes)
        /\ Len(SubSeq(file, 1, size)) = IF 1 <= size THEN size - 1 + 1 ELSE 0
    BY <1>1, <2>2, SubSeqProperties
  <2>. QED
    BY <1>1, <2>3 DEF Written
<1>3. SubSeq(Written, offset + 1, size) = SubSeq(file, offset + 1, size)
  <2>1. CASE offset = size
    <3>1. offset + 1 \in Int /\ size \in Int /\ size < offset + 1
      BY <1>1, <2>1
    <3>. QED
      BY <3>1, SubSeqEmpty
  <2>2. CASE offset # size
    <3>1. /\ 1 \in 1 .. Len(file) /\ size \in 1 .. Len(file)
          /\ offset + 1 \in 1 .. size - 1 + 1 /\ size \in 1 .. size - 1 + 1
      BY <1>1, <2>2
    <3>2. SubSeq(SubSeq(file, 1, size), offset + 1, size)
            = SubSeq(file, 1 + (offset + 1) - 1, 1 + size - 1)
      BY <3>1, SubSeqTwice DEF IInv, TypeOK
    <3>3. 1 + (offset + 1) - 1 = offset + 1 /\ 1 + size - 1 = size
      BY <1>1
    <3>. QED
      BY <3>2, <3>3 DEF Written
  <2>. QED
    BY <2>1, <2>2
<1>4. IsTail(buf, Written, offset)
  BY <1>2, <1>3 DEF IsTail, IInv, TypeOK
<1>5. ReturnLines
  BY DEF Next, Returns, WriteOn, Open, ReadChunk, ReadFails, reader
<1>. QED
  BY <1>1, <1>2, <1>4, <1>5 DEF ReturnLines, IInv

\* From a file without empty lines readLastLines returns exactly the last n
\* lines there were when it was opened, for every n and chunk size and however
\* the writes of Claude Code come between the reads (monitor.go:358-413).
THEOREM LastLinesAreReturned == Spec => ReturnsLastLines
<1>1. IInv /\ [Next]_vars =>
        [Returns /\ ~HasEmptyLines(Written) => lines' = LastLines(Written, N)]_vars
  <2>. SUFFICES ASSUME IInv, Next, Returns, ~HasEmptyLines(Written)
                PROVE  lines' = LastLines(Written, N)
    BY DEF vars, reader
  <2>1. /\ Written \in Seq(Bytes)
        /\ offset \in 0 .. Len(Written)
        /\ IsTail(buf, Written, offset)
        /\ lines' = LastLines(buf, N)
        /\ offset = 0 \/ Enough(buf)
    BY ReturnsTailLines
  <2>2. CASE offset = 0
    <3>1. buf = Written
      BY <2>1, <2>2, SubSeqFull DEF IsTail
    <3>. QED
      BY <2>1, <3>1
  <2>3. CASE Enough(buf)
    BY <2>1, <2>3, SizesAssumption, TailLinesAreAll DEF Enough
  <2>. QED
    BY <2>1, <2>2, <2>3
<1>. QED
  BY <1>1, AlwaysInv, PTL DEF Spec, ReturnsLastLines

\* With empty lines it may return fewer, but what it returns are the last
\* lines there were, in order, of which only the first may lack its beginning
\* (the filter of monitor.go:400-412 takes away lines that were counted).
THEOREM TheEndIsReturned == Spec => ReturnsTheEnd
<1>. DEFINE Right == LET all == LastLines(Written, Len(lines'))
                     IN  /\ Len(all) = Len(lines')
                         /\ \A i \in 2 .. Len(all) : lines'[i] = all[i]
                         /\ lines' # <<>> => EndsWith(all[1], lines'[1])
<1>1. IInv /\ [Next]_vars => [Returns => Right]_vars
  <2>. SUFFICES ASSUME IInv, Next, Returns PROVE Right
    BY DEF vars, reader
  <2>1. /\ Written \in Seq(Bytes)
        /\ offset \in 0 .. Len(Written)
        /\ IsTail(buf, Written, offset)
        /\ lines' = LastLines(buf, N)
    BY ReturnsTailLines
  <2>2. N \in Nat
    BY SizesAssumption
  <2>. DEFINE all == LastLines(Written, Len(lines'))
  <2>3. /\ Len(all) = Len(lines')
        /\ \A i \in 2 .. Len(all) : lines'[i] = all[i]
        /\ lines' # <<>> => EndsWith(all[1], lines'[1])
    BY <2>1, <2>2, TailLines
  <2>. QED
    BY <2>3
<1>. QED
  BY <1>1, AlwaysInv, PTL DEF Spec, ReturnsTheEnd
=============================================================================
