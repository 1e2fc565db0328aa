------------------------ MODULE TensorParallel_proofs ------------------------
(***************************************************************************)
(* The split of a model over ranks is right for every number of ranks and  *)
(* every size of the model.                                                *)
(***************************************************************************)
EXTENDS TensorParallel, FiniteSetTheorems, WellFoundedInduction, TLAPS

-----------------------------------------------------------------------------
(* Facts about the naturals.  Induction is for a property given as a set:  *)
(* the provers cannot apply it to one given as an operator.                *)

(* A non-empty set of naturals has a least element. *)
LEMMA LeastNatural ==
  ASSUME NEW T \in SUBSET Nat, T # {}
  PROVE  \E x \in T : \A y \in T : x <= y
<1>1. PICK x \in T : \A y \in T : ~(<<y, x>> \in OpToRel(<, Nat))
  BY WFMin, NatLessThanWellFounded
<1>2. \A y \in T : ~(y < x)
  BY <1>1 DEF OpToRel
<1> QED
  BY <1>2

(* Induction, for a property given as a set. *)
LEMMA InductionOnNat ==
  ASSUME NEW T, 0 \in T, \A n \in Nat : n \in T => n + 1 \in T
  PROVE  Nat \subseteq T
<1> SUFFICES ASSUME Nat \ T # {} PROVE FALSE
  OBVIOUS
<1>1. PICK x \in Nat \ T : \A y \in Nat \ T : x <= y
  BY LeastNatural
<1>2. x # 0 /\ x - 1 \in Nat
  BY <1>1
<1>3. x - 1 \in T
  BY <1>1, <1>2
<1> QED
  BY <1>1, <1>2, <1>3

(* Division with remainder by a positive number. *)
LEMMA DivMod ==
  ASSUME NEW m \in Nat, NEW n \in Nat \ {0}
  PROVE  /\ m \div n \in Nat /\ m % n \in 0 .. n-1
         /\ m = n * (m \div n) + (m % n)
OBVIOUS

(* The quotient and the remainder are the only ones. *)
LEMMA DivModUnique ==
  ASSUME NEW n \in Nat \ {0}, NEW q \in Nat, NEW r \in 0 .. n-1
  PROVE  (n * q + r) \div n = q /\ (n * q + r) % n = r
OBVIOUS

LEMMA DivModIs ==
  ASSUME NEW a, NEW n \in Nat \ {0}, NEW q \in Nat, NEW r \in 0 .. n-1, a = n * q + r
  PROVE  a \div n = q /\ a % n = r
BY DivModUnique

(* Products keep the order. *)
LEMMA MulMono ==
  ASSUME NEW a \in Nat, NEW b \in Nat, NEW c \in Nat, a <= b
  PROVE  c * a \in Nat /\ c * b \in Nat /\ c * a <= c * b
<1>1. PICK d \in Nat : b = a + d
  <2>1. b - a \in Nat /\ b = a + (b - a)
    OBVIOUS
  <2> QED
    BY <2>1
<1>2. c * b = c * a + c * d /\ c * d \in Nat /\ c * a \in Nat
  BY <1>1
<1> QED
  BY <1>2

-----------------------------------------------------------------------------
(* DistLinear::setWeight cuts the vocabulary into parts that follow on one *)
(* another.                                                                *)
LEMMA PartType ==
  ASSUME NEW N \in Nat, NEW S \in Nat \ {0}, NEW i \in Nat
  PROVE  SplitOffset(N, S, i) \in Nat /\ SplitSize(N, S, i) \in Nat
<1>1. N \div S \in Nat /\ N % S \in Nat
  BY DivMod
<1>2. (N \div S) * i \in Nat
  BY <1>1
<1> QED
  BY <1>1, <1>2 DEF SplitOffset, SplitSize

LEMMA PartsFollow ==
  ASSUME NEW N \in Nat, NEW S \in Nat \ {0}
  PROVE  /\ SplitOffset(N, S, 0) = 0 /\ SplitOffset(N, S, S) = N
         /\ \A i \in Nat : SplitOffset(N, S, i + 1) = SplitOffset(N, S, i) + SplitSize(N, S, i)
<1> DEFINE b == N \div S
           m == N % S
<1>1. b \in Nat /\ m \in Nat /\ m < S /\ N = S * b + m
  BY DivMod
<1>2. /\ \A i \in Nat : SplitOffset(N, S, i) = b * i + (IF i < m THEN i ELSE m)
      /\ \A i \in Nat : SplitSize(N, S, i) = b + (IF i < m THEN 1 ELSE 0)
  BY DEF SplitOffset, SplitSize
<1> HIDE DEF b, m
<1>3. SplitOffset(N, S, 0) = 0
  BY <1>1, <1>2
<1>4. SplitOffset(N, S, S) = N
  <2>1. b * S = S * b
    BY <1>1
  <2> QED
    BY <1>1, <1>2, <2>1
<1>5. ASSUME NEW i \in Nat PROVE SplitOffset(N, S, i + 1) = SplitOffset(N, S, i) + SplitSize(N, S, i)
  <2>1. b * (i + 1) = b * i + b /\ b * i \in Nat
    BY <1>1
  <2>2. SplitOffset(N, S, i + 1) = b * i + b + (IF i + 1 < m THEN i + 1 ELSE m)
    BY <1>2, <2>1
  <2>3. SplitOffset(N, S, i) + SplitSize(N, S, i) =
          (b * i + (IF i < m THEN i ELSE m)) + (b + (IF i < m THEN 1 ELSE 0))
    BY <1>2
  <2> DEFINE bi == b * i
  <2> HIDE DEF bi
  <2>4. bi \in Nat
    BY <2>1 DEF bi
  <2>5. bi + b + (IF i + 1 < m THEN i + 1 ELSE m) = (bi + (IF i < m THEN i ELSE m)) + (b + (IF i < m THEN 1 ELSE 0))
    BY <1>1, <2>4
  <2> QED
    BY <2>2, <2>3, <2>5 DEF bi
<1> QED
  BY <1>3, <1>4, <1>5

LEMMA PartsGrow ==
  ASSUME NEW N \in Nat, NEW S \in Nat \ {0}, NEW i \in Nat, NEW j \in Nat, i <= j
  PROVE  SplitOffset(N, S, i) <= SplitOffset(N, S, j)
<1> DEFINE b == N \div S
           m == N % S
<1>1. b \in Nat /\ m \in Nat
  BY DivMod
<1>2. /\ SplitOffset(N, S, i) = b * i + (IF i < m THEN i ELSE m)
      /\ SplitOffset(N, S, j) = b * j + (IF j < m THEN j ELSE m)
  BY DEF SplitOffset
<1> HIDE DEF b, m
<1>3. b * i \in Nat /\ b * j \in Nat /\ b * i <= b * j
  BY <1>1, MulMono
<1>4. (IF i < m THEN i ELSE m) <= (IF j < m THEN j ELSE m)
  BY <1>1
<1> QED
  BY <1>1, <1>2, <1>3, <1>4

(* Every token is in one part. *)
LEMMA PartOf ==
  ASSUME NEW N \in Nat, NEW S \in Nat \ {0}, NEW v \in 0 .. N-1
  PROVE  /\ \E i \in 0 .. S-1 : SplitOffset(N, S, i) <= v /\ v < SplitOffset(N, S, i + 1)
         /\ \A i, j \in 0 .. S-1 :
              /\ SplitOffset(N, S, i) <= v /\ v < SplitOffset(N, S, i + 1)
              /\ SplitOffset(N, S, j) <= v /\ v < SplitOffset(N, S, j + 1)
              => i = j
<1> DEFINE Off(i) == SplitOffset(N, S, i)
           T == {i \in Nat : v < Off(i + 1)}
<1>1. \A i \in Nat : Off(i) \in Nat
  BY PartType
<1>2. Off(0) = 0 /\ Off(S) = N
  BY PartsFollow
<1>3. S - 1 \in T
  BY <1>2
<1>4. PICK i \in T : \A j \in T : i <= j
  BY <1>3, LeastNatural
<1>5. i \in 0 .. S-1
  BY <1>3, <1>4
<1>6. Off(i) <= v
  <2>1. CASE i = 0
    BY <1>2, <2>1
  <2>2. CASE i # 0
    <3>1. i - 1 \in Nat /\ i - 1 \notin T /\ (i - 1) + 1 = i
      BY <1>4, <2>2
    <3>2. ~(v < Off(i))
      BY <3>1
    <3> QED
      BY <1>1, <1>4, <3>2
  <2> QED
    BY <2>1, <2>2
<1>7. v < Off(i + 1)
  BY <1>4
<1>8. ASSUME NEW k \in 0 .. S-1, NEW j \in 0 .. S-1, Off(k) <= v, v < Off(k + 1), Off(j) <= v, v < Off(j + 1), k < j
      PROVE  FALSE
  <2>1. Off(k + 1) <= Off(j)
    BY <1>8, PartsGrow
  <2> QED
    BY <1>1, <1>8, <2>1
<1> HIDE DEF Off
<1>9. \A k, j \in 0 .. S-1 : Off(k) <= v /\ v < Off(k + 1) /\ Off(j) <= v /\ v < Off(j + 1) => k = j
  BY <1>8
<1> QED
  BY <1>5, <1>6, <1>7, <1>9 DEF Off

-----------------------------------------------------------------------------
(* Model::forward works out the same parts. *)
LEMMA ShapeType ==
  ASSUME shape \in Shapes
  PROVE  /\ shape.splits \in Nat \ {0} /\ shape.vocabSize \in Nat \ {0} /\ shape.rows \in Nat \ {0}
         /\ shape.attHeadNum \in Nat \ {0} /\ shape.kvHeadNum \in Nat \ {0}
         /\ shape.intermediateSize \in Nat \ {0} /\ shape.standard \in BOOLEAN
         /\ shape.attHeadNum % shape.kvHeadNum = 0
         /\ 0 \in Rank /\ \A r \in Rank : r \in Nat /\ r + 1 \in Nat /\ r < shape.splits
BY ShapesAssumption DEF Rank

LEMMA OffsetIs ==
  ASSUME shape \in Shapes
  PROVE  \A i \in Nat : Offset[i] = SplitOffset(shape.vocabSize, shape.splits, i)
<1> DEFINE Off(i) == SplitOffset(shape.vocabSize, shape.splits, i)
           f == [i \in Nat |-> Off(i)]
           body(g) == [i \in Nat |-> IF i = 0 THEN 0 ELSE g[i-1] + SplitSizes(i-1)]
           T == {i \in Nat : Offset[i] = Off(i)}
<1>1. /\ Off(0) = 0 /\ \A i \in Nat : Off(i + 1) = Off(i) + SplitSizes(i)
  BY ShapeType, PartsFollow DEF SplitSizes, SplitSize
<1> HIDE DEF Off
<1>2. f = body(f)
  <2>1. ASSUME NEW i \in Nat PROVE f[i] = IF i = 0 THEN 0 ELSE f[i-1] + SplitSizes(i-1)
    <3>1. CASE i = 0
      BY <1>1, <3>1
    <3>2. CASE i # 0
      <4>1. i - 1 \in Nat /\ (i - 1) + 1 = i
        BY <3>2
      <4> QED
        BY <1>1, <3>2, <4>1
    <3> QED
      BY <3>1, <3>2
  <2> QED
    BY <2>1
<1>3. Offset = CHOOSE g : g = body(g)
  BY DEF Offset
<1> HIDE DEF f
<1>4. Offset = body(Offset)
  <2> HIDE DEF body
  <2> QED
    BY <1>2, <1>3
<1>5. 0 \in T
  BY <1>1, <1>4
<1>6. ASSUME NEW n \in Nat, n \in T PROVE n + 1 \in T
  <2>1. n + 1 \in Nat /\ n + 1 # 0 /\ (n + 1) - 1 = n
    OBVIOUS
  <2>2. Offset[n + 1] = Offset[n] + SplitSizes(n)
    BY <1>4, <2>1
  <2> QED
    BY <1>1, <1>6, <2>2
<1> HIDE DEF T
<1>7. Nat \subseteq T
  BY <1>5, <1>6, InductionOnNat
<1> QED
  BY <1>7 DEF T, Off

(* Where row j of rank i is in the buffer that allgatherv fills. *)
LEMMA RecvAt ==
  ASSUME shape \in Shapes, \A r \in Rank : outBuf[r] = PartLogits(r),
         NEW i \in Rank, NEW j \in 0 .. shape.rows-1, NEW k \in 0 .. SplitSizes(i)-1
  PROVE  /\ Offset[i] * shape.rows + j * SplitSizes(i) + k \in 0 .. shape.vocabSize * shape.rows - 1
         /\ LogitsRecvBuf[Offset[i] * shape.rows + j * SplitSizes(i) + k] = <<j, Offset[i] + k>>
<1> DEFINE S == shape.splits
           V == shape.vocabSize
           M == shape.rows
           Off(h) == SplitOffset(V, S, h)
           z == SplitSizes(i)
           p == Off(i) * M + j * z + k
           In(h) == Offset[h] * M <= p /\ p < Offset[h + 1] * M
<1>1. /\ S \in Nat \ {0} /\ V \in Nat \ {0} /\ M \in Nat \ {0} /\ i \in Nat /\ i < S
      /\ \A h \in Rank : h \in Nat /\ h + 1 \in Nat
  BY ShapeType
<1>2. /\ \A h \in Nat : Offset[h] = Off(h) /\ Off(h) \in Nat
      /\ z = SplitSize(V, S, i) /\ z \in Nat /\ Off(i + 1) = Off(i) + z /\ Off(S) = V
  BY <1>1, OffsetIs, PartType, PartsFollow DEF SplitSizes, SplitSize
<1>3. \A g, h \in Nat : g <= h => Off(g) <= Off(h)
  BY <1>1, PartsGrow
<1> HIDE DEF S, V, M, Off, z
<1>4. j \in Nat /\ j <= M - 1 /\ k \in Nat /\ k < z /\ z # 0 /\ z \in Nat \ {0}
  BY <1>1, <1>2 DEF M, z
<1>5. j * z \in Nat /\ j * z + k < M * z /\ j * z + k \in Nat /\ M * z \in Nat
  <2>1. z * j \in Nat /\ z * (M - 1) \in Nat /\ z * j <= z * (M - 1)
    <3>1. M - 1 \in Nat
      BY <1>1
    <3> QED
      BY <1>2, <1>4, <3>1, MulMono
  <2>2. z * (M - 1) = M * z - z /\ M * z \in Nat /\ z * j = j * z
    BY <1>1, <1>2, <1>4
  <2> QED
    BY <1>4, <2>1, <2>2
<1>6. \A g \in Nat : Off(g) * M \in Nat
  BY <1>1, <1>2
<1>7. \A g, h \in Nat : g <= h => Off(g) * M <= Off(h) * M
  <2> SUFFICES ASSUME NEW g \in Nat, NEW h \in Nat, g <= h PROVE Off(g) * M <= Off(h) * M
    OBVIOUS
  <2>1. M * Off(g) <= M * Off(h)
    BY <1>1, <1>2, <1>3, MulMono
  <2>2. M * Off(g) = Off(g) * M /\ M * Off(h) = Off(h) * M
    BY <1>1, <1>2
  <2> QED
    BY <2>1, <2>2
<1>8. Off(i + 1) * M = Off(i) * M + M * z
  BY <1>1, <1>2
<1>9. p \in Nat /\ Off(i) * M <= p /\ p < Off(i + 1) * M
  BY <1>1, <1>5, <1>6, <1>8
<1>10. p \in 0 .. V * M - 1
  <2>1. Off(i + 1) * M <= Off(S) * M /\ Off(S) * M = V * M /\ V * M \in Nat /\ Off(i + 1) * M \in Nat
    BY <1>1, <1>2, <1>6, <1>7
  <2> QED
    BY <1>9, <2>1
<1>11. In(i)
  BY <1>1, <1>2, <1>9
<1>12. ASSUME NEW h \in Rank, In(h) PROVE h = i
  <2>1. h \in Nat /\ Off(h) * M \in Nat /\ Off(h + 1) * M \in Nat /\ Off(i) * M \in Nat /\ Off(i + 1) * M \in Nat
    BY <1>1, <1>6
  <2>2. Off(h) * M <= p /\ p < Off(h + 1) * M
    BY <1>1, <1>2, <1>12, <2>1
  <2>3. CASE h < i
    <3>1. Off(h + 1) * M <= Off(i) * M
      BY <1>1, <1>7, <2>1, <2>3
    <3> QED
      BY <1>9, <2>1, <2>2, <3>1
  <2>4. CASE i < h
    <3>1. Off(i + 1) * M <= Off(h) * M
      BY <1>1, <1>7, <2>1, <2>4
    <3> QED
      BY <1>9, <2>1, <2>2, <3>1
  <2> QED
    BY <1>1, <2>1, <2>3, <2>4
<1> DEFINE q == CHOOSE h \in Rank : In(h)
<1>13. LogitsRecvBuf[p] = outBuf[q][p - Offset[q] * M]
  BY <1>10 DEF LogitsRecvBuf, M, V
<1>14. q = i
  BY <1>11, <1>12
<1> HIDE DEF q, In
<1>15. p - Offset[i] * M = j * z + k
  BY <1>1, <1>2, <1>5, <1>6
<1>16. PartLogits(i)[j * z + k] = <<j, Off(i) + k>>
  <2>1. j * z + k \in 0 .. M * z - 1
    BY <1>5
  <2>2. j * z + k = z * j + k
    BY <1>2, <1>4
  <2>3. (j * z + k) \div z = j /\ (j * z + k) % z = k
    <3>1. k \in 0 .. z - 1
      BY <1>2, <1>4
    <3> QED
      BY <1>4, <2>2, <3>1, DivModUnique
  <2>4. PartLogits(i) = [x \in 0 .. M * z - 1 |-> <<x \div z, Off(i) + (x % z)>>]
    BY <1>2 DEF PartLogits, M, Off, V, S
  <2> QED
    BY <2>1, <2>3, <2>4
<1>17. LogitsRecvBuf[p] = <<j, Off(i) + k>>
  BY <1>13, <1>14, <1>15, <1>16
<1>18. p = Offset[i] * M + j * z + k /\ Off(i) = Offset[i]
  BY <1>1, <1>2
<1> QED
  BY <1>10, <1>17, <1>18 DEF M, z, V

(* Model::forward puts every logit in its place. *)
LEMMA ReorderInPlace ==
  ASSUME shape \in Shapes, \A r \in Rank : outBuf[r] = PartLogits(r),
         NEW j \in 0 .. shape.rows-1, NEW v \in 0 .. shape.vocabSize-1
  PROVE  Reorder[j * shape.vocabSize + v] = <<j, v>>
<1> DEFINE S == shape.splits
           V == shape.vocabSize
           M == shape.rows
           p == j * V + v
           In(h) == Offset[h] <= v /\ v < Offset[h + 1]
           i == CHOOSE h \in Rank : In(h)
<1>1. S \in Nat \ {0} /\ V \in Nat \ {0} /\ M \in Nat \ {0} /\ \A h \in Rank : h \in Nat /\ h + 1 \in Nat
  BY ShapeType
<1>2. \A h \in Nat : /\ Offset[h] = SplitOffset(V, S, h) /\ Offset[h] \in Nat
                     /\ Offset[h + 1] = Offset[h] + SplitSizes(h)
  <2> SUFFICES ASSUME NEW h \in Nat
               PROVE  /\ Offset[h] = SplitOffset(V, S, h) /\ Offset[h] \in Nat
                      /\ Offset[h + 1] = Offset[h] + SplitSizes(h)
    OBVIOUS
  <2>1. h + 1 \in Nat /\ Offset[h] = SplitOffset(V, S, h) /\ Offset[h + 1] = SplitOffset(V, S, h + 1)
    BY OffsetIs
  <2>2. SplitOffset(V, S, h) \in Nat
    BY <1>1, PartType
  <2>3. SplitOffset(V, S, h + 1) = SplitOffset(V, S, h) + SplitSize(V, S, h)
    BY <1>1, PartsFollow
  <2>4. SplitSizes(h) = SplitSize(V, S, h)
    BY DEF SplitSizes, SplitSize
  <2> QED
    BY <2>1, <2>2, <2>3, <2>4
<1>3. i \in Rank /\ In(i)
  <2>1. PICK h \in 0 .. S-1 : SplitOffset(V, S, h) <= v /\ v < SplitOffset(V, S, h + 1)
    BY <1>1, PartOf
  <2>2. h \in Rank /\ h \in Nat /\ h + 1 \in Nat
    BY <1>1 DEF Rank
  <2>3. In(h)
    BY <1>2, <2>1, <2>2
  <2> QED
    BY <2>2, <2>3
<1> HIDE DEF V, M, S
<1>4. p \div V = j /\ p % V = v /\ p \in 0 .. V * M - 1
  <2>1. j \in Nat /\ v \in Nat /\ v \in 0 .. V-1 /\ j <= M - 1 /\ M - 1 \in Nat
    BY <1>1 DEF V, M
  <2>2. p = V * j + v
    BY <1>1, <2>1
  <2>3. p \div V = j /\ p % V = v
    BY <1>1, <2>1, <2>2, DivModUnique
  <2>4. V * j \in Nat /\ V * (M - 1) \in Nat /\ V * j <= V * (M - 1)
    BY <1>1, <2>1, MulMono
  <2>5. V * (M - 1) = V * M - V /\ V * M \in Nat
    BY <1>1
  <2>6. p \in 0 .. V * M - 1
    BY <1>1, <2>1, <2>2, <2>4, <2>5
  <2> QED
    BY <2>3, <2>6
<1>5. Reorder[p] = LogitsRecvBuf[Offset[i] * M + j * SplitSizes(i) + (v - Offset[i])]
  BY <1>4 DEF Reorder, V, M
<1> HIDE DEF i
<1>6. i \in Nat /\ Offset[i] \in Nat /\ v \in Nat /\ v - Offset[i] \in 0 .. SplitSizes(i) - 1
      /\ Offset[i] + (v - Offset[i]) = v
  <2>1. i \in Nat /\ Offset[i] \in Nat /\ Offset[i + 1] \in Nat /\ Offset[i + 1] = Offset[i] + SplitSizes(i)
    BY <1>1, <1>2, <1>3
  <2>2. v \in Nat /\ SplitSizes(i) \in Int
    <3>1. SplitSizes(i) = SplitSize(V, S, i)
      BY DEF SplitSizes, SplitSize, V, S
    <3>2. SplitSize(V, S, i) \in Nat
      BY <1>1, <2>1, PartType
    <3>3. v \in 0 .. V - 1
      BY DEF V
    <3> QED
      BY <1>1, <3>1, <3>2, <3>3
  <2> QED
    BY <1>3, <2>1, <2>2
<1>7. LogitsRecvBuf[Offset[i] * M + j * SplitSizes(i) + (v - Offset[i])] = <<j, Offset[i] + (v - Offset[i])>>
  BY <1>3, <1>6, RecvAt DEF M
<1> QED
  BY <1>5, <1>6, <1>7 DEF V

-----------------------------------------------------------------------------
(* The other two ways to cut a range, of the heads and of the columns, are *)
(* the same where they do not scale.                                       *)
LEMMA EvenIsPart ==
  ASSUME NEW N \in Nat, NEW S \in Nat \ {0}, NEW i \in Nat
  PROVE  EvenRange(N, S, i) = <<SplitOffset(N, S, i), SplitOffset(N, S, i + 1)>>
<1> DEFINE b == N \div S
           m == N % S
<1>1. b \in Nat /\ m \in Nat
  BY DivMod
<1>2. /\ SplitOffset(N, S, i) = b * i + (IF i < m THEN i ELSE m)
      /\ SplitSize(N, S, i) = b + (IF i < m THEN 1 ELSE 0)
      /\ SplitOffset(N, S, i + 1) = SplitOffset(N, S, i) + SplitSize(N, S, i)
  BY PartsFollow DEF SplitOffset, SplitSize
<1>3. EvenRange(N, S, i) = IF i < m THEN <<i * (b + 1), i * (b + 1) + (b + 1)>>
                           ELSE <<(b + 1) * m + (i - m) * b, (b + 1) * m + (i - m) * b + b>>
  BY DEF EvenRange
<1> HIDE DEF b, m
<1>4. i * (b + 1) = b * i + i /\ (b + 1) * m + (i - m) * b = b * i + m /\ b * i \in Nat
  <2>1. i * (b + 1) = b * i + i
    BY <1>1
  <2>2. (b + 1) * m = b * m + m /\ (i - m) * b = b * i - b * m
    BY <1>1
  <2>3. b * m \in Nat /\ b * i \in Nat
    BY <1>1
  <2> QED
    BY <1>1, <2>1, <2>2, <2>3
<1> DEFINE x == b * i
           y == i * (b + 1)
           w == (b + 1) * m + (i - m) * b
<1> HIDE DEF x, y, w
<1>5. y = x + i /\ w = x + m /\ x \in Nat
  BY <1>4 DEF x, y, w
<1>6. SplitOffset(N, S, i) = x + (IF i < m THEN i ELSE m)
  BY <1>2 DEF x
<1>7. EvenRange(N, S, i) = IF i < m THEN <<y, y + (b + 1)>> ELSE <<w, w + b>>
  BY <1>3 DEF y, w
<1>8. CASE i < m
  <2>1. y = SplitOffset(N, S, i) /\ y + (b + 1) = SplitOffset(N, S, i + 1)
    BY <1>1, <1>2, <1>5, <1>6, <1>8
  <2> QED
    BY <1>7, <1>8, <2>1
<1>9. CASE ~(i < m)
  <2>1. w = SplitOffset(N, S, i) /\ w + b = SplitOffset(N, S, i + 1)
    BY <1>1, <1>2, <1>5, <1>6, <1>9
  <2> QED
    BY <1>7, <1>9, <2>1
<1> QED
  BY <1>8, <1>9

LEMMA EqualParts ==
  ASSUME NEW N \in Nat, NEW S \in Nat \ {0}, N % S = 0, NEW i \in Nat
  PROVE  /\ SplitOffset(N, S, i) = i * (N \div S) /\ N \div S \in Nat
         /\ SplitOffset(N, S, i + 1) = i * (N \div S) + (N \div S)
<1> DEFINE b == N \div S
<1>1. b \in Nat
  BY DivMod
<1>2. SplitOffset(N, S, i) = b * i + 0 /\ SplitOffset(N, S, i + 1) = b * (i + 1) + 0
  BY DEF SplitOffset
<1> HIDE DEF b
<1>3. b * i = i * b /\ b * (i + 1) = i * b + b /\ i * b \in Nat
  BY <1>1
<1>4. SplitOffset(N, S, i) = i * b /\ SplitOffset(N, S, i + 1) = i * b + b
  BY <1>1, <1>2, <1>3
<1> QED
  BY <1>1, <1>4 DEF b

LEMMA HeadIsPart ==
  ASSUME NEW N \in Nat, NEW S \in Nat \ {0}, NEW i \in Nat
  PROVE  HeadRange(N, S, i) = <<SplitOffset(N, S, i), SplitOffset(N, S, i + 1)>>
<1>1. CASE N % S = 0
  BY <1>1, EqualParts DEF HeadRange
<1>2. CASE N % S # 0
  BY <1>2, EvenIsPart DEF HeadRange
<1> QED
  BY <1>1, <1>2

(* A number of columns that the ranks share in multiples of 64. *)
LEMMA SharedEvenly ==
  ASSUME NEW N \in Nat, NEW S \in Nat \ {0}, N % (S * 64) = 0
  PROVE  N % S = 0
<1> DEFINE q == N \div (S * 64)
<1>1. S * 64 \in Nat \ {0}
  OBVIOUS
<1>2. q \in Nat /\ N = (S * 64) * q + (N % (S * 64))
  BY <1>1, DivMod
<1> HIDE DEF q
<1>3. N = S * (64 * q) + 0 /\ 64 * q \in Nat /\ 0 \in 0 .. S - 1
  BY <1>2
<1> QED
  BY <1>3, DivModUnique

LEMMA GranularityDivides ==
  ASSUME NEW N \in Nat
  PROVE  /\ Granularity(N) \in Nat \ {0} /\ N \div Granularity(N) \in Nat
         /\ (N \div Granularity(N)) * Granularity(N) = N
<1> DEFINE G == Granularity(N)
<1>1. G \in Nat \ {0} /\ N % G = 0
  BY DEF Granularity
<1> HIDE DEF G
<1>2. N \div G \in Nat /\ N = G * (N \div G) + (N % G)
  BY <1>1, DivMod
<1>3. G * (N \div G) = (N \div G) * G
  BY <1>1, <1>2
<1>4. (N \div G) * G = N
  BY <1>1, <1>2, <1>3
<1> QED
  BY <1>1, <1>2, <1>4 DEF G

(* SplitUtil::getTaskRange gives every column to one rank, in order. *)
LEMMA ColumnsFollow ==
  ASSUME NEW N \in Nat, NEW S \in Nat \ {0}
  PROVE  /\ TaskRange(N, S, 0)[1] = 0
         /\ \A i \in Nat : /\ TaskRange(N, S, i)[1] \in Nat /\ TaskRange(N, S, i)[2] \in Nat
                           /\ TaskRange(N, S, i)[1] <= TaskRange(N, S, i)[2]
                           /\ TaskRange(N, S, i + 1)[1] = TaskRange(N, S, i)[2]
         /\ TaskRange(N, S, S - 1)[2] = N
         /\ N % (S * 64) = 0 =>
              \A i \in Nat : i * (TaskRange(N, S, i)[2] - TaskRange(N, S, i)[1]) = TaskRange(N, S, i)[1]
<1>1. CASE N % (S * 64) = 0
  <2>1. N % S = 0
    BY <1>1, SharedEvenly
  <2> DEFINE Off(i) == SplitOffset(N, S, i)
             b == N \div S
  <2>2. b \in Nat /\ \A i \in Nat : Off(i) = i * b /\ Off(i + 1) = i * b + b
    BY <2>1, EqualParts
  <2>3. \A i \in Nat : TaskRange(N, S, i) = <<i * b, i * b + b>>
    BY <1>1 DEF TaskRange
  <2>4. Off(0) = 0 /\ Off(S) = N /\ S - 1 \in Nat /\ (S - 1) + 1 = S
    BY PartsFollow
  <2> HIDE DEF Off, b
  <2>5. \A i \in Nat : i * b \in Nat /\ (i + 1) * b = i * b + b /\ (i * b + b) - i * b = b
    BY <2>2
  <2>6. (S - 1) * b + b = N
    BY <2>2, <2>4
  <2>7. \A i \in Nat : TaskRange(N, S, i)[1] = i * b /\ TaskRange(N, S, i)[2] = i * b + b
    BY <2>3
  <2>8. ASSUME NEW i \in Nat
        PROVE  /\ TaskRange(N, S, i)[1] \in Nat /\ TaskRange(N, S, i)[2] \in Nat
               /\ TaskRange(N, S, i)[1] <= TaskRange(N, S, i)[2]
               /\ TaskRange(N, S, i + 1)[1] = TaskRange(N, S, i)[2]
               /\ i * (TaskRange(N, S, i)[2] - TaskRange(N, S, i)[1]) = TaskRange(N, S, i)[1]
    <3>1. TaskRange(N, S, i + 1)[1] = (i + 1) * b
      BY <2>7
    <3>2. TaskRange(N, S, i)[2] - TaskRange(N, S, i)[1] = b
      BY <2>5, <2>7
    <3>3. i * (TaskRange(N, S, i)[2] - TaskRange(N, S, i)[1]) = TaskRange(N, S, i)[1]
      BY <2>7, <3>2
    <3>4. TaskRange(N, S, i + 1)[1] = TaskRange(N, S, i)[2]
      BY <2>5, <2>7, <3>1
    <3>5. i * b \in Nat /\ i * b + b \in Nat /\ i * b <= i * b + b
      BY <2>2, <2>5
    <3> QED
      BY <2>7, <3>3, <3>4, <3>5
  <2>9. TaskRange(N, S, S - 1)[2] = N
    BY <2>4, <2>6, <2>7
  <2>10. TaskRange(N, S, 0)[1] = 0
    BY <2>2, <2>7
  <2> QED
    BY <2>8, <2>9, <2>10
<1>2. CASE N % (S * 64) # 0
  <2> DEFINE G == Granularity(N)
             K == N \div G
             Off(i) == SplitOffset(K, S, i)
  <2>1. G \in Nat \ {0} /\ K \in Nat /\ K * G = N
    BY GranularityDivides
  <2>2. \A i \in Nat : EvenRange(K, S, i) = <<Off(i), Off(i + 1)>>
    BY <2>1, EvenIsPart
  <2>3. \A i \in Nat : TaskRange(N, S, i) = <<EvenRange(K, S, i)[1] * G, EvenRange(K, S, i)[2] * G>>
    BY <1>2 DEF TaskRange
  <2>4. \A i \in Nat : TaskRange(N, S, i)[1] = Off(i) * G /\ TaskRange(N, S, i)[2] = Off(i + 1) * G
    BY <2>2, <2>3
  <2>5. Off(0) = 0 /\ Off(S) = K /\ S - 1 \in Nat /\ (S - 1) + 1 = S
    BY <2>1, PartsFollow
  <2>6. ASSUME NEW i \in Nat PROVE i + 1 \in Nat /\ Off(i) \in Nat /\ Off(i + 1) \in Nat
    <3>1. i + 1 \in Nat
      OBVIOUS
    <3> QED
      BY <2>1, <3>1, PartType
  <2>7. \A i \in Nat : Off(i) <= Off(i + 1)
    BY <2>1, PartsGrow
  <2> HIDE DEF Off, G, K
  <2>8. ASSUME NEW i \in Nat
        PROVE  Off(i) * G \in Nat /\ Off(i + 1) * G \in Nat /\ Off(i) * G <= Off(i + 1) * G
    <3>1. G * Off(i) <= G * Off(i + 1)
      BY <2>1, <2>6, <2>7, MulMono
    <3>2. G * Off(i) = Off(i) * G /\ G * Off(i + 1) = Off(i + 1) * G /\ Off(i) * G \in Nat /\ Off(i + 1) * G \in Nat
      BY <2>1, <2>6
    <3> QED
      BY <3>1, <3>2
  <2>9. TaskRange(N, S, 0)[1] = 0
    BY <2>1, <2>4, <2>5
  <2>10. TaskRange(N, S, S - 1)[2] = N
    BY <2>1, <2>4, <2>5
  <2>11. \A i \in Nat : TaskRange(N, S, i + 1)[1] = TaskRange(N, S, i)[2]
    BY <2>4, <2>6
  <2> QED
    BY <1>2, <2>4, <2>8, <2>9, <2>10, <2>11
<1> QED
  BY <1>1, <1>2

-----------------------------------------------------------------------------
(* Rank r has c whole groups of e query heads each, n heads in all. *)
WholeGroupsOf(r, n, c, e) ==
  /\ n \div c = e
  /\ (r * n) \div e = r * c /\ (r * n + n - 1) \div e + 1 = r * c + c
  /\ \A i \in 0 .. n-1 : /\ i \div e \in Nat /\ i \div e < c
                         /\ (r * n + i) \div e = r * c + (i \div e)

LEMMA WholeGroups ==
  ASSUME NEW c \in Nat \ {0}, NEW e \in Nat \ {0}, NEW r \in Nat, NEW n \in Nat, n = c * e
  PROVE  WholeGroupsOf(r, n, c, e)
<1> DEFINE rc == r * c
<1>1. n \in Nat \ {0} /\ rc \in Nat /\ n = e * c
  OBVIOUS
<1>2. r * n = e * rc
  OBVIOUS
<1> HIDE DEF rc
<1>3. n \div c = e
  <2>1. n = c * e + 0 /\ 0 \in 0 .. c-1
    OBVIOUS
  <2> QED
    BY <2>1, DivModIs
<1>4. (r * n) \div e = rc
  <2>1. r * n = e * rc + 0 /\ 0 \in 0 .. e-1
    BY <1>1, <1>2
  <2> QED
    BY <1>1, <2>1, DivModUnique
<1>5. (r * n + n - 1) \div e + 1 = rc + c
  <2>1. e * (rc + (c - 1)) = e * rc + e * c - e /\ e * rc \in Nat /\ e * c \in Nat
    BY <1>1
  <2>2. r * n + n - 1 = e * (rc + (c - 1)) + (e - 1) /\ e - 1 \in 0 .. e-1 /\ rc + (c - 1) \in Nat
    BY <1>1, <1>2, <2>1
  <2>3. (r * n + n - 1) \div e = rc + (c - 1)
    BY <2>2, DivModUnique
  <2> QED
    BY <1>1, <2>3
<1>7. ASSUME NEW i \in 0 .. n-1
      PROVE  i \div e \in Nat /\ i \div e < c /\ (r * n + i) \div e = rc + (i \div e)
  <2> DEFINE q == i \div e
             t == i % e
  <2>0. i \in Nat
    BY <1>1
  <2>1. q \in Nat /\ t \in 0 .. e-1 /\ i = e * q + t
    BY <2>0, DivMod
  <2> HIDE DEF q, t
  <2>2. q < c
    <3> SUFFICES ASSUME c <= q PROVE FALSE
      BY <2>1
    <3>1. e * c <= e * q /\ e * q \in Nat
      BY <2>1, MulMono
    <3> QED
      BY <1>1, <2>1, <3>1
  <2>3. r * n + i = e * (rc + q) + t
    <3>1. e * (rc + q) = e * rc + e * q /\ e * rc \in Nat /\ e * q \in Nat
      BY <1>1, <2>1
    <3> QED
      BY <1>2, <2>1, <3>1
  <2>4. (r * n + i) \div e = rc + q
    BY <1>1, <2>1, <2>3, DivModUnique
  <2> QED
    BY <2>1, <2>2, <2>4 DEF q
<1> QED
  BY <1>1, <1>3, <1>4, <1>5, <1>7 DEF rc, WholeGroupsOf

(* A rank with n of the d * n query heads of one group. *)
LEMMA PartOfGroup ==
  ASSUME NEW d \in Nat \ {0}, NEW n \in Nat \ {0}, NEW r \in Nat, NEW i \in 0 .. n-1
  PROVE  /\ r \div d \in Nat /\ d * n \in Nat \ {0}
         /\ (r * n + i) \div (d * n) = r \div d
<1> DEFINE u == r \div d
           w == r % d
           e == d * n
<1>1. u \in Nat /\ w \in 0 .. d-1 /\ r = d * u + w
  BY DivMod
<1>2. e \in Nat \ {0}
  OBVIOUS
<1> HIDE DEF u, w
<1>3. r * n = e * u + n * w /\ e * u \in Nat /\ n * w \in Nat
  <2>1. r * n = (d * u + w) * n
    BY <1>1
  <2>2. (d * u + w) * n = (d * n) * u + n * w
    BY <1>1
  <2> QED
    BY <1>1, <2>1, <2>2
<1>4. n * w + i \in 0 .. e-1
  <2>1. n * w <= n * (d - 1) /\ n * (d - 1) \in Nat
    <3>1. w <= d - 1 /\ w \in Nat /\ d - 1 \in Nat
      BY <1>1
    <3> QED
      BY <3>1, MulMono
  <2>2. n * (d - 1) = d * n - n /\ d * n \in Nat
    OBVIOUS
  <2> QED
    BY <1>3, <2>1, <2>2
<1> HIDE DEF e
<1>5. r * n + i = e * u + (n * w + i)
  BY <1>3
<1>6. (r * n + i) \div e = u
  BY <1>1, <1>2, <1>4, <1>5, DivModUnique
<1> QED
  BY <1>1, <1>2, <1>6 DEF u, e

LEMMA QuotientExact ==
  ASSUME NEW m \in Nat \ {0}, NEW n \in Nat \ {0}, m % n = 0
  PROVE  \E q \in Nat \ {0} : m = n * q /\ q = m \div n
<1> DEFINE q == m \div n
<1>1. q \in Nat /\ m = n * q + (m % n)
  BY DivMod
<1> HIDE DEF q
<1>2. m = n * q
  BY <1>1
<1>3. q # 0
  BY <1>2
<1> QED
  BY <1>1, <1>2, <1>3 DEF q

(* The heads of a rank: n query heads from r * n, in groups of g on the    *)
(* rank, each with its key/value head among those of the rank.             *)
LEMMA HeadsOfRank ==
  ASSUME shape \in Shapes, HeadsAligned(shape), NEW r \in Rank
  PROVE  LET l == Layout(r)
             e == shape.attHeadNum \div shape.kvHeadNum
         IN  \E n, g \in Nat \ {0} :
               /\ shape.attHeadNum = shape.splits * n
               /\ n = shape.attHeadNum \div shape.splits
               /\ l.startQHead = r * n /\ l.endQHead - l.startQHead = n /\ l.biasHead = r * n
               /\ g = n \div (l.endKVHead - l.startKVHead)
               /\ \A i \in 0 .. n-1 : /\ i \div g \in Nat /\ i \div g < l.headsPerSplit
                                      /\ l.startKVHead + (i \div g) = (r * n + i) \div e
                                      /\ l.startKVHead \in Nat
<1> DEFINE A == shape.attHeadNum
           K == shape.kvHeadNum
           S == shape.splits
           l == Layout(r)
           q == HeadRange(A, S, r)
           e == A \div K
<1>1. A \in Nat \ {0} /\ K \in Nat \ {0} /\ S \in Nat \ {0} /\ r \in Nat /\ A % K = 0
  BY ShapeType
<1>2. /\ l.startQHead = q[1] /\ l.endQHead = q[2] /\ l.startKVHead = q[1] \div e
      /\ l.endKVHead = (q[2] - 1) \div e + 1 /\ l.biasHead = r * (q[2] - q[1])
      /\ l.headsPerSplit = (K + S - 1) \div S
  BY DEF Layout
<1>3. K % S = 0 \/ (S % K = 0 /\ A % S = 0)
  BY DEF HeadsAligned
<1>4. e \in Nat \ {0} /\ A = K * e
  <2> HIDE DEF A, K
  <2>1. PICK x \in Nat \ {0} : A = K * x /\ x = A \div K
    BY <1>1, QuotientExact
  <2> QED
    BY <2>1
<1> HIDE DEF A, K, S, l, q, e
<1>5. ASSUME A % S = 0
      PROVE  LET n == A \div S
             IN  n \in Nat \ {0} /\ A = S * n /\ q[1] = r * n /\ q[2] = r * n + n /\ r * n \in Nat
  <2> DEFINE n == A \div S
  <2>1. n \in Nat \ {0} /\ A = S * n
    BY <1>1, <1>5, QuotientExact
  <2>2. q = <<r * n, r * n + n>>
    BY <1>5 DEF q, HeadRange
  <2> QED
    BY <1>1, <2>1, <2>2
<1>6. CASE K % S = 0
  <2>1. PICK c \in Nat \ {0} : K = S * c
    BY <1>1, <1>6, QuotientExact
  <2> DEFINE n == c * e
  <2>2. n \in Nat \ {0} /\ A = S * n
    BY <1>1, <1>4, <2>1
  <2>3. A % S = 0 /\ A \div S = n
    <3> HIDE DEF n
    <3>1. A = S * n + 0 /\ 0 \in 0 .. S-1
      BY <1>1, <2>2
    <3> QED
      BY <1>1, <2>2, <3>1, DivModIs
  <2>4. q[1] = r * n /\ q[2] = r * n + n /\ r * n \in Nat
    BY <1>5, <2>3
  <2>5. /\ n \div c = e
        /\ (r * n) \div e = r * c /\ (r * n + n - 1) \div e + 1 = r * c + c
        /\ (S * c + S - 1) \div S = c
        /\ \A i \in 0 .. n-1 : /\ i \div e \in Nat /\ i \div e < c
                               /\ (r * n + i) \div e = r * c + (i \div e)
    <3> HIDE DEF n
    <3>1. n = c * e
      BY DEF n
    <3>2. /\ c \in Nat \ {0} /\ e \in Nat \ {0} /\ S \in Nat \ {0} /\ r \in Nat
      BY <1>1, <1>4, <2>1
    <3>0. n \in Nat
      BY <2>2
    <3>3. WholeGroupsOf(r, n, c, e)
      BY <3>0, <3>1, <3>2, WholeGroups
    <3>4. (S * c + S - 1) \div S = c
      <4>1. S * c + S - 1 = S * c + (S - 1) /\ S - 1 \in 0 .. S-1
        BY <3>2
      <4> QED
        BY <3>2, <4>1, DivModIs
    <3> QED
      BY <3>3, <3>4 DEF WholeGroupsOf
  <2> HIDE DEF n
  <2>6. r * c \in Nat
    BY <1>1
  <2>7. l.startKVHead = r * c /\ l.endKVHead - l.startKVHead = c /\ l.headsPerSplit = c
    <3>1. q[2] - 1 = r * n + n - 1
      BY <2>2, <2>4
    <3>2. l.startKVHead = r * c /\ l.endKVHead = r * c + c /\ l.headsPerSplit = c
      BY <1>2, <2>1, <2>4, <2>5, <3>1
    <3> QED
      BY <2>6, <3>2
  <2>8. l.startQHead = r * n /\ l.endQHead - l.startQHead = n /\ l.biasHead = r * n
    <3>1. q[2] - q[1] = n
      BY <2>2, <2>4
    <3> QED
      BY <1>2, <2>4, <3>1
  <2>9. /\ n = A \div S /\ e = n \div (l.endKVHead - l.startKVHead)
        /\ \A i \in 0 .. n-1 : /\ i \div e \in Nat /\ i \div e < l.headsPerSplit
                               /\ l.startKVHead + (i \div e) = (r * n + i) \div e
                               /\ l.startKVHead \in Nat
    BY <2>3, <2>5, <2>6, <2>7
  <2> QED
    BY <1>4, <2>2, <2>8, <2>9 DEF A, K, S, l, e
<1>7. CASE S % K = 0 /\ A % S = 0
  <2>1. PICK d \in Nat \ {0} : S = K * d
    BY <1>1, <1>7, QuotientExact
  <2> DEFINE n == A \div S
  <2>2. n \in Nat \ {0} /\ A = S * n /\ q[1] = r * n /\ q[2] = r * n + n /\ r * n \in Nat
    BY <1>5, <1>7
  <2> HIDE DEF n
  <2>3. e = d * n
    <3>1. A = K * (d * n) + 0 /\ d * n \in Nat /\ 0 \in 0 .. K-1
      BY <1>1, <2>1, <2>2
    <3>2. A \div K = d * n
      BY <1>1, <3>1, DivModUnique
    <3> QED
      BY <3>2 DEF e
  <2>4. r \div d \in Nat /\ \A i \in 0 .. n-1 : (r * n + i) \div e = r \div d
    <3>1. r \div d \in Nat
      BY <1>1, DivMod
    <3>2. ASSUME NEW i \in 0 .. n-1 PROVE (r * n + i) \div e = r \div d
      BY <1>1, <2>2, <2>3, PartOfGroup
    <3> QED
      BY <3>1, <3>2
  <2>5. l.startKVHead = r \div d
    <3>1. 0 \in 0 .. n-1 /\ r * n + 0 = r * n
      BY <2>2
    <3> QED
      BY <1>2, <2>2, <2>4, <3>1
  <2>6. l.endKVHead = r \div d + 1
    <3>1. n - 1 \in 0 .. n-1 /\ r * n + (n - 1) = q[2] - 1
      BY <2>2
    <3>2. (r * n + (n - 1)) \div e = r \div d
      BY <2>4, <3>1
    <3> QED
      BY <1>2, <3>1, <3>2
  <2>7. l.headsPerSplit = 1
    <3>1. K - 1 \in 0 .. S-1 /\ K + S - 1 = S * 1 + (K - 1)
      <4>1. K * 1 <= K * d
        BY <1>1, MulMono
      <4> QED
        BY <1>1, <2>1, <4>1
    <3>2. (K + S - 1) \div S = 1
      BY <1>1, <3>1, DivModUnique
    <3> QED
      BY <1>2, <3>2
  <2>8. n \div (l.endKVHead - l.startKVHead) = n
    <3>1. l.endKVHead - l.startKVHead = 1
      BY <2>4, <2>5, <2>6
    <3>2. n = 1 * n + 0 /\ 0 \in 0 .. 1-1 /\ 1 \in Nat \ {0}
      BY <2>2
    <3>3. n \div 1 = n
      BY <2>2, <3>2, DivModUnique
    <3> QED
      BY <3>1, <3>3
  <2>9. ASSUME NEW i \in 0 .. n-1 PROVE i \div n = 0
    <3>1. i = n * 0 + i /\ 0 \in Nat
      BY <2>2
    <3> QED
      BY <2>2, <3>1, DivModUnique
  <2>10. l.startQHead = r * n /\ l.endQHead - l.startQHead = n /\ l.biasHead = r * n
    <3>1. q[2] - q[1] = n
      BY <2>2
    <3> QED
      BY <1>2, <2>2, <3>1
  <2>11. \A i \in 0 .. n-1 : /\ i \div n \in Nat /\ i \div n < l.headsPerSplit
                             /\ l.startKVHead + (i \div n) = (r * n + i) \div e
                             /\ l.startKVHead \in Nat
    BY <2>4, <2>5, <2>7, <2>9
  <2>12. n = A \div S
    BY DEF n
  <2> QED
    BY <2>2, <2>8, <2>10, <2>11, <2>12 DEF A, K, S, l, e
<1> QED
  BY <1>3, <1>6, <1>7

-----------------------------------------------------------------------------
LEMMA InitEstablishes == Init => IInv
<1> SUFFICES ASSUME Init PROVE IInv
  OBVIOUS
<1>1. shape \in Shapes /\ \A r \in Rank : pc[r] = "construct"
  BY DEF Init
<1>2. InvType
  BY DEF Init, InvType, Order
<1>3. \A r \in Rank : ~Past(r, "attention") /\ ~Past(r, "ffn") /\ ~Past(r, "predict")
  BY <1>1 DEF Past, Order
<1>4. InvLayout /\ LogitsInPlace
  BY <1>1 DEF InvLayout, LogitsInPlace
<1>5. InvAttention /\ InvFeedForward /\ InvPredict
  BY <1>3 DEF InvAttention, InvFeedForward, InvPredict
<1> QED
  BY <1>2, <1>4, <1>5 DEF IInv

(* The model and its split are the same in every state. *)
LEMMA SplitFixed ==
  ASSUME shape' = shape
  PROVE  /\ Rank' = Rank
         /\ \A r : Layout(r)' = Layout(r) /\ PartLogits(r)' = PartLogits(r)
BY DEF Rank, Layout, PartLogits, ImBias

(* Where rank s is after a step of rank r. *)
LEMMA StepOf ==
  ASSUME pc \in [Rank -> DOMAIN Order], NEW r \in Rank, NEW p \in DOMAIN Order, pc' = [pc EXCEPT ![r] = p]
  PROVE  /\ pc' \in [Rank -> DOMAIN Order]
         /\ pc'[r] = p
         /\ \A s \in Rank \ {r} : pc'[s] = pc[s]
         /\ \A s \in Rank \ {r} : \A q : Past(s, q)' <=> Past(s, q)
BY DEF Past

-----------------------------------------------------------------------------
(* Every step of a rank keeps the invariant. *)
LEMMA ConstructKeeps ==
  ASSUME IInv, NEW r \in Rank, Construct(r)
  PROVE  IInv'
<1>1. /\ shape' = shape /\ shape \in Shapes /\ pc \in [Rank -> DOMAIN Order]
      /\ pc[r] = "construct" /\ pc' = [pc EXCEPT ![r] = "attention"] /\ "attention" \in DOMAIN Order
  BY DEF IInv, InvType, Construct, Order
<1>2. Rank' = Rank /\ \A s : Layout(s)' = Layout(s) /\ PartLogits(s)' = PartLogits(s)
  BY <1>1, SplitFixed
<1>3. /\ pc' \in [Rank -> DOMAIN Order] /\ pc'[r] = "attention"
      /\ \A s \in Rank \ {r} : pc'[s] = pc[s] /\ \A q : Past(s, q)' <=> Past(s, q)
  BY <1>1, StepOf
<1>4. InvType'
  BY <1>1, <1>2, <1>3 DEF IInv, InvType, Construct
<1>5. InvLayout'
  <2>1. layout'[r] = Layout(r) /\ \A s \in Rank \ {r} : layout'[s] = layout[s]
    BY DEF IInv, InvType, Construct
  <2> QED
    BY <1>2, <1>3, <2>1 DEF IInv, InvLayout
<1>6. InvAttention'
  <2>1. \A s \in Rank : Past(s, "attention")' => s # r /\ Past(s, "attention")
    BY <1>1, <1>3 DEF Past, Order
  <2>2. \A s \in Rank \ {r} : cache'[s] = cache[s] /\ attnOut'[s] = attnOut[s]
    BY DEF IInv, InvType, Construct
  <2> QED
    BY <1>2, <2>1, <2>2 DEF IInv, InvAttention
<1>7. InvFeedForward'
  <2>1. \A s \in Rank : Past(s, "ffn")' <=> Past(s, "ffn")
    BY <1>1, <1>3 DEF Past, Order
  <2> QED
    BY <1>2, <2>1 DEF IInv, InvFeedForward, Construct
<1>8. InvPredict'
  <2>1. \A s \in Rank : Past(s, "predict")' <=> Past(s, "predict")
    BY <1>1, <1>3 DEF Past, Order
  <2> QED
    BY <1>2, <2>1 DEF IInv, InvPredict, Construct
<1>9. LogitsInPlace'
  <2>1. logits' = logits /\ \A s \in Rank : pc'[s] = "done" => pc[s] = "done"
    BY <1>1, <1>3 DEF Construct
  <2> QED
    BY <1>1, <1>2, <2>1 DEF IInv, LogitsInPlace
<1> QED
  BY <1>4, <1>5, <1>6, <1>7, <1>8, <1>9 DEF IInv

LEMMA AttentionKeeps ==
  ASSUME IInv, NEW r \in Rank, Attention(r)
  PROVE  IInv'
<1>1. /\ shape' = shape /\ shape \in Shapes /\ pc \in [Rank -> DOMAIN Order]
      /\ pc[r] = "attention" /\ pc' = [pc EXCEPT ![r] = "ffn"] /\ "ffn" \in DOMAIN Order
  BY DEF IInv, InvType, Attention, Order
<1>2. Rank' = Rank /\ \A s : Layout(s)' = Layout(s) /\ PartLogits(s)' = PartLogits(s)
  BY <1>1, SplitFixed
<1>3. /\ pc' \in [Rank -> DOMAIN Order] /\ pc'[r] = "ffn"
      /\ \A s \in Rank \ {r} : pc'[s] = pc[s] /\ \A q : Past(s, q)' <=> Past(s, q)
  BY <1>1, StepOf
<1>4. InvType'
  BY <1>1, <1>2, <1>3 DEF IInv, InvType, Attention
<1>5. InvLayout'
  BY <1>1, <1>2, <1>3 DEF IInv, InvLayout, Attention
<1>6. InvAttention'
  <2> DEFINE l == Layout(r)
  <2>1. layout[r] = l
    BY <1>1 DEF IInv, InvLayout
  <2>2. attnOut'[r] = [resid |-> r = 0, heads |-> Terms(l, r)]
    BY <2>1 DEF IInv, InvType, Attention
  <2>3. cache'[r] = [h \in DOMAIN cache[r] \cup {LocalKV(l, i) : i \in Heads(l)} |->
                       IF h \in Copied(l) THEN l.startKVHead + h ELSE None]
    BY <2>1 DEF IInv, InvType, Attention
  <2>4. Copied(l) \subseteq {LocalKV(l, i) : i \in Heads(l)}
    BY DEF Copied
  <2>5. \A h \in Copied(l) : cache'[r][h] = l.startKVHead + h
    BY <2>3, <2>4
  <2>6. \A s \in Rank \ {r} : cache'[s] = cache[s] /\ attnOut'[s] = attnOut[s]
    BY DEF IInv, InvType, Attention
  <2> QED
    BY <1>2, <1>3, <2>2, <2>5, <2>6 DEF IInv, InvAttention
<1>7. InvFeedForward'
  <2>1. \A s \in Rank : Past(s, "ffn")' <=> Past(s, "ffn")
    BY <1>1, <1>3 DEF Past, Order
  <2> QED
    BY <1>2, <2>1 DEF IInv, InvFeedForward, Attention
<1>8. InvPredict'
  <2>1. \A s \in Rank : Past(s, "predict")' <=> Past(s, "predict")
    BY <1>1, <1>3 DEF Past, Order
  <2> QED
    BY <1>2, <2>1 DEF IInv, InvPredict, Attention
<1>9. LogitsInPlace'
  <2>1. logits' = logits /\ \A s \in Rank : pc'[s] = "done" => pc[s] = "done"
    BY <1>1, <1>3 DEF Attention
  <2> QED
    BY <1>1, <1>2, <2>1 DEF IInv, LogitsInPlace
<1> QED
  BY <1>4, <1>5, <1>6, <1>7, <1>8, <1>9 DEF IInv

LEMMA FeedForwardKeeps ==
  ASSUME IInv, NEW r \in Rank, FeedForward(r)
  PROVE  IInv'
<1>1. /\ shape' = shape /\ shape \in Shapes /\ pc \in [Rank -> DOMAIN Order]
      /\ pc[r] = "ffn" /\ pc' = [pc EXCEPT ![r] = "predict"] /\ "predict" \in DOMAIN Order
  BY DEF IInv, InvType, FeedForward, Order
<1>2. Rank' = Rank /\ \A s : Layout(s)' = Layout(s) /\ PartLogits(s)' = PartLogits(s)
  BY <1>1, SplitFixed
<1>3. /\ pc' \in [Rank -> DOMAIN Order] /\ pc'[r] = "predict"
      /\ \A s \in Rank \ {r} : pc'[s] = pc[s] /\ \A q : Past(s, q)' <=> Past(s, q)
  BY <1>1, StepOf
<1>4. InvType'
  BY <1>1, <1>2, <1>3 DEF IInv, InvType, FeedForward
<1>5. InvLayout'
  BY <1>1, <1>2, <1>3 DEF IInv, InvLayout, FeedForward
<1>6. InvAttention'
  <2>1. \A s \in Rank : Past(s, "attention")' <=> Past(s, "attention")
    BY <1>1, <1>3 DEF Past, Order
  <2> QED
    BY <1>2, <2>1 DEF IInv, InvAttention, FeedForward
<1>7. InvFeedForward'
  <2>1. layout[r] = Layout(r)
    BY <1>1 DEF IInv, InvLayout
  <2>2. /\ mlpOut'[r] = [first |-> Layout(r).im[1], last |-> Layout(r).im[2], bias |-> Layout(r).imBias,
                         resid |-> r = 0]
        /\ \A s \in Rank \ {r} : mlpOut'[s] = mlpOut[s]
    BY <2>1 DEF IInv, InvType, FeedForward
  <2> QED
    BY <1>2, <1>3, <2>2 DEF IInv, InvFeedForward
<1>8. InvPredict'
  <2>1. \A s \in Rank : Past(s, "predict")' <=> Past(s, "predict")
    BY <1>1, <1>3 DEF Past, Order
  <2> QED
    BY <1>2, <2>1 DEF IInv, InvPredict, FeedForward
<1>9. LogitsInPlace'
  <2>1. logits' = logits /\ \A s \in Rank : pc'[s] = "done" => pc[s] = "done"
    BY <1>1, <1>3 DEF FeedForward
  <2> QED
    BY <1>1, <1>2, <2>1 DEF IInv, LogitsInPlace
<1> QED
  BY <1>4, <1>5, <1>6, <1>7, <1>8, <1>9 DEF IInv

LEMMA PredictKeeps ==
  ASSUME IInv, NEW r \in Rank, Predict(r)
  PROVE  IInv'
<1>1. /\ shape' = shape /\ shape \in Shapes /\ pc \in [Rank -> DOMAIN Order]
      /\ pc[r] = "predict" /\ pc' = [pc EXCEPT ![r] = "gather"] /\ "gather" \in DOMAIN Order
  BY DEF IInv, InvType, Predict, Order
<1>2. Rank' = Rank /\ \A s : Layout(s)' = Layout(s) /\ PartLogits(s)' = PartLogits(s)
  BY <1>1, SplitFixed
<1>3. /\ pc' \in [Rank -> DOMAIN Order] /\ pc'[r] = "gather"
      /\ \A s \in Rank \ {r} : pc'[s] = pc[s] /\ \A q : Past(s, q)' <=> Past(s, q)
  BY <1>1, StepOf
<1>4. InvType'
  BY <1>1, <1>2, <1>3 DEF IInv, InvType, Predict
<1>5. InvLayout'
  BY <1>1, <1>2, <1>3 DEF IInv, InvLayout, Predict
<1>6. InvAttention'
  <2>1. \A s \in Rank : Past(s, "attention")' <=> Past(s, "attention")
    BY <1>1, <1>3 DEF Past, Order
  <2> QED
    BY <1>2, <2>1 DEF IInv, InvAttention, Predict
<1>7. InvFeedForward'
  <2>1. \A s \in Rank : Past(s, "ffn")' <=> Past(s, "ffn")
    BY <1>1, <1>3 DEF Past, Order
  <2> QED
    BY <1>2, <2>1 DEF IInv, InvFeedForward, Predict
<1>8. InvPredict'
  <2>1. layout[r] = Layout(r)
    BY <1>1 DEF IInv, InvLayout
  <2>2. /\ Layout(r).splitSize = SplitSize(shape.vocabSize, shape.splits, r)
        /\ Layout(r).splitOffset = SplitOffset(shape.vocabSize, shape.splits, r)
    BY DEF Layout
  <2>3. outBuf'[r] = PartLogits(r) /\ \A s \in Rank \ {r} : outBuf'[s] = outBuf[s]
    BY <2>1, <2>2 DEF IInv, InvType, Predict, PartLogits
  <2> QED
    BY <1>2, <1>3, <2>3 DEF IInv, InvPredict
<1>9. LogitsInPlace'
  <2>1. logits' = logits /\ \A s \in Rank : pc'[s] = "done" => pc[s] = "done"
    BY <1>1, <1>3 DEF Predict
  <2> QED
    BY <1>1, <1>2, <2>1 DEF IInv, LogitsInPlace
<1> QED
  BY <1>4, <1>5, <1>6, <1>7, <1>8, <1>9 DEF IInv

(* A rank that is alone has the whole vocabulary. *)
LEMMA OneRankInPlace ==
  ASSUME shape \in Shapes, ~(shape.splits > 1), NEW r \in Rank, outBuf[r] = PartLogits(r),
         NEW j \in 0 .. shape.rows-1, NEW v \in 0 .. shape.vocabSize-1
  PROVE  outBuf[r][j * shape.vocabSize + v] = <<j, v>>
<1> DEFINE V == shape.vocabSize
           M == shape.rows
           p == j * V + v
<1>1. V \in Nat \ {0} /\ M \in Nat \ {0} /\ shape.splits = 1 /\ r = 0 /\ 1 \in Nat \ {0}
  BY ShapeType
<1>2. SplitOffset(V, 1, 0) = 0 /\ SplitOffset(V, 1, 1) = V /\ SplitSize(V, 1, 0) \in Nat
  BY <1>1, PartsFollow, PartType
<1>3. SplitOffset(V, 1, 0 + 1) = SplitOffset(V, 1, 0) + SplitSize(V, 1, 0)
  BY <1>1, PartsFollow
<1>4. SplitSize(V, 1, 0) = V
  BY <1>1, <1>2, <1>3
<1>5. PartLogits(r) = [k \in 0 .. M * V - 1 |-> <<k \div V, 0 + (k % V)>>]
  BY <1>1, <1>2, <1>4 DEF PartLogits
<1> HIDE DEF V, M
<1>6. j \in Nat /\ v \in Nat /\ v \in 0 .. V-1 /\ j <= M - 1 /\ M - 1 \in Nat
  BY <1>1 DEF V, M
<1>7. p = V * j + v
  BY <1>1, <1>6
<1>8. p \div V = j /\ p % V = v
  BY <1>1, <1>6, <1>7, DivModUnique
<1>9. p \in 0 .. M * V - 1
  <2>1. V * j \in Nat /\ V * (M - 1) \in Nat /\ V * j <= V * (M - 1)
    BY <1>1, <1>6, MulMono
  <2>2. V * (M - 1) = M * V - V /\ M * V \in Nat
    BY <1>1
  <2> QED
    BY <1>1, <1>6, <1>7, <2>1, <2>2
<1>10. PartLogits(r)[p] = <<j, v>>
  <2>1. 0 + (p % V) = v
    BY <1>6, <1>8
  <2> QED
    BY <1>5, <1>8, <1>9, <2>1
<1> QED
  BY <1>10 DEF V

LEMMA GatherLogitsKeeps ==
  ASSUME IInv, NEW r \in Rank, GatherLogits(r)
  PROVE  IInv'
<1>1. /\ shape' = shape /\ shape \in Shapes /\ pc \in [Rank -> DOMAIN Order]
      /\ pc[r] = "gather" /\ pc' = [pc EXCEPT ![r] = "done"] /\ "done" \in DOMAIN Order
  BY DEF IInv, InvType, GatherLogits, Order
<1>2. Rank' = Rank /\ \A s : Layout(s)' = Layout(s) /\ PartLogits(s)' = PartLogits(s)
  BY <1>1, SplitFixed
<1>3. /\ pc' \in [Rank -> DOMAIN Order] /\ pc'[r] = "done"
      /\ \A s \in Rank \ {r} : pc'[s] = pc[s] /\ \A q : Past(s, q)' <=> Past(s, q)
  BY <1>1, StepOf
<1>4. InvType'
  BY <1>1, <1>2, <1>3 DEF IInv, InvType, GatherLogits
<1>5. InvLayout'
  BY <1>1, <1>2, <1>3 DEF IInv, InvLayout, GatherLogits
<1>6. InvAttention'
  <2>1. \A s \in Rank : Past(s, "attention")' <=> Past(s, "attention")
    BY <1>1, <1>3 DEF Past, Order
  <2> QED
    BY <1>2, <2>1 DEF IInv, InvAttention, GatherLogits
<1>7. InvFeedForward'
  <2>1. \A s \in Rank : Past(s, "ffn")' <=> Past(s, "ffn")
    BY <1>1, <1>3 DEF Past, Order
  <2> QED
    BY <1>2, <2>1 DEF IInv, InvFeedForward, GatherLogits
<1>8. InvPredict'
  <2>1. \A s \in Rank : Past(s, "predict")' <=> Past(s, "predict")
    BY <1>1, <1>3 DEF Past, Order
  <2> QED
    BY <1>2, <2>1 DEF IInv, InvPredict, GatherLogits
<1>9. LogitsInPlace'
  <2>1. \A s \in Rank : outBuf[s] = PartLogits(s)
    BY DEF IInv, InvPredict, GatherLogits
  <2>2. ASSUME NEW j \in 0 .. shape.rows-1, NEW v \in 0 .. shape.vocabSize-1
        PROVE  logits'[r][j * shape.vocabSize + v] = <<j, v>>
    <3>1. CASE shape.splits > 1
      <4>1. logits'[r] = Reorder
        BY <3>1 DEF IInv, InvType, GatherLogits
      <4> QED
        BY <1>1, <2>1, <4>1, ReorderInPlace
    <3>2. CASE ~(shape.splits > 1)
      <4>1. logits'[r] = outBuf[r]
        BY <3>2 DEF IInv, InvType, GatherLogits
      <4> QED
        BY <1>1, <2>1, <3>2, <4>1, OneRankInPlace
    <3> QED
      BY <3>1, <3>2
  <2>3. \A s \in Rank \ {r} : logits'[s] = logits[s]
    BY DEF IInv, InvType, GatherLogits
  <2>4. ASSUME NEW s \in Rank, pc'[s] = "done", NEW j \in 0 .. shape.rows-1, NEW v \in 0 .. shape.vocabSize-1
        PROVE  logits'[s][j * shape.vocabSize + v] = <<j, v>>
    <3>1. CASE s = r
      BY <2>2, <3>1
    <3>2. CASE s # r
      BY <1>3, <2>3, <2>4, <3>2 DEF IInv, LogitsInPlace
    <3> QED
      BY <3>1, <3>2
  <2> QED
    BY <1>1, <1>2, <2>4 DEF LogitsInPlace
<1> QED
  BY <1>4, <1>5, <1>6, <1>7, <1>8, <1>9 DEF IInv

LEMMA StutterKeeps == IInv /\ UNCHANGED vars => IInv'
<1> SUFFICES ASSUME IInv, UNCHANGED vars PROVE IInv'
  OBVIOUS
<1>1. /\ shape' = shape /\ pc' = pc /\ layout' = layout /\ cache' = cache /\ attnOut' = attnOut
      /\ mlpOut' = mlpOut /\ outBuf' = outBuf /\ logits' = logits
  BY DEF vars
<1>2. Rank' = Rank /\ \A s : Layout(s)' = Layout(s) /\ PartLogits(s)' = PartLogits(s)
  BY <1>1, SplitFixed
<1>3. \A s \in Rank : \A q : Past(s, q)' <=> Past(s, q)
  BY <1>1 DEF Past
<1>4. InvType' /\ InvLayout' /\ LogitsInPlace'
  BY <1>1, <1>2 DEF IInv, InvType, InvLayout, LogitsInPlace
<1>5. InvAttention'
  BY <1>1, <1>2, <1>3 DEF IInv, InvAttention
<1>6. InvFeedForward' /\ InvPredict'
  BY <1>1, <1>2, <1>3 DEF IInv, InvFeedForward, InvPredict
<1> QED
  BY <1>4, <1>5, <1>6 DEF IInv

(* What a rank has done is, in every state, the closed form of its part:   *)
(* any number of ranks, in any order, and any model.                       *)
THEOREM Invariance == Spec => []IInv
<1>1. IInv /\ [Next]_vars => IInv'
  <2> SUFFICES ASSUME IInv, [Next]_vars PROVE IInv'
    OBVIOUS
  <2>1. CASE UNCHANGED vars
    BY <2>1, StutterKeeps
  <2>2. CASE Next
    <3>1. PICK r \in Rank : Construct(r) \/ Attention(r) \/ FeedForward(r) \/ Predict(r) \/ GatherLogits(r)
      BY <2>2 DEF Next
    <3> QED
      BY <3>1, ConstructKeeps, AttentionKeeps, FeedForwardKeeps, PredictKeeps, GatherLogitsKeeps
  <2> QED
    BY <2>1, <2>2
<1> QED
  BY <1>1, InitEstablishes, PTL DEF Spec

(* Model::forward returns, on every rank, the logits of all tokens in the  *)
(* order of the vocabulary, although setWeight and forward work out the    *)
(* parts apart and the ranks send them in one flat buffer.                 *)
THEOREM LogitsAreInPlace == Spec => []LogitsInPlace
<1>1. IInv => LogitsInPlace
  BY DEF IInv
<1> QED
  BY <1>1, Invariance, PTL

-----------------------------------------------------------------------------
(* The sums over ranks, from the closed forms. *)
LEMMA ColumnsFromParts ==
  ASSUME IInv, ColumnsAligned(shape) PROVE ColumnsOnce
<1> SUFFICES ASSUME \A r \in Rank : Past(r, "ffn")
             PROVE  /\ mlpOut[0].first = 0
                    /\ \A r \in Rank : /\ mlpOut[r].first <= mlpOut[r].last
                                       /\ mlpOut[r].bias = mlpOut[r].first
                                       /\ mlpOut[r].resid <=> r = 0
                    /\ \A r \in Rank \ {0} : mlpOut[r].first = mlpOut[r-1].last
                    /\ mlpOut[shape.splits-1].last = shape.intermediateSize
  BY DEF ColumnsOnce
<1> DEFINE N == shape.intermediateSize
           S == shape.splits
           R(r) == TaskRange(N, S, r)
<1>1. /\ N \in Nat \ {0} /\ S \in Nat \ {0} /\ shape.standard \in BOOLEAN /\ 0 \in Rank /\ S - 1 \in Rank
      /\ \A r \in Rank : r \in Nat /\ (r # 0 => r - 1 \in Rank)
  BY ShapeType DEF IInv, InvType, Rank
<1>2. \A r \in Rank : /\ mlpOut[r].first = R(r)[1] /\ mlpOut[r].last = R(r)[2]
                      /\ mlpOut[r].bias = ImBias(R(r), r) /\ mlpOut[r].resid = (r = 0)
  <2> SUFFICES ASSUME NEW r \in Rank
               PROVE  /\ mlpOut[r].first = R(r)[1] /\ mlpOut[r].last = R(r)[2]
                      /\ mlpOut[r].bias = ImBias(R(r), r) /\ mlpOut[r].resid = (r = 0)
    OBVIOUS
  <2>1. mlpOut[r] = [first |-> Layout(r).im[1], last |-> Layout(r).im[2], bias |-> Layout(r).imBias,
                     resid |-> r = 0]
    BY DEF IInv, InvFeedForward
  <2>2. Layout(r).im = R(r) /\ Layout(r).imBias = ImBias(R(r), r)
    BY DEF Layout
  <2> HIDE DEF R
  <2> QED
    BY <2>1, <2>2
<1>3. /\ R(0)[1] = 0 /\ R(S - 1)[2] = N
      /\ \A i \in Nat : /\ R(i)[1] \in Nat /\ R(i)[2] \in Nat /\ R(i)[1] <= R(i)[2]
                        /\ R(i + 1)[1] = R(i)[2]
      /\ N % (S * 64) = 0 => \A i \in Nat : i * (R(i)[2] - R(i)[1]) = R(i)[1]
  <2> HIDE DEF N, S
  <2>1. N \in Nat
    BY <1>1
  <2>2. R(0)[1] = 0 /\ R(S - 1)[2] = N
    BY <1>1, <2>1, ColumnsFollow
  <2>3. ASSUME NEW i \in Nat
        PROVE  /\ R(i)[1] \in Nat /\ R(i)[2] \in Nat /\ R(i)[1] <= R(i)[2]
               /\ R(i + 1)[1] = R(i)[2]
    BY <1>1, <2>1, ColumnsFollow
  <2>4. ASSUME N % (S * 64) = 0, NEW i \in Nat
        PROVE  i * (R(i)[2] - R(i)[1]) = R(i)[1]
    BY <1>1, <2>1, <2>4, ColumnsFollow
  <2> HIDE DEF R
  <2> QED
    BY <2>2, <2>3, <2>4
<1> HIDE DEF R
<1>4. ASSUME NEW r \in Rank PROVE ImBias(R(r), r) = R(r)[1]
  <2>1. CASE shape.standard
    BY <1>1, <1>3, <2>1 DEF ImBias, ColumnsAligned
  <2>2. CASE ~shape.standard
    BY <2>2 DEF ImBias
  <2> QED
    BY <2>1, <2>2
<1>5. ASSUME NEW r \in Rank \ {0} PROVE R(r)[1] = R(r - 1)[2]
  <2>1. r - 1 \in Nat /\ (r - 1) + 1 = r
    BY <1>1
  <2>2. R((r - 1) + 1)[1] = R(r - 1)[2]
    BY <1>3, <2>1
  <2> QED
    BY <2>1, <2>2
<1>6. mlpOut[0].first = 0 /\ mlpOut[shape.splits-1].last = shape.intermediateSize
  BY <1>1, <1>2, <1>3
<1>7. ASSUME NEW r \in Rank
      PROVE  mlpOut[r].first <= mlpOut[r].last /\ mlpOut[r].bias = mlpOut[r].first /\ (mlpOut[r].resid <=> r = 0)
  BY <1>1, <1>2, <1>3, <1>4
<1>8. ASSUME NEW r \in Rank \ {0} PROVE mlpOut[r].first = mlpOut[r-1].last
  BY <1>1, <1>2, <1>5
<1> QED
  BY <1>6, <1>7, <1>8

(* After the MLP the sum over ranks has every column once, and its bias.   *)
(* The hypothesis is what MLP::setWeights needs: it cuts the biases into   *)
(* equal parts, as getTaskRange cuts the columns only when they are a      *)
(* multiple of 64 for every rank.                                          *)
THEOREM ColumnsAreOnce ==
  ASSUME \A s \in Shapes : ColumnsAligned(s)
  PROVE  Spec => []ColumnsOnce
<1>1. IInv => ColumnsOnce
  BY ColumnsFromParts DEF IInv, InvType
<1> QED
  BY <1>1, Invariance, PTL

-----------------------------------------------------------------------------
(* Query head h as it should be in the sum, computed by rank r. *)
HeadTerm(r, h) ==
  [q |-> h, kv |-> h \div (shape.attHeadNum \div shape.kvHeadNum), bias |-> h, rank |-> r]

(* The key/value head of query head h is in the cache of rank r. *)
HeadCached(r, h) ==
  LET kv   == h \div (shape.attHeadNum \div shape.kvHeadNum)
      slot == kv - layout[r].startKVHead
  IN slot < layout[r].headsPerSplit /\ cache[r][slot] = kv

LEMMA RankServes ==
  ASSUME IInv, HeadsAligned(shape), NEW r \in Rank, Past(r, "attention")
  PROVE  LET n == shape.attHeadNum \div shape.splits
         IN  /\ attnOut[r].heads = {HeadTerm(r, r * n + i) : i \in 0 .. n-1}
             /\ \A i \in 0 .. n-1 : HeadCached(r, r * n + i)
<1> DEFINE l == Layout(r)
           e == shape.attHeadNum \div shape.kvHeadNum
           m == shape.attHeadNum \div shape.splits
<1>1. PICK n \in Nat \ {0}, g \in Nat \ {0} :
         /\ shape.attHeadNum = shape.splits * n
         /\ n = m
         /\ l.startQHead = r * n /\ l.endQHead - l.startQHead = n /\ l.biasHead = r * n
         /\ g = n \div (l.endKVHead - l.startKVHead)
         /\ \A i \in 0 .. n-1 : /\ i \div g \in Nat /\ i \div g < l.headsPerSplit
                                /\ l.startKVHead + (i \div g) = (r * n + i) \div e
                                /\ l.startKVHead \in Nat
  <2>1. shape \in Shapes
    BY DEF IInv, InvType
  <2> QED
    BY <2>1, HeadsOfRank
<1>2. /\ layout[r] = l /\ attnOut[r].heads = Terms(l, r)
      /\ \A h \in Copied(l) : cache[r][h] = l.startKVHead + h
  <2>1. pc[r] # "construct"
    BY DEF Past, Order
  <2>2. layout[r] = l
    BY <2>1 DEF IInv, InvLayout
  <2>3. /\ attnOut[r] = [resid |-> r = 0, heads |-> Terms(l, r)]
        /\ \A h \in Copied(l) : cache[r][h] = l.startKVHead + h
    BY DEF IInv, InvAttention
  <2> HIDE DEF l
  <2> QED
    BY <2>2, <2>3
<1> HIDE DEF l, m
<1>3. Heads(l) = 0 .. n-1 /\ \A i : LocalKV(l, i) = i \div g
  BY <1>1 DEF Heads, LocalKV
<1>4. Terms(l, r) = {HeadTerm(r, r * n + i) : i \in 0 .. n-1}
  <2>1. Terms(l, r) = {[q |-> l.startQHead + i, kv |-> l.startKVHead + (i \div g), bias |-> l.biasHead + i,
                        rank |-> r] : i \in 0 .. n-1}
    BY <1>3 DEF Terms
  <2>2. \A i \in 0 .. n-1 :
          [q |-> l.startQHead + i, kv |-> l.startKVHead + (i \div g), bias |-> l.biasHead + i, rank |-> r]
            = HeadTerm(r, r * n + i)
    BY <1>1 DEF HeadTerm
  <2> QED
    BY <2>1, <2>2
<1>5. ASSUME NEW i \in 0 .. n-1 PROVE HeadCached(r, r * n + i)
  <2> DEFINE s == i \div g
             t == i % g
  <2>1. i \in Nat /\ s \in Nat /\ t \in 0 .. g-1 /\ i = g * s + t
    <3>1. i \in Nat
      BY <1>1
    <3> QED
      BY <1>1, <3>1, DivMod
  <2>2. s < l.headsPerSplit /\ l.startKVHead + s = (r * n + i) \div e /\ l.startKVHead \in Nat
    BY <1>1
  <2> HIDE DEF s, t, e
  <2>3. g * s \in 0 .. n-1 /\ (g * s) % g = 0 /\ (g * s) \div g = s
    <3>1. g * s \in Nat /\ g * s <= i
      BY <1>1, <2>1
    <3>2. g * s = g * s + 0 /\ 0 \in 0 .. g-1
      BY <1>1, <3>1
    <3>3. (g * s) % g = 0 /\ (g * s) \div g = s
      <4>1. g \in Nat \ {0} /\ s \in Nat /\ 0 \in 0 .. g-1
        BY <1>1, <2>1
      <4>2. (g * s + 0) \div g = s /\ (g * s + 0) % g = 0
        BY <4>1, DivModUnique
      <4> QED
        BY <3>1, <3>2, <4>2
    <3> QED
      BY <1>1, <3>1, <3>3
  <2>4. s \in Copied(l)
    <3>1. Copied(l) = {LocalKV(l, x) : x \in {x \in Heads(l) : x % g = 0}}
      BY <1>1 DEF Copied
    <3>2. s = LocalKV(l, g * s) /\ g * s \in {x \in Heads(l) : x % g = 0}
      BY <1>3, <2>3
    <3> QED
      BY <3>1, <3>2
  <2>5. cache[r][s] = l.startKVHead + s
    BY <1>2, <2>4
  <2>6. (r * n + i) \div e - l.startKVHead = s
    BY <2>1, <2>2
  <2> QED
    BY <1>2, <2>2, <2>5, <2>6 DEF HeadCached, e
<1> QED
  BY <1>1, <1>2, <1>4, <1>5 DEF m

LEMMA HeadsFromParts ==
  ASSUME IInv, HeadsAligned(shape) PROVE HeadsServed
<1> DEFINE heads == UNION {attnOut[r].heads : r \in Rank}
           n == shape.attHeadNum \div shape.splits
           e == shape.attHeadNum \div shape.kvHeadNum
<1> SUFFICES ASSUME \A r \in Rank : Past(r, "attention")
             PROVE  /\ Cardinality({r \in Rank : attnOut[r].resid}) = 1
                    /\ \A h \in 0 .. shape.attHeadNum-1 :
                         /\ Cardinality({t \in heads : t.q = h}) = 1
                         /\ \A t \in heads : t.q = h =>
                              /\ t.kv = h \div e
                              /\ t.bias = h
                              /\ LET slot == t.kv - layout[t.rank].startKVHead
                                 IN slot < layout[t.rank].headsPerSplit /\ cache[t.rank][slot] = t.kv
  BY DEF HeadsServed
<1>1. /\ shape \in Shapes /\ 0 \in Rank /\ shape.splits \in Nat \ {0} /\ \A r \in Rank : r \in Nat
      /\ shape.attHeadNum \in Nat \ {0}
  BY ShapeType DEF IInv, InvType
<1>2. n \in Nat \ {0} /\ shape.attHeadNum = shape.splits * n
  <2>1. PICK k \in Nat \ {0} : shape.attHeadNum = shape.splits * k /\ k = shape.attHeadNum \div shape.splits
    BY <1>1, HeadsOfRank
  <2> QED
    BY <2>1
<1>3. /\ \A r \in Rank : attnOut[r].heads = {HeadTerm(r, r * n + i) : i \in 0 .. n-1}
      /\ \A r \in Rank : \A i \in 0 .. n-1 : HeadCached(r, r * n + i)
  BY RankServes
<1> HIDE DEF n
<1>4. {r \in Rank : attnOut[r].resid} = {0}
  <2>1. ASSUME NEW r \in Rank PROVE attnOut[r].resid = (r = 0)
    <3>1. attnOut[r] = [resid |-> r = 0, heads |-> Terms(Layout(r), r)]
      BY DEF IInv, InvAttention
    <3> QED
      BY <3>1
  <2> QED
    BY <1>1, <2>1
<1>5. ASSUME NEW h \in 0 .. shape.attHeadNum-1
      PROVE  \E r \in Rank : {t \in heads : t.q = h} = {HeadTerm(r, h)} /\ HeadCached(r, h)
  <2> DEFINE r0 == h \div n
             i0 == h % n
  <2>1. h \in Nat /\ r0 \in Nat /\ i0 \in 0 .. n-1 /\ h = n * r0 + i0
    <3>1. h \in Nat
      BY <1>1
    <3> QED
      BY <1>2, <3>1, DivMod
  <2>2. \A r \in Nat, i \in 0 .. n-1 : h = r * n + i => r = r0 /\ i = i0
    <3> SUFFICES ASSUME NEW r \in Nat, NEW i \in 0 .. n-1, h = r * n + i PROVE r = r0 /\ i = i0
      OBVIOUS
    <3>1. h = n * r + i
      BY <1>2
    <3> QED
      BY <1>2, <3>1, DivModIs
  <2> HIDE DEF r0, i0
  <2>3. h = r0 * n + i0
    BY <1>2, <2>1
  <2>4. r0 \in Rank
    <3>1. r0 < shape.splits
      <4> SUFFICES ASSUME shape.splits <= r0 PROVE FALSE
        BY <1>1, <2>1
      <4>1. n * shape.splits <= n * r0 /\ n * r0 \in Nat
        BY <1>1, <1>2, <2>1, MulMono
      <4>2. n * shape.splits = shape.attHeadNum
        BY <1>1, <1>2
      <4> QED
        BY <1>1, <2>1, <4>1, <4>2
    <3> QED
      BY <1>1, <2>1, <3>1 DEF Rank
  <2>5. HeadTerm(r0, h) \in heads /\ HeadTerm(r0, h).q = h
    BY <1>3, <2>1, <2>3, <2>4 DEF HeadTerm
  <2>6. ASSUME NEW t \in heads, t.q = h PROVE t = HeadTerm(r0, h)
    <3>1. PICK r \in Rank, i \in 0 .. n-1 : t = HeadTerm(r, r * n + i)
      BY <1>3
    <3>2. h = r * n + i
      BY <2>6, <3>1 DEF HeadTerm
    <3> QED
      BY <1>1, <2>2, <3>1, <3>2
  <2>7. {t \in heads : t.q = h} = {HeadTerm(r0, h)}
    BY <2>5, <2>6
  <2>8. HeadCached(r0, h)
    BY <1>3, <2>1, <2>3, <2>4
  <2> QED
    BY <2>4, <2>7, <2>8
<1> HIDE DEF heads
<1>6. ASSUME NEW h \in 0 .. shape.attHeadNum-1
      PROVE  /\ Cardinality({t \in heads : t.q = h}) = 1
             /\ \A t \in heads : t.q = h =>
                  /\ t.kv = h \div e
                  /\ t.bias = h
                  /\ LET slot == t.kv - layout[t.rank].startKVHead
                     IN slot < layout[t.rank].headsPerSplit /\ cache[t.rank][slot] = t.kv
  <2>1. PICK r \in Rank : {t \in heads : t.q = h} = {HeadTerm(r, h)} /\ HeadCached(r, h)
    BY <1>5
  <2>2. Cardinality({t \in heads : t.q = h}) = 1
    BY <2>1, FS_Singleton
  <2>3. \A t \in heads : t.q = h => t = HeadTerm(r, h)
    BY <2>1
  <2>4. HeadTerm(r, h).kv = h \div e /\ HeadTerm(r, h).bias = h /\ HeadTerm(r, h).rank = r
    BY DEF HeadTerm
  <2> QED
    BY <2>1, <2>2, <2>3, <2>4 DEF HeadCached
<1> QED
  BY <1>4, <1>6, FS_Singleton

(* After the attention the sum over ranks has every query head once, with  *)
(* its own key/value head, which the rank has in its cache, and its own    *)
(* bias.  The hypothesis excludes the shapes for which the code is known   *)
(* not to do it: a group of query heads cut unevenly between ranks.        *)
THEOREM HeadsAreServed ==
  ASSUME \A s \in Shapes : HeadsAligned(s)
  PROVE  Spec => []HeadsServed
<1>1. IInv => HeadsServed
  BY HeadsFromParts DEF IInv, InvType
<1> QED
  BY <1>1, Invariance, PTL
=============================================================================
