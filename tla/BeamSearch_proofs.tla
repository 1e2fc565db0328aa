------------------------- MODULE BeamSearch_proofs -------------------------
(***************************************************************************)
(* Beam search, for every number of samples, beams and tokens, any prompts *)
(* and log probabilities.                                                  *)
(***************************************************************************)
EXTENDS BeamSearch, SequenceTheorems, FiniteSetTheorems, FunctionTheorems, WellFoundedInduction, TLAPS

-----------------------------------------------------------------------------
(* Facts about the naturals.  Induction is for a property given as a set:  *)
(* the provers cannot apply it to one given as an operator.                *)

(* A non-empty set of naturals has a least element. *)
LEMMA LeastNatural ==
  ASSUME NEW T \in SUBSET Nat, T # {}
  PROVE  \E x \in T : \A y \in T : x <= y
<1>1. PICK x \in T : \A y \in T : ~(<<y, x>> \in OpToRel(<, Nat))
  BY WFMin, NatLessThanWellFounded
<1>2. \A y \in T : ~(y < x)
  BY <1>1 DEF OpToRel
<1> QED
  BY <1>2

(* Induction, for a property given as a set. *)
LEMMA InductionOnNat ==
  ASSUME NEW T, 0 \in T, \A n \in Nat : n \in T => n + 1 \in T
  PROVE  Nat \subseteq T
<1> SUFFICES ASSUME Nat \ T # {} PROVE FALSE
  OBVIOUS
<1>1. PICK x \in Nat \ T : \A y \in Nat \ T : x <= y
  BY LeastNatural
<1>2. x # 0 /\ x - 1 \in Nat
  BY <1>1
<1>3. x - 1 \in T
  BY <1>1, <1>2
<1> QED
  BY <1>1, <1>2, <1>3

(* Division with remainder by a positive number. *)
LEMMA DivMod ==
  ASSUME NEW m \in Nat, NEW n \in Nat \ {0}
  PROVE  /\ m \div n \in Nat /\ m % n \in 0 .. n-1
         /\ m = n * (m \div n) + (m % n)
OBVIOUS

(* A list of naturals and a number have a largest element. *)
LEMMA GreatestOf ==
  ASSUME NEW n \in Nat, NEW f \in [1 .. n -> Nat], NEW k \in Nat
  PROVE  \E m \in {k} \cup {f[i] : i \in 1 .. n} : \A x \in {k} \cup {f[i] : i \in 1 .. n} : m >= x
<1> DEFINE Upto(j) == {k} \cup {f[i] : i \in 1 .. j}
           T == {j \in Nat : j <= n => \E m \in Upto(j) : \A x \in Upto(j) : m >= x}
<1>1. 0 \in T
  OBVIOUS
<1>2. ASSUME NEW j \in Nat, j \in T PROVE j + 1 \in T
  <2> SUFFICES ASSUME j + 1 <= n PROVE \E m \in Upto(j + 1) : \A x \in Upto(j + 1) : m >= x
    OBVIOUS
  <2>1. PICK m \in Upto(j) : \A x \in Upto(j) : m >= x
    BY <1>2
  <2>2. Upto(j + 1) = Upto(j) \cup {f[j + 1]}
    OBVIOUS
  <2>3. Upto(j + 1) \subseteq Nat
    OBVIOUS
  <2>4. CASE f[j + 1] >= m
    BY <2>1, <2>2, <2>3, <2>4
  <2>5. CASE ~(f[j + 1] >= m)
    <3>1. m \in Upto(j + 1)
      BY <2>1, <2>2
    <3>2. f[j + 1] \in Nat /\ m \in Nat
      BY <2>2, <2>3, <3>1
    <3>3. ASSUME NEW x \in Upto(j + 1) PROVE m >= x
      BY <2>1, <2>2, <2>3, <2>5, <3>2
    <3> HIDE DEF Upto
    <3> QED
      BY <3>1, <3>3
  <2> QED
    BY <2>4, <2>5
<1> HIDE DEF T
<1>3. n \in T
  BY <1>1, <1>2, InductionOnNat
<1> QED
  BY <1>3 DEF T

(* The quotient and the remainder are the only ones. *)
LEMMA DivModUnique ==
  ASSUME NEW n \in Nat \ {0}, NEW q \in Nat, NEW r \in 0 .. n-1
  PROVE  (n * q + r) \div n = q /\ (n * q + r) % n = r
OBVIOUS

(* Products keep the order. *)
LEMMA MulMono ==
  ASSUME NEW a \in Nat, NEW b \in Nat, NEW c \in Nat, a <= b
  PROVE  c * a \in Nat /\ c * b \in Nat /\ c * a <= c * b
<1>1. PICK d \in Nat : b = a + d
  <2>1. b - a \in Nat /\ b = a + (b - a)
    OBVIOUS
  <2> QED
    BY <2>1
<1>2. c * b = c * a + c * d /\ c * d \in Nat /\ c * a \in Nat
  BY <1>1
<1> QED
  BY <1>2

(* Element i of row b of a matrix with rows of length n, stored flat. *)
LEMMA FlatIndex ==
  ASSUME NEW m \in Nat, NEW n \in Nat \ {0}, NEW b \in 0 .. m-1, NEW i \in 0 .. n-1
  PROVE  /\ b * n + i \in 0 .. m*n - 1
         /\ (b * n + i) \div n = b /\ (b * n + i) % n = i
<1>1. b \in Nat /\ b <= m - 1 /\ m - 1 \in Nat /\ i \in Nat
  OBVIOUS
<1>2. b * n + i = n * b + i
  BY <1>1
<1>3. (b * n + i) \div n = b /\ (b * n + i) % n = i
  BY <1>1, <1>2, DivModUnique
<1>4. n * b \in Nat /\ n * b <= n * (m - 1) /\ n * (m - 1) \in Nat
  BY <1>1, MulMono
<1>5. n * (m - 1) = m * n - n /\ m * n \in Nat
  OBVIOUS
<1> QED
  BY <1>1, <1>2, <1>3, <1>4, <1>5

FlatAt(x, m, n, b, i) == x \in 0 .. m*n - 1 /\ x \div n = b /\ x % n = i

LEMMA FlatAtIndex ==
  ASSUME NEW m \in Nat, NEW n \in Nat \ {0}, NEW b \in 0 .. m-1, NEW i \in 0 .. n-1, NEW x, x = b * n + i
  PROVE  FlatAt(x, m, n, b, i)
BY FlatIndex DEF FlatAt

-----------------------------------------------------------------------------
(* Ranks in a strict total order R, given as a set of pairs. *)
Ordered(U, R) ==
  /\ \A x \in U : <<x, x>> \notin R
  /\ \A x, y, z \in U : <<x, y>> \in R /\ <<y, z>> \in R => <<x, z>> \in R
  /\ \A x, y \in U : x = y \/ <<x, y>> \in R \/ <<y, x>> \in R
Pred(U, R, e) == {f \in U : <<f, e>> \in R}
Rank(U, R, e) == Cardinality(Pred(U, R, e))

LEMMA RankType ==
  ASSUME NEW U, IsFiniteSet(U), NEW R, NEW e
  PROVE  IsFiniteSet(Pred(U, R, e)) /\ Rank(U, R, e) \in Nat
<1>1. Pred(U, R, e) \in SUBSET U
  BY DEF Pred
<1> QED
  BY <1>1, FS_Subset, FS_CardinalityType DEF Rank

LEMMA RankMono ==
  ASSUME NEW U, IsFiniteSet(U), NEW R, Ordered(U, R), NEW e \in U, NEW f \in U, <<e, f>> \in R
  PROVE  Rank(U, R, e) < Rank(U, R, f)
<1>1. Pred(U, R, e) \subseteq Pred(U, R, f)
  BY DEF Pred, Ordered
<1>2. e \in Pred(U, R, f) /\ e \notin Pred(U, R, e)
  BY DEF Pred, Ordered
<1>3. /\ Cardinality(Pred(U, R, e)) <= Cardinality(Pred(U, R, f))
      /\ Cardinality(Pred(U, R, f)) = Cardinality(Pred(U, R, e)) => Pred(U, R, f) = Pred(U, R, e)
  BY <1>1, RankType, FS_Subset
<1>4. Rank(U, R, e) \in Nat /\ Rank(U, R, f) \in Nat
  BY RankType
<1> QED
  BY <1>2, <1>3, <1>4 DEF Rank

LEMMA RankUnique ==
  ASSUME NEW U, IsFiniteSet(U), NEW R, Ordered(U, R), NEW e \in U, NEW f \in U, Rank(U, R, e) = Rank(U, R, f)
  PROVE  e = f
<1>1. Rank(U, R, e) \in Nat
  BY RankType
<1>2. <<e, f>> \notin R
  BY <1>1, RankMono
<1>3. <<f, e>> \notin R
  BY <1>1, RankMono
<1> QED
  BY <1>2, <1>3 DEF Ordered

(* A set whose ranks are all below n has no more than n elements. *)
LEMMA RanksBelow ==
  ASSUME NEW U, IsFiniteSet(U), NEW R, Ordered(U, R), NEW V \in SUBSET U, NEW n \in Nat,
         \A e \in V : Rank(U, R, e) < n
  PROVE  IsFiniteSet(V) /\ Cardinality(V) <= n
<1> DEFINE g == [e \in V |-> Rank(U, R, e)]
           T == 0 .. n-1
<1>1. \A e \in V : Rank(U, R, e) \in T
  BY RankType
<1>2. g \in [V -> T]
  BY <1>1
<1>3. \A a, b \in V : g[a] = g[b] => a = b
  BY RankUnique
<1>4. IsFiniteSet(T) /\ Cardinality(T) = n
  BY FS_Interval
<1> HIDE DEF g, T
<1>5. g \in Injection(V, T)
  BY <1>2, <1>3, Fun_IsInj
<1> QED
  BY <1>4, <1>5, FS_Injection

LEMMA RankExists ==
  ASSUME NEW U, IsFiniteSet(U), NEW R, Ordered(U, R), NEW n \in Nat, n < Cardinality(U)
  PROVE  \E e \in U : Rank(U, R, e) = n
<1> DEFINE T == {Rank(U, R, e) : e \in {x \in U : Rank(U, R, x) >= n}}
<1>1. \A e \in U : Rank(U, R, e) \in Nat
  BY RankType
<1>2. T \in SUBSET Nat
  BY <1>1
<1>3. T # {}
  <2> SUFFICES ASSUME T = {} PROVE FALSE
    OBVIOUS
  <2>1. \A e \in U : Rank(U, R, e) < n
    BY <1>1
  <2>2. Cardinality(U) <= n
    BY <2>1, RanksBelow
  <2>3. Cardinality(U) \in Nat
    BY FS_CardinalityType
  <2> QED
    BY <2>2, <2>3
<1>4. PICK c \in T : \A d \in T : c <= d
  BY <1>2, <1>3, LeastNatural
<1>5. PICK e \in U : Rank(U, R, e) = c /\ c >= n
  OBVIOUS
<1>6. \A f \in Pred(U, R, e) : Rank(U, R, f) < n
  <2> TAKE f \in Pred(U, R, e)
  <2>1. f \in U /\ <<f, e>> \in R
    BY DEF Pred
  <2>2. Rank(U, R, f) < Rank(U, R, e)
    BY <2>1, RankMono
  <2>3. Rank(U, R, f) \in Nat /\ c \in Nat
    BY <2>1, <1>1, <1>5
  <2>4. Rank(U, R, f) >= n => Rank(U, R, f) \in T
    BY <2>1
  <2> HIDE DEF T
  <2> QED
    BY <2>2, <2>3, <2>4, <1>4, <1>5
<1>7. Pred(U, R, e) \in SUBSET U
  BY DEF Pred
<1>8. Cardinality(Pred(U, R, e)) <= n
  BY <1>6, <1>7, RanksBelow
<1>9. Rank(U, R, e) \in Nat
  BY <1>1
<1> QED
  BY <1>5, <1>8, <1>9 DEF Rank

(* The first elements, in order. *)
Sorted(U, R, n, c) ==
  /\ \A i \in 1 .. n : c[i] \in U /\ Rank(U, R, c[i]) = i - 1
  /\ \A i, j \in 1 .. n : i < j => <<c[i], c[j]>> \in R
  /\ \A i \in 1 .. n : \A f \in U : <<f, c[i]>> \in R => \E j \in 1 .. n : j < i /\ c[j] = f

LEMMA SortedIs ==
  ASSUME NEW U, IsFiniteSet(U), NEW R, Ordered(U, R), NEW n \in Nat, NEW c,
         \A i \in 1 .. n : c[i] \in U /\ Rank(U, R, c[i]) = i - 1
  PROVE  Sorted(U, R, n, c)
<1>2. ASSUME NEW i \in 1 .. n, NEW j \in 1 .. n, i < j PROVE <<c[i], c[j]>> \in R
  <2>1. c[i] # c[j]
    BY <1>2
  <2>2. <<c[j], c[i]>> \notin R
    <3> SUFFICES ASSUME <<c[j], c[i]>> \in R PROVE FALSE
      OBVIOUS
    <3>1. Rank(U, R, c[j]) < Rank(U, R, c[i])
      BY RankMono
    <3> QED
      BY <3>1, <1>2
  <2> QED
    BY <2>1, <2>2 DEF Ordered
<1>3. ASSUME NEW i \in 1 .. n, NEW f \in U, <<f, c[i]>> \in R
      PROVE  \E j \in 1 .. n : j < i /\ c[j] = f
  <2> DEFINE k == Rank(U, R, f)
  <2>1. k \in Nat /\ k < Rank(U, R, c[i])
    BY <1>3, RankType, RankMono
  <2> HIDE DEF k
  <2>2. k + 1 \in 1 .. n /\ k + 1 < i + 0 /\ (k + 1) - 1 = k
    BY <2>1
  <2>3. Rank(U, R, c[k + 1]) = Rank(U, R, f) /\ c[k + 1] \in U
    BY <2>2 DEF k
  <2>4. c[k + 1] = f
    BY <2>3, RankUnique
  <2> QED
    BY <2>2, <2>4
<1> QED
  BY <1>2, <1>3 DEF Sorted

-----------------------------------------------------------------------------
(* The candidates of a sample. *)
Entry == Int \X Int \X Int
BeforeRel(S) == {p \in S \X S : Before(p[1], p[2])}
Firsts(S) == {e \in S : ~Duplicate(e, S)}
CandSet(s, rows) == UNION {BeamTopK(s, k, rows) : k \in 0 .. NumBeams-1}
Top(t) == {y \in Token : Cardinality({z \in Token : t[z] > t[y]}) < KVal}

LEMMA Sizes ==
  /\ NumBeams \in Nat \ {0, 1} /\ VocabSize \in Nat /\ VocabSize >= KVal /\ KVal \in Nat \ {0}
  /\ KVal = 2 * NumBeams
  /\ Token \subseteq Nat /\ IsFiniteSet(Token) /\ Cardinality(Token) = VocabSize
  /\ Eos \in Token /\ Pad \in Token /\ Big \in Nat \ {0}
  /\ \A t \in Tables : t \in [Token -> Int] /\ (\A x, y \in Token : t[x] = t[y] => x = y)
<1>1. NumBeams \in Nat \ {0, 1} /\ VocabSize \in Nat /\ VocabSize >= KVal /\ {Eos, Pad} \subseteq Token
  BY TableAssumption
<1>2. KVal = 2 * NumBeams /\ KVal \in Nat \ {0}
  BY <1>1 DEF KVal
<1>3. IsFiniteSet(Token) /\ Cardinality(Token) = VocabSize /\ Token \subseteq Nat
  BY <1>1, FS_Interval DEF Token
<1>4. Big \in Nat \ {0}
  BY BigAssumption
<1>5. ASSUME NEW t \in Tables PROVE t \in [Token -> Int] /\ (\A x, y \in Token : t[x] = t[y] => x = y)
  <2>1. t \in [Token -> -Big+1 .. -1] /\ IsInjective(t)
    BY TableAssumption
  <2> QED
    BY <2>1, <1>4 DEF IsInjective
<1> QED
  BY <1>1, <1>2, <1>3, <1>4, <1>5

LEMMA BeforeOrder ==
  ASSUME NEW S \in SUBSET Entry
  PROVE  /\ Ordered(S, BeforeRel(S))
         /\ \A e \in S : Pred(S, BeforeRel(S), e) = {f \in S : Before(f, e)}
<1>1. \A e \in S : e[1] \in Int /\ e[2] \in Int /\ e[3] \in Int
  BY DEF Entry
<1>2. \A e, f \in S : e[1] = f[1] /\ e[2] = f[2] /\ e[3] = f[3] => e = f
  BY DEF Entry
<1>3. \A x, y \in S : <<x, y>> \in BeforeRel(S) <=> Before(x, y)
  BY DEF BeforeRel
<1>4. \A x \in S : ~Before(x, x)
  BY <1>1 DEF Before
<1>5. \A x, y, z \in S : Before(x, y) /\ Before(y, z) => Before(x, z)
  BY <1>1 DEF Before
<1>6. \A x, y \in S : x = y \/ Before(x, y) \/ Before(y, x)
  BY <1>1, <1>2 DEF Before
<1>7. Ordered(S, BeforeRel(S))
  BY <1>3, <1>4, <1>5, <1>6 DEF Ordered
<1> QED
  BY <1>3, <1>7 DEF Pred

(* A table has KVal likeliest tokens. *)
LEMMA TopIs ==
  ASSUME NEW t \in Tables
  PROVE  Top(t) \subseteq Token /\ IsFiniteSet(Top(t)) /\ Cardinality(Top(t)) >= KVal
<1> DEFINE R == {p \in Token \X Token : t[p[1]] > t[p[2]]}
           V == 0 .. KVal-1
           g == [n \in V |-> CHOOSE e \in Token : Rank(Token, R, e) = n]
<1>1. t \in [Token -> Int] /\ (\A x, y \in Token : t[x] = t[y] => x = y)
  BY Sizes
<1>2. \A x, y \in Token : <<x, y>> \in R <=> t[x] > t[y]
  OBVIOUS
<1>3. \A x \in Token : t[x] \in Int
  BY <1>1
<1> HIDE DEF R
<1>4. Ordered(Token, R)
  BY <1>1, <1>2, <1>3 DEF Ordered
<1>5. \A y \in Token : Pred(Token, R, y) = {z \in Token : t[z] > t[y]}
  BY <1>2 DEF Pred
<1>6. \A y \in Token : y \in Top(t) <=> Rank(Token, R, y) < KVal
  BY <1>5 DEF Rank, Top
<1>7. ASSUME NEW n \in V PROVE g[n] \in Token /\ Rank(Token, R, g[n]) = n
  <2>1. n \in Nat /\ n < Cardinality(Token)
    BY Sizes
  <2>2. \E e \in Token : Rank(Token, R, e) = n
    BY <2>1, <1>4, RankExists, Sizes
  <2> QED
    BY <2>2
<1>8. IsFiniteSet(V) /\ Cardinality(V) = KVal /\ \A n \in V : n < KVal
  BY Sizes, FS_Interval
<1>9. DOMAIN g = V /\ g = [n \in V |-> g[n]]
  OBVIOUS
<1> HIDE DEF g, V
<1>10. \A n \in V : g[n] \in Top(t)
  BY <1>6, <1>7, <1>8
<1>11. g \in [V -> Top(t)]
  BY <1>9, <1>10
<1>12. \A a, b \in V : g[a] = g[b] => a = b
  BY <1>7
<1>13. g \in Injection(V, Top(t))
  BY <1>11, <1>12, Fun_IsInj
<1>14. Top(t) \subseteq Token
  BY DEF Top
<1>15. IsFiniteSet(Top(t)) /\ Cardinality(Top(t)) \in Nat
  BY <1>14, Sizes, FS_Subset, FS_CardinalityType
<1>16. Cardinality(V) <= Cardinality(Top(t))
  BY <1>13, <1>15, FS_Injection
<1> QED
  BY <1>8, <1>14, <1>15, <1>16, Sizes

(* Leaving out duplicates leaves an entry for every token there was. *)
LEMMA FirstsAreMany ==
  ASSUME NEW S \in SUBSET Entry, IsFiniteSet(S), NEW V, NEW f \in [V -> S], \A x \in V : f[x][2] = x
  PROVE  IsFiniteSet(Firsts(S)) /\ IsFiniteSet(V) /\ Cardinality(V) <= Cardinality(Firsts(S))
<1>1. Firsts(S) \subseteq S /\ IsFiniteSet(Firsts(S))
  BY FS_Subset DEF Firsts
<1>2. ASSUME NEW x \in V PROVE \E e \in Firsts(S) : e[2] = x
  <2> DEFINE C == {g \in S : g[1] = f[x][1] /\ g[2] = x}
  <2>1. C \in SUBSET Entry /\ IsFiniteSet(C) /\ C \subseteq S
    BY FS_Subset
  <2>2. f[x] \in C
    OBVIOUS
  <2>3. Cardinality(C) \in Nat /\ Cardinality(C) # 0
    BY <2>1, <2>2, FS_EmptySet, FS_CardinalityType
  <2>4. \A g, h \in C : g[1] = h[1] /\ g[2] = h[2] /\ g[2] = x
    OBVIOUS
  <2>5. \A g \in S : \A h \in C : g[1] = h[1] /\ g[2] = h[2] => g \in C
    OBVIOUS
  <2> HIDE DEF C
  <2>6. PICK e \in C : Rank(C, BeforeRel(C), e) = 0
    <3>1. Ordered(C, BeforeRel(C)) /\ 0 \in Nat /\ 0 < Cardinality(C)
      BY <2>1, <2>3, BeforeOrder
    <3> QED
      BY <2>1, <3>1, RankExists
  <2>7. Pred(C, BeforeRel(C), e) = {}
    BY <2>1, <2>6, RankType, FS_EmptySet DEF Rank
  <2>8. \A g \in C : ~Before(g, e)
    BY <2>1, <2>7, BeforeOrder
  <2>9. ~Duplicate(e, S)
    BY <2>5, <2>6, <2>8 DEF Duplicate
  <2> QED
    BY <2>1, <2>4, <2>9 DEF Firsts
<1> DEFINE g == [x \in V |-> CHOOSE e \in Firsts(S) : e[2] = x]
<1>3. \A x \in V : g[x] \in Firsts(S) /\ g[x][2] = x
  BY <1>2
<1>4. g = [x \in V |-> g[x]]
  OBVIOUS
<1> HIDE DEF g
<1>5. g \in [V -> Firsts(S)]
  BY <1>3, <1>4
<1>6. g \in Injection(V, Firsts(S))
  BY <1>3, <1>5, Fun_IsInj
<1> QED
  BY <1>1, <1>6, FS_Injection

(* What a candidate of a sample is. *)
TableOf(s, k, rows) == lm[Last(rows[s * NumBeams + k])]
Made(s, rows, e) ==
  /\ e[2] \in Token /\ e[3] \in 0 .. NumBeams-1
  /\ e = <<Plus(beamNextScores[s * NumBeams + e[3]], TableOf(s, e[3], rows)[e[2]]), e[2], e[3]>>

Ready(s, rows) ==
  /\ lm \in [Token -> Tables]
  /\ \A k \in 0 .. NumBeams-1 : /\ Last(rows[s * NumBeams + k]) \in Token
                                /\ beamNextScores[s * NumBeams + k] \in Int

LEMMA BeamTopKIs ==
  ASSUME NEW s, NEW rows, Ready(s, rows), NEW k \in 0 .. NumBeams-1
  PROVE  /\ TableOf(s, k, rows) \in Tables
         /\ IsFiniteSet(BeamTopK(s, k, rows))
         /\ \A e \in BeamTopK(s, k, rows) : e \in Entry /\ e[3] = k /\ Made(s, rows, e)
         /\ \A x \in Top(TableOf(s, k, rows)) : \E e \in BeamTopK(s, k, rows) : e[2] = x
<1> DEFINE t == TableOf(s, k, rows)
           v == beamNextScores[s * NumBeams + k]
           g == [x \in Top(t) |-> <<Plus(v, t[x]), x, k>>]
<1>1. t \in Tables /\ v \in Int
  BY DEF Ready, TableOf
<1>2. t \in [Token -> Int] /\ Top(t) \subseteq Token /\ IsFiniteSet(Top(t))
  BY <1>1, Sizes, TopIs
<1>3. BeamTopK(s, k, rows) = {<<Plus(v, t[x]), x, k>> : x \in Top(t)}
  BY DEF BeamTopK, Top, TableOf
<1>4. \A x \in Token : Plus(v, t[x]) \in Int
  BY <1>1, <1>2, Sizes DEF Plus
<1>5. ASSUME NEW e \in BeamTopK(s, k, rows) PROVE e \in Entry /\ e[3] = k /\ Made(s, rows, e)
  <2>1. PICK x \in Top(t) : e = <<Plus(v, t[x]), x, k>>
    BY <1>3
  <2>2. x \in Token /\ x \in Int /\ k \in Int
    <3>1. x \in Token
      BY <1>2
    <3>2. Token \subseteq Nat
      BY Sizes
    <3> QED
      BY <3>1, <3>2
  <2>3. e \in Entry
    BY <1>4, <2>1, <2>2 DEF Entry
  <2>4. e[1] = Plus(v, t[x]) /\ e[2] = x /\ e[3] = k
    BY <2>1
  <2> QED
    BY <2>1, <2>2, <2>3, <2>4 DEF Made
<1>6. ASSUME NEW x \in Top(t) PROVE \E e \in BeamTopK(s, k, rows) : e[2] = x
  <2>1. <<Plus(v, t[x]), x, k>> \in BeamTopK(s, k, rows)
    BY <1>3
  <2> QED
    BY <2>1
<1>7. BeamTopK(s, k, rows) = {g[x] : x \in Top(t)}
  BY <1>3
<1>8. IsFiniteSet(BeamTopK(s, k, rows))
  <2>1. g \in [Top(t) -> BeamTopK(s, k, rows)]
    BY <1>3
  <2>2. \A y \in BeamTopK(s, k, rows) : \E x \in Top(t) : g[x] = y
    BY <1>7
  <2> HIDE DEF g
  <2>3. g \in Surjection(Top(t), BeamTopK(s, k, rows))
    BY <2>1, <2>2, Fun_IsSurj
  <2> QED
    BY <1>2, <2>3, FS_Surjection
<1> QED
  BY <1>1, <1>5, <1>6, <1>8

LEMMA CandSetIs ==
  ASSUME NEW s, NEW rows, Ready(s, rows)
  PROVE  /\ CandSet(s, rows) \in SUBSET Entry /\ IsFiniteSet(CandSet(s, rows))
         /\ \A e \in CandSet(s, rows) : Made(s, rows, e)
         /\ \A x \in Top(TableOf(s, 0, rows)) : \E e \in CandSet(s, rows) : e[2] = x /\ e[3] = 0
<1> DEFINE F == {BeamTopK(s, k, rows) : k \in 0 .. NumBeams-1}
           g == [k \in 0 .. NumBeams-1 |-> BeamTopK(s, k, rows)]
<1>1. IsFiniteSet(0 .. NumBeams-1) /\ 0 \in 0 .. NumBeams-1
  BY Sizes, FS_Interval
<1>2. g \in [0 .. NumBeams-1 -> F] /\ \A y \in F : \E k \in 0 .. NumBeams-1 : g[k] = y
  OBVIOUS
<1>3. \A T \in F : IsFiniteSet(T) /\ T \subseteq Entry /\ \A e \in T : Made(s, rows, e)
  BY BeamTopKIs
<1>4. BeamTopK(s, 0, rows) \in F
  BY <1>1
<1>5. CandSet(s, rows) = UNION F
  BY DEF CandSet
<1> HIDE DEF F, g
<1>6. IsFiniteSet(F)
  BY <1>1, <1>2, Fun_IsSurj, FS_Surjection
<1>7. IsFiniteSet(UNION F)
  BY <1>3, <1>6, FS_UNION
<1>8. \A x \in Top(TableOf(s, 0, rows)) : \E e \in BeamTopK(s, 0, rows) : e[2] = x /\ e[3] = 0
  BY <1>1, BeamTopKIs
<1> QED
  BY <1>3, <1>4, <1>5, <1>7, <1>8

(* The candidates are the first KVal of the entries, in order. *)
LEMMA CandidatesAre ==
  ASSUME NEW s, NEW rows, Ready(s, rows)
  PROVE  LET U == Firsts(CandSet(s, rows)) IN
         /\ U \in SUBSET Entry /\ IsFiniteSet(U)
         /\ Sorted(U, BeforeRel(U), KVal, Candidates(s, rows))
<1> DEFINE S == CandSet(s, rows)
           U == Firsts(S)
           c == Candidates(s, rows)
           t == TableOf(s, 0, rows)
           f == [x \in Top(t) |-> CHOOSE e \in S : e[2] = x]
<1>1. S \in SUBSET Entry /\ IsFiniteSet(S) /\ \A x \in Top(t) : \E e \in S : e[2] = x
  BY CandSetIs
<1>2. t \in Tables
  <2>1. 0 \in 0 .. NumBeams-1
    BY Sizes
  <2> QED
    BY <2>1, BeamTopKIs
<1>3. Cardinality(Top(t)) >= KVal /\ IsFiniteSet(Top(t))
  BY <1>2, TopIs
<1>4. f \in [Top(t) -> S] /\ \A x \in Top(t) : f[x][2] = x
  BY <1>1
<1>5. U \in SUBSET Entry
  BY <1>1 DEF Firsts
<1>6. c = [i \in 1 .. KVal |-> CHOOSE e \in U : Cardinality({g \in U : Before(g, e)}) = i - 1]
  BY DEF Candidates, Firsts, CandSet
<1> HIDE DEF S, t, f
<1>7. IsFiniteSet(U) /\ Cardinality(Top(t)) <= Cardinality(U)
  BY <1>1, <1>4, FirstsAreMany
<1>8. KVal <= Cardinality(U) /\ Cardinality(U) \in Nat
  BY <1>3, <1>7, Sizes, FS_CardinalityType
<1> HIDE DEF U
<1>9. Ordered(U, BeforeRel(U)) /\ \A e \in U : Rank(U, BeforeRel(U), e) = Cardinality({g \in U : Before(g, e)})
  BY <1>5, BeforeOrder DEF Rank
<1>10. ASSUME NEW i \in 1 .. KVal PROVE c[i] \in U /\ Rank(U, BeforeRel(U), c[i]) = i - 1
  <2>1. i - 1 \in Nat /\ i - 1 < Cardinality(U)
    BY <1>8, Sizes
  <2>2. \E e \in U : Rank(U, BeforeRel(U), e) = i - 1
    BY <2>1, <1>7, <1>9, RankExists
  <2>3. c[i] = CHOOSE e \in U : Cardinality({g \in U : Before(g, e)}) = i - 1
    BY <1>6
  <2>4. \E e \in U : Cardinality({g \in U : Before(g, e)}) = i - 1
    BY <1>9, <2>2
  <2>5. c[i] \in U /\ Cardinality({g \in U : Before(g, c[i])}) = i - 1
    BY <2>3, <2>4
  <2> QED
    BY <1>9, <2>5
<1> HIDE DEF c
<1>11. Sorted(U, BeforeRel(U), KVal, c)
  BY <1>7, <1>9, <1>10, Sizes, SortedIs
<1> QED
  BY <1>5, <1>7, <1>11 DEF U, c, S

(* Candidates are entries of the sample, each once, the best first. *)
LEMMA CandidateFacts ==
  ASSUME NEW s, NEW rows, Ready(s, rows)
  PROVE  LET c == Candidates(s, rows) IN
         /\ \A i \in 1 .. KVal : c[i] \in Entry /\ Made(s, rows, c[i])
         /\ \A i, j \in 1 .. KVal : i < j => c[i] # c[j] /\ c[i][1] >= c[j][1]
<1> DEFINE c == Candidates(s, rows)
           U == Firsts(CandSet(s, rows))
<1>1. U \in SUBSET Entry /\ Sorted(U, BeforeRel(U), KVal, c)
  BY CandidatesAre
<1>2. \A e \in U : Made(s, rows, e)
  BY CandSetIs DEF Firsts
<1> HIDE DEF c, U
<1>3. \A i \in 1 .. KVal : c[i] \in U
  BY <1>1 DEF Sorted
<1>4. \A i \in 1 .. KVal : c[i] \in Entry /\ Made(s, rows, c[i])
  BY <1>1, <1>2, <1>3
<1>5. ASSUME NEW i \in 1 .. KVal, NEW j \in 1 .. KVal, i < j PROVE c[i] # c[j] /\ c[i][1] >= c[j][1]
  <2>1. <<c[i], c[j]>> \in BeforeRel(U)
    BY <1>1, <1>5 DEF Sorted
  <2>2. Before(c[i], c[j])
    BY <2>1 DEF BeforeRel
  <2>3. c[i][1] \in Int /\ c[j][1] \in Int /\ c[i][2] \in Int /\ c[i][3] \in Int
    BY <1>4 DEF Entry
  <2> QED
    BY <2>2, <2>3 DEF Before
<1> QED
  BY <1>4, <1>5 DEF c

(* At most one candidate of a beam ends, so NumBeams of them go on. *)
LEMMA EnoughGoOn ==
  ASSUME NEW s, NEW rows, Ready(s, rows)
  PROVE  LET c == Candidates(s, rows) IN
         IsFiniteSet(GoOn(c)) /\ Cardinality(GoOn(c)) \in Nat /\ Cardinality(GoOn(c)) >= NumBeams
<1> DEFINE c == Candidates(s, rows)
           E == {i \in 1 .. KVal : c[i][2] = Eos}
           K == 0 .. NumBeams-1
           g == [i \in E |-> c[i][3]]
<1>1. /\ \A i \in 1 .. KVal : Made(s, rows, c[i])
      /\ \A i, j \in 1 .. KVal : i < j => c[i] # c[j]
  BY CandidateFacts
<1> HIDE DEF c
<1>2. \A i \in E : i \in 1 .. KVal /\ c[i][3] \in K /\ c[i][2] = Eos
  BY <1>1 DEF Made
<1>3. ASSUME NEW i \in E, NEW j \in E, c[i][3] = c[j][3] PROVE i = j
  <2>1. c[i] = c[j]
    BY <1>1, <1>2, <1>3 DEF Made
  <2>2. i \in Int /\ j \in Int
    BY Sizes
  <2> QED
    BY <1>1, <1>2, <2>1, <2>2
<1>4. g \in [E -> K] /\ \A i, j \in E : g[i] = g[j] => i = j
  BY <1>2, <1>3
<1>5. IsFiniteSet(K) /\ Cardinality(K) = NumBeams
  BY Sizes, FS_Interval
<1>6. IsFiniteSet(1 .. KVal) /\ Cardinality(1 .. KVal) = KVal
  BY Sizes, FS_Interval
<1>7. E \subseteq 1 .. KVal /\ GoOn(c) = (1 .. KVal) \ E /\ (1 .. KVal) \cap E = E
  BY DEF GoOn
<1> HIDE DEF E, K, g
<1>8. Cardinality(E) <= NumBeams /\ IsFiniteSet(E) /\ Cardinality(E) \in Nat
  BY <1>4, <1>5, Fun_IsInj, FS_Injection, FS_CardinalityType
<1>9. IsFiniteSet(GoOn(c)) /\ Cardinality(GoOn(c)) = KVal - Cardinality(E)
  BY <1>6, <1>7, FS_Difference
<1>10. Cardinality(GoOn(c)) \in Nat
  BY <1>9, FS_CardinalityType
<1> QED
  BY <1>8, <1>9, <1>10, Sizes DEF c

LEMMA BelowOrder ==
  ASSUME NEW n \in Nat, NEW G \in SUBSET (1 .. n), NEW k \in Nat, k < Cardinality(G)
  PROVE  \E i \in G : Cardinality({j \in G : j < i}) = k
<1> DEFINE R == {p \in (1 .. n) \X (1 .. n) : p[1] < p[2]}
<1>1. \A x, y \in 1 .. n : <<x, y>> \in R <=> x < y
  OBVIOUS
<1> HIDE DEF R
<1>2. Ordered(G, R)
  BY <1>1 DEF Ordered
<1>3. IsFiniteSet(G)
  <2>1. IsFiniteSet(1 .. n)
    BY FS_Interval
  <2> QED
    BY <2>1, FS_Subset
<1>4. PICK i \in G : Rank(G, R, i) = k
  BY <1>2, <1>3, RankExists
<1>5. Pred(G, R, i) = {j \in G : j < i}
  BY <1>1 DEF Pred
<1> QED
  BY <1>4, <1>5 DEF Rank

LEMMA LiveIs ==
  ASSUME NEW s, NEW rows, Ready(s, rows), NEW k \in 1 .. NumBeams
  PROVE  \E i \in GoOn(Candidates(s, rows)) : Live(Candidates(s, rows))[k] = Candidates(s, rows)[i]
<1> DEFINE G == GoOn(Candidates(s, rows))
           P(i) == Cardinality({j \in G : j < i}) = k - 1
<1>1. G \in SUBSET (1 .. KVal)
  BY DEF GoOn
<1>2. k - 1 \in Nat /\ k - 1 < Cardinality(G)
  BY EnoughGoOn, Sizes
<1> HIDE DEF G
<1>3. \E i \in G : P(i)
  <2>1. KVal \in Nat
    BY Sizes
  <2> HIDE DEF P
  <2>2. \A m \in Nat : m < Cardinality(G) => \E i \in G : Cardinality({j \in G : j < i}) = m
    BY <1>1, <2>1, BelowOrder
  <2> QED
    BY <1>2, <2>2 DEF P
<1>4. (CHOOSE i \in G : P(i)) \in G
  BY <1>3
<1>5. Live(Candidates(s, rows))[k] = Candidates(s, rows)[CHOOSE i \in G : P(i)]
  BY DEF Live, G
<1> QED
  BY <1>4, <1>5 DEF G

(* In the first step, where all beams but the first have -1e9, only the    *)
(* first beam has candidates.                                              *)
LEMMA FirstBeamOnly ==
  ASSUME NEW s, NEW rows, Ready(s, rows),
         \A k \in 0 .. NumBeams-1 : beamNextScores[s * NumBeams + k] = IF k = 0 THEN 0 ELSE -Big,
         NEW i \in 1 .. KVal
  PROVE  Candidates(s, rows)[i][3] = 0
<1> DEFINE S == CandSet(s, rows)
           U == Firsts(S)
           e == Candidates(s, rows)[i]
           t == TableOf(s, 0, rows)
           f == [x \in Top(t) |-> CHOOSE y \in S : y[2] = x /\ y[3] = 0]
           P == Pred(U, BeforeRel(U), e)
<1> SUFFICES ASSUME e[3] # 0 PROVE FALSE
  OBVIOUS
<1>1. U \in SUBSET Entry /\ IsFiniteSet(U) /\ Sorted(U, BeforeRel(U), KVal, Candidates(s, rows))
  BY CandidatesAre
<1>2. e \in U /\ Rank(U, BeforeRel(U), e) = i - 1
  BY <1>1 DEF Sorted
<1>3. 0 \in 0 .. NumBeams-1
  BY Sizes
<1>4. t \in Tables /\ IsFiniteSet(Top(t)) /\ Cardinality(Top(t)) >= KVal /\ Top(t) \subseteq Token
  BY <1>3, BeamTopKIs, TopIs
<1>5. \A x \in Top(t) : f[x] \in S /\ f[x][2] = x /\ f[x][3] = 0
  BY CandSetIs
<1>6. S \in SUBSET Entry /\ \A y \in S : Made(s, rows, y)
  BY CandSetIs
<1>7. f = [x \in Top(t) |-> f[x]]
  OBVIOUS
<1>8. \A y \in S : y \in U <=> ~Duplicate(y, S)
  BY DEF Firsts
<1> HIDE DEF S, U, f
<1>9. \A x \in Token : t[x] \in Int /\ t[x] > -Big
  <2>1. t \in [Token -> -Big+1 .. -1]
    BY <1>4, TableAssumption
  <2> HIDE DEF t
  <2> QED
    BY <2>1, Sizes
<1>10. U \subseteq S
  BY <1>8 DEF U, Firsts
<1>11. e[1] = -Big
  <2>1. Made(s, rows, e)
    BY <1>2, <1>6, <1>10
  <2>2. e[1] = Plus(-Big, TableOf(s, e[3], rows)[e[2]])
    <3> HIDE DEF e
    <3> QED
      BY <2>1 DEF Made
  <2> HIDE DEF e
  <2> QED
    BY <2>2 DEF Plus
<1>12. ASSUME NEW x \in Top(t) PROVE f[x] \in P
  <2>1. Made(s, rows, f[x]) /\ f[x] \in S /\ f[x] \in Entry
    BY <1>5, <1>6
  <2>2. f[x][1] = Plus(0, t[x])
    BY <1>3, <1>5, <2>1 DEF Made
  <2>3. f[x][1] = t[x] /\ f[x][1] \in Int /\ f[x][1] > -Big
    <3>1. x \in Token /\ 0 # -Big
      BY <1>4, Sizes
    <3>2. t[x] \in Int /\ t[x] > -Big
      BY <1>9, <3>1
    <3> HIDE DEF t
    <3> QED
      BY <2>2, <3>1, <3>2 DEF Plus
  <2>4. ~Duplicate(f[x], S)
    <3> SUFFICES ASSUME NEW g \in S, g[1] = f[x][1], g[2] = f[x][2], Before(g, f[x]) PROVE FALSE
      BY DEF Duplicate
    <3>1. Made(s, rows, g) /\ g \in Entry
      BY <1>6
    <3>2. g[3] = 0
      <4> SUFFICES ASSUME g[3] # 0 PROVE FALSE
        OBVIOUS
      <4>1. g[1] = Plus(-Big, TableOf(s, g[3], rows)[g[2]])
        BY <3>1 DEF Made
      <4> QED
        BY <4>1, <2>3, Sizes DEF Plus
    <3> QED
      BY <3>2, <2>3, <1>5, <2>1 DEF Before, Entry
  <2>5. f[x] \in U
    BY <1>8, <2>1, <2>4
  <2>6. Before(f[x], e)
    BY <1>11, <2>3, Sizes DEF Before
  <2>7. <<f[x], e>> \in BeforeRel(U)
    BY <1>2, <2>5, <2>6 DEF BeforeRel
  <2> QED
    BY <2>5, <2>7 DEF Pred
<1>13. IsFiniteSet(P)
  BY <1>1, RankType
<1> HIDE DEF P, t
<1>14. f \in [Top(t) -> P] /\ \A x, y \in Top(t) : f[x] = f[y] => x = y
  BY <1>5, <1>7, <1>12
<1>15. f \in Injection(Top(t), P)
  BY <1>14, Fun_IsInj
<1>16. Cardinality(Top(t)) <= Cardinality(P)
  BY <1>13, <1>15, FS_Injection
<1>17. Cardinality(P) = i - 1 /\ Cardinality(Top(t)) \in Nat
  BY <1>2, <1>4, FS_CardinalityType DEF P, Rank
<1> HIDE DEF e
<1> QED
  BY <1>4, <1>16, <1>17, Sizes

-----------------------------------------------------------------------------
(* Recursive functions.                                                    *)
Iterated(f, a, m, n, step) == [i \in m .. n |-> IF i = m THEN a ELSE step[<<i, f[i-1]>>]]
HasIterate(D, a, m, n, step) == \E f \in [m .. n -> D] : f = Iterated(f, a, m, n, step)
LEMMA Recursion ==
  ASSUME NEW D, NEW a \in D, NEW m \in Nat, NEW n \in Nat, m <= n,
         NEW I, I = m+1 .. n, NEW step \in [I \X D -> D]
  PROVE  HasIterate(D, a, m, n, step)
<1> DEFINE Good(f, k) == f[m] = a /\ \A i \in m+1 .. m+k : f[i] = step[<<i, f[i-1]>>]
           T == {k \in Nat : m + k <= n => \E f \in [m .. m+k -> D] : Good(f, k)}
<1>1. 0 \in T
  <2> DEFINE f == [i \in m .. m+0 |-> a]
  <2>1. f \in [m .. m+0 -> D] /\ Good(f, 0)
    OBVIOUS
  <2> QED
    BY <2>1
<1>2. ASSUME NEW k \in Nat, k \in T PROVE k + 1 \in T
  <2> SUFFICES ASSUME m + (k + 1) <= n PROVE \E f \in [m .. m+(k+1) -> D] : Good(f, k + 1)
    OBVIOUS
  <2>1. PICK f \in [m .. m+k -> D] : Good(f, k)
    BY <1>2
  <2> DEFINE c == step[<<m + (k + 1), f[m + k]>>]
             g == [i \in m .. m+(k+1) |-> IF i = m + (k + 1) THEN c ELSE f[i]]
  <2>2. c \in D
    <3>1. m + k \in m .. m+k /\ m + (k + 1) \in m+1 .. n
      OBVIOUS
    <3> QED
      BY <3>1
  <2>3. \A i \in m .. m+(k+1) : i # m + (k + 1) => i \in m .. m+k
    OBVIOUS
  <2>4. g \in [m .. m+(k+1) -> D]
    BY <2>2, <2>3
  <2>5. g[m] = a
    BY <2>1
  <2>6. ASSUME NEW i \in m+1 .. m+(k+1) PROVE g[i] = step[<<i, g[i-1]>>]
    <3>1. i \in m .. m+(k+1) /\ i - 1 \in m .. m+(k+1) /\ i - 1 # m + (k + 1) /\ i - 1 \in m .. m+k
      OBVIOUS
    <3>2. g[i-1] = f[i-1]
      BY <3>1
    <3>3. CASE i = m + (k + 1)
      <4>1. i - 1 = m + k
        BY <3>3
      <4>2. g[i] = c
        BY <3>1, <3>3
      <4> QED
        BY <3>2, <3>3, <4>1, <4>2
    <3>4. CASE i # m + (k + 1)
      <4>1. i \in m+1 .. m+k /\ g[i] = f[i]
        BY <3>1, <3>4
      <4> HIDE DEF g
      <4> QED
        BY <2>1, <3>2, <4>1
    <3> QED
      BY <3>3, <3>4
  <2> HIDE DEF g
  <2> QED
    BY <2>4, <2>5, <2>6
<1> HIDE DEF T
<1>3. n - m \in T
  <2>1. Nat \subseteq T
    BY <1>1, <1>2, InductionOnNat
  <2>2. n - m \in Nat
    OBVIOUS
  <2> QED
    BY <2>1, <2>2
<1>4. m + (n - m) = n
  OBVIOUS
<1>5. PICK f \in [m .. n -> D] : Good(f, n - m)
  BY <1>3, <1>4 DEF T
<1>6. \A i \in m .. n : f[i] = IF i = m THEN a ELSE step[<<i, f[i-1]>>]
  <2> TAKE i \in m .. n
  <2>1. i # m => i \in m+1 .. m+(n-m)
    BY <1>4
  <2> QED
    BY <1>5, <2>1
<1>7. f = [i \in m .. n |-> f[i]]
  OBVIOUS
<1> QED
  BY <1>6, <1>7 DEF Iterated, HasIterate

LEMMA PowerType ==
  ASSUME NEW x \in Nat \ {0}, NEW n \in Nat
  PROVE  Power(x, n) \in Nat \ {0}
<1> DEFINE D == Nat \ {0}
           body(f) == [i \in 0 .. n |-> IF i = 0 THEN 1 ELSE x * f[i-1]]
           p == CHOOSE f : f = body(f)
           step == [q \in (1 .. n) \X D |-> x * q[2]]
<1>0. \A y \in D : x * y \in D
  <2> SUFFICES ASSUME NEW y \in Nat, y # 0 PROVE x * y \in Nat /\ x * y # 0
    OBVIOUS
  <2>1. x * 1 <= x * y /\ x * y \in Nat
    BY MulMono
  <2> QED
    BY <2>1
<1>1. Power(x, n) = p[n]
  BY DEF Power
<1>2. step \in [(1 .. n) \X D -> D] /\ 1 \in D
  BY <1>0
<1>3. \A i \in 1 .. n : \A y \in D : step[<<i, y>>] = x * y
  OBVIOUS
<1> HIDE DEF D, step
<1>4. PICK f \in [0 .. n -> D] : f = Iterated(f, 1, 0, n, step)
  <2> DEFINE I == 1 .. n
  <2>1. 0 \in Nat /\ 0 <= n /\ I = 0+1 .. n /\ step \in [I \X D -> D] /\ 1 \in D
    BY <1>2
  <2> HIDE DEF I, body, p
  <2>2. HasIterate(D, 1, 0, n, step)
    BY <2>1, Recursion, Zenon
  <2> QED
    BY <2>2 DEF HasIterate
<1>5. f = body(f)
  <2>1. \A i \in 0 .. n : i # 0 => i \in 1 .. n /\ i - 1 \in 0 .. n
    OBVIOUS
  <2>2. \A i \in 0 .. n : i # 0 => step[<<i, f[i-1]>>] = x * f[i-1]
    BY <1>3, <2>1
  <2> QED
    BY <1>4, <2>2 DEF Iterated
<1>6. p = body(p)
  <2> HIDE DEF body
  <2> QED
    BY <1>5
<1> HIDE DEF p
<1> DEFINE T == {i \in Nat : i <= n => p[i] \in D}
<1>7. 0 \in T
  BY <1>2, <1>6
<1>8. ASSUME NEW i \in Nat, i \in T PROVE i + 1 \in T
  <2> SUFFICES ASSUME i + 1 <= n PROVE p[i + 1] \in D
    OBVIOUS
  <2>1. i + 1 \in 0 .. n /\ (i + 1) - 1 = i /\ i <= n /\ i + 1 # 0
    OBVIOUS
  <2>2. p[i + 1] = x * p[i]
    BY <1>6, <2>1
  <2> QED
    BY <1>0, <1>8, <2>1, <2>2
<1> HIDE DEF T
<1>9. n \in T
  BY <1>7, <1>8, InductionOnNat
<1> QED
  BY <1>1, <1>9 DEF T, D

-----------------------------------------------------------------------------
(* Quotients are ordered. *)
LEMMA LessIsOrder ==
  ASSUME NEW x \in Quotient, NEW y \in Quotient, NEW z \in Quotient
  PROVE  /\ ~Less(x, x)
         /\ Less(x, y) => ~Less(y, x)
         /\ ~Less(x, y) /\ ~Less(y, z) => ~Less(x, z)
<1> DEFINE a == x[1]  b == x[2]  c == y[1]  d == y[2]  e == z[1]  f == z[2]
<1>1. a \in Int /\ c \in Int /\ e \in Int /\ b \in Nat \ {0} /\ d \in Nat \ {0} /\ f \in Nat \ {0}
  BY DEF Quotient
<1>2. /\ Less(x, x) <=> a * b < a * b
      /\ Less(x, y) <=> a * d < c * b
      /\ Less(y, x) <=> c * b < a * d
      /\ Less(y, z) <=> c * f < e * d
      /\ Less(x, z) <=> a * f < e * b
  BY DEF Less
<1> HIDE DEF a, b, c, d, e, f
<1>3. a * b \in Int /\ a * d \in Int /\ c * b \in Int
  BY <1>1
<1>4. ASSUME a * d >= c * b, c * f >= e * d PROVE a * f >= e * b
  <2>1. (a * d) * f >= (c * b) * f
    BY <1>1, <1>4
  <2>2. (c * f) * b >= (e * d) * b
    BY <1>1, <1>4
  <2>3. (c * b) * f = (c * f) * b
    BY <1>1
  <2>4. (a * d) * f >= (e * d) * b
    BY <1>1, <2>1, <2>2, <2>3
  <2>5. d * (a * f) >= d * (e * b)
    BY <1>1, <2>4
  <2> HIDE <2>1, <2>2, <2>3, <2>4
  <2> DEFINE u == a * f  v == e * b
  <2>6. u \in Int /\ v \in Int
    BY <1>1
  <2> HIDE DEF u, v
  <2>7. d * u >= d * v => u >= v
    BY <1>1, <2>6
  <2> QED
    BY <2>5, <2>7 DEF u, v
<1>5. a * f \in Int /\ e * b \in Int /\ c * f \in Int /\ e * d \in Int
  BY <1>1
<1> QED
  BY <1>2, <1>3, <1>4, <1>5

LEMMA WorstIs ==
  ASSUME NEW beams \in Seq(HypRecord), beams # <<>>
  PROVE  /\ Worst(beams) \in DOMAIN beams
         /\ \A j \in DOMAIN beams : ~Less(beams[j].score, beams[Worst(beams)].score)
<1> DEFINE D == DOMAIN beams
           q(i) == beams[i].score
           R == {p \in D \X D : Less(q(p[1]), q(p[2])) \/ (~Less(q(p[2]), q(p[1])) /\ p[1] < p[2])}
<1>1. D = 1 .. Len(beams) /\ Len(beams) \in Nat /\ Len(beams) # 0
  OBVIOUS
<1>2. \A i \in D : q(i) \in Quotient
  <2>1. \A i \in 1 .. Len(beams) : beams[i] \in HypRecord
    BY ElementOfSeq
  <2>2. \A h \in HypRecord : h.score \in Quotient
    BY DEF HypRecord
  <2> QED
    BY <1>1, <2>1, <2>2
<1>3. \A i, j \in D : <<i, j>> \in R <=> Less(q(i), q(j)) \/ (~Less(q(j), q(i)) /\ i < j)
  OBVIOUS
<1>4. \A i \in D : i \in Nat
  BY <1>1
<1>5. IsFiniteSet(D) /\ Cardinality(D) \in Nat /\ 0 < Cardinality(D)
  <2>1. IsFiniteSet(D) /\ Cardinality(D) = Len(beams)
    BY <1>1, FS_Interval
  <2> QED
    BY <1>1, <2>1
<1>6. Worst(beams) = CHOOSE i \in D : \A j \in D : Less(q(i), q(j)) \/ (~Less(q(j), q(i)) /\ i <= j)
  BY DEF Worst
<1> HIDE DEF R, D, q
<1>7. \A i \in D : ~Less(q(i), q(i))
  BY <1>2, LessIsOrder
<1>8. \A i, j \in D : Less(q(i), q(j)) => ~Less(q(j), q(i))
  BY <1>2, LessIsOrder
<1>9. \A i, j, k \in D : ~Less(q(i), q(j)) /\ ~Less(q(j), q(k)) => ~Less(q(i), q(k))
  BY <1>2, LessIsOrder
<1>10. Ordered(D, R)
  <2>1. \A x \in D : <<x, x>> \notin R
    BY <1>3, <1>4, <1>7
  <2>2. \A x, y \in D : x = y \/ <<x, y>> \in R \/ <<y, x>> \in R
    <3> SUFFICES ASSUME NEW x \in D, NEW y \in D, x # y PROVE <<x, y>> \in R \/ <<y, x>> \in R
      OBVIOUS
    <3>1. x < y \/ y < x
      BY <1>4
    <3>2. Less(q(x), q(y)) \/ Less(q(y), q(x)) \/ (~Less(q(x), q(y)) /\ ~Less(q(y), q(x)))
      OBVIOUS
    <3> QED
      BY <3>1, <3>2, <1>3
  <2>3. ASSUME NEW x \in D, NEW y \in D, NEW z \in D, <<x, y>> \in R, <<y, z>> \in R PROVE <<x, z>> \in R
    <3>1. ~Less(q(y), q(x)) /\ ~Less(q(z), q(y))
      BY <2>3, <1>3, <1>8
    <3>2. ~Less(q(z), q(x))
      BY <3>1, <1>9
    <3>3. CASE x < z
      BY <3>2, <3>3, <1>3
    <3>4. CASE ~(x < z)
      <4>1. Less(q(x), q(y)) \/ Less(q(y), q(z))
        BY <3>4, <2>3, <1>3, <1>4
      <4>2. Less(q(x), q(z))
        BY <4>1, <3>1, <1>9
      <4> QED
        BY <4>2, <1>3
    <3> QED
      BY <3>3, <3>4
  <2> QED
    BY <2>1, <2>2, <2>3 DEF Ordered
<1>11. PICK w \in D : Rank(D, R, w) = 0
  BY <1>5, <1>10, RankExists
<1>12. Pred(D, R, w) = {}
  BY <1>5, <1>11, RankType, FS_EmptySet DEF Rank
<1>13. \A j \in D : <<j, w>> \notin R
  BY <1>12 DEF Pred
<1>14. \A j \in D : Less(q(w), q(j)) \/ (~Less(q(j), q(w)) /\ w <= j)
  <2> TAKE j \in D
  <2>1. CASE j = w
    BY <2>1, <1>4, <1>7
  <2>2. CASE j # w
    <3>1. <<w, j>> \in R
      BY <2>2, <1>10, <1>13 DEF Ordered
    <3> QED
      BY <3>1, <1>3, <1>4
  <2> QED
    BY <2>1, <2>2
<1>15. /\ Worst(beams) \in D
       /\ \A j \in D : Less(q(Worst(beams)), q(j)) \/ (~Less(q(j), q(Worst(beams))) /\ Worst(beams) <= j)
  BY <1>6, <1>14
<1>16. \A j \in D : ~Less(q(j), q(Worst(beams)))
  BY <1>8, <1>15
<1> QED
  BY <1>15, <1>16 DEF D, q

LEMMA RemoveAtIs ==
  ASSUME NEW T, NEW s \in Seq(T), NEW i \in 1 .. Len(s)
  PROVE  /\ RemoveAt(s, i) \in Seq(T) /\ Len(RemoveAt(s, i)) = Len(s) - 1
         /\ ToSet(RemoveAt(s, i)) \subseteq ToSet(s)
         /\ \A j \in 1 .. Len(s) : j # i => s[j] \in ToSet(RemoveAt(s, i))
<1> DEFINE u == SubSeq(s, 1, i-1)
           v == SubSeq(s, i+1, Len(s))
           r == u \o v
<1>1. Len(s) \in Nat /\ i \in Nat /\ RemoveAt(s, i) = r
  BY DEF RemoveAt
<1>2. u \in Seq(T) /\ Len(u) = i - 1 /\ \A j \in 1 .. i-1 : u[j] = s[j]
  <2>1. \A j \in 1 .. i-1 : s[j] \in T
    BY <1>1
  <2> QED
    BY <1>1, <2>1, SubSeqProperties
<1>3. v \in Seq(T) /\ Len(v) = Len(s) - i /\ \A j \in 1 .. Len(s)-i : v[j] = s[i + j]
  <2>1. \A j \in i+1 .. Len(s) : s[j] \in T
    BY <1>1
  <2> QED
    BY <1>1, <2>1, SubSeqProperties
<1> HIDE DEF u, v
<1>4. r \in Seq(T) /\ Len(r) = Len(s) - 1
  <2>1. r \in Seq(T) /\ Len(r) = Len(u) + Len(v)
    BY <1>2, <1>3, ConcatProperties
  <2> HIDE DEF r
  <2> QED
    BY <1>1, <1>2, <1>3, <2>1
<1>5. \A j \in 1 .. Len(s)-1 : r[j] = IF j < i THEN s[j] ELSE s[j + 1]
  <2> TAKE j \in 1 .. Len(s)-1
  <2>1. r[j] = IF j <= Len(u) THEN u[j] ELSE v[j - Len(u)]
    <3>1. j \in 1 .. Len(u) + Len(v)
      BY <1>1, <1>2, <1>3
    <3> QED
      BY <3>1, <1>2, <1>3, ConcatProperties
  <2>2. CASE j < i
    BY <2>1, <2>2, <1>1, <1>2
  <2>3. CASE ~(j < i)
    <3>1. j - (i - 1) \in 1 .. Len(s)-i /\ i + (j - (i - 1)) = j + 1 /\ ~(j <= i - 1)
      BY <2>3, <1>1
    <3> HIDE DEF r
    <3> QED
      BY <2>1, <2>3, <3>1, <1>2, <1>3
  <2> QED
    BY <2>2, <2>3
<1> HIDE DEF r
<1>6. DOMAIN r = 1 .. Len(s)-1 /\ DOMAIN s = 1 .. Len(s)
  BY <1>4
<1>7. \A j \in 1 .. Len(s)-1 : r[j] \in ToSet(s)
  <2> TAKE j \in 1 .. Len(s)-1
  <2>1. j \in 1 .. Len(s) /\ j + 1 \in 1 .. Len(s)
    BY <1>1
  <2> QED
    BY <2>1, <1>5, <1>6 DEF ToSet
<1>8. ASSUME NEW j \in 1 .. Len(s), j # i PROVE s[j] \in ToSet(r)
  <2>1. CASE j < i
    <3>1. j \in 1 .. Len(s)-1
      BY <2>1, <1>1
    <3> QED
      BY <2>1, <3>1, <1>5, <1>6 DEF ToSet
  <2>2. CASE j > i
    <3>1. j - 1 \in 1 .. Len(s)-1 /\ ~(j - 1 < i) /\ (j - 1) + 1 = j
      BY <2>2, <1>1
    <3>2. r[j - 1] = s[j]
      BY <3>1, <1>5
    <3> QED
      BY <3>1, <3>2, <1>6 DEF ToSet
  <2> QED
    BY <1>1, <1>8, <2>1, <2>2
<1> QED
  BY <1>1, <1>4, <1>6, <1>7, <1>8 DEF ToSet

-----------------------------------------------------------------------------
(* BeamHypotheses::add. *)
LEMMA HypsAre ==
  /\ \A h \in Hyps : h.beams \in Seq(HypRecord) /\ h.worst \in Quotient /\ Len(h.beams) \in Nat
                     /\ h.beams \in [1 .. Len(h.beams) -> HypRecord] /\ DOMAIN h.beams = 1 .. Len(h.beams)
                     /\ \A i \in 1 .. Len(h.beams) : h.beams[i].score \in Quotient /\ h.beams[i].hyp \in Seq(Token)
  /\ \A b \in Seq(HypRecord), w \in Quotient : [beams |-> b, worst |-> w] \in Hyps
<1>1. Hyps = [beams : Seq(HypRecord), worst : Quotient]
  BY DEF Hyps
<1>2. ASSUME NEW h \in Hyps
      PROVE  /\ h.beams \in Seq(HypRecord) /\ h.worst \in Quotient /\ Len(h.beams) \in Nat
             /\ h.beams \in [1 .. Len(h.beams) -> HypRecord] /\ DOMAIN h.beams = 1 .. Len(h.beams)
             /\ \A i \in 1 .. Len(h.beams) : h.beams[i].score \in Quotient /\ h.beams[i].hyp \in Seq(Token)
  <2>1. h.beams \in Seq(HypRecord) /\ h.worst \in Quotient
    BY <1>1
  <2>2. Len(h.beams) \in Nat /\ h.beams \in [1 .. Len(h.beams) -> HypRecord] /\ DOMAIN h.beams = 1 .. Len(h.beams)
    BY <2>1
  <2>3. \A r \in HypRecord : r.score \in Quotient /\ r.hyp \in Seq(Token)
    BY DEF HypRecord
  <2> QED
    BY <2>1, <2>2, <2>3
<1> QED
  BY <1>1, <1>2

LEMMA HypOfType ==
  ASSUME config \in Configs, NEW f \in Hypothesis
  PROVE  Score(f[1], Len(f[2])) \in Quotient /\ HypOf(f) \in HypRecord
         /\ HypOf(f).score = Score(f[1], Len(f[2])) /\ HypOf(f).hyp = f[2]
<1>1. f[1] \in Int /\ f[2] \in Seq(Token) /\ Len(f[2]) \in Nat \ {0}
  BY DEF Hypothesis
<1>2. config.lenPenalty \in Nat
  BY ConfigAssumption
<1>3. Power(Len(f[2]), config.lenPenalty) \in Nat \ {0}
  BY <1>1, <1>2, PowerType
<1>4. Score(f[1], Len(f[2])) \in Quotient
  BY <1>1, <1>3 DEF Score, Quotient
<1> QED
  BY <1>1, <1>4 DEF HypOf, HypRecord

LEMMA AddIs ==
  ASSUME config \in Configs, NEW h \in Hyps, NEW f \in Hypothesis
  PROVE  LET more == Append(h.beams, HypOf(f))
             kept == RemoveAt(more, Worst(more))
             score == Score(f[1], Len(f[2]))
             w == IF Less(score, h.worst) THEN score ELSE h.worst
         IN  /\ Len(h.beams) < NumBeams => Add(h, f[2], f[1]) = [beams |-> more, worst |-> w]
             /\ Len(h.beams) >= NumBeams /\ Less(h.worst, score) =>
                  Add(h, f[2], f[1]) = [beams |-> kept, worst |-> kept[Worst(kept)].score]
             /\ Len(h.beams) >= NumBeams /\ ~Less(h.worst, score) => Add(h, f[2], f[1]) = h
<1>1. Len(h.beams) \in Nat /\ NumBeams \in Nat
  BY HypsAre, Sizes
<1> QED
  BY <1>1 DEF Add, HypOf

(* The parts of KeepsBest. *)
LEMMA KeepsBestIs ==
  ASSUME NEW h, NEW S, KeepsBest(h, S)
  PROVE  /\ h \in Hyps /\ S \subseteq Hypothesis
         /\ Len(h.beams) <= NumBeams
         /\ \A r \in ToSet(h.beams) : ~Less(r.score, h.worst)
         /\ \A f \in S : \/ HypOf(f) \in ToSet(h.beams)
                         \/ Len(h.beams) = NumBeams /\ ~Less(h.worst, Score(f[1], Len(f[2])))
BY DEF KeepsBest

LEMMA AppendToSet ==
  ASSUME NEW T, NEW s \in Seq(T), NEW x \in T
  PROVE  /\ Append(s, x) \in Seq(T) /\ Len(Append(s, x)) = Len(s) + 1 /\ Append(s, x) # <<>>
         /\ ToSet(Append(s, x)) = ToSet(s) \cup {x}
<1>1. Append(s, x) \in Seq(T) /\ Len(Append(s, x)) = Len(s) + 1 /\ Len(s) \in Nat
  BY AppendProperties
<1>2. /\ \A i \in 1 .. Len(s) : Append(s, x)[i] = s[i]
      /\ Append(s, x)[Len(s) + 1] = x
  BY AppendProperties
<1>3. DOMAIN s = 1 .. Len(s) /\ DOMAIN Append(s, x) = 1 .. Len(s) + 1
  BY <1>1
<1>4. Append(s, x) # <<>>
  BY <1>1
<1> DEFINE a == Append(s, x)
<1> HIDE DEF a
<1>5. ToSet(a) = ToSet(s) \cup {x}
  <2>1. \A i \in 1 .. Len(s) + 1 : i \in 1 .. Len(s) \/ i = Len(s) + 1
    BY <1>1
  <2>2. \A i \in 1 .. Len(s) : i \in 1 .. Len(s) + 1
    BY <1>1
  <2>3. Len(s) + 1 \in 1 .. Len(s) + 1
    BY <1>1
  <2>4. ToSet(a) \subseteq ToSet(s) \cup {x}
    BY <2>1, <1>2, <1>3 DEF ToSet, a
  <2>5. ToSet(s) \cup {x} \subseteq ToSet(a)
    BY <2>2, <2>3, <1>2, <1>3 DEF ToSet, a
  <2> QED
    BY <2>4, <2>5
<1> QED
  BY <1>1, <1>4, <1>5 DEF a

(* What adding hypothesis f does to a list that keeps the best of S. *)
AddsTo(H, h, S, f) ==
  /\ KeepsBest(H, S \cup {f})
  /\ Len(H.beams) >= Len(h.beams)
  /\ Len(H.beams) = NumBeams \/ Len(H.beams) >= Len(h.beams) + 1
  /\ ToSet(H.beams) \subseteq ToSet(h.beams) \cup {HypOf(f)}

LEMMA AddKeeps ==
  ASSUME config \in Configs, NEW h, NEW S, KeepsBest(h, S), NEW f \in Hypothesis
  PROVE  AddsTo(Add(h, f[2], f[1]), h, S, f)
<1> DEFINE H == Add(h, f[2], f[1])
           score == Score(f[1], Len(f[2]))
           more == Append(h.beams, HypOf(f))
           m == Worst(more)
           kept == RemoveAt(more, m)
           w == IF Less(score, h.worst) THEN score ELSE h.worst
           v == kept[Worst(kept)].score
<1>1. /\ h \in Hyps /\ S \subseteq Hypothesis
      /\ Len(h.beams) <= NumBeams
      /\ \A r \in ToSet(h.beams) : ~Less(r.score, h.worst)
      /\ \A g \in S : \/ HypOf(g) \in ToSet(h.beams)
                      \/ Len(h.beams) = NumBeams /\ ~Less(h.worst, Score(g[1], Len(g[2])))
  BY KeepsBestIs
<1>2. /\ h.beams \in Seq(HypRecord) /\ h.worst \in Quotient /\ Len(h.beams) \in Nat
      /\ NumBeams \in Nat /\ NumBeams > 1
  BY <1>1, HypsAre, Sizes
<1>3. \A r \in ToSet(h.beams) : r.score \in Quotient
  BY <1>1, HypsAre DEF ToSet
<1>4. /\ score \in Quotient /\ HypOf(f) \in HypRecord /\ HypOf(f).score = score
      /\ \A g \in S : HypOf(g).score = Score(g[1], Len(g[2])) /\ HypOf(g).score \in Quotient
  BY <1>1, HypOfType
<1>5. /\ Len(h.beams) < NumBeams => H = [beams |-> more, worst |-> w]
      /\ Len(h.beams) >= NumBeams /\ Less(h.worst, score) => H = [beams |-> kept, worst |-> v]
      /\ Len(h.beams) >= NumBeams /\ ~Less(h.worst, score) => H = h
  BY <1>1, AddIs
<1>6. /\ more \in Seq(HypRecord) /\ Len(more) = Len(h.beams) + 1 /\ more # <<>>
      /\ ToSet(more) = ToSet(h.beams) \cup {HypOf(f)}
  BY <1>2, <1>4, AppendToSet
<1>7. S \cup {f} \subseteq Hypothesis
  BY <1>1
<1> HIDE DEF score, more, m, kept, v, w, H
<1>8. CASE Len(h.beams) < NumBeams
  <2>1. H = [beams |-> more, worst |-> w]
    BY <1>5, <1>8
  <2>2. w \in Quotient /\ ~Less(h.worst, w) /\ ~Less(score, w)
    BY <1>2, <1>4, LessIsOrder DEF w
  <2>3. H \in Hyps
    BY <1>6, <2>1, <2>2, HypsAre
  <2>4. ASSUME NEW r \in ToSet(more) PROVE ~Less(r.score, w)
    <3>1. CASE r = HypOf(f)
      BY <3>1, <1>4, <2>2
    <3>2. CASE r \in ToSet(h.beams)
      BY <3>2, <1>1, <1>2, <1>3, <2>2, LessIsOrder
    <3> QED
      BY <3>1, <3>2, <1>6
  <2>5. \A g \in S \cup {f} : HypOf(g) \in ToSet(more)
    BY <1>1, <1>2, <1>6, <1>8
  <2>6. H.beams = more /\ H.worst = w
    BY <2>1
  <2>7. Len(H.beams) <= NumBeams /\ Len(H.beams) >= Len(h.beams) + 1 /\ Len(H.beams) >= Len(h.beams)
    BY <1>2, <1>6, <1>8, <2>6
  <2>8. KeepsBest(H, S \cup {f})
    BY <1>7, <2>3, <2>4, <2>5, <2>6, <2>7 DEF KeepsBest
  <2> QED
    BY <1>6, <2>6, <2>7, <2>8 DEF AddsTo, H
<1>9. CASE Len(h.beams) >= NumBeams /\ Less(h.worst, score)
  <2>1. H = [beams |-> kept, worst |-> v] /\ Len(h.beams) = NumBeams
    BY <1>1, <1>2, <1>5, <1>9
  <2>2. /\ m \in 1 .. Len(more) /\ DOMAIN more = 1 .. Len(more)
        /\ \A j \in 1 .. Len(more) : ~Less(more[j].score, more[m].score)
    BY <1>6, WorstIs DEF m
  <2>3. /\ kept \in Seq(HypRecord) /\ Len(kept) = Len(more) - 1
        /\ ToSet(kept) \subseteq ToSet(more)
        /\ \A j \in 1 .. Len(more) : j # m => more[j] \in ToSet(kept)
    BY <1>6, <2>2, RemoveAtIs DEF kept
  <2>4. Len(kept) = NumBeams /\ kept # <<>>
    BY <1>2, <1>6, <2>1, <2>3
  <2>5. Worst(kept) \in DOMAIN kept /\ \A j \in DOMAIN kept : ~Less(kept[j].score, v)
    BY <2>3, <2>4, WorstIs DEF v
  <2>6. kept[Worst(kept)] \in ToSet(kept)
    BY <2>5 DEF ToSet
  <2>7. \A r \in ToSet(kept) : ~Less(r.score, v)
    BY <2>5 DEF ToSet
  <2>8. \A r \in ToSet(more) : r.score \in Quotient /\ ~Less(r.score, h.worst) /\ ~Less(r.score, more[m].score)
    <3>1. \A r \in ToSet(more) : ~Less(r.score, more[m].score)
      BY <2>2 DEF ToSet
    <3>2. ~Less(score, h.worst)
      BY <1>2, <1>4, <1>9, LessIsOrder
    <3> QED
      BY <3>1, <3>2, <1>1, <1>3, <1>4, <1>6
  <2>9. v \in Quotient /\ ~Less(v, h.worst) /\ ~Less(v, more[m].score)
    BY <2>3, <2>6, <2>8 DEF v
  <2>10. H.beams = kept /\ H.worst = v
    BY <2>1
  <2>11. H \in Hyps
    BY <2>1, <2>3, <2>9, HypsAre
  <2>12. ASSUME NEW g \in S \cup {f} PROVE HypOf(g) \in ToSet(kept) \/ ~Less(v, Score(g[1], Len(g[2])))
    <3>1. HypOf(g).score = Score(g[1], Len(g[2])) /\ HypOf(g).score \in Quotient
      BY <1>4 DEF score
    <3>2. CASE HypOf(g) \in ToSet(more)
      <4>1. PICK j \in 1 .. Len(more) : HypOf(g) = more[j]
        BY <3>2, <2>2 DEF ToSet
      <4>2. CASE j = m
        <5>1. ~Less(v, HypOf(g).score)
          BY <4>1, <4>2, <2>9
        <5> QED
          BY <3>1, <5>1
      <4>3. CASE j # m
        BY <4>1, <4>3, <2>3
      <4> QED
        BY <4>2, <4>3
    <3>3. CASE HypOf(g) \notin ToSet(more)
      <4>1. g \in S /\ ~Less(h.worst, HypOf(g).score)
        BY <3>1, <3>3, <1>1, <1>6
      <4>2. ~Less(v, HypOf(g).score)
        BY <4>1, <3>1, <1>2, <2>9, LessIsOrder
      <4> QED
        BY <3>1, <4>2
    <3> QED
      BY <3>2, <3>3
  <2>13. Len(H.beams) = NumBeams /\ Len(H.beams) >= Len(h.beams)
    BY <2>1, <2>4, <2>10, <1>2
  <2>14. KeepsBest(H, S \cup {f})
    BY <1>2, <1>7, <2>7, <2>10, <2>11, <2>12, <2>13 DEF KeepsBest
  <2> QED
    BY <1>6, <2>3, <2>10, <2>13, <2>14 DEF AddsTo, H
<1>10. CASE Len(h.beams) >= NumBeams /\ ~Less(h.worst, score)
  <2>1. H = h /\ Len(h.beams) = NumBeams
    BY <1>1, <1>2, <1>5, <1>10
  <2>2. KeepsBest(H, S \cup {f})
    BY <1>1, <1>7, <1>10, <2>1 DEF KeepsBest, score
  <2> QED
    BY <1>2, <2>1, <2>2 DEF AddsTo, H
<1> QED
  BY <1>2, <1>8, <1>9, <1>10 DEF H

(* The hypotheses of list up to n that are to be added. *)
Added(list, which, n) == {list[i] : i \in which \cap (1 .. n)}

AddedGrows(list, which, n) ==
  /\ n + 1 \in which => Added(list, which, n + 1) = Added(list, which, n) \cup {list[n + 1]}
  /\ n + 1 \notin which => Added(list, which, n + 1) = Added(list, which, n)
LEMMA AddedNext ==
  ASSUME NEW list, NEW which, NEW n \in Nat
  PROVE  Added(list, which, 0) = {} /\ AddedGrows(list, which, n)
<1>1. 1 .. 0 = {} /\ 1 .. n+1 = (1 .. n) \cup {n + 1}
  OBVIOUS
<1> QED
  BY <1>1 DEF Added, AddedGrows

HypSet(F) == {HypOf(f) : f \in F}

AddsAllTo(H, h, S, F) ==
  /\ KeepsBest(H, S \cup F)
  /\ Len(H.beams) >= Len(h.beams)
  /\ ToSet(H.beams) \subseteq ToSet(h.beams) \cup HypSet(F)

LEMMA AddAllKeeps ==
  ASSUME config \in Configs, NEW h, NEW S, KeepsBest(h, S),
         NEW n \in Nat, NEW list \in [1 .. n -> Hypothesis], NEW which
  PROVE  /\ AddsAllTo(AddAll(h, list, which), h, S, Added(list, which, n))
         /\ 1 .. n \subseteq which => \/ Len(AddAll(h, list, which).beams) = NumBeams
                                      \/ Len(AddAll(h, list, which).beams) >= n
<1> DEFINE D == {x \in Hyps : KeepsBest(x, {})}
           body(f) == [i \in 0 .. Len(list) |->
                         IF i = 0 THEN h ELSE
                         IF i \in which THEN Add(f[i-1], list[i][2], list[i][1]) ELSE f[i-1]]
           add == CHOOSE f : f = body(f)
           step == [q \in (1 .. n) \X D |->
                      IF q[1] \in which THEN Add(q[2], list[q[1]][2], list[q[1]][1]) ELSE q[2]]
<1>1. Len(list) = n
  <2>1. list \in Seq(Hypothesis) /\ DOMAIN list = 1 .. n
    BY SeqDef
  <2>2. DOMAIN list = 1 .. Len(list) /\ Len(list) \in Nat
    BY <2>1
  <2> QED
    BY <2>1, <2>2
<1>2. AddAll(h, list, which) = add[n]
  <2>1. AddAll(h, list, which) = add[Len(list)]
    BY DEF AddAll
  <2> HIDE DEF add
  <2> QED
    BY <1>1, <2>1
<1>3. h \in D
  BY KeepsBestIs DEF KeepsBest
<1>4. \A x \in D : \A f \in Hypothesis : Add(x, f[2], f[1]) \in D
  <2> TAKE x \in D
  <2> TAKE f \in Hypothesis
  <2>1. KeepsBest(Add(x, f[2], f[1]), {} \cup {f})
    BY AddKeeps DEF AddsTo
  <2> QED
    BY <2>1, KeepsBestIs DEF KeepsBest
<1>5. \A i \in 1 .. n : list[i] \in Hypothesis
  OBVIOUS
<1> HIDE DEF D
<1>6. step \in [(1 .. n) \X D -> D]
  BY <1>4, <1>5
<1>7. \A i \in 1 .. n : \A x \in D : step[<<i, x>>] = IF i \in which THEN Add(x, list[i][2], list[i][1]) ELSE x
  OBVIOUS
<1> HIDE DEF step
<1>8. PICK f \in [0 .. n -> D] : f = Iterated(f, h, 0, n, step)
  <2> DEFINE I == 1 .. n
  <2>1. 0 \in Nat /\ 0 <= n /\ I = 0+1 .. n /\ step \in [I \X D -> D]
    BY <1>6
  <2> HIDE DEF I, body, add
  <2>2. HasIterate(D, h, 0, n, step)
    BY <1>3, <2>1, Recursion, Zenon
  <2> QED
    BY <2>2 DEF HasIterate
<1>9. f = body(f)
  <2>1. \A i \in 0 .. n : i # 0 => i \in 1 .. n /\ i - 1 \in 0 .. n
    OBVIOUS
  <2>2. \A i \in 0 .. n : i # 0 =>
          step[<<i, f[i-1]>>] = IF i \in which THEN Add(f[i-1], list[i][2], list[i][1]) ELSE f[i-1]
    BY <1>7, <2>1
  <2>3. \A i \in 0 .. n : f[i] = body(f)[i]
    BY <1>1, <1>8, <2>2 DEF Iterated
  <2>4. f = [i \in 0 .. Len(list) |-> f[i]]
    BY <1>1
  <2> QED
    BY <1>1, <2>3, <2>4
<1>10. add = body(add)
  <2> HIDE DEF body
  <2> QED
    BY <1>9
<1> HIDE DEF add
<1> DEFINE Q(i) == /\ AddsAllTo(add[i], h, S, Added(list, which, i))
                   /\ 1 .. i \subseteq which => Len(add[i].beams) = NumBeams \/ Len(add[i].beams) >= i
           T == {i \in Nat : i <= n => Q(i)}
<1>11. \A x : KeepsBest(x, S) => Len(x.beams) \in Nat
  BY KeepsBestIs, HypsAre
<1>12. 0 \in T
  <2>1. add[0] = h
    BY <1>1, <1>10
  <2>2. Len(h.beams) \in Nat
    BY <1>11
  <2>3. Added(list, which, 0) = {}
    BY AddedNext
  <2>4. AddsAllTo(add[0], h, S, Added(list, which, 0))
    <3>1. S \cup {} = S
      OBVIOUS
    <3> QED
      BY <2>1, <2>2, <2>3, <3>1 DEF AddsAllTo
  <2> QED
    BY <2>1, <2>2, <2>4
<1>13. ASSUME NEW i \in Nat, i \in T PROVE i + 1 \in T
  <2> SUFFICES ASSUME i + 1 <= n PROVE Q(i + 1)
    OBVIOUS
  <2>0. /\ i + 1 \in which => Added(list, which, i + 1) = Added(list, which, i) \cup {list[i + 1]}
        /\ i + 1 \notin which => Added(list, which, i + 1) = Added(list, which, i)
    <3>1. AddedGrows(list, which, i)
      BY AddedNext
    <3> QED
      BY <3>1 DEF AddedGrows
  <2>1. Q(i) /\ i + 1 \in 1 .. n /\ i + 1 \in 0 .. n /\ i + 1 # 0 /\ (i + 1) - 1 = i
    BY <1>13
  <2>2. i + 1 \in which => add[i + 1] = Add(add[i], list[i + 1][2], list[i + 1][1])
    BY <1>1, <1>10, <2>1
  <2>3. i + 1 \notin which => add[i + 1] = add[i]
    BY <1>1, <1>10, <2>1
  <2> DEFINE F == Added(list, which, i)
             G == Added(list, which, i + 1)
  <2>4. KeepsBest(add[i], S \cup F) /\ Len(add[i].beams) >= Len(h.beams)
        /\ ToSet(add[i].beams) \subseteq ToSet(h.beams) \cup HypSet(F)
    BY <2>1 DEF AddsAllTo
  <2>5. 1 .. i \subseteq 1 .. i+1 /\ i + 1 \in 1 .. i+1
    OBVIOUS
  <2> HIDE DEF F, G
  <2>6. CASE i + 1 \in which
    <3>1. G = F \cup {list[i + 1]}
      BY <2>0, <2>6 DEF F, G
    <3>2. AddsTo(add[i + 1], add[i], S \cup F, list[i + 1])
      BY <2>1, <2>2, <2>4, <2>6, AddKeeps, <1>5
    <3>3. (S \cup F) \cup {list[i + 1]} = S \cup G /\ HypSet(G) = HypSet(F) \cup {HypOf(list[i + 1])}
      BY <3>1 DEF HypSet
    <3>4. /\ KeepsBest(add[i + 1], S \cup G) /\ Len(add[i + 1].beams) >= Len(add[i].beams)
          /\ Len(add[i + 1].beams) = NumBeams \/ Len(add[i + 1].beams) >= Len(add[i].beams) + 1
          /\ ToSet(add[i + 1].beams) \subseteq ToSet(add[i].beams) \cup {HypOf(list[i + 1])}
      BY <3>2, <3>3 DEF AddsTo
    <3>5. Len(add[i + 1].beams) \in Nat /\ Len(add[i].beams) \in Nat /\ Len(h.beams) \in Nat
          /\ Len(add[i + 1].beams) <= NumBeams /\ NumBeams \in Nat
      BY <2>4, <3>4, KeepsBestIs, HypsAre, Sizes
    <3>6. AddsAllTo(add[i + 1], h, S, G)
      BY <2>4, <3>3, <3>4, <3>5 DEF AddsAllTo
    <3>7. 1 .. i+1 \subseteq which => Len(add[i + 1].beams) = NumBeams \/ Len(add[i + 1].beams) >= i + 1
      BY <2>1, <2>5, <3>4, <3>5
    <3> QED
      BY <3>6, <3>7 DEF G
  <2>7. CASE i + 1 \notin which
    <3>1. G = F
      BY <2>0, <2>7 DEF F, G
    <3>2. ~(1 .. i+1 \subseteq which)
      BY <2>5, <2>7
    <3> QED
      BY <2>1, <2>3, <2>7, <3>1, <3>2 DEF F, G
  <2> QED
    BY <2>6, <2>7
<1> HIDE DEF T, Q
<1>14. n \in T
  BY <1>12, <1>13, InductionOnNat
<1>15. Q(n)
  BY <1>14 DEF T
<1> QED
  BY <1>2, <1>15 DEF Q

-----------------------------------------------------------------------------
(* The log probability of a row grows by that of the token appended.       *)
SumOf(ids, f) ==
  [i \in PromptLen .. Len(ids) |-> IF i = PromptLen THEN 0 ELSE f[i-1] + lm[ids[i-1]][ids[i]]]
Sums(ids, f) ==
  f \in [PromptLen .. Len(ids) -> Int] /\ f = SumOf(ids, f) /\ LogProb(ids) = f[Len(ids)]
HasSums(ids) == \E f : Sums(ids, f)

LEMMA PromptsAre ==
  /\ PromptLen \in Nat \ {0} /\ BatchSize \in Nat \ {0}
  /\ \A s \in Sample : s + 1 \in DOMAIN Prompts /\ Prompts[s + 1] \in Seq(Token) /\ Len(Prompts[s + 1]) = PromptLen
<1>1. Prompts \in Seq(Seq(Token)) /\ Prompts # <<>>
  BY PromptAssumption
<1>2. DOMAIN Prompts = 1 .. Len(Prompts) /\ Len(Prompts) \in Nat \ {0}
  BY <1>1
<1>3. \A i \in 1 .. Len(Prompts) : Prompts[i] \in Seq(Token) /\ Len(Prompts[i]) = PromptLen
  BY <1>1, <1>2, PromptAssumption
<1>4. Prompts[1] \in Seq(Token) /\ PromptLen > 0
  BY <1>2, <1>3, PromptAssumption
<1>5. PromptLen \in Nat \ {0}
  BY <1>4 DEF PromptLen
<1>6. \A s \in Sample : s + 1 \in 1 .. Len(Prompts)
  BY <1>2 DEF Sample, BatchSize
<1> QED
  BY <1>2, <1>3, <1>5, <1>6 DEF BatchSize

LEMMA SumsExist ==
  ASSUME lm \in [Token -> Tables], NEW ids \in Seq(Token), Len(ids) >= PromptLen
  PROVE  HasSums(ids)
<1> DEFINE m == PromptLen
           n == Len(ids)
           p(i) == lm[ids[i-1]][ids[i]]
           I == m+1 .. n
           step == [q \in I \X Int |-> q[2] + p(q[1])]
           sum == CHOOSE f : f = SumOf(ids, f)
<1>1. m \in Nat \ {0} /\ n \in Nat /\ m <= n
  BY PromptsAre
<1>2. ASSUME NEW i \in I PROVE p(i) \in Int /\ i - 1 \in m .. n /\ i \in m .. n /\ i # m
  <2>1. i - 1 \in 1 .. n /\ i \in 1 .. n /\ i - 1 \in m .. n /\ i \in m .. n /\ i # m
    BY <1>1
  <2>2. ids[i-1] \in Token /\ ids[i] \in Token
    BY <2>1
  <2>3. lm[ids[i-1]] \in [Token -> Int]
    BY <2>2, Sizes
  <2> QED
    BY <2>1, <2>2, <2>3
<1>3. LogProb(ids) = sum[n]
  BY DEF LogProb, LogProbIn, SumOf
<1> HIDE DEF p
<1>4. step \in [I \X Int -> Int]
  BY <1>2
<1>5. \A i \in I : \A x \in Int : step[<<i, x>>] = x + p(i)
  OBVIOUS
<1>6. I = m+1 .. n /\ 0 \in Int
  OBVIOUS
<1> HIDE DEF step, I, n, m, sum
<1>7. HasIterate(Int, 0, m, n, step)
  <2>1. m \in Nat
    BY <1>1
  <2> QED
    BY <1>1, <1>4, <1>6, <2>1, Recursion, Zenon
<1>8. PICK f \in [m .. n -> Int] : f = Iterated(f, 0, m, n, step)
  BY <1>7 DEF HasIterate
<1>9. f = SumOf(ids, f)
  <2>1. \A i \in m .. n : i # m => i \in I /\ i - 1 \in m .. n
    BY <1>1, <1>6
  <2>2. \A i \in m .. n : i # m => step[<<i, f[i-1]>>] = f[i-1] + p(i)
    BY <1>5, <2>1
  <2>3. f = [i \in m .. n |-> IF i = m THEN 0 ELSE f[i-1] + p(i)]
    BY <1>8, <2>2 DEF Iterated
  <2> QED
    BY <2>3 DEF SumOf, p, m, n
<1>10. sum = SumOf(ids, sum)
  BY <1>9 DEF sum
<1> DEFINE T == {k \in Nat : m + k <= n => sum[m + k] \in Int}
<1>11. sum = [i \in m .. n |-> IF i = m THEN 0 ELSE sum[i-1] + p(i)]
  BY <1>10 DEF SumOf, p, m, n
<1>12. 0 \in T
  BY <1>1, <1>11
<1>13. ASSUME NEW k \in Nat, k \in T PROVE k + 1 \in T
  <2> SUFFICES ASSUME m + (k + 1) <= n PROVE sum[m + (k + 1)] \in Int
    OBVIOUS
  <2>1. m + (k + 1) \in I /\ m + (k + 1) \in m .. n /\ m + (k + 1) # m /\ (m + (k + 1)) - 1 = m + k /\ m + k <= n
    BY <1>1, <1>6
  <2>2. sum[m + (k + 1)] = sum[m + k] + p(m + (k + 1))
    BY <1>11, <2>1
  <2>3. p(m + (k + 1)) \in Int
    BY <1>2, <2>1
  <2> QED
    BY <1>13, <2>1, <2>2, <2>3
<1> HIDE DEF T
<1>14. Nat \subseteq T
  BY <1>12, <1>13, InductionOnNat
<1>15. \A i \in m .. n : sum[i] \in Int
  <2> TAKE i \in m .. n
  <2>1. i - m \in Nat /\ m + (i - m) = i /\ i <= n
    BY <1>1
  <2> QED
    BY <1>14, <2>1 DEF T
<1>16. sum \in [m .. n -> Int]
  BY <1>11, <1>15
<1>17. Sums(ids, sum)
  BY <1>3, <1>10, <1>16 DEF Sums, m, n
<1> QED
  BY <1>17 DEF HasSums

LEMMA LogProbIs ==
  ASSUME lm \in [Token -> Tables], NEW ids \in Seq(Token), Len(ids) >= PromptLen
  PROVE  /\ LogProb(ids) \in Int
         /\ Len(ids) = PromptLen => LogProb(ids) = 0
         /\ \A x \in Token : LogProb(Append(ids, x)) = LogProb(ids) + lm[Last(ids)][x]
<1> DEFINE m == PromptLen
           n == Len(ids)
<1>1. m \in Nat \ {0} /\ n \in Nat /\ m <= n
  BY PromptsAre
<1>2. PICK f : Sums(ids, f)
  BY SumsExist DEF HasSums
<1>3. /\ f \in [m .. n -> Int] /\ LogProb(ids) = f[n]
      /\ f = [i \in m .. n |-> IF i = m THEN 0 ELSE f[i-1] + lm[ids[i-1]][ids[i]]]
  BY <1>2 DEF Sums, SumOf
<1>4. LogProb(ids) \in Int /\ (n = m => LogProb(ids) = 0)
  <2>1. n \in m .. n
    BY <1>1
  <2> HIDE DEF m, n
  <2>2. f[n] \in Int
    BY <1>3, <2>1
  <2>3. n = m => f[n] = 0
    BY <1>3, <2>1
  <2> QED
    BY <1>3, <2>2, <2>3
<1>5. ASSUME NEW x \in Token PROVE LogProb(Append(ids, x)) = LogProb(ids) + lm[Last(ids)][x]
  <2> DEFINE a == Append(ids, x)
  <2>1. a \in Seq(Token) /\ Len(a) = n + 1 /\ (\A i \in 1 .. n : a[i] = ids[i]) /\ a[n + 1] = x
    BY AppendProperties
  <2> HIDE DEF a
  <2>2. Len(a) >= PromptLen
    BY <1>1, <2>1
  <2>3. PICK g : Sums(a, g)
    BY <2>1, <2>2, SumsExist DEF HasSums
  <2>4. /\ LogProb(a) = g[n + 1]
        /\ g = [i \in m .. n+1 |-> IF i = m THEN 0 ELSE g[i-1] + lm[a[i-1]][a[i]]]
    BY <2>1, <2>3 DEF Sums, SumOf
  <2> DEFINE T == {k \in Nat : m + k <= n => g[m + k] = f[m + k]}
  <2> HIDE DEF m, n
  <2>5. 0 \in T
    BY <1>1, <1>3, <2>4
  <2>6. ASSUME NEW k \in Nat, k \in T PROVE k + 1 \in T
    <3> SUFFICES ASSUME m + (k + 1) <= n PROVE g[m + (k + 1)] = f[m + (k + 1)]
      OBVIOUS
    <3> DEFINE j == m + (k + 1)
    <3>1. /\ j \in m .. n+1 /\ j \in m .. n /\ j # m /\ j - 1 = m + k /\ m + k <= n
          /\ j \in 1 .. n /\ j - 1 \in 1 .. n
      BY <1>1
    <3> HIDE DEF j
    <3>2. g[j] = g[j-1] + lm[a[j-1]][a[j]]
      BY <2>4, <3>1
    <3>3. f[j] = f[j-1] + lm[ids[j-1]][ids[j]]
      BY <1>3, <3>1
    <3>4. g[j-1] = f[j-1]
      BY <2>6, <3>1
    <3> QED
      BY <2>1, <3>1, <3>2, <3>3, <3>4 DEF j, n
  <2> HIDE DEF T
  <2>7. Nat \subseteq T
    BY <2>5, <2>6, InductionOnNat
  <2>8. g[n] = f[n]
    <3>1. n - m \in Nat /\ m + (n - m) = n /\ m + (n - m) <= n
      BY <1>1
    <3> QED
      BY <2>7, <3>1 DEF T
  <2>9. n + 1 \in m .. n+1 /\ n + 1 # m /\ (n + 1) - 1 = n /\ n \in 1 .. n
    BY <1>1
  <2>10. g[n + 1] = g[n] + lm[a[n]][a[n + 1]]
    BY <2>4, <2>9
  <2>11. a[n] = Last(ids)
    BY <2>1, <2>9 DEF Last, n
  <2> QED
    BY <1>3, <2>1, <2>4, <2>8, <2>10, <2>11 DEF a, n
<1> QED
  BY <1>4, <1>5

-----------------------------------------------------------------------------
(* Beams and samples. *)
LEMMA BeamsAre ==
  /\ 0 \in Beam /\ 0 \in Sample
  /\ \A b \in Beam : /\ SampleOf(b) \in Sample /\ b % NumBeams \in 0 .. NumBeams-1
                     /\ b = SampleOf(b) * NumBeams + (b % NumBeams)
  /\ \A s \in Sample : \A k \in 0 .. NumBeams-1 :
       s * NumBeams + k \in Beam /\ SampleOf(s * NumBeams + k) = s /\ (s * NumBeams + k) % NumBeams = k
<1>1. BatchSize \in Nat \ {0} /\ NumBeams \in Nat \ {0} /\ NumBeams > 1
  BY Sizes, PromptsAre
<1>2. ASSUME NEW s \in Sample, NEW k \in 0 .. NumBeams-1
      PROVE  s * NumBeams + k \in Beam /\ SampleOf(s * NumBeams + k) = s /\ (s * NumBeams + k) % NumBeams = k
  BY <1>1, FlatIndex DEF Sample, Beam, SampleOf
<1>3. 0 \in Sample /\ 0 \in Beam
  <2>1. 0 \in Sample /\ 0 \in 0 .. NumBeams-1
    BY <1>1 DEF Sample
  <2>2. 0 * NumBeams + 0 = 0
    BY <1>1
  <2> QED
    BY <1>2, <2>1, <2>2
<1>4. ASSUME NEW b \in Beam
      PROVE  /\ SampleOf(b) \in Sample /\ b % NumBeams \in 0 .. NumBeams-1
             /\ b = SampleOf(b) * NumBeams + (b % NumBeams)
  <2> DEFINE q == b \div NumBeams
             r == b % NumBeams
             n == NumBeams
             all == n * BatchSize
  <2>1. b \in Nat /\ b < BatchSize * NumBeams /\ BatchSize * NumBeams = all /\ all \in Nat
    BY <1>1 DEF Beam
  <2>2. q \in Nat /\ r \in 0 .. n-1 /\ b = n * q + r
    BY <1>1, <2>1, DivMod
  <2> HIDE DEF q, r
  <2>3. q < BatchSize
    <3> SUFFICES ASSUME BatchSize <= q PROVE FALSE
      BY <1>1, <2>2
    <3>1. all <= n * q /\ n * q \in Nat
      BY <1>1, <2>2, MulMono
    <3> HIDE DEF all
    <3> DEFINE z == n * q
    <3> HIDE DEF z
    <3>2. z \in Nat /\ b = z + r /\ all <= z /\ r >= 0 /\ r \in Int /\ b < all
      BY <1>1, <2>1, <2>2, <3>1 DEF z
    <3> QED
      BY <3>2, <2>1
  <2>4. q \in Sample
    BY <1>1, <2>2, <2>3 DEF Sample
  <2>5. b = q * NumBeams + r
    BY <1>1, <2>2
  <2> QED
    BY <2>2, <2>4, <2>5 DEF q, r, SampleOf
<1> QED
  BY <1>2, <1>3, <1>4

LEMMA LowIs ==
  /\ Low \in Int /\ Low < 0 /\ \A t \in Tables : \A x \in Token : t[x] \in Int /\ t[x] >= Low
  /\ \A n \in Nat : \A c \in Configs : n <= c.maxLen + 1 => n * Low \in Int /\ n * Low > -Big
                                                            /\ (n + 1) * Low = n * Low + Low
<1>1. Big \in Nat \ {0}
  BY Sizes
<1>2. /\ Low \in -Big .. -1
      /\ \A t \in Tables : \A x \in Token : t[x] >= Low
      /\ \A c \in Configs : (c.maxLen + 1) * Low > -Big
  BY BigAssumption DEF Low
<1>3. Low \in Int /\ Low < 0
  BY <1>1, <1>2
<1>4. \A t \in Tables : \A x \in Token : t[x] \in Int
  BY Sizes
<1>5. ASSUME NEW n \in Nat, NEW c \in Configs, n <= c.maxLen + 1
      PROVE  n * Low \in Int /\ n * Low > -Big /\ (n + 1) * Low = n * Low + Low
  <2> DEFINE m == c.maxLen + 1
             l == Low
  <2>1. m \in Nat /\ m * l > -Big /\ n <= m
    BY <1>2, <1>5, ConfigAssumption
  <2>2. l \in Int /\ l < 0
    BY <1>3
  <2> HIDE DEF m, l
  <2>3. n * l >= m * l
    BY <2>1, <2>2
  <2>4. n * l \in Int /\ m * l \in Int /\ (n + 1) * l = n * l + l
    BY <2>1, <2>2
  <2> QED
    BY <1>1, <2>1, <2>3, <2>4 DEF l
<1> QED
  BY <1>2, <1>3, <1>4, <1>5

(* A candidate continues a beam of its own sample, and its score is the    *)
(* log probability of the beam with the candidate's token.                 *)
EntryTrue(s, e) ==
  /\ e[2] \in Token /\ e[3] \in 0 .. NumBeams-1
  /\ IsPrefix(Prompts[s + 1], inputIds[s * NumBeams + e[3]])
  /\ e[1] \in Int /\ e[1] = LogProb(Append(inputIds[s * NumBeams + e[3]], e[2]))
  /\ e[1] >= (Len(inputIds[0]) + 1 - PromptLen) * Low
CandTrue(s, rows) == \A i \in 1 .. KVal : EntryTrue(s, Candidates(s, rows)[i])

(* The rows of the cache end with the tokens that the beams end with. *)
RowsFit(rows) ==
  /\ rows \in [Beam -> Seq(Token)]
  /\ \A b \in Beam : Len(rows[b]) = Len(inputIds[0]) /\ Last(rows[b]) = Last(inputIds[b])

LEMMA RowsReady ==
  ASSUME InvType, phase # "final", Len(inputIds[0]) > 0, NEW rows, RowsFit(rows), NEW s \in Sample
  PROVE  Ready(s, rows)
<1>1. lm \in [Token -> Tables] /\ beamNextScores \in [Beam -> Int]
  BY DEF InvType
<1>2. ASSUME NEW k \in 0 .. NumBeams-1
      PROVE  Last(rows[s * NumBeams + k]) \in Token /\ beamNextScores[s * NumBeams + k] \in Int
  <2> DEFINE b == s * NumBeams + k
  <2>1. b \in Beam
    BY BeamsAre
  <2> HIDE DEF b
  <2>2. rows[b] \in Seq(Token) /\ Len(rows[b]) = Len(inputIds[0])
    BY <2>1 DEF RowsFit
  <2>3. rows[b][Len(rows[b])] \in Token
    BY <2>2
  <2> QED
    BY <1>1, <2>1, <2>3 DEF Last, b
<1> QED
  BY <1>1, <1>2 DEF Ready

LEMMA EntryIsTrue ==
  ASSUME InvType, phase # "final", Len(inputIds[0]) >= PromptLen, Len(inputIds[0]) - PromptLen <= config.maxLen + 1,
         NEW rows, RowsFit(rows), NEW s \in Sample, NEW e, e \in Entry, Made(s, rows, e),
         IsPrefix(Prompts[s + 1], inputIds[s * NumBeams + e[3]]),
         beamNextScores[s * NumBeams + e[3]] = LogProb(inputIds[s * NumBeams + e[3]]),
         beamNextScores[s * NumBeams + e[3]] >= (Len(inputIds[0]) - PromptLen) * Low
  PROVE  EntryTrue(s, e)
<1> DEFINE b == s * NumBeams + e[3]
           n == Len(inputIds[0]) - PromptLen
           x == e[2]
           t == lm[Last(rows[b])]
<1>1. x \in Token /\ e[3] \in 0 .. NumBeams-1 /\ e[1] = Plus(beamNextScores[b], t[x])
  BY DEF Made, TableOf
<1>2. b \in Beam
  BY <1>1, BeamsAre
<1>3. /\ config \in Configs /\ lm \in [Token -> Tables] /\ inputIds[b] \in Seq(Token)
      /\ Len(inputIds[b]) = Len(inputIds[0])
  BY <1>2 DEF InvType
<1>4. PromptLen \in Nat \ {0} /\ Len(inputIds[0]) \in Nat
  BY <1>3, PromptsAre
<1>5. Last(rows[b]) = Last(inputIds[b]) /\ Last(inputIds[b]) \in Token
  <2>1. inputIds[b][Len(inputIds[b])] \in Token
    BY <1>3, <1>4
  <2> QED
    BY <1>2, <2>1 DEF RowsFit, Last
<1>6. t \in Tables /\ t[x] \in Int /\ t[x] >= Low
  BY <1>1, <1>3, <1>5, LowIs
<1>7. n \in Nat /\ n <= config.maxLen + 1 /\ Len(inputIds[0]) + 1 - PromptLen = n + 1
  BY <1>4
<1>8. n * Low \in Int /\ n * Low > -Big /\ (n + 1) * Low = n * Low + Low /\ Low \in Int
  BY <1>3, <1>7, LowIs
<1>9. beamNextScores[b] \in Int
  BY <1>2 DEF InvType
<1>10. LogProb(Append(inputIds[b], x)) = LogProb(inputIds[b]) + t[x]
  BY <1>1, <1>3, <1>5, LogProbIs
<1> DEFINE v == beamNextScores[b]
           low == n * Low
<1>11. v >= low /\ v = LogProb(inputIds[b])
  OBVIOUS
<1> HIDE DEF b, t, n, x, v, low
<1>12. v # -Big
  BY <1>8, <1>9, <1>11, Sizes DEF v, low
<1>13. e[1] = v + t[x]
  BY <1>1, <1>12 DEF Plus, v
<1>14. e[1] \in Int /\ e[1] >= low + Low
  BY <1>6, <1>8, <1>9, <1>11, <1>13 DEF v, low
<1>15. e[1] = LogProb(Append(inputIds[b], x))
  BY <1>10, <1>11, <1>13
<1>16. e[1] >= (Len(inputIds[0]) + 1 - PromptLen) * Low
  BY <1>7, <1>8, <1>14 DEF low
<1> QED
  BY <1>1, <1>14, <1>15, <1>16 DEF EntryTrue, b, x

LEMMA CandTrueNew ==
  ASSUME InvType, InvNew, phase = "new", NEW rows, RowsFit(rows), NEW s \in Sample
  PROVE  CandTrue(s, rows)
<1> SUFFICES ASSUME NEW i \in 1 .. KVal PROVE EntryTrue(s, Candidates(s, rows)[i])
  BY DEF CandTrue
<1> DEFINE e == Candidates(s, rows)[i]
           b == s * NumBeams + 0
<1>1. \A c \in Beam : inputIds[c] = Prompts[SampleOf(c) + 1] /\ beamNextScores[c] = IF c % NumBeams = 0 THEN 0 ELSE -Big
  BY DEF InvNew
<1>2. PromptLen \in Nat \ {0} /\ NumBeams \in Nat \ {0, 1}
  BY PromptsAre, Sizes
<1>3. Len(inputIds[0]) = PromptLen
  BY <1>1, BeamsAre, PromptsAre
<1>4. Ready(s, rows)
  BY <1>2, <1>3, RowsReady
<1>5. \A k \in 0 .. NumBeams-1 : beamNextScores[s * NumBeams + k] = IF k = 0 THEN 0 ELSE -Big
  BY <1>1, BeamsAre
<1>6. e[3] = 0
  BY <1>4, <1>5, FirstBeamOnly
<1>7. e \in Entry /\ Made(s, rows, e)
  BY <1>4, CandidateFacts
<1>8. b \in Beam /\ SampleOf(b) = s /\ 0 \in 0 .. NumBeams-1
  BY <1>2, BeamsAre
<1>9. inputIds[b] = Prompts[s + 1] /\ beamNextScores[b] = 0
  BY <1>1, <1>5, <1>8
<1>10. Prompts[s + 1] \in Seq(Token) /\ Len(Prompts[s + 1]) = PromptLen
  BY PromptsAre
<1>11. LogProb(Prompts[s + 1]) = 0
  BY <1>2, <1>10, LogProbIs DEF InvType
<1>12. IsPrefix(Prompts[s + 1], Prompts[s + 1])
  BY <1>2, <1>10 DEF IsPrefix
<1>13. config.maxLen \in Nat
  BY ConfigAssumption DEF InvType
<1>14. Len(inputIds[0]) >= PromptLen /\ Len(inputIds[0]) - PromptLen <= config.maxLen + 1
  BY <1>2, <1>3, <1>13
<1>15. (Len(inputIds[0]) - PromptLen) * Low = 0
  BY <1>2, <1>3, LowIs
<1> HIDE DEF e
<1>16. /\ IsPrefix(Prompts[s + 1], inputIds[s * NumBeams + e[3]])
       /\ beamNextScores[s * NumBeams + e[3]] = LogProb(inputIds[s * NumBeams + e[3]])
       /\ beamNextScores[s * NumBeams + e[3]] >= (Len(inputIds[0]) - PromptLen) * Low
  BY <1>6, <1>9, <1>11, <1>12, <1>15
<1>17. EntryTrue(s, e)
  BY <1>7, <1>14, <1>16, EntryIsTrue
<1> QED
  BY <1>17 DEF e

LEMMA CandTrueRun ==
  ASSUME InvType, InvBeams, InvScores, phase = "run", NEW rows, RowsFit(rows), NEW s \in Sample, ~doneBatch[s]
  PROVE  CandTrue(s, rows)
<1> SUFFICES ASSUME NEW i \in 1 .. KVal PROVE EntryTrue(s, Candidates(s, rows)[i])
  BY DEF CandTrue
<1> DEFINE e == Candidates(s, rows)[i]
           b == s * NumBeams + e[3]
<1>1. Len(inputIds[0]) > PromptLen /\ Len(inputIds[0]) - PromptLen <= config.maxLen + 1
  BY DEF InvBeams
<1>2. PromptLen \in Nat \ {0} /\ Len(inputIds[0]) \in Nat
  BY PromptsAre, BeamsAre DEF InvType
<1>3. Ready(s, rows)
  BY <1>1, <1>2, RowsReady
<1>4. e \in Entry /\ Made(s, rows, e)
  BY <1>3, CandidateFacts
<1> HIDE DEF e
<1>5. b \in Beam /\ SampleOf(b) = s
  BY <1>4, BeamsAre DEF Made
<1> HIDE DEF b
<1>6. IsPrefix(Prompts[s + 1], inputIds[b])
  BY <1>5 DEF InvBeams
<1>7. beamNextScores[b] = LogProb(inputIds[b]) /\ beamNextScores[b] >= (Len(inputIds[b]) - PromptLen) * Low
  BY <1>5 DEF InvScores
<1>8. Len(inputIds[b]) = Len(inputIds[0])
  BY <1>5 DEF InvType
<1>9. /\ IsPrefix(Prompts[s + 1], inputIds[s * NumBeams + e[3]])
      /\ beamNextScores[s * NumBeams + e[3]] = LogProb(inputIds[s * NumBeams + e[3]])
      /\ beamNextScores[s * NumBeams + e[3]] >= (Len(inputIds[0]) - PromptLen) * Low
  BY <1>6, <1>7, <1>8 DEF b
<1>10. Len(inputIds[0]) >= PromptLen
  BY <1>1, <1>2
<1>11. EntryTrue(s, e)
  BY <1>1, <1>4, <1>9, <1>10, EntryIsTrue
<1> QED
  BY <1>11 DEF e

-----------------------------------------------------------------------------
(* What a call of Search needs, and what it does.                          *)
SearchReady(rows) ==
  /\ InvType /\ phase \in {"new", "run"} /\ RowsFit(rows)
  /\ Len(inputIds[0]) >= PromptLen /\ Len(inputIds[0]) - PromptLen <= config.maxLen
  /\ \A s \in Sample : ~doneBatch[s] => CandTrue(s, rows)
  /\ InvHyps /\ EnoughBeams

ScoreRows(rows) == [s \in Sample |-> [i \in 1 .. KVal |-> Candidates(s, rows)[i][1]]]
EndsOf(s, rows) == IF doneBatch[s] THEN {} ELSE Ends(Candidates(s, rows))
HypsAfter(s, rows) == AddAll(beamHyps[s], Ended(s, Candidates(s, rows)), EndsOf(s, rows))
FoundNow(s, rows) == {Ended(s, Candidates(s, rows))[i] : i \in EndsOf(s, rows)}
GoesOn(b, rows) ==
  IF doneBatch[SampleOf(b)] THEN <<0, Pad, 0>> ELSE Live(Candidates(SampleOf(b), rows))[(b % NumBeams) + 1]

(* Search, without the exit. *)
Searched(rows) ==
  /\ cache' = rows /\ config' = config /\ lm' = lm /\ output' = output /\ phase' = "run"
  /\ beamHyps' = [s \in Sample |-> HypsAfter(s, rows)]
  /\ found' = [s \in Sample |-> found[s] \cup FoundNow(s, rows)]
  /\ doneBatch' = [s \in Sample |->
       doneBatch[s] \/ HypsDone(HypsAfter(s, rows), BestOf(s, Flat(ScoreRows(rows), KVal)), Len(inputIds[0]))]
  /\ beamNextScores' = [b \in Beam |-> GoesOn(b, rows)[1]]
  /\ beamNextTokens' = [b \in Beam |-> GoesOn(b, rows)[2]]
  /\ beamNextIndices' = [b \in Beam |-> IF doneBatch[SampleOf(b)] THEN 0 ELSE NextIndex(b, GoesOn(b, rows))]
  /\ inputIds' = [b \in Beam |-> Append(inputIds[beamNextIndices'[b]], beamNextTokens'[b])]

LEMMA SearchIs ==
  ASSUME NEW rows, InvType, phase # "final", Len(inputIds[0]) >= PromptLen, RowsFit(rows), Search(rows)
  PROVE  Searched(rows)
<1> DEFINE cand == [s \in Sample |-> Candidates(s, rows)]
           ends == [s \in Sample |-> IF doneBatch[s] THEN {} ELSE Ends(cand[s])]
           hyps == [s \in Sample |-> AddAll(beamHyps[s], Ended(s, cand[s]), ends[s])]
           scores == Flat([s \in Sample |-> [i \in 1 .. KVal |-> cand[s][i][1]]], KVal)
           go == [b \in Beam |-> IF doneBatch[SampleOf(b)] THEN <<0, Pad, 0>>
                                 ELSE Live(cand[SampleOf(b)])[(b % NumBeams) + 1]]
<1>1. ~TooFew(cand)
  <2>1. Len(inputIds[0]) > 0
    BY PromptsAre, BeamsAre DEF InvType
  <2>2. \A s \in Sample : Cardinality(GoOn(Candidates(s, rows))) \in Nat /\ Cardinality(GoOn(Candidates(s, rows))) >= NumBeams
    BY <2>1, RowsReady, EnoughGoOn
  <2> QED
    BY <2>2, Sizes DEF TooFew
<1>2. /\ cache' = rows /\ beamHyps' = hyps
      /\ found' = [s \in Sample |-> found[s] \cup {Ended(s, cand[s])[i] : i \in ends[s]}]
      /\ doneBatch' = [s \in Sample |->
           doneBatch[s] \/ HypsDone(hyps[s], BestOf(s, scores), Len(inputIds[0]))]
      /\ phase' = "run"
      /\ beamNextScores'  = [b \in Beam |-> go[b][1]]
      /\ beamNextTokens'  = [b \in Beam |-> go[b][2]]
      /\ beamNextIndices' = [b \in Beam |-> IF doneBatch[SampleOf(b)] THEN 0 ELSE NextIndex(b, go[b])]
      /\ inputIds' = [b \in Beam |-> Append(inputIds[beamNextIndices'[b]], beamNextTokens'[b])]
      /\ UNCHANGED <<config, lm, output>>
  <2>1. cache' = rows /\ Process(cand, ends, hyps, scores) /\ UNCHANGED <<config, lm, output>>
    BY DEF Search
  <2> HIDE DEF cand, ends, hyps, scores
  <2> QED
    BY <1>1, <2>1 DEF Process
<1>3. \A s \in Sample : cand[s] = Candidates(s, rows) /\ ends[s] = EndsOf(s, rows) /\ hyps[s] = HypsAfter(s, rows)
  BY DEF EndsOf, HypsAfter
<1>4. \A b \in Beam : go[b] = GoesOn(b, rows)
  BY BeamsAre, <1>3 DEF GoesOn
<1>5. scores = Flat(ScoreRows(rows), KVal)
  <2>1. [s \in Sample |-> [i \in 1 .. KVal |-> cand[s][i][1]]] = ScoreRows(rows)
    BY <1>3 DEF ScoreRows
  <2> QED
    BY <2>1
<1>6. \A s \in Sample : {Ended(s, cand[s])[i] : i \in ends[s]} = FoundNow(s, rows)
  BY <1>3 DEF FoundNow
<1> HIDE DEF cand, ends, hyps, scores, go
<1>7. hyps = [s \in Sample |-> HypsAfter(s, rows)]
  BY <1>3 DEF hyps
<1> QED
  BY <1>2, <1>3, <1>4, <1>5, <1>6, <1>7 DEF Searched

LEMMA PrefixAppend ==
  ASSUME NEW u \in Seq(Token), NEW v \in Seq(Token), IsPrefix(u, v), NEW x \in Token
  PROVE  IsPrefix(u, Append(v, x))
<1> DEFINE a == Append(v, x)
           n == Len(u)
<1>1. n \in Nat /\ Len(v) \in Nat /\ n <= Len(v) /\ SubSeq(u, 1, n) = SubSeq(v, 1, n)
  BY DEF IsPrefix
<1>2. a \in Seq(Token) /\ Len(a) = Len(v) + 1 /\ \A i \in 1 .. Len(v) : a[i] = v[i]
  BY AppendProperties
<1> HIDE DEF a
<1>3. \A i \in 1 .. n : i \in 1 .. Len(v) /\ a[i] = v[i]
  BY <1>1, <1>2
<1>4. SubSeq(v, 1, n) = [i \in 1 .. n |-> v[i]] /\ SubSeq(a, 1, n) = [i \in 1 .. n |-> a[i]]
  <2>1. n - 1 + 1 = n /\ \A i \in 1 .. n : i + 1 - 1 = i
    BY <1>1
  <2> QED
    BY <1>1, <1>2, <2>1
<1>5. SubSeq(a, 1, n) = SubSeq(v, 1, n)
  BY <1>3, <1>4
<1>6. n <= Len(a)
  BY <1>1, <1>2
<1> QED
  BY <1>1, <1>5, <1>6 DEF IsPrefix, a

LEMMA GoesOnIs ==
  ASSUME NEW rows, SearchReady(rows), NEW b \in Beam
  PROVE  /\ GoesOn(b, rows)[1] \in Int /\ GoesOn(b, rows)[2] \in Token
         /\ doneBatch[SampleOf(b)] => GoesOn(b, rows) = <<0, Pad, 0>>
         /\ ~doneBatch[SampleOf(b)] => EntryTrue(SampleOf(b), GoesOn(b, rows))
<1> DEFINE s == SampleOf(b)
           k == (b % NumBeams) + 1
<1>1. s \in Sample /\ k \in 1 .. NumBeams
  BY BeamsAre, Sizes
<1>2. CASE doneBatch[s]
  BY <1>2, Sizes DEF GoesOn
<1>3. CASE ~doneBatch[s]
  <2>1. Len(inputIds[0]) > 0
    BY PromptsAre, BeamsAre DEF InvType, SearchReady
  <2>2. Ready(s, rows)
    BY <1>1, <2>1, RowsReady DEF SearchReady
  <2>3. PICK i \in GoOn(Candidates(s, rows)) : Live(Candidates(s, rows))[k] = Candidates(s, rows)[i]
    BY <1>1, <2>2, LiveIs
  <2>4. i \in 1 .. KVal
    BY DEF GoOn
  <2>5. GoesOn(b, rows) = Candidates(s, rows)[i]
    BY <1>3, <2>3 DEF GoesOn
  <2>6. EntryTrue(s, GoesOn(b, rows))
    BY <1>1, <1>3, <2>4, <2>5 DEF SearchReady, CandTrue
  <2> QED
    BY <1>3, <2>6 DEF EntryTrue
<1> QED
  BY <1>2, <1>3

(* Where a beam of the next step comes from. *)
LEMMA IndexIs ==
  ASSUME NEW rows, SearchReady(rows), Searched(rows), NEW b \in Beam
  PROVE  /\ beamNextIndices'[b] \in Beam /\ beamNextTokens'[b] \in Token
         /\ ~doneBatch[SampleOf(b)] =>
              /\ beamNextIndices'[b] = SampleOf(b) * NumBeams + GoesOn(b, rows)[3]
              /\ SampleOf(beamNextIndices'[b]) = SampleOf(b)
<1>1. GoesOn(b, rows)[2] \in Token /\ beamNextTokens'[b] = GoesOn(b, rows)[2]
  BY GoesOnIs DEF Searched
<1>2. beamNextIndices'[b] = IF doneBatch[SampleOf(b)] THEN 0 ELSE NextIndex(b, GoesOn(b, rows))
  BY DEF Searched
<1>3. CASE doneBatch[SampleOf(b)]
  BY <1>1, <1>2, <1>3, BeamsAre
<1>4. CASE ~doneBatch[SampleOf(b)]
  <2>1. GoesOn(b, rows)[3] \in 0 .. NumBeams-1
    BY <1>4, GoesOnIs DEF EntryTrue
  <2>2. beamNextIndices'[b] = SampleOf(b) * NumBeams + GoesOn(b, rows)[3]
    BY <1>2, <1>4 DEF NextIndex
  <2> QED
    BY <1>1, <2>1, <2>2, BeamsAre
<1> QED
  BY <1>3, <1>4

LEMMA InputsGrow ==
  ASSUME NEW rows, SearchReady(rows), Searched(rows)
  PROVE  /\ inputIds' \in [Beam -> Seq(Token)]
         /\ \A b \in Beam : /\ inputIds'[b] = Append(inputIds[beamNextIndices'[b]], beamNextTokens'[b])
                            /\ Len(inputIds'[b]) = Len(inputIds[0]) + 1
                            /\ Last(inputIds'[b]) = beamNextTokens'[b]
<1>1. inputIds \in [Beam -> Seq(Token)] /\ \A b \in Beam : Len(inputIds[b]) = Len(inputIds[0])
  BY DEF SearchReady, InvType
<1>2. inputIds' = [b \in Beam |-> Append(inputIds[beamNextIndices'[b]], beamNextTokens'[b])]
  BY DEF Searched
<1>3. ASSUME NEW b \in Beam
      PROVE  /\ inputIds'[b] \in Seq(Token)
             /\ inputIds'[b] = Append(inputIds[beamNextIndices'[b]], beamNextTokens'[b])
             /\ Len(inputIds'[b]) = Len(inputIds[0]) + 1
             /\ Last(inputIds'[b]) = beamNextTokens'[b]
  <2>1. beamNextIndices'[b] \in Beam /\ beamNextTokens'[b] \in Token
    BY IndexIs
  <2>2. inputIds[beamNextIndices'[b]] \in Seq(Token) /\ Len(inputIds[beamNextIndices'[b]]) = Len(inputIds[0])
    BY <1>1, <2>1
  <2>3. inputIds'[b] = Append(inputIds[beamNextIndices'[b]], beamNextTokens'[b])
    BY <1>2
  <2>4. /\ inputIds'[b] \in Seq(Token) /\ Len(inputIds'[b]) = Len(inputIds[0]) + 1
        /\ inputIds'[b][Len(inputIds[0]) + 1] = beamNextTokens'[b]
    BY <2>1, <2>2, <2>3, AppendProperties
  <2> QED
    BY <2>3, <2>4 DEF Last
<1> QED
  BY <1>2, <1>3

(* A sample's list after a step keeps the best of what it has found, all   *)
(* of it with true scores.                                                 *)
LEMMA EndedIs ==
  ASSUME NEW rows, SearchReady(rows), NEW s \in Sample
  PROVE  /\ Ended(s, Candidates(s, rows)) \in [1 .. NumBeams -> Hypothesis]
         /\ EndsOf(s, rows) \subseteq 1 .. NumBeams
         /\ FoundNow(s, rows) = Added(Ended(s, Candidates(s, rows)), EndsOf(s, rows), NumBeams)
         /\ \A f \in FoundNow(s, rows) : TrueHyp(s, HypOf(f))
<1> DEFINE c == Candidates(s, rows)
           list == Ended(s, c)
<1>1. NumBeams \in Nat /\ \A i \in 1 .. NumBeams : i \in 1 .. KVal
  BY Sizes
<1>2. Len(inputIds[0]) \in Nat \ {0}
  BY PromptsAre, BeamsAre DEF InvType, SearchReady
<1>3. Ready(s, rows)
  BY <1>2, RowsReady DEF SearchReady
<1>4. \A i \in 1 .. KVal : c[i] \in Entry /\ Made(s, rows, c[i])
  BY <1>3, CandidateFacts
<1>5. list = [i \in 1 .. NumBeams |-> <<c[i][1], inputIds[s * NumBeams + c[i][3]]>>]
  BY DEF Ended
<1>6. EndsOf(s, rows) \subseteq 1 .. NumBeams
  BY DEF EndsOf, Ends
<1> HIDE DEF c, list
<1>7. ASSUME NEW i \in 1 .. NumBeams
      PROVE  /\ inputIds[s * NumBeams + c[i][3]] \in Seq(Token) \ {<<>>}
             /\ <<c[i][1], inputIds[s * NumBeams + c[i][3]]>> \in Hypothesis
  <2>1. c[i][1] \in Int /\ c[i][3] \in 0 .. NumBeams-1
    BY <1>1, <1>4 DEF Entry, Made
  <2>2. s * NumBeams + c[i][3] \in Beam
    BY <2>1, BeamsAre
  <2> DEFINE b == s * NumBeams + c[i][3]
  <2> HIDE DEF b
  <2>3. inputIds[b] \in Seq(Token) /\ Len(inputIds[b]) # 0
    BY <1>2, <2>2 DEF SearchReady, InvType, b
  <2>4. inputIds[b] # <<>>
    BY <2>3
  <2> QED
    BY <2>1, <2>3, <2>4 DEF Hypothesis, b
<1>8. list \in [1 .. NumBeams -> Hypothesis]
  BY <1>5, <1>7
<1>9. FoundNow(s, rows) = Added(list, EndsOf(s, rows), NumBeams)
  <2>1. EndsOf(s, rows) \cap (1 .. NumBeams) = EndsOf(s, rows)
    BY <1>6
  <2> QED
    BY <2>1 DEF FoundNow, Added, list, c
<1>10. ASSUME NEW f \in FoundNow(s, rows) PROVE TrueHyp(s, HypOf(f))
  <2>1. PICK i \in EndsOf(s, rows) : f = list[i]
    BY DEF FoundNow, list, c
  <2>2. ~doneBatch[s] /\ i \in 1 .. NumBeams /\ c[i][2] = Eos
    BY DEF EndsOf, Ends, c
  <2> DEFINE ids == inputIds[s * NumBeams + c[i][3]]
  <2>3. EntryTrue(s, c[i])
    BY <1>1, <2>2 DEF SearchReady, CandTrue, c
  <2>4. IsPrefix(Prompts[s + 1], ids) /\ c[i][1] = LogProb(Append(ids, Eos))
    BY <2>2, <2>3 DEF EntryTrue
  <2>5. f[1] = c[i][1] /\ f[2] = ids
    BY <1>5, <2>1, <2>2
  <2> HIDE DEF ids
  <2>6. HypOf(f).hyp = ids /\ HypOf(f).score = Score(c[i][1], Len(ids))
    BY <2>5 DEF HypOf
  <2> QED
    BY <2>4, <2>6 DEF TrueHyp
<1> QED
  BY <1>6, <1>8, <1>9, <1>10 DEF list, c

LEMMA HypsAfterIs ==
  ASSUME NEW rows, SearchReady(rows), NEW s \in Sample
  PROVE  /\ KeepsBest(HypsAfter(s, rows), found[s] \cup FoundNow(s, rows))
         /\ Len(HypsAfter(s, rows).beams) >= Len(beamHyps[s].beams)
         /\ \A r \in ToSet(HypsAfter(s, rows).beams) : TrueHyp(s, r)
<1> DEFINE H == HypsAfter(s, rows)
           F == FoundNow(s, rows)
<1>1. config \in Configs /\ KeepsBest(beamHyps[s], found[s]) /\ \A r \in ToSet(beamHyps[s].beams) : TrueHyp(s, r)
  BY DEF SearchReady, InvType, InvHyps
<1>2. NumBeams \in Nat
  BY Sizes
<1>3. AddsAllTo(H, beamHyps[s], found[s], F)
  BY <1>1, <1>2, EndedIs, AddAllKeeps DEF HypsAfter
<1> HIDE DEF H, F
<1>4. ASSUME NEW r \in ToSet(H.beams) PROVE TrueHyp(s, r)
  <2>1. r \in ToSet(beamHyps[s].beams) \/ r \in HypSet(F)
    BY <1>3 DEF AddsAllTo
  <2>2. CASE r \in HypSet(F)
    BY <2>2, EndedIs DEF HypSet, F
  <2> QED
    BY <1>1, <2>1, <2>2
<1> QED
  BY <1>3, <1>4 DEF AddsAllTo, H, F

LEMMA SearchKeeps ==
  ASSUME NEW rows, SearchReady(rows), Searched(rows)
  PROVE  IInv'
<1>1. /\ config \in Configs /\ lm \in [Token -> Tables] /\ doneBatch \in [Sample -> BOOLEAN]
      /\ \A b \in Beam : inputIds[b] \in Seq(Token) /\ Len(inputIds[b]) = Len(inputIds[0])
      /\ Len(inputIds[0]) >= PromptLen /\ Len(inputIds[0]) - PromptLen <= config.maxLen
  BY DEF SearchReady, InvType
<1>2. 0 \in Beam /\ PromptLen \in Nat \ {0} /\ Len(inputIds[0]) \in Nat /\ config.maxLen \in Nat
  BY <1>1, BeamsAre, PromptsAre, ConfigAssumption
<1>3. config' = config /\ lm' = lm /\ phase' = "run" /\ cache' = rows
  BY DEF Searched
<1>4. \A b \in Beam : Len(inputIds'[b]) = Len(inputIds[0]) + 1 /\ Last(inputIds'[b]) = beamNextTokens'[b]
  BY InputsGrow
<1>5. \A s \in Sample : ~doneBatch'[s] => ~doneBatch[s]
  BY DEF Searched
<1>6. InvType'
  <2>1. doneBatch' \in [Sample -> BOOLEAN]
    BY DEF Searched
  <2>2. beamNextScores' \in [Beam -> Int]
    BY GoesOnIs DEF Searched
  <2>3. inputIds' \in [Beam -> Seq(Token)] /\ \A b \in Beam : Len(inputIds'[b]) = Len(inputIds'[0])
    BY <1>2, <1>4, InputsGrow
  <2> QED
    BY <1>1, <1>3, <2>1, <2>2, <2>3 DEF InvType
<1>7. InvNew'
  BY <1>3 DEF InvNew
<1>8. InvBeams'
  <2>1. beamNextTokens' \in [Beam -> Token] /\ beamNextIndices' \in [Beam -> Beam]
    BY IndexIs DEF Searched
  <2>2. cache' \in [Beam -> Seq(Token)] /\ \A b \in Beam : Len(cache'[b]) = Len(inputIds[0])
    BY <1>3 DEF SearchReady, RowsFit
  <2>3. Len(inputIds'[0]) > PromptLen /\ Len(inputIds'[0]) - PromptLen <= config'.maxLen + 1
    BY <1>1, <1>2, <1>3, <1>4
  <2>4. ASSUME NEW b \in Beam PROVE Len(cache'[b]) + 1 = Len(inputIds'[0]) /\ Last(inputIds'[b]) = beamNextTokens'[b]
    BY <1>2, <1>4, <2>2
  <2>5. ASSUME NEW b \in Beam, ~doneBatch'[SampleOf(b)] PROVE IsPrefix(Prompts[SampleOf(b) + 1], inputIds'[b])
    <3>1. SampleOf(b) \in Sample /\ ~doneBatch[SampleOf(b)]
      BY <1>5, <2>5, BeamsAre
    <3> DEFINE i == beamNextIndices'[b]
    <3>2. i \in Beam /\ i = SampleOf(b) * NumBeams + GoesOn(b, rows)[3] /\ beamNextTokens'[b] \in Token
      BY <3>1, IndexIs
    <3>3. IsPrefix(Prompts[SampleOf(b) + 1], inputIds[i])
      BY <3>1, <3>2, GoesOnIs DEF EntryTrue
    <3>4. inputIds'[b] = Append(inputIds[i], beamNextTokens'[b])
      BY InputsGrow
    <3>5. Prompts[SampleOf(b) + 1] \in Seq(Token)
      BY <3>1, PromptsAre
    <3> QED
      BY <1>1, <3>2, <3>3, <3>4, <3>5, PrefixAppend
  <2> QED
    BY <2>1, <2>2, <2>3, <2>4, <2>5 DEF InvBeams
<1>9. InvScores'
  <2> SUFFICES ASSUME NEW b \in Beam, ~doneBatch'[SampleOf(b)]
               PROVE  /\ beamNextScores'[b] = LogProb(inputIds'[b])
                      /\ beamNextScores'[b] >= (Len(inputIds'[b]) - PromptLen) * Low
    BY <1>3 DEF InvScores, LogProb
  <2>1. ~doneBatch[SampleOf(b)]
    BY <1>5, BeamsAre
  <2> DEFINE e == GoesOn(b, rows)
  <2>2. /\ e[1] = LogProb(Append(inputIds[SampleOf(b) * NumBeams + e[3]], e[2]))
        /\ e[1] >= (Len(inputIds[0]) + 1 - PromptLen) * Low
    BY <2>1, GoesOnIs DEF EntryTrue
  <2>3. beamNextScores'[b] = e[1] /\ beamNextTokens'[b] = e[2]
    BY DEF Searched
  <2>4. inputIds'[b] = Append(inputIds[SampleOf(b) * NumBeams + e[3]], e[2])
    BY <2>1, <2>3, IndexIs, InputsGrow
  <2> HIDE DEF e
  <2>5. Len(inputIds'[b]) = Len(inputIds[0]) + 1
    BY <1>4
  <2>6. Len(inputIds'[b]) - PromptLen = Len(inputIds[0]) + 1 - PromptLen
    BY <1>2, <2>5
  <2> QED
    BY <2>2, <2>3, <2>4, <2>6
<1>10. InvHyps'
  <2> SUFFICES ASSUME NEW s \in Sample
               PROVE  /\ KeepsBest(beamHyps'[s], found'[s])
                      /\ \A r \in ToSet(beamHyps'[s].beams) : TrueHyp(s, r)
    BY <1>3 DEF InvHyps, KeepsBest, TrueHyp, HypOf, Score, LogProb
  <2>1. beamHyps'[s] = HypsAfter(s, rows) /\ found'[s] = found[s] \cup FoundNow(s, rows)
    BY DEF Searched
  <2> QED
    BY <2>1, HypsAfterIs
<1>11. EnoughBeams'
  <2> SUFFICES ASSUME NEW s \in Sample, doneBatch'[s] PROVE Len(beamHyps'[s].beams) >= NumBeams
    BY <1>3 DEF EnoughBeams
  <2>1. beamHyps'[s] = HypsAfter(s, rows)
    BY DEF Searched
  <2>2. CASE doneBatch[s]
    <3>1. Len(beamHyps[s].beams) >= NumBeams
      BY <2>2 DEF SearchReady, EnoughBeams
    <3>2. Len(HypsAfter(s, rows).beams) >= Len(beamHyps[s].beams)
      BY HypsAfterIs
    <3>3. beamHyps[s] \in Hyps /\ HypsAfter(s, rows) \in Hyps
      BY HypsAfterIs, KeepsBestIs DEF SearchReady, InvHyps
    <3>4. Len(beamHyps[s].beams) \in Nat /\ Len(HypsAfter(s, rows).beams) \in Nat /\ NumBeams \in Nat
      BY <3>3, HypsAre, Sizes
    <3> QED
      BY <2>1, <3>1, <3>2, <3>4
  <2>3. CASE ~doneBatch[s]
    BY <2>1, <2>3 DEF Searched, HypsDone
  <2> QED
    BY <2>2, <2>3
<1> QED
  BY <1>6, <1>7, <1>8, <1>9, <1>10, <1>11 DEF IInv

-----------------------------------------------------------------------------
(* The two calls of Search. *)
LEMMA FirstStep ==
  ASSUME IInv, GetFirstToken
  PROVE  LET rows == [b \in Beam |-> Prompts[SampleOf(b) + 1]] IN SearchReady(rows) /\ Searched(rows)
<1> DEFINE rows == [b \in Beam |-> Prompts[SampleOf(b) + 1]]
<1>1. InvType /\ InvNew /\ InvHyps /\ EnoughBeams /\ phase = "new" /\ Search(rows)
  BY DEF IInv, GetFirstToken
<1>2. \A b \in Beam : inputIds[b] = rows[b] /\ rows[b] \in Seq(Token) /\ Len(rows[b]) = PromptLen
  BY <1>1, BeamsAre, PromptsAre DEF InvNew
<1>3. Len(inputIds[0]) = PromptLen /\ PromptLen \in Nat /\ config.maxLen \in Nat
  BY <1>1, <1>2, BeamsAre, PromptsAre, ConfigAssumption DEF InvType
<1>4. RowsFit(rows)
  <2>1. rows \in [Beam -> Seq(Token)]
    BY <1>2
  <2> HIDE DEF rows
  <2> QED
    BY <1>2, <1>3, <2>1 DEF RowsFit
<1> HIDE DEF rows
<1>5. \A s \in Sample : CandTrue(s, rows)
  BY <1>1, <1>4, CandTrueNew
<1>6. Len(inputIds[0]) >= PromptLen /\ Len(inputIds[0]) - PromptLen <= config.maxLen
  BY <1>3
<1>7. SearchReady(rows)
  BY <1>1, <1>4, <1>5, <1>6 DEF SearchReady
<1>8. Searched(rows)
  BY <1>1, <1>4, <1>6, SearchIs
<1> QED
  BY <1>7, <1>8 DEF rows

LEMMA ReorderedIs ==
  ASSUME InvType, InvBeams, phase = "run", NEW b \in Beam
  PROVE  /\ Reordered(b) \in Seq(Token) /\ Len(Reordered(b)) + 1 = Len(inputIds[0]) /\ Len(Reordered(b)) \in Nat
         /\ DOMAIN Reordered(b) = 1 .. Len(cache[b]) /\ Len(cache[b]) \in Nat
         /\ \A l \in 1 .. Len(cache[b]) :
              Reordered(b)[l] = IF l \in PromptLen + 1 .. AccSeqLen THEN cache[beamNextIndices[b]][l] ELSE cache[b][l]
<1>1. /\ cache \in [Beam -> Seq(Token)] /\ beamNextIndices[b] \in Beam
      /\ \A c \in Beam : Len(cache[c]) + 1 = Len(inputIds[0])
  BY DEF InvBeams
<1>2. cache[b] \in Seq(Token) /\ cache[beamNextIndices[b]] \in Seq(Token)
  BY <1>1
<1>3. Len(cache[beamNextIndices[b]]) = Len(cache[b]) /\ Len(cache[b]) \in Nat /\ Len(cache[b]) + 1 = Len(inputIds[0])
  BY <1>1, <1>2
<1> DEFINE n == Len(cache[b])
<1>4. DOMAIN cache[b] = 1 .. n /\ \A l \in 1 .. n : cache[b][l] \in Token /\ cache[beamNextIndices[b]][l] \in Token
  BY <1>2, <1>3
<1>5. Reordered(b) = [l \in 1 .. n |->
        IF l \in PromptLen + 1 .. AccSeqLen THEN cache[beamNextIndices[b]][l] ELSE cache[b][l]]
  BY <1>4 DEF Reordered
<1>6. Reordered(b) \in [1 .. n -> Token]
  BY <1>4, <1>5
<1>7. Reordered(b) \in Seq(Token) /\ Len(Reordered(b)) = n
  <2> DEFINE r == Reordered(b)
  <2> HIDE DEF r, n
  <2>1. r \in [1 .. n -> Token] /\ n \in Nat
    BY <1>3, <1>6 DEF r, n
  <2>2. r \in Seq(Token) /\ DOMAIN r = 1 .. n
    BY <2>1, SeqDef
  <2>3. DOMAIN r = 1 .. Len(r) /\ Len(r) \in Nat
    BY <2>2
  <2> QED
    BY <2>1, <2>2, <2>3 DEF r
<1> QED
  BY <1>3, <1>5, <1>6, <1>7

LEMMA NextStep ==
  ASSUME IInv, GetNextToken
  PROVE  LET rows == [b \in Beam |-> Append(Reordered(b), beamNextTokens[b])] IN SearchReady(rows) /\ Searched(rows)
<1> DEFINE rows == [b \in Beam |-> Append(Reordered(b), beamNextTokens[b])]
<1>1. /\ InvType /\ InvBeams /\ InvScores /\ InvHyps /\ EnoughBeams /\ phase = "run" /\ Search(rows)
      /\ ~(Len(inputIds[0]) >= config.maxLen)
  BY DEF IInv, GetNextToken, IsDone
<1>2. ASSUME NEW b \in Beam
      PROVE  rows[b] \in Seq(Token) /\ Len(rows[b]) = Len(inputIds[0]) /\ Last(rows[b]) = Last(inputIds[b])
  <2>1. beamNextTokens[b] \in Token /\ Last(inputIds[b]) = beamNextTokens[b]
    BY <1>1 DEF InvBeams
  <2>2. Reordered(b) \in Seq(Token) /\ Len(Reordered(b)) + 1 = Len(inputIds[0]) /\ Len(Reordered(b)) \in Nat
    BY <1>1, ReorderedIs
  <2> DEFINE r == Reordered(b)
             x == beamNextTokens[b]
  <2>3. rows[b] = Append(r, x)
    OBVIOUS
  <2> HIDE DEF r, x, rows
  <2>4. rows[b] \in Seq(Token) /\ Len(rows[b]) = Len(r) + 1 /\ rows[b][Len(r) + 1] = x
    BY <2>1, <2>2, <2>3, AppendProperties DEF r, x
  <2> QED
    BY <2>1, <2>2, <2>4 DEF r, x, Last
<1>3. RowsFit(rows)
  <2>1. rows \in [Beam -> Seq(Token)]
    BY <1>2
  <2> HIDE DEF rows
  <2> QED
    BY <1>2, <2>1 DEF RowsFit
<1> HIDE DEF rows
<1>4. \A s \in Sample : ~doneBatch[s] => CandTrue(s, rows)
  BY <1>1, <1>3, CandTrueRun
<1>5. PromptLen \in Nat /\ Len(inputIds[0]) \in Nat /\ config.maxLen \in Nat /\ Len(inputIds[0]) > PromptLen
  BY <1>1, BeamsAre, PromptsAre, ConfigAssumption DEF InvType, InvBeams
<1>6. Len(inputIds[0]) >= PromptLen /\ Len(inputIds[0]) - PromptLen <= config.maxLen
  BY <1>1, <1>5
<1>7. SearchReady(rows)
  BY <1>1, <1>3, <1>4, <1>6 DEF SearchReady
<1>8. Searched(rows)
  BY <1>1, <1>3, <1>6, SearchIs
<1> QED
  BY <1>7, <1>8 DEF rows

-----------------------------------------------------------------------------
(* finalize. *)
OpenOrEnded(s, r) ==
  /\ IsPrefix(Prompts[s + 1], r.hyp)
  /\ \/ r.score = Score(LogProb(Append(r.hyp, Eos)), Len(r.hyp))
     \/ r.score = Score(LogProb(r.hyp), Len(r.hyp))

LEMMA FinalizedIs ==
  ASSUME IInv, phase = "run", NEW s \in Sample
  PROVE  /\ Finalized(s) \in Hyps /\ Len(Finalized(s).beams) = NumBeams
         /\ \A r \in ToSet(Finalized(s).beams) : OpenOrEnded(s, r)
<1>1. /\ KeepsBest(beamHyps[s], found[s]) /\ config \in Configs
      /\ \A r \in ToSet(beamHyps[s].beams) : TrueHyp(s, r)
  BY DEF IInv, InvHyps, InvType
<1>2. \A r \in ToSet(beamHyps[s].beams) : OpenOrEnded(s, r)
  BY <1>1 DEF TrueHyp, OpenOrEnded
<1>3. NumBeams \in Nat \ {0}
  BY Sizes
<1>4. CASE doneBatch[s]
  <2>1. Finalized(s) = beamHyps[s]
    BY <1>4 DEF Finalized
  <2>2. beamHyps[s] \in Hyps /\ Len(beamHyps[s].beams) <= NumBeams
    BY <1>1, KeepsBestIs
  <2>3. Len(beamHyps[s].beams) >= NumBeams
    BY <1>4 DEF IInv, EnoughBeams
  <2>4. Len(beamHyps[s].beams) \in Nat
    BY <2>2, HypsAre
  <2>5. Len(beamHyps[s].beams) = NumBeams
    BY <1>3, <2>2, <2>3, <2>4
  <2> QED
    BY <1>2, <2>1, <2>2, <2>5
<1>5. CASE ~doneBatch[s]
  <2> DEFINE list == [k \in 1 .. NumBeams |-> <<beamNextScores[s * NumBeams + k - 1], inputIds[s * NumBeams + k - 1]>>]
             H == AddAll(beamHyps[s], list, 1 .. NumBeams)
  <2>1. Finalized(s) = H
    BY <1>5 DEF Finalized
  <2>2. ASSUME NEW k \in 1 .. NumBeams
        PROVE  /\ list[k] \in Hypothesis
               /\ IsPrefix(Prompts[s + 1], list[k][2]) /\ list[k][1] = LogProb(list[k][2])
    <3> DEFINE b == s * NumBeams + k - 1
    <3>1. b \in Beam /\ SampleOf(b) = s
      <4>1. k - 1 \in 0 .. NumBeams-1
        BY <1>3
      <4>2. s * NumBeams + k - 1 = s * NumBeams + (k - 1)
        BY <1>3 DEF Sample
      <4> QED
        BY <4>1, <4>2, BeamsAre
    <3>2. list[k] = <<beamNextScores[b], inputIds[b]>>
      OBVIOUS
    <3> HIDE DEF b, list
    <3>3. /\ beamNextScores[b] \in Int /\ inputIds[b] \in Seq(Token) /\ Len(inputIds[b]) = Len(inputIds[0])
          /\ Len(inputIds[0]) > PromptLen
      BY <3>1 DEF IInv, InvType, InvBeams
    <3>4. PromptLen \in Nat /\ Len(inputIds[b]) \in Nat
      BY <3>3, PromptsAre
    <3>5. inputIds[b] # <<>>
      BY <3>3, <3>4
    <3>6. IsPrefix(Prompts[s + 1], inputIds[b]) /\ beamNextScores[b] = LogProb(inputIds[b])
      BY <1>5, <3>1 DEF IInv, InvBeams, InvScores
    <3> QED
      BY <3>2, <3>3, <3>5, <3>6 DEF Hypothesis
  <2>3. list \in [1 .. NumBeams -> Hypothesis]
    <3>1. list = [k \in 1 .. NumBeams |-> list[k]]
      OBVIOUS
    <3> HIDE DEF list
    <3> QED
      BY <2>2, <3>1
  <2> DEFINE F == Added(list, 1 .. NumBeams, NumBeams)
  <2> HIDE DEF list
  <2>4. /\ AddsAllTo(H, beamHyps[s], found[s], F)
        /\ Len(H.beams) = NumBeams \/ Len(H.beams) >= NumBeams
    BY <1>1, <1>3, <2>3, AddAllKeeps
  <2> HIDE DEF H
  <2>5. H \in Hyps /\ Len(H.beams) <= NumBeams /\ ToSet(H.beams) \subseteq ToSet(beamHyps[s].beams) \cup HypSet(F)
    BY <2>4, KeepsBestIs DEF AddsAllTo
  <2>6. Len(H.beams) = NumBeams
    <3>1. Len(H.beams) \in Nat
      BY <2>5, HypsAre
    <3> QED
      BY <1>3, <2>4, <2>5, <3>1
  <2>7. ASSUME NEW r \in HypSet(F) PROVE OpenOrEnded(s, r)
    <3>1. PICK k \in 1 .. NumBeams : r = HypOf(list[k])
      BY DEF HypSet, Added
    <3>2. r.hyp = list[k][2] /\ r.score = Score(list[k][1], Len(list[k][2]))
      BY <3>1 DEF HypOf
    <3> QED
      BY <2>2, <3>2 DEF OpenOrEnded
  <2> HIDE DEF F
  <2> QED
    BY <1>2, <2>1, <2>5, <2>6, <2>7
<1> QED
  BY <1>4, <1>5

(* The hypotheses are ranked, best first. *)
LEMMA RanksBest ==
  ASSUME NEW beams \in Seq(HypRecord), NEW k \in Nat, k < Len(beams)
  PROVE  /\ \E i \in DOMAIN beams : Cardinality(Better(beams, i)) = k
         /\ \A i \in DOMAIN beams : Cardinality(Better(beams, i)) = k =>
              Cardinality({j \in DOMAIN beams : Less(beams[i].score, beams[j].score)}) < k + 1
<1> DEFINE D == DOMAIN beams
           q(i) == beams[i].score
           R == {p \in D \X D : Less(q(p[2]), q(p[1])) \/ (~Less(q(p[1]), q(p[2])) /\ p[1] > p[2])}
<1>1. D = 1 .. Len(beams) /\ Len(beams) \in Nat
  OBVIOUS
<1>2. \A i \in D : q(i) \in Quotient
  <2>1. \A i \in 1 .. Len(beams) : beams[i] \in HypRecord
    BY ElementOfSeq
  <2>2. \A h \in HypRecord : h.score \in Quotient
    BY DEF HypRecord
  <2> QED
    BY <1>1, <2>1, <2>2
<1>3. \A i, j \in D : <<i, j>> \in R <=> Less(q(j), q(i)) \/ (~Less(q(i), q(j)) /\ i > j)
  OBVIOUS
<1>4. \A i \in D : i \in Nat
  BY <1>1
<1>5. IsFiniteSet(D) /\ Cardinality(D) = Len(beams)
  BY <1>1, FS_Interval
<1>6. \A i \in D : Better(beams, i) = {j \in D : Less(q(i), q(j)) \/ (~Less(q(j), q(i)) /\ j > i)}
  BY DEF Better
<1> HIDE DEF R, D, q
<1>7. \A i \in D : ~Less(q(i), q(i))
  BY <1>2, LessIsOrder
<1>8. \A i, j \in D : Less(q(i), q(j)) => ~Less(q(j), q(i))
  BY <1>2, LessIsOrder
<1>9. \A i, j, l \in D : ~Less(q(i), q(j)) /\ ~Less(q(j), q(l)) => ~Less(q(i), q(l))
  BY <1>2, LessIsOrder
<1>10. Ordered(D, R)
  <2>1. \A x \in D : <<x, x>> \notin R
    BY <1>3, <1>4, <1>7
  <2>2. \A x, y \in D : x = y \/ <<x, y>> \in R \/ <<y, x>> \in R
    <3> SUFFICES ASSUME NEW x \in D, NEW y \in D, x # y PROVE <<x, y>> \in R \/ <<y, x>> \in R
      OBVIOUS
    <3>1. x > y \/ y > x
      BY <1>4
    <3>2. Less(q(x), q(y)) \/ Less(q(y), q(x)) \/ (~Less(q(x), q(y)) /\ ~Less(q(y), q(x)))
      OBVIOUS
    <3> QED
      BY <3>1, <3>2, <1>3
  <2>3. ASSUME NEW x \in D, NEW y \in D, NEW z \in D, <<x, y>> \in R, <<y, z>> \in R PROVE <<x, z>> \in R
    <3>1. ~Less(q(x), q(y)) /\ ~Less(q(y), q(z))
      BY <2>3, <1>3, <1>8
    <3>2. ~Less(q(x), q(z))
      BY <3>1, <1>9
    <3>3. CASE x > z
      BY <3>2, <3>3, <1>3
    <3>4. CASE ~(x > z)
      <4>1. Less(q(y), q(x)) \/ Less(q(z), q(y))
        BY <3>4, <2>3, <1>3, <1>4
      <4>2. Less(q(z), q(x))
        BY <4>1, <3>1, <1>9
      <4> QED
        BY <4>2, <1>3
    <3> QED
      BY <3>3, <3>4
  <2> QED
    BY <2>1, <2>2, <2>3 DEF Ordered
<1>11. \A i \in D : Pred(D, R, i) = Better(beams, i)
  BY <1>3, <1>6 DEF Pred
<1>12. \E i \in D : Rank(D, R, i) = k
  BY <1>1, <1>5, <1>10, RankExists
<1>13. \E i \in D : Cardinality(Better(beams, i)) = k
  BY <1>11, <1>12 DEF Rank
<1>14. ASSUME NEW i \in D, Cardinality(Better(beams, i)) = k
       PROVE  Cardinality({j \in D : Less(q(i), q(j))}) < k + 1
  <2> DEFINE L == {j \in D : Less(q(i), q(j))}
  <2>1. L \subseteq Better(beams, i) /\ Better(beams, i) \subseteq D
    BY <1>6
  <2> HIDE DEF L
  <2>2. IsFiniteSet(Better(beams, i))
    BY <1>5, <2>1, FS_Subset
  <2>3. IsFiniteSet(L) /\ Cardinality(L) <= Cardinality(Better(beams, i))
    BY <2>1, <2>2, FS_Subset
  <2>4. Cardinality(L) \in Nat
    BY <2>3, FS_CardinalityType
  <2> QED
    BY <1>14, <2>3, <2>4 DEF L
<1> QED
  BY <1>13, <1>14 DEF D, q

LEMMA MinOfTwo ==
  ASSUME NEW a \in Int, NEW b \in Int
  PROVE  Min({a, b}) = IF a <= b THEN a ELSE b
<1>1. \A x \in {a, b} : x \in Int
  OBVIOUS
<1>2. \E x \in {a, b} : \A y \in {a, b} : x =< y
  OBVIOUS
<1>3. Min({a, b}) \in {a, b} /\ \A y \in {a, b} : Min({a, b}) =< y
  BY <1>2 DEF Min
<1> QED
  BY <1>1, <1>3

(* A row of the result. *)
RowIs(row, hyp, max) ==
  LET n == Min({Len(hyp), max}) IN
  /\ SubSeq(row, 1, n) = SubSeq(hyp, 1, n)
  /\ n < max => n < Len(row) /\ row[n + 1] = Eos
  /\ \A j \in n + 2 .. Len(row) : row[j] = Pad

LEMMA DecodedIs ==
  ASSUME config.maxLen \in Nat, NEW hyp \in Seq(Token), NEW longest \in Nat, Len(hyp) <= longest
  PROVE  RowIs(Decoded(hyp, Min({longest + 1, config.maxLen})), hyp, config.maxLen)
<1> DEFINE max == config.maxLen
           w == Min({longest + 1, max})
           l == Len(hyp)
           n == Min({l, max})
           row == Decoded(hyp, w)
<1>1. l \in Nat /\ max \in Nat /\ l <= longest
  OBVIOUS
<1>2. w = IF longest + 1 <= max THEN longest + 1 ELSE max
  BY MinOfTwo
<1>3. n = IF l <= max THEN l ELSE max
  BY MinOfTwo
<1>4. row = [j \in 1 .. w |-> IF j <= l /\ j <= max THEN hyp[j] ELSE IF j = l + 1 /\ l < max THEN Eos ELSE Pad]
  BY DEF Decoded
<1> HIDE DEF w, n, row
<1>5. w \in Nat /\ n \in Nat /\ n <= w /\ n <= l /\ n <= max /\ (n < max => n = l /\ n + 1 <= w)
  BY <1>1, <1>2, <1>3
<1>6. \A j \in 1 .. w : row[j] \in Token
  BY <1>1, <1>4, Sizes
<1>7. row \in Seq(Token) /\ Len(row) = w
  <2>1. row \in [1 .. w -> Token]
    BY <1>4, <1>6
  <2>2. row \in Seq(Token) /\ DOMAIN row = 1 .. w
    BY <1>5, <2>1, SeqDef
  <2>3. DOMAIN row = 1 .. Len(row) /\ Len(row) \in Nat
    BY <2>2
  <2> QED
    BY <1>5, <2>2, <2>3
<1>8. SubSeq(row, 1, n) = SubSeq(hyp, 1, n)
  <2>1. SubSeq(row, 1, n) = [j \in 1 .. n |-> row[j]] /\ SubSeq(hyp, 1, n) = [j \in 1 .. n |-> hyp[j]]
    <3>1. \A j \in 1 .. n : j + 1 - 1 = j
      BY <1>5
    <3> QED
      BY <1>5, <1>7, <3>1
  <2>2. \A j \in 1 .. n : j \in 1 .. w /\ j <= l /\ j <= max
    BY <1>1, <1>5
  <2>3. \A j \in 1 .. n : row[j] = hyp[j]
    BY <1>4, <2>2
  <2> QED
    BY <2>1, <2>3
<1>9. ASSUME n < max PROVE n < Len(row) /\ row[n + 1] = Eos
  <2>1. n = l /\ n + 1 \in 1 .. w /\ ~(n + 1 <= l) /\ l < max
    BY <1>1, <1>5, <1>9
  <2>2. row[n + 1] = Eos
    BY <1>4, <2>1
  <2> QED
    BY <1>5, <1>7, <2>1, <2>2
<1>10. ASSUME NEW j \in n + 2 .. Len(row) PROVE row[j] = Pad
  <2>1. j \in 1 .. w /\ ~(j <= l /\ j <= max) /\ ~(j = l + 1 /\ l < max)
    BY <1>1, <1>3, <1>5, <1>7
  <2> QED
    BY <1>4, <2>1
<1> QED
  BY <1>8, <1>9, <1>10 DEF RowIs, row, n, w

LEMMA FinalOutput ==
  ASSUME IInv, Finalize
  PROVE  /\ phase = "run" /\ phase' = "final" /\ config' = config /\ lm' = lm /\ doneBatch' = doneBatch
         /\ inputIds' = inputIds
         /\ beamHyps' = [s \in Sample |-> Finalized(s)]
         /\ \A s \in Sample : \A k \in 1 .. config.keep : \E i \in DOMAIN Finalized(s).beams :
              /\ RowIs(output'[s * config.keep + k], Finalized(s).beams[i].hyp, config.maxLen)
              /\ Cardinality({j \in DOMAIN Finalized(s).beams :
                                Less(Finalized(s).beams[i].score, Finalized(s).beams[j].score)}) < k
<1> DEFINE hyps == [s \in Sample |-> Finalized(s)]
           keep == config.keep
           rows == [s \in Sample |-> BestN(hyps[s].beams, keep)]
           best == Flat(rows, keep)
           longest == Max({Len(best[i]) : i \in DOMAIN best})
           width == Min({longest + 1, config.maxLen})
           N == BatchSize * keep
<1>1. phase = "run"
  BY DEF Finalize, IsDone
<1>2. /\ beamHyps' = hyps
      /\ output' = [i \in DOMAIN best |-> Decoded(best[i], width)]
      /\ phase' = "final" /\ config' = config /\ lm' = lm /\ doneBatch' = doneBatch /\ inputIds' = inputIds
  <2>1. PICK h \in {hyps} : \E b \in {Flat([s \in Sample |-> BestN(h[s].beams, config.keep)], config.keep)} :
          beamHyps' = h /\ output' = [i \in DOMAIN b |-> Decoded(b[i], Width(b))]
    BY DEF Finalize
  <2>2. h = hyps
    BY <2>1
  <2>3. \E b \in {best} : beamHyps' = hyps /\ output' = [i \in DOMAIN b |-> Decoded(b[i], Width(b))]
    BY <2>1, <2>2
  <2> HIDE DEF hyps, best
  <2>4. beamHyps' = hyps /\ output' = [i \in DOMAIN best |-> Decoded(best[i], Width(best))]
    BY <2>3
  <2>5. Width(best) = width
    BY DEF Width
  <2> HIDE DEF width
  <2>6. phase' = "final" /\ config' = config /\ lm' = lm /\ doneBatch' = doneBatch /\ inputIds' = inputIds
    BY DEF Finalize
  <2> QED
    BY <2>4, <2>5, <2>6
<1>3. config \in Configs
  BY DEF IInv, InvType
<1>4. keep \in Nat \ {0} /\ keep <= NumBeams /\ config.maxLen \in Nat /\ BatchSize \in Nat \ {0} /\ NumBeams \in Nat
  BY <1>3, ConfigAssumption, PromptsAre, Sizes
<1>5. N \in Nat /\ N > 0
  <2>1. keep * 1 <= keep * BatchSize /\ keep * BatchSize \in Nat /\ keep * BatchSize = BatchSize * keep
    BY <1>4, MulMono
  <2> QED
    BY <1>4, <2>1
<1>6. best = [p \in 1 .. N |-> rows[(p-1) \div keep][((p-1) % keep) + 1]]
  BY DEF Flat
<1>7. ASSUME NEW s \in Sample, NEW k \in 1 .. keep
      PROVE  \E i \in DOMAIN Finalized(s).beams :
               /\ rows[s][k] = Finalized(s).beams[i].hyp /\ Finalized(s).beams[i].hyp \in Seq(Token)
               /\ Cardinality({j \in DOMAIN Finalized(s).beams :
                                Less(Finalized(s).beams[i].score, Finalized(s).beams[j].score)}) < k
  <2> DEFINE beams == Finalized(s).beams
             i == CHOOSE i \in DOMAIN beams : Cardinality(Better(beams, i)) = k - 1
  <2>1. beams \in Seq(HypRecord) /\ Len(beams) = NumBeams /\ \A j \in DOMAIN beams : beams[j].hyp \in Seq(Token)
    BY <1>1, FinalizedIs, HypsAre
  <2>2. k - 1 \in Nat /\ k - 1 < NumBeams /\ (k - 1) + 1 = k
    BY <1>4
  <2>3. rows[s][k] = beams[i].hyp
    BY DEF BestN
  <2> HIDE DEF beams
  <2>4. \E j \in DOMAIN beams : Cardinality(Better(beams, j)) = k - 1
    BY <2>1, <2>2, RanksBest
  <2>5. i \in DOMAIN beams /\ Cardinality(Better(beams, i)) = k - 1
    BY <2>4
  <2> HIDE DEF i
  <2>6. Cardinality({j \in DOMAIN beams : Less(beams[i].score, beams[j].score)}) < (k - 1) + 1
    BY <2>1, <2>2, <2>5, RanksBest
  <2> QED
    BY <2>1, <2>2, <2>3, <2>5, <2>6 DEF beams
<1> HIDE DEF rows
<1>8. ASSUME NEW s \in Sample, NEW k \in 1 .. keep
      PROVE  s * keep + k \in 1 .. N /\ best[s * keep + k] = rows[s][k]
  <2> DEFINE p == s * keep + k
  <2>1. k - 1 \in 0 .. keep-1 /\ s \in 0 .. BatchSize-1
    BY <1>4 DEF Sample
  <2>2. s * keep \in Nat /\ k \in Nat
    BY <1>4, <2>1
  <2>3. p - 1 = s * keep + (k - 1) /\ (k - 1) + 1 = k
    BY <2>2
  <2>4. p - 1 \in 0 .. N-1 /\ (p - 1) \div keep = s /\ (p - 1) % keep = k - 1
    <3>1. FlatAt(p - 1, BatchSize, keep, s, k - 1)
      BY <1>4, <2>1, <2>3, FlatAtIndex
    <3> QED
      BY <3>1 DEF FlatAt
  <2>5. p \in 1 .. N
    <3> HIDE DEF N
    <3>1. p \in Nat
      BY <2>2
    <3> HIDE DEF p
    <3> QED
      BY <1>5, <2>4, <3>1
  <2> HIDE DEF p, N, best
  <2> QED
    BY <1>6, <2>3, <2>4, <2>5 DEF p
<1>9. ASSUME NEW p \in 1 .. N PROVE best[p] \in Seq(Token)
  <2> DEFINE q == (p - 1) \div keep
             r == (p - 1) % keep
  <2>1. p - 1 \in Nat /\ p - 1 < N
    BY <1>5
  <2>2. q \in Nat /\ r \in 0 .. keep-1 /\ p - 1 = keep * q + r
    BY <1>4, <2>1, DivMod
  <2>3. best[p] = rows[q][r + 1]
    BY <1>6
  <2> HIDE DEF q, r, best
  <2>4. q < BatchSize
    <3> SUFFICES ASSUME BatchSize <= q PROVE FALSE
      BY <1>4, <2>2
    <3>1. keep * BatchSize <= keep * q /\ keep * q \in Nat /\ keep * BatchSize = N
      BY <1>4, <2>2, MulMono
    <3> DEFINE z == keep * q
    <3> HIDE DEF z, N
    <3>2. z \in Nat /\ N <= z /\ p - 1 = z + r /\ r \in Nat
      BY <1>4, <2>2, <3>1 DEF z
    <3> QED
      BY <1>5, <2>1, <3>2
  <2>5. q \in Sample /\ r + 1 \in 1 .. keep
    BY <1>4, <2>2, <2>4 DEF Sample
  <2> HIDE DEF N
  <2> QED
    BY <1>7, <2>3, <2>5
<1>10. DOMAIN best = 1 .. N
  BY <1>6
<1> HIDE DEF best, N
<1>11. longest \in Nat /\ \A p \in 1 .. N : Len(best[p]) <= longest
  <2> DEFINE f == [p \in 1 .. N |-> Len(best[p])]
             L == {Len(best[p]) : p \in 1 .. N}
  <2>1. f \in [1 .. N -> Nat] /\ \A p \in 1 .. N : f[p] = Len(best[p])
    BY <1>9
  <2>2. 1 \in 1 .. N /\ f[1] \in Nat
    BY <1>5, <2>1
  <2>3. {f[1]} \cup {f[p] : p \in 1 .. N} = L
    BY <2>1, <2>2
  <2>4. L \subseteq Nat
    BY <1>9
  <2> HIDE DEF f
  <2>5. \E m \in {f[1]} \cup {f[p] : p \in 1 .. N} : \A x \in {f[1]} \cup {f[p] : p \in 1 .. N} : m >= x
    BY <1>5, <2>1, <2>2, GreatestOf
  <2>6. longest = Max(L)
    BY <1>10
  <2>7. \A p \in 1 .. N : Len(best[p]) \in L
    OBVIOUS
  <2> HIDE DEF L
  <2>8. \E m \in L : \A x \in L : m >= x
    BY <2>3, <2>5
  <2>9. Max(L) \in L /\ \A x \in L : Max(L) >= x
    BY <2>8 DEF Max
  <2> HIDE DEF longest
  <2> QED
    BY <2>4, <2>6, <2>7, <2>9
<1>12. ASSUME NEW s \in Sample, NEW k \in 1 .. keep
       PROVE  \E i \in DOMAIN Finalized(s).beams :
                /\ RowIs(output'[s * keep + k], Finalized(s).beams[i].hyp, config.maxLen)
                /\ Cardinality({j \in DOMAIN Finalized(s).beams :
                                Less(Finalized(s).beams[i].score, Finalized(s).beams[j].score)}) < k
  <2> DEFINE p == s * keep + k
  <2>1. p \in 1 .. N /\ best[p] = rows[s][k]
    BY <1>8
  <2>2. output'[p] = Decoded(best[p], width)
    BY <1>2, <1>10, <2>1
  <2>3. best[p] \in Seq(Token) /\ Len(best[p]) <= longest
    BY <1>9, <1>11, <2>1
  <2>4. RowIs(output'[p], best[p], config.maxLen)
    BY <1>4, <1>11, <2>2, <2>3, DecodedIs
  <2> HIDE DEF p
  <2> QED
    BY <1>7, <2>1, <2>4 DEF p
<1> QED
  BY <1>1, <1>2, <1>12

LEMMA FinalStep ==
  ASSUME IInv, Finalize
  PROVE  IInv' /\ ScoresTrue' /\ OutputBest'
<1>1. /\ phase = "run" /\ phase' = "final" /\ config' = config /\ lm' = lm /\ doneBatch' = doneBatch
      /\ inputIds' = inputIds
      /\ beamHyps' = [s \in Sample |-> Finalized(s)]
  BY FinalOutput
<1>2. \A s \in Sample : /\ Finalized(s) \in Hyps /\ Len(Finalized(s).beams) = NumBeams
                        /\ \A r \in ToSet(Finalized(s).beams) : OpenOrEnded(s, r)
  BY <1>1, FinalizedIs
<1>3. InvType' /\ InvNew' /\ InvBeams' /\ InvScores' /\ InvHyps'
  BY <1>1 DEF IInv, InvType, InvNew, InvBeams, InvScores, InvHyps
<1>4. EnoughBeams'
  BY <1>1, <1>2, Sizes DEF EnoughBeams
<1>5. ScoresTrue'
  <2> SUFFICES ASSUME NEW s \in Sample, NEW i \in DOMAIN beamHyps'[s].beams
               PROVE  OpenOrEnded(s, beamHyps'[s].beams[i])
    BY <1>1 DEF ScoresTrue, OpenOrEnded, Score, LogProb
  <2>1. beamHyps'[s].beams[i] \in ToSet(Finalized(s).beams)
    BY <1>1 DEF ToSet
  <2> QED
    BY <1>2, <2>1
<1>6. OutputBest'
  <2>1. \A s \in Sample : \A k \in 1 .. config.keep : \E i \in DOMAIN Finalized(s).beams :
              /\ RowIs(output'[s * config.keep + k], Finalized(s).beams[i].hyp, config.maxLen)
              /\ Cardinality({j \in DOMAIN Finalized(s).beams :
                                Less(Finalized(s).beams[i].score, Finalized(s).beams[j].score)}) < k
    BY FinalOutput
  <2> SUFFICES ASSUME NEW s \in Sample
               PROVE  /\ Len(beamHyps'[s].beams) = NumBeams
                      /\ \A k \in 1 .. config'.keep : \E i \in DOMAIN beamHyps'[s].beams :
                           /\ RowIs(output'[s * config'.keep + k], beamHyps'[s].beams[i].hyp, config'.maxLen)
                           /\ Cardinality({j \in DOMAIN beamHyps'[s].beams :
                                Less(beamHyps'[s].beams[i].score, beamHyps'[s].beams[j].score)}) < k
    BY Zenon DEF OutputBest, RowIs
  <2>2. beamHyps'[s] = Finalized(s) /\ config' = config
    BY <1>1
  <2> QED
    BY <1>2, <2>1, <2>2
<1> QED
  BY <1>3, <1>4, <1>5, <1>6 DEF IInv

-----------------------------------------------------------------------------
LEMMA InitEstablishes == Init => IInv
<1> SUFFICES ASSUME Init PROVE IInv
  OBVIOUS
<1>1. InvType
  <2>1. \A b \in Beam : Prompts[SampleOf(b) + 1] \in Seq(Token) /\ Len(Prompts[SampleOf(b) + 1]) = PromptLen
    BY BeamsAre, PromptsAre
  <2>2. inputIds \in [Beam -> Seq(Token)] /\ \A b \in Beam : Len(inputIds[b]) = Len(inputIds[0])
    BY <2>1, BeamsAre DEF Init
  <2>3. beamNextScores \in [Beam -> Int]
    BY Sizes DEF Init
  <2> QED
    BY <2>2, <2>3 DEF Init, InvType
<1>2. InvNew
  BY DEF Init, InvNew
<1>3. InvBeams /\ InvScores
  BY DEF Init, InvBeams, InvScores
<1>4. InvHyps
  <2> DEFINE h == [beams |-> <<>>, worst |-> <<Big, 1>>]
  <2>1. <<Big, 1>> \in Quotient /\ <<>> \in Seq(HypRecord) /\ Len(<<>>) = 0
    BY Sizes, EmptySeq DEF Quotient
  <2>2. h \in Hyps /\ h.beams = <<>>
    BY <2>1, HypsAre
  <2>3. ToSet(<<>>) = {}
    BY DEF ToSet
  <2> HIDE DEF h
  <2>4. KeepsBest(h, {})
    BY <2>1, <2>2, <2>3, Sizes DEF KeepsBest
  <2>5. \A s \in Sample : beamHyps[s] = h /\ found[s] = {}
    BY DEF Init, h
  <2> QED
    BY <2>2, <2>3, <2>4, <2>5 DEF InvHyps
<1>5. EnoughBeams
  BY DEF Init, EnoughBeams
<1> QED
  BY <1>1, <1>2, <1>3, <1>4, <1>5 DEF IInv

(* What the runs check follows, but for what finalize does. *)
LEMMA InvImplies ==
  ASSUME IInv, phase # "final"
  PROVE  ScoresTrue /\ OutputBest
<1>1. \A s \in Sample : \A r \in ToSet(beamHyps[s].beams) : TrueHyp(s, r)
  BY DEF IInv, InvHyps
<1>2. \A s \in Sample : \A i \in DOMAIN beamHyps[s].beams : TrueHyp(s, beamHyps[s].beams[i])
  BY <1>1 DEF ToSet
<1>3. ScoresTrue
  BY <1>2 DEF ScoresTrue, TrueHyp, IInv, InvScores
<1> QED
  BY <1>3 DEF OutputBest

LEMMA SearchStep ==
  ASSUME IInv, GetFirstToken \/ GetNextToken
  PROVE  IInv' /\ phase' = "run"
<1>1. CASE GetFirstToken
  BY <1>1, FirstStep, SearchKeeps DEF Searched
<1>2. CASE GetNextToken
  BY <1>2, NextStep, SearchKeeps DEF Searched
<1> QED
  BY <1>1, <1>2

BestRows(hyps, out, c) ==
  \A s \in Sample :
    /\ Len(hyps[s].beams) = NumBeams
    /\ \A k \in 1 .. c.keep : \E i \in DOMAIN hyps[s].beams :
         /\ RowIs(out[s * c.keep + k], hyps[s].beams[i].hyp, c.maxLen)
         /\ Cardinality({j \in DOMAIN hyps[s].beams : Less(hyps[s].beams[i].score, hyps[s].beams[j].score)}) < k

(* What finalize leaves. *)
FinalTrue == phase = "final" => ScoresTrue /\ OutputBest

LEMMA StutterKeeps ==
  ASSUME IInv, FinalTrue, UNCHANGED vars
  PROVE  IInv' /\ FinalTrue'
<1>1. /\ config' = config /\ lm' = lm /\ phase' = phase /\ inputIds' = inputIds
      /\ beamNextScores' = beamNextScores /\ beamNextTokens' = beamNextTokens /\ beamNextIndices' = beamNextIndices
      /\ beamHyps' = beamHyps /\ doneBatch' = doneBatch /\ cache' = cache /\ found' = found /\ output' = output
  BY DEF vars
<1>2. InvType' /\ InvNew' /\ InvBeams' /\ EnoughBeams'
  BY <1>1 DEF IInv, InvType, InvNew, InvBeams, EnoughBeams
<1>3. InvScores'
  BY <1>1 DEF IInv, InvScores, LogProb
<1>4. InvHyps'
  BY <1>1 DEF IInv, InvHyps, KeepsBest, TrueHyp, HypOf, Score, LogProb
<1>5. ScoresTrue => ScoresTrue'
  BY <1>1 DEF ScoresTrue, Score, LogProb
<1>6. OutputBest => OutputBest'
  <2>1. OutputBest => (phase = "final" => BestRows(beamHyps, output, config))
    BY Zenon DEF OutputBest, BestRows, RowIs
  <2>2. (phase' = "final" => BestRows(beamHyps', output', config')) => OutputBest'
    BY Zenon DEF OutputBest, BestRows, RowIs
  <2> QED
    BY <1>1, <2>1, <2>2
<1> QED
  BY <1>1, <1>2, <1>3, <1>4, <1>5, <1>6 DEF IInv, FinalTrue

(* The invariant of the specification: the beams, their rows in the cache  *)
(* and their scores, the hypotheses kept, and what finalize makes of them. *)
THEOREM Invariance == Spec => [](IInv /\ FinalTrue)
<1>1. Init => IInv /\ FinalTrue
  BY InitEstablishes DEF Init, FinalTrue
<1>2. ASSUME IInv, FinalTrue, [Next]_vars PROVE IInv' /\ FinalTrue'
  <2>1. CASE UNCHANGED vars
    BY <1>2, <2>1, StutterKeeps
  <2>2. CASE GetFirstToken \/ GetNextToken
    BY <1>2, <2>2, SearchStep DEF FinalTrue
  <2>3. CASE Finalize
    BY <1>2, <2>3, FinalStep DEF FinalTrue
  <2> QED
    BY <1>2, <2>1, <2>2, <2>3 DEF Next
<1> QED
  BY <1>1, <1>2, PTL DEF Spec

(* Every hypothesis and every open beam has the log probability of its own *)
(* tokens, after its own sample's prompt.                                  *)
THEOREM ScoresAreTrue == Spec => []ScoresTrue
<1>1. IInv /\ FinalTrue => ScoresTrue
  BY InvImplies DEF FinalTrue
<1> QED
  BY <1>1, Invariance, PTL

(* BeamHypotheses::add keeps the best of what was found. *)
THEOREM BestAreKept == Spec => []BestKept
<1>1. IInv => BestKept
  <2> SUFFICES ASSUME IInv, phase = "run", NEW s \in Sample
               PROVE  LET kept == {h.hyp : h \in ToSet(beamHyps[s].beams)} IN
                      /\ Len(beamHyps[s].beams) <= NumBeams
                      /\ \A h \in ToSet(beamHyps[s].beams) : ~Less(h.score, beamHyps[s].worst)
                      /\ \A f \in found[s] :
                           f[2] \notin kept => ~Less(beamHyps[s].worst, Score(f[1], Len(f[2])))
    BY DEF BestKept
  <2> DEFINE h == beamHyps[s]
             kept == {r.hyp : r \in ToSet(h.beams)}
  <2>1. KeepsBest(h, found[s])
    BY DEF IInv, InvHyps
  <2> HIDE DEF h
  <2>2. /\ Len(h.beams) <= NumBeams
        /\ \A r \in ToSet(h.beams) : ~Less(r.score, h.worst)
        /\ \A f \in found[s] : HypOf(f) \in ToSet(h.beams) \/ ~Less(h.worst, Score(f[1], Len(f[2])))
    BY <2>1, KeepsBestIs
  <2>3. \A f \in found[s] : HypOf(f) \in ToSet(h.beams) => f[2] \in kept
    <3> SUFFICES ASSUME NEW f \in found[s], HypOf(f) \in ToSet(h.beams) PROVE f[2] \in kept
      OBVIOUS
    <3>1. HypOf(f).hyp = f[2]
      BY DEF HypOf
    <3> QED
      BY <3>1
  <2> QED
    BY <2>2, <2>3 DEF h
<1> QED
  BY <1>1, Invariance, PTL

(* process never runs out of beams, and a sample that is done has its      *)
(* NumBeams hypotheses.                                                    *)
THEOREM BeamsAreEnough == Spec => []EnoughBeams
<1>1. IInv => EnoughBeams
  BY DEF IInv
<1> QED
  BY <1>1, Invariance, PTL

(* finalize returns the best hypotheses, ended and padded. *)
THEOREM BestIsReturned == Spec => []OutputBest
<1>1. IInv /\ FinalTrue => OutputBest
  BY InvImplies DEF FinalTrue
<1> QED
  BY <1>1, Invariance, PTL

-----------------------------------------------------------------------------
(* The rows of the cache. *)
LEMMA PrefixIs ==
  ASSUME NEW u \in Seq(Token), NEW v \in Seq(Token), IsPrefix(u, v)
  PROVE  Len(u) <= Len(v) /\ \A l \in 1 .. Len(u) : v[l] = u[l]
<1> DEFINE n == Len(u)
<1>1. n \in Nat /\ Len(v) \in Nat /\ n <= Len(v) /\ SubSeq(u, 1, n) = SubSeq(v, 1, n)
  BY DEF IsPrefix
<1>2. SubSeq(v, 1, n) = [i \in 1 .. n |-> v[i]] /\ SubSeq(u, 1, n) = [i \in 1 .. n |-> u[i]]
  <2>1. n - 1 + 1 = n /\ \A i \in 1 .. n : i + 1 - 1 = i
    BY <1>1
  <2> QED
    BY <1>1, <2>1
<1>3. \A l \in 1 .. n : v[l] = u[l]
  <2> TAKE l \in 1 .. n
  <2>1. [i \in 1 .. n |-> v[i]][l] = [i \in 1 .. n |-> u[i]][l]
    BY <1>1, <1>2
  <2> QED
    BY <2>1
<1> QED
  BY <1>1, <1>3

LEMMA CacheStep ==
  ASSUME ~Hybrid, NEW rows, SearchReady(rows), Searched(rows), IInv',
         \A b \in Beam : ~doneBatch[SampleOf(b)] =>
           rows[b] = inputIds[b] /\ IsPrefix(Prompts[SampleOf(b) + 1], inputIds[b])
  PROVE  CacheAgrees'
<1> SUFFICES ASSUME NEW b \in Beam, ~doneBatch'[SampleOf(b)]
             PROVE  /\ IsPrefix(Prompts[SampleOf(b) + 1], inputIds'[b])
                    /\ inputIds'[b] = Append(Reordered(b)', beamNextTokens'[b])
  BY DEF CacheAgrees
<1>1. phase' = "run" /\ cache' = rows
  BY DEF Searched
<1>2. SampleOf(b) \in Sample /\ ~doneBatch[SampleOf(b)]
  BY BeamsAre DEF Searched
<1>3. IsPrefix(Prompts[SampleOf(b) + 1], inputIds'[b])
  BY <1>1 DEF IInv, InvBeams
<1> DEFINE i == beamNextIndices'[b]
           n == Len(inputIds[0])
           u == Prompts[SampleOf(b) + 1]
           r == Reordered(b)'
<1>4. i \in Beam /\ SampleOf(i) = SampleOf(b)
  BY <1>2, IndexIs
<1>5. inputIds'[b] = Append(inputIds[i], beamNextTokens'[b])
  BY InputsGrow
<1>6. /\ u \in Seq(Token) /\ Len(u) = PromptLen /\ PromptLen \in Nat
      /\ rows[b] = inputIds[b] /\ IsPrefix(u, inputIds[b])
      /\ rows[i] = inputIds[i] /\ IsPrefix(u, inputIds[i])
  BY <1>2, <1>4, PromptsAre
<1>7. inputIds[b] \in Seq(Token) /\ inputIds[i] \in Seq(Token) /\ Len(inputIds[b]) = n /\ Len(inputIds[i]) = n /\ n \in Nat
  BY <1>4, BeamsAre DEF SearchReady, InvType
<1>8. Len(rows[0]) = n
  BY BeamsAre DEF SearchReady, RowsFit
<1>9. r = [l \in DOMAIN rows[b] |-> IF l \in PromptLen + 1 .. n THEN rows[i][l] ELSE rows[b][l]]
  <2>1. AccSeqLen' = n
    BY <1>1, <1>8 DEF AccSeqLen
  <2> QED
    BY <1>1, <2>1 DEF Reordered
<1> HIDE DEF i, u, r, n
<1>10. DOMAIN rows[b] = 1 .. n
  BY <1>6, <1>7
<1>11. ASSUME NEW l \in 1 .. n PROVE r[l] = inputIds[i][l]
  <2>1. CASE l \in PromptLen + 1 .. n
    BY <2>1, <1>6, <1>9, <1>10
  <2>2. CASE l \notin PromptLen + 1 .. n
    <3>1. l \in 1 .. PromptLen
      BY <2>2, <1>6, <1>7
    <3>2. inputIds[b][l] = u[l] /\ inputIds[i][l] = u[l]
      BY <3>1, <1>6, <1>7, PrefixIs
    <3>3. r[l] = rows[b][l]
      BY <2>2, <1>9, <1>10
    <3> QED
      BY <3>2, <3>3, <1>6
  <2> QED
    BY <2>1, <2>2
<1>12. r = inputIds[i]
  <2>1. inputIds[i] = [l \in 1 .. n |-> inputIds[i][l]]
    BY <1>7
  <2>2. r = [l \in 1 .. n |-> r[l]]
    BY <1>9, <1>10
  <2> QED
    BY <1>11, <2>1, <2>2
<1> QED
  BY <1>3, <1>5, <1>12 DEF r

LEMMA CacheKept ==
  ASSUME ~Hybrid, IInv, CacheAgrees, [Next]_vars
  PROVE  CacheAgrees'
<1>1. CASE UNCHANGED vars
  BY <1>1 DEF vars, CacheAgrees, Reordered, AccSeqLen
<1>2. CASE GetFirstToken
  <2> DEFINE rows == [b \in Beam |-> Prompts[SampleOf(b) + 1]]
  <2>1. SearchReady(rows) /\ Searched(rows)
    BY <1>2, FirstStep
  <2>2. IInv'
    BY <1>2, SearchStep
  <2>3. ASSUME NEW b \in Beam PROVE rows[b] = inputIds[b] /\ IsPrefix(Prompts[SampleOf(b) + 1], inputIds[b])
    <3>1. inputIds[b] = Prompts[SampleOf(b) + 1]
      BY <1>2 DEF GetFirstToken, IInv, InvNew
    <3>2. Prompts[SampleOf(b) + 1] \in Seq(Token)
      BY BeamsAre, PromptsAre
    <3>3. IsPrefix(Prompts[SampleOf(b) + 1], Prompts[SampleOf(b) + 1])
      BY <3>2 DEF IsPrefix
    <3> QED
      BY <3>1, <3>3
  <2> HIDE DEF rows
  <2> QED
    BY <2>1, <2>2, <2>3, CacheStep
<1>3. CASE GetNextToken
  <2> DEFINE rows == [b \in Beam |-> Append(Reordered(b), beamNextTokens[b])]
  <2>1. SearchReady(rows) /\ Searched(rows)
    BY <1>3, NextStep
  <2>2. IInv'
    BY <1>3, SearchStep
  <2>3. ASSUME NEW b \in Beam, ~doneBatch[SampleOf(b)]
        PROVE  rows[b] = inputIds[b] /\ IsPrefix(Prompts[SampleOf(b) + 1], inputIds[b])
    BY <1>3, <2>3 DEF GetNextToken, CacheAgrees
  <2> HIDE DEF rows
  <2> QED
    BY <2>1, <2>2, <2>3, CacheStep
<1>4. CASE Finalize
  BY <1>4 DEF Finalize, CacheAgrees
<1> QED
  BY <1>1, <1>2, <1>3, <1>4 DEF Next

(* The scorer's indices, the copy of the input and the rearranged cache    *)
(* agree, where one decoder keeps the cache (with a HybridModel they do    *)
(* not: run beam_hybrid).                                                  *)
THEOREM CacheIsOwn == ASSUME ~Hybrid PROVE Spec => []CacheAgrees
<1>1. Init => CacheAgrees
  BY DEF Init, CacheAgrees
<1>2. IInv /\ FinalTrue /\ CacheAgrees /\ [Next]_vars => CacheAgrees'
  BY CacheKept
<1> QED
  BY <1>1, <1>2, Invariance, PTL DEF Spec
=============================================================================
