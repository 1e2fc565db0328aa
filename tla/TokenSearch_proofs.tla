------------------------ MODULE TokenSearch_proofs ------------------------
(***************************************************************************)
(* Greedy and sampling search, for every vocabulary, number of ranks and   *)
(* threads, batch, prompt and set of stop words.                           *)
(***************************************************************************)
EXTENDS TokenSearch, SequenceTheorems, FiniteSetTheorems, FunctionTheorems, WellFoundedInduction, TLAPS

-----------------------------------------------------------------------------
(* Facts about the naturals.  Induction is for a property given as a set:  *)
(* the provers cannot apply it to one given as an operator.                *)

(* A non-empty set of naturals has a least element. *)
LEMMA LeastNatural ==
  ASSUME NEW T \in SUBSET Nat, T # {}
  PROVE  \E x \in T : \A y \in T : x <= y
<1>1. PICK x \in T : \A y \in T : ~(<<y, x>> \in OpToRel(<, Nat))
  BY WFMin, NatLessThanWellFounded
<1>2. \A y \in T : ~(y < x)
  BY <1>1 DEF OpToRel
<1> QED
  BY <1>2

(* Induction, for a property given as a set. *)
LEMMA InductionOnNat ==
  ASSUME NEW T, 0 \in T, \A n \in Nat : n \in T => n + 1 \in T
  PROVE  Nat \subseteq T
<1> SUFFICES ASSUME Nat \ T # {} PROVE FALSE
  OBVIOUS
<1>1. PICK x \in Nat \ T : \A y \in Nat \ T : x <= y
  BY LeastNatural
<1>2. x # 0 /\ x - 1 \in Nat
  BY <1>1
<1>3. x - 1 \in T
  BY <1>1, <1>2
<1> QED
  BY <1>1, <1>2, <1>3

(* Division with remainder by a positive number. *)
LEMMA DivMod ==
  ASSUME NEW m \in Nat, NEW n \in Nat \ {0}
  PROVE  /\ m \div n \in Nat /\ m % n \in 0 .. n-1
         /\ m = n * (m \div n) + (m % n)
OBVIOUS

(* The quotient and the remainder are the only ones. *)
LEMMA DivModUnique ==
  ASSUME NEW n \in Nat \ {0}, NEW q \in Nat, NEW r \in 0 .. n-1
  PROVE  (n * q + r) \div n = q /\ (n * q + r) % n = r
OBVIOUS

LEMMA DivModIs ==
  ASSUME NEW a, NEW n \in Nat \ {0}, NEW q \in Nat, NEW r \in 0 .. n-1, a = n * q + r
  PROVE  a \div n = q /\ a % n = r
BY DivModUnique

(* Products keep the order. *)
LEMMA MulMono ==
  ASSUME NEW a \in Nat, NEW b \in Nat, NEW c \in Nat, a <= b
  PROVE  c * a \in Nat /\ c * b \in Nat /\ c * a <= c * b
<1>1. PICK d \in Nat : b = a + d
  <2>1. b - a \in Nat /\ b = a + (b - a)
    OBVIOUS
  <2> QED
    BY <2>1
<1>2. c * b = c * a + c * d /\ c * d \in Nat /\ c * a \in Nat
  BY <1>1
<1> QED
  BY <1>2

(* Element i of row b of a matrix with rows of length n, stored flat. *)
LEMMA FlatIndex ==
  ASSUME NEW m \in Nat, NEW n \in Nat \ {0}, NEW b \in 0 .. m-1, NEW i \in 0 .. n-1
  PROVE  /\ b * n + i \in 0 .. m*n - 1
         /\ (b * n + i) \div n = b /\ (b * n + i) % n = i
<1>1. b \in Nat /\ b <= m - 1 /\ m - 1 \in Nat /\ i \in Nat
  OBVIOUS
<1>2. b * n + i = n * b + i
  BY <1>1
<1>3. (b * n + i) \div n = b /\ (b * n + i) % n = i
  BY <1>1, <1>2, DivModUnique
<1>4. n * b \in Nat /\ n * b <= n * (m - 1) /\ n * (m - 1) \in Nat
  BY <1>1, MulMono
<1>5. n * (m - 1) = m * n - n /\ m * n \in Nat
  OBVIOUS
<1> QED
  BY <1>1, <1>2, <1>3, <1>4, <1>5

FlatAt(x, m, n, b, i) == x \in 0 .. m*n - 1 /\ x \div n = b /\ x % n = i

LEMMA FlatAtIndex ==
  ASSUME NEW m \in Nat, NEW n \in Nat \ {0}, NEW b \in 0 .. m-1, NEW i \in 0 .. n-1, NEW x, x = b * n + i
  PROVE  FlatAt(x, m, n, b, i)
BY FlatIndex DEF FlatAt

-----------------------------------------------------------------------------
(* Sequences. *)
LEMMA SeqIs ==
  ASSUME NEW S, NEW s \in Seq(S)
  PROVE  /\ Len(s) \in Nat /\ DOMAIN s = 1 .. Len(s)
         /\ s \in [1 .. Len(s) -> S]
         /\ \A i \in 1 .. Len(s) : s[i] \in S
BY LenProperties, ElementOfSeq

LEMMA FunctionIsSeq ==
  ASSUME NEW S, NEW n \in Nat, NEW f \in [1 .. n -> S]
  PROVE  f \in Seq(S) /\ Len(f) = n
BY IsASeq, LenProperties

LEMMA SubSeqIs ==
  ASSUME NEW S, NEW s \in Seq(S), NEW m \in Nat, NEW n \in 0 .. Len(s), m >= 1, m <= n + 1
  PROVE  /\ SubSeq(s, m, n) \in Seq(S) /\ Len(SubSeq(s, m, n)) = (n - m) + 1
         /\ \A i \in 1 .. (n - m) + 1 : SubSeq(s, m, n)[i] = s[(m + i) - 1]
<1>1. \A i \in m .. n : s[i] \in S
  BY SeqIs
<1> QED
  BY <1>1, SubSeqProperties

LEMMA InsertAtIs ==
  ASSUME NEW S, NEW s \in Seq(S), NEW e \in S, NEW k \in 1 .. Len(s) + 1
  PROVE  InsertAt(s, k, e) = [j \in 1 .. Len(s) + 1 |-> IF j < k THEN s[j] ELSE IF j = k THEN e ELSE s[j-1]]
<1> DEFINE a == SubSeq(s, 1, k - 1)
           c == SubSeq(s, k, Len(s))
           f == [j \in 1 .. Len(s) + 1 |-> IF j < k THEN s[j] ELSE IF j = k THEN e ELSE s[j-1]]
<1>1. Len(s) \in Nat /\ \A i \in 1 .. Len(s) : s[i] \in S
  BY SeqIs
<1>2. a \in Seq(S) /\ Len(a) = k - 1 /\ \A i \in 1 .. k - 1 : a[i] = s[i]
  <2>1. 1 \in Nat /\ k - 1 \in 0 .. Len(s) /\ 1 <= (k - 1) + 1 /\ ((k - 1) - 1) + 1 = k - 1
    BY <1>1
  <2> QED
    BY <2>1, SubSeqIs
<1>3. c \in Seq(S) /\ Len(c) = (Len(s) - k) + 1 /\ \A i \in 1 .. (Len(s) - k) + 1 : c[i] = s[(k + i) - 1]
  <2>1. k \in Nat /\ Len(s) \in 0 .. Len(s) /\ k <= Len(s) + 1 /\ k >= 1
    BY <1>1
  <2> QED
    BY <2>1, SubSeqIs
<1>4. InsertAt(s, k, e) = a \o <<e>> \o c
  BY DEF InsertAt
<1> HIDE DEF a, c
<1>5. <<e>> \in Seq(S) /\ Len(<<e>>) = 1 /\ <<e>>[1] = e
  OBVIOUS
<1> DEFINE d == a \o <<e>>
<1>6. d \in Seq(S) /\ Len(d) = k /\ \A i \in 1 .. k : d[i] = IF i <= k - 1 THEN a[i] ELSE <<e>>[i - (k - 1)]
  <2>1. (k - 1) + 1 = k
    OBVIOUS
  <2> QED
    BY <1>2, <1>5, <2>1, ConcatProperties
<1> DEFINE t == d \o c
<1>7. \A i \in 1 .. k : d[i] = IF i < k THEN s[i] ELSE e
  BY <1>2, <1>5, <1>6
<1> HIDE DEF d
<1>8. /\ t \in Seq(S) /\ Len(t) = Len(s) + 1
      /\ \A i \in 1 .. Len(s) + 1 : t[i] = IF i <= k THEN d[i] ELSE c[i - k]
  <2>1. k + ((Len(s) - k) + 1) = Len(s) + 1
    BY <1>1
  <2>2. /\ t \in Seq(S) /\ Len(t) = Len(d) + Len(c)
        /\ \A i \in 1 .. Len(d) + Len(c) : t[i] = IF i <= Len(d) THEN d[i] ELSE c[i - Len(d)]
    BY <1>3, <1>6, ConcatProperties
  <2> QED
    BY <1>3, <1>6, <2>1, <2>2
<1> HIDE DEF t
<1>9. \A i \in 1 .. Len(s) + 1 : t[i] = f[i]
  <2> TAKE i \in 1 .. Len(s) + 1
  <2>1. CASE i <= k
    BY <1>7, <1>8, <2>1
  <2>2. CASE i > k
    <3>1. i - k \in 1 .. (Len(s) - k) + 1 /\ (k + (i - k)) - 1 = i - 1
      BY <1>1, <2>2
    <3> QED
      BY <1>3, <1>8, <2>2, <3>1
  <2> QED
    BY <2>1, <2>2, <1>1
<1>10. t = [i \in 1 .. Len(s) + 1 |-> t[i]]
  BY <1>8, SeqIs
<1> QED
  BY <1>4, <1>9, <1>10 DEF t, d

(* N rows of length len, one after the other. *)
HoldsRows(out, N, len) == Len(out) = N * len

(* syncToken: the output after n tokens have been inserted. *)
Cell(out, toks, len, q, i) == IF i + 1 = len THEN toks[q + 1] ELSE out[q * (len - 1) + i + 1]
Inserted(out, toks, len, n) ==
  [i \in 1 .. Len(toks) * (len - 1) + n |->
     IF i <= n * len THEN Cell(out, toks, len, (i - 1) \div len, (i - 1) % len) ELSE out[i - n]]

LEMMA CellType ==
  ASSUME NEW S, NEW n \in Nat, NEW len \in Nat \ {0}, NEW out \in Seq(S), NEW toks \in [1 .. n -> S],
         HoldsRows(out, n, len - 1), NEW q \in 0 .. n-1, NEW i \in 0 .. len-1
  PROVE  Cell(out, toks, len, q, i) \in S
<1>1. CASE i + 1 = len
  BY <1>1 DEF Cell
<1>2. CASE i + 1 # len
  <2> DEFINE old == len - 1
             x == q * old + i
  <2>1. old \in Nat \ {0} /\ i \in 0 .. old - 1
    BY <1>2
  <2>2. FlatAt(x, n, old, q, i)
    BY <2>1, FlatAtIndex
  <2>3. x + 1 \in 1 .. Len(out)
    BY <2>2 DEF FlatAt, HoldsRows
  <2> QED
    BY <1>2, <2>3, SeqIs DEF Cell
<1> QED
  BY <1>1, <1>2

LEMMA InsertedType ==
  ASSUME NEW S, NEW N \in Nat, NEW len \in Nat \ {0}, NEW out \in Seq(S), NEW toks \in [1 .. N -> S],
         HoldsRows(out, N, len - 1), NEW n \in 0 .. N
  PROVE  /\ Inserted(out, toks, len, n) \in Seq(S)
         /\ Len(Inserted(out, toks, len, n)) = Len(out) + n
<1> DEFINE L == Len(out) + n
<1>1. Len(out) \in Nat /\ L \in Nat /\ Len(toks) = N
  BY SeqIs, FunctionIsSeq
<1>2. ASSUME NEW i \in 1 .. L
      PROVE  (IF i <= n * len THEN Cell(out, toks, len, (i - 1) \div len, (i - 1) % len) ELSE out[i - n]) \in S
  <2>1. CASE i <= n * len
    <3> DEFINE q == (i - 1) \div len
    <3>1. i - 1 \in Nat /\ i - 1 < n * len
      BY <2>1, <1>1
    <3>2. q \in Nat /\ (i - 1) % len \in 0 .. len-1 /\ i - 1 = len * q + ((i - 1) % len)
      BY <3>1, DivMod
    <3>3. q < n
      <4> SUFFICES ASSUME q >= n PROVE FALSE
        BY <3>2
      <4>1. len * n <= len * q /\ len * n \in Nat /\ len * q \in Nat
        BY <3>2, MulMono
      <4>2. n * len = len * n
        OBVIOUS
      <4> HIDE DEF q
      <4> QED
        BY <3>1, <3>2, <4>1, <4>2
    <3>4. q \in 0 .. N-1
      BY <3>2, <3>3
    <3> QED
      BY <2>1, <3>2, <3>4, CellType
  <2>2. CASE ~(i <= n * len)
    <3>1. n * len = n * (len - 1) + n /\ n * (len - 1) \in Nat
      OBVIOUS
    <3>2. i - n \in 1 .. Len(out)
      BY <2>2, <3>1, <1>1
    <3> QED
      BY <2>2, <3>2, SeqIs
  <2> QED
    BY <2>1, <2>2
<1>3. Inserted(out, toks, len, n) \in [1 .. L -> S]
  BY <1>1, <1>2 DEF Inserted, HoldsRows
<1> HIDE DEF L
<1>4. Inserted(out, toks, len, n) \in Seq(S) /\ Len(Inserted(out, toks, len, n)) = L
  BY <1>1, <1>3, FunctionIsSeq
<1> QED
  BY <1>4 DEF L

InsertsNext(out, toks, len, n) ==
  InsertAt(Inserted(out, toks, len, n - 1), n * len, toks[n]) = Inserted(out, toks, len, n)

LEMMA InsertedNext ==
  ASSUME NEW S, NEW N \in Nat, NEW len \in Nat \ {0}, NEW out \in Seq(S), NEW toks \in [1 .. N -> S],
         HoldsRows(out, N, len - 1), NEW n \in 1 .. N
  PROVE  InsertsNext(out, toks, len, n)
<1> DEFINE s == Inserted(out, toks, len, n - 1)
           k == n * len
           f == [j \in 1 .. Len(s) + 1 |-> IF j < k THEN s[j] ELSE IF j = k THEN toks[n] ELSE s[j-1]]
           m == n - 1
           lo == m * len
<1>1. m \in 0 .. N /\ m \in Nat /\ Len(out) \in Nat /\ Len(toks) = N
  BY SeqIs, FunctionIsSeq
<1>2. s \in Seq(S) /\ Len(s) = Len(out) + m
  BY <1>1, InsertedType
<1>3. k = lo + len /\ lo \in Nat
  BY <1>1
<1>4. k \in 1 .. Len(s) + 1
  <2>1. k = n * (len - 1) + n
    OBVIOUS
  <2>2. (len - 1) * n <= (len - 1) * N /\ (len - 1) * n \in Nat
    BY MulMono
  <2>3. (len - 1) * n = n * (len - 1) /\ (len - 1) * N = N * (len - 1)
    OBVIOUS
  <2> QED
    BY <2>1, <2>2, <2>3, <1>1, <1>2, <1>3 DEF HoldsRows
<1>5. InsertAt(s, k, toks[n]) = f
  <2> HIDE DEF s, k
  <2>1. toks[n] \in S
    OBVIOUS
  <2> QED
    BY <1>2, <1>4, <2>1, InsertAtIs
<1>6. Len(s) + 1 = Len(out) + n
  BY <1>1, <1>2
<1>7. s = [i \in 1 .. Len(out) + m |->
             IF i <= lo THEN Cell(out, toks, len, (i - 1) \div len, (i - 1) % len) ELSE out[i - m]]
  BY <1>1 DEF Inserted, HoldsRows
<1>8. Inserted(out, toks, len, n) = [i \in 1 .. Len(out) + n |->
             IF i <= k THEN Cell(out, toks, len, (i - 1) \div len, (i - 1) % len) ELSE out[i - n]]
  BY <1>1 DEF Inserted, HoldsRows
<1>9. ASSUME NEW j \in 1 .. Len(out) + n, lo < j, j <= k
      PROVE  Cell(out, toks, len, (j - 1) \div len, (j - 1) % len) = Cell(out, toks, len, m, (j - 1) - lo)
  <2>1. (j - 1) - lo \in 0 .. len-1 /\ j - 1 = len * m + ((j - 1) - lo)
    BY <1>3, <1>9, <1>1
  <2>2. (j - 1) \div len = m /\ (j - 1) % len = (j - 1) - lo
    BY <2>1, <1>1, DivModIs
  <2> QED
    BY <2>2
<1>10. m * (len - 1) = lo - m
  BY <1>1
<1> HIDE DEF s, k, lo, m
<1>11. ASSUME NEW j \in 1 .. Len(out) + n
       PROVE  f[j] = Inserted(out, toks, len, n)[j]
  <2>0. m = n - 1 /\ n \in Nat
    BY DEF m
  <2>1. CASE j <= lo
    <3>1. j < k /\ j <= k /\ j \in 1 .. Len(out) + m /\ j \in 1 .. Len(s) + 1
      BY <2>1, <1>1, <1>2, <1>3, <1>4, <2>0
    <3> QED
      <4>1. f[j] = s[j]
        BY <3>1
      <4>2. s[j] = Cell(out, toks, len, (j - 1) \div len, (j - 1) % len)
        BY <2>1, <3>1, <1>7
      <4>3. Inserted(out, toks, len, n)[j] = Cell(out, toks, len, (j - 1) \div len, (j - 1) % len)
        BY <3>1, <1>8
      <4> QED
        BY <4>1, <4>2, <4>3
  <2>2. CASE lo < j /\ j < k
    <3>1. s[j] = out[j - m]
      BY <2>2, <2>0, <1>1, <1>2, <1>3, <1>4, <1>7
    <3>2. Cell(out, toks, len, m, (j - 1) - lo) = out[m * (len - 1) + ((j - 1) - lo) + 1]
      BY <2>2, <1>3 DEF Cell
    <3>3. m * (len - 1) + ((j - 1) - lo) + 1 = j - m
      BY <1>1, <1>3, <1>10
    <3> QED
      BY <2>2, <3>1, <3>2, <3>3, <1>6, <1>8, <1>9, <1>3
  <2>3. CASE j = k
    <3>1. Cell(out, toks, len, m, (j - 1) - lo) = toks[m + 1]
      BY <2>3, <1>3 DEF Cell
    <3>2. m + 1 = n /\ lo < j
      BY <2>0, <2>3, <1>3
    <3> QED
      BY <2>3, <3>1, <3>2, <1>6, <1>8, <1>9
  <2>4. CASE j > k
    <3>1. j - 1 \in 1 .. Len(out) + m /\ ~(j - 1 <= lo) /\ (j - 1) - m = j - n /\ j \in 1 .. Len(s) + 1
      BY <2>0, <2>4, <1>1, <1>3, <1>4, <1>6
    <3>2. s[j - 1] = out[j - n]
      BY <3>1, <1>7
    <3> QED
      BY <2>4, <3>1, <3>2, <1>8, <1>3
  <2> QED
    BY <2>1, <2>2, <2>3, <2>4, <1>3
<1> QED
  BY <1>5, <1>6, <1>8, <1>11 DEF s, k, InsertsNext

(* The row of sample b in an output of rows of length len. *)
RowOf(out, len, b) == SubSeq(out, (b-1) * len + 1, b * len)

LEMMA RowOfIs ==
  ASSUME NEW S, NEW N \in Nat, NEW len \in Nat, NEW out \in Seq(S), HoldsRows(out, N, len), NEW b \in 1 .. N
  PROVE  /\ RowOf(out, len, b) \in Seq(S) /\ Len(RowOf(out, len, b)) = len
         /\ \A i \in 1 .. len : RowOf(out, len, b)[i] = out[(b-1) * len + i]
<1> DEFINE lo == (b-1) * len
           hi == b * len
<1>1. lo \in Nat /\ hi = lo + len
  OBVIOUS
<1>2. hi <= Len(out)
  <2>1. len * b <= len * N
    BY MulMono
  <2>2. len * b = hi /\ len * N = N * len
    OBVIOUS
  <2> QED
    BY <2>1, <2>2 DEF HoldsRows
<1>3. RowOf(out, len, b) = SubSeq(out, lo + 1, hi)
  BY DEF RowOf
<1> HIDE DEF lo, hi
<1>4. lo + 1 \in Nat /\ hi \in 0 .. Len(out) /\ lo + 1 >= 1 /\ lo + 1 <= hi + 1 /\ (hi - (lo + 1)) + 1 = len
  BY <1>1, <1>2, SeqIs
<1>5. /\ SubSeq(out, lo + 1, hi) \in Seq(S) /\ Len(SubSeq(out, lo + 1, hi)) = len
      /\ \A i \in 1 .. len : SubSeq(out, lo + 1, hi)[i] = out[((lo + 1) + i) - 1]
  BY <1>4, SubSeqIs
<1>6. \A i \in 1 .. len : ((lo + 1) + i) - 1 = lo + i
  BY <1>1
<1> QED
  BY <1>3, <1>5, <1>6 DEF lo

InsertsTokens(out, toks, N, len) ==
  /\ HoldsRows(Insert(out, toks, len), N, len)
  /\ \A b \in 1 .. N : RowOf(Insert(out, toks, len), len, b) = Append(RowOf(out, len - 1, b), toks[b])

(* Every row gets its own token at its end, although the rows before it    *)
(* have moved it.                                                          *)
LEMMA InsertGrows ==
  ASSUME NEW S, NEW N \in Nat, NEW len \in Nat \ {0}, NEW out \in Seq(S), NEW toks \in [1 .. N -> S],
         HoldsRows(out, N, len - 1)
  PROVE  Insert(out, toks, len) \in Seq(S) /\ InsertsTokens(out, toks, N, len)
<1> DEFINE G(n) == Inserted(out, toks, len, n)
           body(f) == [n \in 0 .. N |-> IF n = 0 THEN out ELSE InsertAt(f[n-1], n * len, toks[n])]
           ins == CHOOSE f : f = body(f)
           g == [n \in 0 .. N |-> G(n)]
<1>1. Len(toks) = N /\ toks \in Seq(S) /\ Len(out) \in Nat
  BY FunctionIsSeq, SeqIs
<1>2. Insert(out, toks, len) = ins[N]
  BY <1>1 DEF Insert
<1>3. G(0) = out
  <2>1. Len(out) + 0 = Len(out) /\ \A i \in 1 .. Len(out) : ~(i <= 0 * len) /\ i - 0 = i
    BY <1>1
  <2>2. out = [i \in 1 .. Len(out) |-> out[i]]
    BY SeqIs
  <2> QED
    BY <1>1, <2>1, <2>2 DEF Inserted, HoldsRows
<1>4. ASSUME NEW n \in 1 .. N PROVE InsertAt(G(n-1), n * len, toks[n]) = G(n)
  <2>1. InsertsNext(out, toks, len, n)
    BY InsertedNext
  <2> QED
    BY <2>1 DEF InsertsNext
<1> HIDE DEF G
<1>5. g = body(g)
  <2>1. ASSUME NEW n \in 0 .. N PROVE g[n] = body(g)[n]
    <3>1. CASE n = 0
      BY <3>1, <1>3
    <3>2. CASE n # 0
      <4>1. n \in 1 .. N /\ n - 1 \in 0 .. N
        BY <3>2
      <4>2. g[n-1] = G(n-1) /\ g[n] = G(n)
        BY <4>1
      <4> HIDE DEF g
      <4> QED
        BY <3>2, <4>1, <4>2, <1>4
    <3> QED
      BY <3>1, <3>2
  <2> QED
    BY <2>1
<1>6. ins = body(ins)
  <2> HIDE DEF body, g
  <2> QED
    BY <1>5
<1> DEFINE T == {n \in Nat : n <= N => ins[n] = G(n)}
<1>7. 0 \in T
  <2> HIDE DEF ins
  <2>1. ins[0] = out
    BY <1>6
  <2> QED
    BY <2>1, <1>3
<1>8. ASSUME NEW n \in Nat, n \in T PROVE n + 1 \in T
  <2> HIDE DEF ins
  <2> SUFFICES ASSUME n + 1 <= N PROVE ins[n + 1] = G(n + 1)
    OBVIOUS
  <2>1. n + 1 \in 1 .. N /\ n + 1 \in 0 .. N /\ (n + 1) - 1 = n /\ n <= N /\ n + 1 # 0
    OBVIOUS
  <2>2. ins[n + 1] = InsertAt(ins[n], (n + 1) * len, toks[n + 1])
    BY <1>6, <2>1
  <2>3. InsertAt(G((n + 1) - 1), (n + 1) * len, toks[n + 1]) = G(n + 1)
    BY <1>4, <2>1
  <2> QED
    BY <1>8, <2>1, <2>2, <2>3
<1>9. ins[N] = G(N)
  <2> HIDE DEF T
  <2>1. Nat \subseteq T
    BY <1>7, <1>8, InductionOnNat
  <2> QED
    BY <2>1 DEF T
<1> HIDE DEF ins
<1> DEFINE o == G(N)
<1>10. o \in Seq(S) /\ HoldsRows(o, N, len)
  <2>1. o \in Seq(S) /\ Len(o) = Len(out) + N
    BY InsertedType DEF G
  <2>2. N * len = N * (len - 1) + N
    OBVIOUS
  <2> QED
    BY <2>1, <2>2 DEF HoldsRows
<1>11. ASSUME NEW b \in 1 .. N
       PROVE  RowOf(o, len, b) = Append(RowOf(out, len - 1, b), toks[b])
  <2> DEFINE r == RowOf(o, len, b)
             old == RowOf(out, len - 1, b)
             a == Append(old, toks[b])
             q == b - 1
  <2>1. r \in Seq(S) /\ Len(r) = len /\ \A i \in 1 .. len : r[i] = o[(b-1) * len + i]
    <3> HIDE DEF o
    <3> QED
      BY <1>10, RowOfIs
  <2>2. old \in Seq(S) /\ Len(old) = len - 1 /\ \A i \in 1 .. len - 1 : old[i] = out[(b-1) * (len - 1) + i]
    <3>1. len - 1 \in Nat
      OBVIOUS
    <3> QED
      BY <3>1, RowOfIs
  <2> HIDE DEF old
  <2>3. /\ a \in Seq(S) /\ Len(a) = len /\ a[len] = toks[b]
        /\ \A i \in 1 .. len - 1 : a[i] = old[i]
    BY <2>2, AppendProperties
  <2>4. ASSUME NEW i \in 1 .. len PROVE r[i] = Cell(out, toks, len, q, i - 1)
    <3> DEFINE x == (b-1) * len + i
               y == q * len + (i - 1)
    <3>1. q \in 0 .. N-1 /\ i - 1 \in 0 .. len-1 /\ y + 1 = x
      OBVIOUS
    <3>2. FlatAt(y, N, len, q, i - 1)
      BY <3>1, FlatAtIndex
    <3>3. y \in 0 .. N * len - 1 /\ y \div len = q /\ y % len = i - 1
      BY <3>2 DEF FlatAt
    <3>4. N * len = N * (len - 1) + N /\ N * len \in Nat
      OBVIOUS
    <3> HIDE DEF y
    <3>5. x \in 1 .. N * (len - 1) + N /\ x <= N * len /\ x - 1 = y
      BY <3>1, <3>3, <3>4
    <3> HIDE DEF x
    <3>6. o[x] = Cell(out, toks, len, q, i - 1)
      BY <3>3, <3>5, <1>1 DEF G, Inserted
    <3> QED
      BY <2>1, <3>6 DEF x
  <2>5. ASSUME NEW i \in 1 .. len PROVE a[i] = Cell(out, toks, len, q, i - 1)
    <3>1. CASE i = len
      BY <3>1, <2>3 DEF Cell
    <3>2. CASE i # len
      <4>1. i \in 1 .. len - 1 /\ (i - 1) + 1 # len
        BY <3>2
      <4>2. q * (len - 1) + (i - 1) + 1 = (b-1) * (len - 1) + i
        OBVIOUS
      <4> QED
        BY <4>1, <4>2, <2>2, <2>3 DEF Cell
    <3> QED
      BY <3>1, <3>2
  <2> HIDE DEF r, a, q
  <2>6. r = a
    BY <2>1, <2>3, <2>4, <2>5, SeqEqual
  <2> QED
    BY <2>6 DEF r, a, old
<1> QED
  BY <1>2, <1>9, <1>10, <1>11 DEF InsertsTokens

(* The ids of a call are its prompts, row after row. *)
LEMMA IdsAreRows ==
  ASSUME NEW p \in Inputs
  PROVE  /\ Len(p) \in Nat \ {0} /\ DOMAIN p = 1 .. Len(p) /\ Len(p[1]) \in Nat
         /\ \A b \in 1 .. Len(p) : p[b] \in Seq(Token) /\ Len(p[b]) = Len(p[1])
         /\ Ids(p, Len(p[1])) \in Seq(Token)
         /\ HoldsRows(Ids(p, Len(p[1])), Len(p), Len(p[1]))
         /\ \A b \in 1 .. Len(p) : RowOf(Ids(p, Len(p[1])), Len(p[1]), b) = p[b]
<1> DEFINE N == Len(p)
           len == Len(p[1])
           o == Ids(p, len)
<1>1. p \in Seq(Seq(Token)) /\ p # <<>> /\ \A b \in DOMAIN p : Len(p[b]) = len
  BY InputAssumption
<1>2. N \in Nat \ {0} /\ DOMAIN p = 1 .. N
  BY <1>1, SeqIs, EmptySeq
<1>3. \A b \in 1 .. N : p[b] \in Seq(Token) /\ Len(p[b]) = len
  BY <1>1, <1>2, SeqIs
<1>4. len \in Nat /\ N * len \in Nat
  BY <1>2, <1>3, SeqIs
<1> HIDE DEF N, len
<1>5. ASSUME NEW i \in 1 .. N * len
      PROVE  p[((i-1) \div len) + 1][((i-1) % len) + 1] \in Token
  <2> DEFINE q == (i-1) \div len
             m == (i-1) % len
  <2>1. len \in Nat \ {0} /\ i - 1 \in Nat /\ i - 1 < N * len
    <3>1. CASE len = 0
      BY <3>1, <1>4, <1>2
    <3> QED
      BY <3>1, <1>4
  <2>2. q \in Nat /\ m \in 0 .. len-1 /\ i - 1 = len * q + m
    BY <2>1, DivMod
  <2>3. q < N
    <3> SUFFICES ASSUME q >= N PROVE FALSE
      BY <2>2, <1>2
    <3> HIDE DEF q, m
    <3>1. len * N <= len * q /\ len * N \in Nat /\ len * q \in Nat
      BY <2>2, <1>2, <1>4, MulMono
    <3>2. N * len = len * N
      BY <1>2, <1>4
    <3> QED
      BY <2>1, <2>2, <3>1, <3>2
  <2> HIDE DEF q, m
  <2>4. q + 1 \in 1 .. N /\ m + 1 \in 1 .. len
    BY <2>1, <2>2, <2>3, <1>2, <1>4
  <2>5. p[q + 1][m + 1] \in Token
    BY <2>4, <1>3, SeqIs
  <2> QED
    BY <2>5 DEF q, m
<1>6. o \in [1 .. N * len -> Token]
  BY <1>5 DEF Ids, N
<1>7. o \in Seq(Token) /\ HoldsRows(o, N, len)
  BY <1>4, <1>6, FunctionIsSeq DEF HoldsRows
<1>8. ASSUME NEW b \in 1 .. N PROVE RowOf(o, len, b) = p[b]
  <2> DEFINE r == RowOf(o, len, b)
  <2>1. r \in Seq(Token) /\ Len(r) = len /\ \A i \in 1 .. len : r[i] = o[(b-1) * len + i]
    BY <1>2, <1>4, <1>7, RowOfIs
  <2>2. ASSUME NEW i \in 1 .. len PROVE r[i] = p[b][i]
    <3> DEFINE x == (b-1) * len + i
               y == (b-1) * len + (i - 1)
    <3>1. b - 1 \in 0 .. N-1 /\ i - 1 \in 0 .. len-1 /\ y + 1 = x /\ len \in Nat \ {0} /\ N \in Nat
      BY <1>2, <1>4
    <3>2. FlatAt(y, N, len, b - 1, i - 1)
      BY <3>1, FlatAtIndex
    <3>3. y \in 0 .. N * len - 1 /\ y \div len = b - 1 /\ y % len = i - 1
      BY <3>2 DEF FlatAt
    <3> HIDE DEF y
    <3>4. x \in 1 .. N * len /\ x - 1 = y
      BY <3>1, <3>3, <1>4
    <3> HIDE DEF x
    <3>5. o[x] = p[((x-1) \div len) + 1][((x-1) % len) + 1]
      BY <3>4 DEF Ids, N
    <3>6. (b - 1) + 1 = b /\ (i - 1) + 1 = i
      BY <1>2, <1>4
    <3> QED
      BY <2>1, <3>3, <3>4, <3>5, <3>6 DEF x
  <2> HIDE DEF r
  <2> QED
    BY <2>1, <2>2, <1>3, SeqEqual DEF r
<1> QED
  BY <1>2, <1>3, <1>4, <1>7, <1>8 DEF N, len

LEMMA AppendIs ==
  ASSUME NEW S, NEW g \in Seq(S), NEW t \in S
  PROVE  /\ Append(g, t) \in Seq(S) /\ Len(Append(g, t)) = Len(g) + 1 /\ Len(g) \in Nat
         /\ \A i \in 1 .. Len(g) : Append(g, t)[i] = g[i]
         /\ Append(g, t)[Len(g) + 1] = t
         /\ ToSet(Append(g, t)) = ToSet(g) \cup {t}
<1> DEFINE h == Append(g, t)
<1>1. /\ h \in Seq(S) /\ Len(h) = Len(g) + 1 /\ Len(g) \in Nat
      /\ \A i \in 1 .. Len(g) : h[i] = g[i]
      /\ h[Len(g) + 1] = t
  BY AppendProperties, SeqIs
<1> HIDE DEF h
<1>2. DOMAIN h = 1 .. Len(g) + 1 /\ DOMAIN g = 1 .. Len(g)
  BY <1>1, SeqIs
<1>3. 1 .. Len(g) + 1 = 1 .. Len(g) \cup {Len(g) + 1}
  BY <1>1
<1>4. ToSet(h) = {h[i] : i \in 1 .. Len(g)} \cup {h[Len(g) + 1]}
  BY <1>2, <1>3 DEF ToSet
<1>5. {h[i] : i \in 1 .. Len(g)} = {g[i] : i \in 1 .. Len(g)}
  BY <1>1
<1> QED
  BY <1>1, <1>2, <1>4, <1>5 DEF h, ToSet

(* The tokens behind the prompt grow with the row. *)
LEMMA GeneratedGrows ==
  ASSUME NEW S, NEW x \in Seq(S), NEW t \in S, NEW m \in 0 .. Len(x)
  PROVE  /\ SubSeq(x, m + 1, Len(x)) \in Seq(S)
         /\ SubSeq(Append(x, t), m + 1, Len(x) + 1) = Append(SubSeq(x, m + 1, Len(x)), t)
<1> DEFINE h == Append(x, t)
           g == SubSeq(x, m + 1, Len(x))
           l == SubSeq(h, m + 1, Len(x) + 1)
           r == Append(g, t)
           n == Len(x) - m
<1>1. Len(x) \in Nat /\ n \in Nat
  BY SeqIs
<1>2. h \in Seq(S) /\ Len(h) = Len(x) + 1 /\ \A i \in 1 .. Len(x) : h[i] = x[i]
  BY AppendIs
<1>2a. h[Len(x) + 1] = t
  BY AppendIs
<1>3. g \in Seq(S) /\ Len(g) = n /\ \A i \in 1 .. n : g[i] = x[m + i]
  <2>1. m + 1 \in Nat /\ Len(x) \in 0 .. Len(x) /\ m + 1 <= Len(x) + 1 /\ (Len(x) - (m + 1)) + 1 = n /\ m + 1 >= 1
    BY <1>1
  <2>2. \A i \in 1 .. n : ((m + 1) + i) - 1 = m + i
    BY <1>1
  <2> DEFINE a == m + 1
             e == Len(x)
  <2>3. a \in Nat /\ e \in 0 .. Len(x) /\ a >= 1 /\ a <= e + 1
    BY <2>1
  <2> HIDE DEF a, e
  <2>4. /\ SubSeq(x, a, e) \in Seq(S) /\ Len(SubSeq(x, a, e)) = (e - a) + 1
        /\ \A i \in 1 .. (e - a) + 1 : SubSeq(x, a, e)[i] = x[(a + i) - 1]
    BY <2>3, SubSeqIs
  <2> QED
    BY <2>1, <2>2, <2>4 DEF a, e
<1> HIDE DEF h, g
<1>4. l \in Seq(S) /\ Len(l) = n + 1 /\ \A i \in 1 .. n + 1 : l[i] = h[m + i]
  <2>1. /\ m + 1 \in Nat /\ Len(x) + 1 \in 0 .. Len(h) /\ m + 1 <= (Len(x) + 1) + 1
        /\ ((Len(x) + 1) - (m + 1)) + 1 = n + 1 /\ m + 1 >= 1
    BY <1>1, <1>2
  <2>2. \A i \in 1 .. n + 1 : ((m + 1) + i) - 1 = m + i
    BY <1>1
  <2> QED
    BY <1>2, <2>1, <2>2, SubSeqIs
<1>5. r \in Seq(S) /\ Len(r) = n + 1 /\ r[n + 1] = t /\ \A i \in 1 .. n : r[i] = g[i]
  BY <1>3, AppendIs
<1> HIDE DEF l, r
<1>6. ASSUME NEW i \in 1 .. n + 1 PROVE l[i] = r[i]
  <2>1. CASE i <= n
    <3>1. i \in 1 .. n /\ m + i \in 1 .. Len(x)
      BY <2>1, <1>1
    <3> QED
      BY <3>1, <1>2, <1>3, <1>4, <1>5
  <2>2. CASE i = n + 1
    <3>1. m + i = Len(x) + 1
      BY <2>2, <1>1
    <3> QED
      BY <2>2, <3>1, <1>2a, <1>4, <1>5
  <2> QED
    BY <2>1, <2>2, <1>1
<1>7. l = r
  BY <1>4, <1>5, <1>6, SeqEqual
<1> QED
  BY <1>3, <1>7 DEF l, r, h, g

-----------------------------------------------------------------------------
(* One sample of a step: from the tokens g, the flag d and the matched     *)
(* words idx to those after the token that was picked.                     *)
Flag(d, idx, picked) ==
  IF EndFlag(d, picked) = 0 /\ \E w \in StopWords : Matched(w, idx[w], EndToken(d, picked)) = Len(w)
  THEN -1 ELSE EndFlag(d, picked)
Index(d, idx, picked, w) ==
  IF EndFlag(d, picked) = 0 THEN Matched(w, idx[w], EndToken(d, picked)) ELSE idx[w]

LEMMA TokenFacts == /\ VocabSize \in Nat \ {0} /\ Token \subseteq Nat /\ -1 \notin Token
                    /\ Eos \in Token \cup {-1} /\ (Eos # -1 => Pad \in Token)
                    /\ StopWords \subseteq Seq(Int)
<1>1. Token \subseteq Nat /\ -1 \notin Token
  BY SearchAssumption DEF Token
<1>2. VocabSize \in Nat \ {0}
  BY SearchAssumption
<1>3. Eos \in Token \cup {-1} /\ (Eos # -1 => Pad \in Token)
  BY EndAssumption
<1> QED
  BY <1>1, <1>2, <1>3, InputAssumption DEF StopWords

LEMMA EndTokenType ==
  ASSUME NEW d \in {-1, 0, 1}, NEW picked \in Token
  PROVE  /\ EndToken(d, picked) \in Token /\ EndFlag(d, picked) \in {-1, 0, 1}
         /\ EndFlag(d, picked) = 0 => d = 0 /\ EndToken(d, picked) = picked /\ (Eos # -1 => picked # Eos)
         /\ EndFlag(d, picked) = -1 => Eos = -1 /\ d = -1
         /\ Eos # -1 /\ EndFlag(d, picked) = 1 /\ d # 1 => EndToken(d, picked) = Eos
         /\ Eos # -1 /\ d = 1 => EndFlag(d, picked) = 1 /\ EndToken(d, picked) = Pad
         /\ Eos = -1 => EndFlag(d, picked) = d
<1>1. CASE d = 0
  BY <1>1, TokenFacts DEF EndToken, EndFlag
<1>2. CASE d = 1
  BY <1>2, TokenFacts DEF EndToken, EndFlag
<1>3. CASE d = -1
  BY <1>3, TokenFacts DEF EndToken, EndFlag
<1> QED
  BY <1>1, <1>2, <1>3

LEMMA FlagType ==
  ASSUME NEW d \in {-1, 0, 1}, NEW picked \in Token, NEW idx
  PROVE  Flag(d, idx, picked) \in {-1, 0, 1} /\ (Flag(d, idx, picked) = 1 <=> EndFlag(d, picked) = 1)
BY EndTokenType DEF Flag

LEMMA ShapedStep ==
  ASSUME NEW g \in Seq(Token), NEW d \in {-1, 0, 1}, NEW picked \in Token, NEW idx,
         Eos # -1, Shaped(g, d)
  PROVE  Shaped(Append(g, EndToken(d, picked)), Flag(d, idx, picked))
<1> DEFINE t == EndToken(d, picked)
           h == Append(g, t)
           f == Flag(d, idx, picked)
           n == Len(g)
<1>1. t \in Token /\ f \in {-1, 0, 1} /\ (f = 1 <=> EndFlag(d, picked) = 1)
  BY EndTokenType, FlagType
<1>2. /\ h \in Seq(Token) /\ Len(h) = n + 1 /\ n \in Nat /\ h[n + 1] = t
      /\ \A i \in 1 .. n : h[i] = g[i]
      /\ ToSet(h) = ToSet(g) \cup {t}
  BY <1>1, AppendIs
<1>3. DOMAIN h = 1 .. n + 1 /\ DOMAIN g = 1 .. n
  BY <1>2, SeqIs
<1>4. CASE f # 1
  <2>1. d # 1 /\ t # Eos
    BY <1>1, <1>4, EndTokenType
  <2>2. Eos \notin ToSet(g)
    BY <2>1 DEF Shaped
  <2> HIDE DEF t, h, f
  <2> QED
    BY <1>2, <1>4, <2>1, <2>2 DEF Shaped, t, h, f
<1>5. CASE f = 1 /\ d # 1
  <2>1. t = Eos
    BY <1>1, <1>5, EndTokenType
  <2>2. Eos \notin ToSet(g)
    BY <1>5 DEF Shaped
  <2>3. \A i \in 1 .. n : g[i] # Eos
    BY <2>2, <1>3 DEF ToSet
  <2> HIDE DEF t, h, f, n
  <2>4. n + 1 \in DOMAIN h /\ h[n + 1] = Eos /\ \A j \in 1 .. (n + 1) - 1 : h[j] # Eos
    BY <1>2, <1>3, <2>1, <2>3
  <2>5. \A j \in (n + 1) + 1 .. Len(h) : h[j] = Pad
    BY <1>2
  <2> QED
    BY <1>5, <2>4, <2>5 DEF Shaped, t, h, f
<1>6. CASE d = 1
  <2>1. t = Pad /\ f = 1
    BY <1>1, <1>6, EndTokenType
  <2>2. PICK k \in DOMAIN g : /\ g[k] = Eos
                              /\ \A j \in 1 .. k-1 : g[j] # Eos
                              /\ \A j \in k+1 .. Len(g) : g[j] = Pad
    BY <1>6 DEF Shaped
  <2> HIDE DEF t, h, f
  <2>3. k \in DOMAIN h /\ h[k] = Eos /\ \A j \in 1 .. k-1 : h[j] # Eos
    BY <1>2, <1>3, <2>2
  <2>4. ASSUME NEW j \in k+1 .. Len(h) PROVE h[j] = Pad
    <3>1. CASE j = n + 1
      BY <3>1, <1>2, <2>1
    <3>2. CASE j # n + 1
      <4>1. j \in k+1 .. n /\ j \in 1 .. n
        BY <3>2, <1>2, <1>3
      <4> QED
        BY <4>1, <1>2, <2>2
    <3> QED
      BY <3>1, <3>2
  <2> QED
    BY <2>1, <2>3, <2>4 DEF Shaped, t, h, f
<1> QED
  BY <1>1, <1>4, <1>5, <1>6

(* Stop words, position by position. *)
LEMMA AtIs ==
  ASSUME NEW g \in Seq(Int), NEW w \in Seq(Int), NEW k \in 0 .. Len(g) - Len(w)
  PROVE  At(g, w, k) <=> \A i \in 1 .. Len(w) : g[k + i] = w[i]
<1> DEFINE a == k + 1
           e == k + Len(w)
           x == SubSeq(g, a, e)
<1>1. Len(g) \in Nat /\ Len(w) \in Nat
  BY SeqIs
<1>2. a \in Nat /\ e \in 0 .. Len(g) /\ a >= 1 /\ a <= e + 1 /\ (e - a) + 1 = Len(w)
  BY <1>1
<1>3. \A i \in 1 .. Len(w) : (a + i) - 1 = k + i
  BY <1>1
<1> HIDE DEF a, e
<1>4. x \in Seq(Int) /\ Len(x) = (e - a) + 1 /\ \A i \in 1 .. (e - a) + 1 : x[i] = g[(a + i) - 1]
  BY <1>2, SubSeqIs
<1> HIDE DEF x
<1>5. x \in Seq(Int) /\ Len(x) = Len(w) /\ \A i \in 1 .. Len(w) : x[i] = g[k + i]
  BY <1>2, <1>3, <1>4
<1>6. (\A i \in 1 .. Len(w) : x[i] = w[i]) <=> x = w
  BY <1>5, SeqEqual
<1> QED
  BY <1>5, <1>6 DEF At, x, a, e

LEMMA EndsInIs ==
  ASSUME NEW g \in Seq(Int), NEW w \in Seq(Int), Len(w) <= Len(g)
  PROVE  At(g, w, Len(g) - Len(w)) <=> EndsIn(g, w, Len(w))
<1>1. Len(g) \in Nat /\ Len(w) \in Nat
  BY SeqIs
<1>2. Len(g) - Len(w) \in 0 .. Len(g) - Len(w) /\ Len(w) \in 0 .. Len(g)
  BY <1>1
<1>3. At(g, w, Len(g) - Len(w)) <=> \A i \in 1 .. Len(w) : g[(Len(g) - Len(w)) + i] = w[i]
  BY <1>2, AtIs
<1> QED
  BY <1>2, <1>3 DEF EndsIn

(* A token more. *)
LEMMA EndsInGrows ==
  ASSUME NEW g \in Seq(Int), NEW w \in Seq(Int), NEW t \in Int, NEW n \in Nat, n < Len(w)
  PROVE  EndsIn(Append(g, t), w, n + 1) <=> EndsIn(g, w, n) /\ w[n + 1] = t
<1> DEFINE h == Append(g, t)
           l == Len(g)
<1>1. h \in Seq(Int) /\ Len(h) = l + 1 /\ l \in Nat /\ h[l + 1] = t /\ \A i \in 1 .. l : h[i] = g[i]
  BY AppendIs
<1>2. Len(w) \in Nat
  BY SeqIs
<1> HIDE DEF h, l
<1>3. n + 1 \in 0 .. l + 1 <=> n \in 0 .. l
  BY <1>1
<1>4. ASSUME n \in 0 .. l
      PROVE  /\ (l + 1) - (n + 1) = l - n
             /\ h[(l - n) + (n + 1)] = t
             /\ \A i \in 1 .. n : h[(l - n) + i] = g[(l - n) + i]
  <2>1. (l + 1) - (n + 1) = l - n /\ (l - n) + (n + 1) = l + 1
    BY <1>1, <1>4
  <2>2. \A i \in 1 .. n : (l - n) + i \in 1 .. l
    BY <1>1, <1>4
  <2> QED
    BY <1>1, <2>1, <2>2
<1>5. \A i : i \in 1 .. n + 1 <=> i \in 1 .. n \/ i = n + 1
  OBVIOUS
<1>6. ASSUME n \in 0 .. l
      PROVE  (\A i \in 1 .. n + 1 : h[(l - n) + i] = w[i]) <=> (\A i \in 1 .. n : g[(l - n) + i] = w[i]) /\ w[n + 1] = t
  <2>1. h[(l - n) + (n + 1)] = t /\ \A i \in 1 .. n : h[(l - n) + i] = g[(l - n) + i]
    BY <1>4, <1>6
  <2>2. (\A i \in 1 .. n + 1 : h[(l - n) + i] = w[i]) <=>
        (\A i \in 1 .. n : h[(l - n) + i] = w[i]) /\ h[(l - n) + (n + 1)] = w[n + 1]
    BY <1>5
  <2> QED
    BY <2>1, <2>2
<1>7. EndsIn(h, w, n + 1) <=> n + 1 \in 0 .. l + 1 /\ \A i \in 1 .. n + 1 : h[((l + 1) - (n + 1)) + i] = w[i]
  BY <1>1 DEF EndsIn
<1>8. EndsIn(g, w, n) <=> n \in 0 .. l /\ \A i \in 1 .. n : g[(l - n) + i] = w[i]
  BY DEF EndsIn, l
<1> QED
  BY <1>3, <1>4, <1>6, <1>7, <1>8 DEF h

LEMMA ClearGrows ==
  ASSUME NEW g \in Seq(Int), NEW w \in Seq(Int), NEW t \in Int, NEW k \in 0 .. Len(g)
  PROVE  Clear(Append(g, t), w, k) <=> Clear(g, w, k)
<1>1. Len(g) \in Nat /\ \A i \in 1 .. Len(g) : Append(g, t)[i] = g[i]
  BY AppendIs
<1>2. k # 0 => k \in 1 .. Len(g)
  BY <1>1
<1> QED
  BY <1>1, <1>2 DEF Clear

LEMMA AtGrows ==
  ASSUME NEW g \in Seq(Int), NEW w \in Seq(Int), NEW t \in Int, NEW k \in 0 .. Len(g) - Len(w)
  PROVE  At(Append(g, t), w, k) <=> At(g, w, k)
<1> DEFINE h == Append(g, t)
<1>1. h \in Seq(Int) /\ Len(h) = Len(g) + 1 /\ Len(g) \in Nat /\ \A i \in 1 .. Len(g) : h[i] = g[i]
  BY AppendIs
<1>2. Len(w) \in Nat
  BY SeqIs
<1> HIDE DEF h
<1>3. k \in 0 .. Len(h) - Len(w) /\ \A i \in 1 .. Len(w) : k + i \in 1 .. Len(g)
  BY <1>1, <1>2
<1>4. At(h, w, k) <=> \A i \in 1 .. Len(w) : h[k + i] = w[i]
  BY <1>1, <1>3, AtIs
<1>5. At(g, w, k) <=> \A i \in 1 .. Len(w) : g[k + i] = w[i]
  BY AtIs
<1> QED
  BY <1>1, <1>3, <1>4, <1>5 DEF h

(* stopWordsCheck on one word that is not matched yet. *)
MatchIsUnique(g, w, n) ==
  EndsIn(g, w, n) /\ \A m \in 0 .. Len(w) : EndsIn(g, w, m) /\ Clear(g, w, Len(g) - m) => n = m

LEMMA MatchedStep ==
  ASSUME NEW g \in Seq(Int), NEW w \in Seq(Int), NEW t \in Int, NEW n \in Nat, n < Len(w),
         MatchIsUnique(g, w, n)
  PROVE  Matched(w, n, t) \in 0 .. Len(w) /\ MatchIsUnique(Append(g, t), w, Matched(w, n, t))
<1> DEFINE h == Append(g, t)
           m1 == Matched(w, n, t)
<1>1. h \in Seq(Int) /\ Len(h) = Len(g) + 1 /\ Len(g) \in Nat /\ h[Len(g) + 1] = t
  BY AppendIs
<1>2. Len(w) \in Nat /\ DOMAIN w = 1 .. Len(w)
  BY SeqIs
<1>3. m1 = IF w[n+1] = t THEN n + 1 ELSE 0
  BY DEF Matched
<1>4. m1 \in 0 .. Len(w)
  BY <1>2, <1>3
<1>5. EndsIn(h, w, m1)
  <2>1. CASE w[n+1] = t
    BY <2>1, <1>3, EndsInGrows DEF MatchIsUnique
  <2>2. CASE w[n+1] # t
    BY <2>2, <1>3, <1>1 DEF EndsIn
  <2> QED
    BY <2>1, <2>2
<1>6. ASSUME NEW m \in 0 .. Len(w), EndsIn(h, w, m), Clear(h, w, Len(h) - m) PROVE m1 = m
  <2>1. CASE m = 0
    <3>1. Len(h) - m = Len(g) + 1 /\ Len(g) + 1 # 0
      BY <2>1, <1>1
    <3>2. t \notin ToSet(w)
      BY <3>1, <1>1, <1>6 DEF Clear
    <3>3. n + 1 \in DOMAIN w
      BY <1>2
    <3>4. w[n+1] # t
      BY <3>2, <3>3 DEF ToSet
    <3> QED
      BY <2>1, <3>4, <1>3
  <2>2. CASE m # 0
    <3> DEFINE i == m - 1
    <3>1. i \in Nat /\ i < Len(w) /\ i + 1 = m /\ i \in 0 .. Len(w)
      BY <2>2, <1>2
    <3> HIDE DEF i
    <3>2. EndsIn(g, w, i) /\ w[i + 1] = t
      BY <3>1, <1>6, EndsInGrows DEF h
    <3>3. Len(h) - m = Len(g) - i /\ Len(g) - i \in 0 .. Len(g)
      <4>1. i \in 0 .. Len(g)
        BY <3>2 DEF EndsIn
      <4> DEFINE l == Len(g)
                 lh == Len(h)
      <4>2. l \in Nat /\ lh = l + 1 /\ i \in 0 .. l /\ i \in Nat /\ m = i + 1
        BY <4>1, <3>1, <1>1
      <4> HIDE DEF l, lh
      <4>3. lh - m = l - i /\ l - i \in 0 .. l
        BY <4>2
      <4> QED
        BY <4>3 DEF l, lh
    <3>4. Clear(g, w, Len(g) - i)
      BY <3>3, <1>6, ClearGrows DEF h
    <3>5. n = i
      BY <3>1, <3>2, <3>4 DEF MatchIsUnique
    <3> QED
      BY <3>1, <3>2, <3>5, <1>3
  <2> QED
    BY <2>1, <2>2
<1> QED
  BY <1>4, <1>5, <1>6 DEF MatchIsUnique

(* The stop words of a sample with tokens g before a step; an empty word   *)
(* ends the sample with its first token.                                   *)
WordsBefore(g, d, idx) ==
  /\ idx \in [StopWords -> Nat] /\ \A w \in StopWords : idx[w] <= Len(w)
  /\ MarkedRightly(g, d)
  /\ \A w \in StopWords : w # <<>> => NonePassed(g, d, w) /\ Tracked(g, d, w, idx[w])

LEMMA WordsStep ==
  ASSUME NEW g \in Seq(Token), NEW d \in {-1, 0, 1}, NEW picked \in Token, NEW idx, WordsBefore(g, d, idx)
  PROVE  /\ MarkedRightly(Append(g, EndToken(d, picked)), Flag(d, idx, picked))
         /\ \A w \in StopWords :
              /\ NonePassed(Append(g, EndToken(d, picked)), Flag(d, idx, picked), w)
              /\ Tracked(Append(g, EndToken(d, picked)), Flag(d, idx, picked), w, Index(d, idx, picked, w))
              /\ Index(d, idx, picked, w) \in Nat /\ Index(d, idx, picked, w) <= Len(w)
<1> DEFINE t == EndToken(d, picked)
           h == Append(g, t)
           f == Flag(d, idx, picked)
           d1 == EndFlag(d, picked)
           n(w) == Index(d, idx, picked, w)
<1>1. t \in Token /\ t \in Int /\ d1 \in {-1, 0, 1} /\ g \in Seq(Int)
  <2>1. Token \subseteq Int
    BY TokenFacts
  <2>2. g \in Seq(Int)
    <3>1. Len(g) \in Nat /\ g \in [1 .. Len(g) -> Int]
      BY SeqIs, <2>1
    <3> QED
      BY <3>1, FunctionIsSeq
  <2> QED
    BY <2>1, <2>2, EndTokenType
<1>2. \A w \in StopWords : /\ w \in Seq(Int) /\ Len(w) \in Nat /\ idx[w] \in Nat /\ idx[w] <= Len(w)
                           /\ (w # <<>> => Len(w) # 0)
  <2>1. \A w \in StopWords : w \in Seq(Int)
    BY TokenFacts
  <2> QED
    BY <2>1, SeqIs, EmptySeq DEF WordsBefore
<1>3. h \in Seq(Int) /\ Len(h) = Len(g) + 1 /\ Len(g) \in Nat
  BY <1>1, AppendIs
<1>4. ASSUME NEW w \in StopWords, w # <<>>, d1 = 0
      PROVE  /\ Matched(w, idx[w], t) \in 0 .. Len(w) /\ MatchIsUnique(h, w, Matched(w, idx[w], t))
             /\ n(w) = Matched(w, idx[w], t)
  <2>1. d = 0
    BY <1>4, EndTokenType
  <2>2. Tracked(g, d, w, idx[w])
    BY <1>4 DEF WordsBefore
  <2>3. idx[w] < Len(w) /\ MatchIsUnique(g, w, idx[w])
    BY <2>1, <2>2 DEF Tracked, MatchIsUnique
  <2>4. n(w) = Matched(w, idx[w], t)
    BY <1>4 DEF Index
  <2> HIDE DEF t, h, d1
  <2>5. Matched(w, idx[w], t) \in 0 .. Len(w) /\ MatchIsUnique(Append(g, t), w, Matched(w, idx[w], t))
    BY <2>3, <1>1, <1>2, MatchedStep
  <2> QED
    BY <2>4, <2>5 DEF h
<1>5. \A w \in StopWords : w = <<>> => Matched(w, idx[w], t) = Len(w) /\ Len(w) = 0
  <2>1. Len(<<>>) = 0
    OBVIOUS
  <2> QED
    BY <1>2, <2>1 DEF Matched
<1>6. ASSUME NEW w \in StopWords PROVE n(w) \in Nat /\ n(w) <= Len(w)
  <2>1. CASE d1 # 0
    BY <2>1, <1>2 DEF Index
  <2>2. CASE d1 = 0 /\ w = <<>>
    <3>1. n(w) = Matched(w, idx[w], t)
      BY <2>2 DEF Index
    <3> HIDE DEF t
    <3> QED
      BY <2>2, <3>1, <1>2, <1>5
  <2>3. CASE d1 = 0 /\ w # <<>>
    BY <2>3, <1>2, <1>4
  <2> QED
    BY <2>1, <2>2, <2>3
<1>7. ASSUME f = 0 PROVE d1 = 0 /\ d = 0 /\ \A w \in StopWords : w # <<>> /\ Matched(w, idx[w], t) # Len(w)
  <2>1. d1 = 0 /\ \A w \in StopWords : Matched(w, idx[w], t) # Len(w)
    BY <1>1, <1>7 DEF Flag
  <2> QED
    BY <2>1, <1>5, EndTokenType
<1>8. ASSUME NEW w \in StopWords PROVE Tracked(h, f, w, n(w))
  <2> SUFFICES ASSUME f = 0
               PROVE  /\ n(w) < Len(w) /\ EndsIn(h, w, n(w))
                      /\ \A m \in 0 .. Len(w) : EndsIn(h, w, m) /\ Clear(h, w, Len(h) - m) => n(w) = m
    BY DEF Tracked
  <2>1. d1 = 0 /\ w # <<>> /\ Matched(w, idx[w], t) # Len(w)
    BY <1>7
  <2>2. n(w) \in 0 .. Len(w) /\ MatchIsUnique(h, w, n(w)) /\ n(w) # Len(w)
    BY <2>1, <1>4
  <2>3. n(w) < Len(w)
    BY <2>2, <1>2
  <2> HIDE DEF h, f, n
  <2> QED
    BY <2>2, <2>3 DEF MatchIsUnique
<1>9. ASSUME NEW w \in StopWords PROVE NonePassed(h, f, w)
  <2> SUFFICES ASSUME f = 0, NEW k \in 0 .. Len(h) - Len(w), At(h, w, k), Clear(h, w, k) PROVE FALSE
    BY DEF NonePassed
  <2>1. d1 = 0 /\ d = 0 /\ w # <<>> /\ Matched(w, idx[w], t) # Len(w)
    BY <1>7
  <2>2. MatchIsUnique(h, w, Matched(w, idx[w], t)) /\ Len(w) \in Nat /\ Len(w) # 0 /\ w \in Seq(Int)
    BY <2>1, <1>2, <1>4
  <2>3. NonePassed(g, d, w)
    BY <2>1 DEF WordsBefore
  <2> DEFINE x == Matched(w, idx[w], t)
  <2> HIDE DEF h, t, f, d1, x
  <2>4. CASE k = Len(h) - Len(w)
    <3>1. Len(w) <= Len(h) /\ Len(w) \in 0 .. Len(w)
      BY <2>4, <2>2, <1>3
    <3>2. EndsIn(h, w, Len(w))
      BY <3>1, <2>4, <2>2, <1>3, EndsInIs
    <3>3. x = Len(w)
      BY <3>1, <3>2, <2>4, <2>2 DEF MatchIsUnique, x
    <3> QED
      BY <3>3, <2>1 DEF x
  <2>5. CASE k # Len(h) - Len(w)
    <3>1. k \in 0 .. Len(g) - Len(w) /\ k \in 0 .. Len(g)
      BY <2>5, <2>2, <1>3
    <3>2. At(g, w, k)
      BY <3>1, <2>2, <1>1, AtGrows DEF h
    <3>3. Clear(g, w, k)
      BY <3>1, <2>2, <1>1, ClearGrows DEF h
    <3> QED
      BY <3>1, <3>2, <3>3, <2>1, <2>3 DEF NonePassed
  <2> QED
    BY <2>4, <2>5
<1>10. MarkedRightly(h, f)
  <2> SUFFICES ASSUME f = -1
               PROVE  \E w \in StopWords : \E k \in 0 .. Len(h) - Len(w) :
                        At(h, w, k) /\ (Eos # -1 => k = Len(h) - Len(w))
    BY DEF MarkedRightly
  <2>1. CASE d1 = 0
    <3>1. PICK w \in StopWords : Matched(w, idx[w], t) = Len(w)
      BY <2>1 DEF Flag
    <3>2. EndsIn(h, w, Len(w))
      <4>1. CASE w = <<>>
        <5>1. Len(w) = 0 /\ \A i \in 1 .. 0 : FALSE
          BY <4>1
        <5> HIDE DEF h
        <5> QED
          BY <5>1, <1>3 DEF EndsIn
      <4>2. CASE w # <<>>
        BY <4>2, <3>1, <2>1, <1>4 DEF MatchIsUnique
      <4> QED
        BY <4>1, <4>2
    <3> HIDE DEF h
    <3>3. Len(w) <= Len(h) /\ Len(h) - Len(w) \in 0 .. Len(h) - Len(w)
      <4>1. Len(w) \in 0 .. Len(h)
        BY <3>2 DEF EndsIn
      <4> QED
        BY <4>1, <1>2, <1>3
    <3>4. At(h, w, Len(h) - Len(w))
      BY <3>2, <3>3, <1>2, <1>3, EndsInIs
    <3> QED
      BY <3>3, <3>4
  <2>2. CASE d1 # 0
    <3>1. Eos = -1 /\ d = -1
      BY <2>2, EndTokenType DEF Flag
    <3>2. PICK w \in StopWords : \E k \in 0 .. Len(g) - Len(w) : At(g, w, k)
      BY <3>1 DEF WordsBefore, MarkedRightly
    <3>3. PICK k \in 0 .. Len(g) - Len(w) : At(g, w, k)
      BY <3>2
    <3> HIDE DEF t
    <3>4. At(h, w, k)
      BY <3>3, <1>1, <1>2, AtGrows
    <3> HIDE DEF h
    <3>5. k \in 0 .. Len(h) - Len(w)
      BY <3>3, <1>2, <1>3
    <3> QED
      BY <3>1, <3>4, <3>5
  <2> QED
    BY <2>1, <2>2
<1> QED
  BY <1>6, <1>8, <1>9, <1>10

-----------------------------------------------------------------------------
(* A whole step. *)
GenOf(out, len, b, m) == SubSeq(RowOf(out, len, b), m + 1, len)
IndexOf(index, b) == [w \in StopWords |-> index[w][b]]

(* What a step starts from: the values that both forms of getNextToken     *)
(* hand to Search.                                                         *)
Ready(p, done, index, out, len) ==
  /\ done \in [DOMAIN p -> {-1, 0, 1}]
  /\ out \in Seq(Token) /\ HoldsRows(out, Len(p), len)
  /\ len \in Nat /\ len >= Len(p[1])
  /\ \A b \in DOMAIN p : /\ WordsBefore(GenOf(out, len, b, Len(p[1])), done[b], IndexOf(index, b))
                         /\ Eos # -1 => Shaped(GenOf(out, len, b, Len(p[1])), done[b])

(* What it has done. *)
Stepped(p, done, index, out, len, picked) ==
  /\ picked \in [DOMAIN p -> Token]
  /\ nextTokens' = [b \in DOMAIN p |-> EndToken(done[b], picked[b])]
  /\ doneBatch' = [b \in DOMAIN p |-> Flag(done[b], IndexOf(index, b), picked[b])]
  /\ stopWordsIndex' = [w \in StopWords |-> [b \in DOMAIN p |-> Index(done[b], IndexOf(index, b), picked[b], w)]]
  /\ curLen' = len + 1
  /\ output' = Insert(out, nextTokens', len + 1)

LEMMA SearchIs ==
  ASSUME NEW p \in Inputs, NEW rows \in [DOMAIN p -> LogitRows], NEW done, NEW index, NEW vec, NEW out, NEW len,
         Search(rows, done, index, vec, out, len)
  PROVE  /\ logits' = rows /\ cachedRepetVec' = vec /\ config' = config
         /\ \E picked \in [DOMAIN p -> Token] :
              /\ \A b \in DOMAIN p : picked[b] \in Picks(b, rows[b], [r \in Rank |-> vec[r][b]], Len(rows))
              /\ Stepped(p, done, index, out, len, picked)
<1>1. DOMAIN rows = DOMAIN p
  OBVIOUS
<1> DEFINE picks == [b \in DOMAIN rows |-> Picks(b, rows[b], [r \in Rank |-> vec[r][b]], Len(rows))]
<1>2. PICK picked \in {f \in [DOMAIN rows -> Token] : \A b \in DOMAIN rows : f[b] \in picks[b]} :
        LET toks == [b \in DOMAIN rows |-> EndToken(done[b], picked[b])] IN
        /\ logits' = rows
        /\ nextTokens' = toks
        /\ StopWordsCheck([b \in DOMAIN rows |-> EndFlag(done[b], picked[b])], index, toks)
        /\ cachedRepetVec' = vec
        /\ curLen' = len + 1
        /\ output' = Insert(out, toks, len + 1)
        /\ UNCHANGED config
  BY Zenon DEF Search
<1>3. picked \in [DOMAIN p -> Token] /\ \A b \in DOMAIN p : picked[b] \in Picks(b, rows[b], [r \in Rank |-> vec[r][b]], Len(rows))
  BY <1>1, <1>2
<1> HIDE DEF picks
<1>4. /\ stopWordsIndex' = [w \in StopWords |-> [b \in DOMAIN p |->
           IF EndFlag(done[b], picked[b]) = 0
           THEN Matched(w, index[w][b], EndToken(done[b], picked[b])) ELSE index[w][b]]]
      /\ doneBatch' = [b \in DOMAIN p |->
           IF EndFlag(done[b], picked[b]) = 0 /\ \E w \in StopWords :
                Matched(w, index[w][b], EndToken(done[b], picked[b])) = Len(w)
           THEN -1 ELSE EndFlag(done[b], picked[b])]
  BY <1>1, <1>2 DEF StopWordsCheck
<1>5. /\ \A w \in StopWords : \A b \in DOMAIN p :
           Index(done[b], IndexOf(index, b), picked[b], w) =
             IF EndFlag(done[b], picked[b]) = 0
             THEN Matched(w, index[w][b], EndToken(done[b], picked[b])) ELSE index[w][b]
      /\ \A b \in DOMAIN p :
           Flag(done[b], IndexOf(index, b), picked[b]) =
             IF EndFlag(done[b], picked[b]) = 0 /\ \E w \in StopWords :
                  Matched(w, index[w][b], EndToken(done[b], picked[b])) = Len(w)
             THEN -1 ELSE EndFlag(done[b], picked[b])
  BY DEF Index, Flag, IndexOf
<1>6. Stepped(p, done, index, out, len, picked)
  BY <1>1, <1>2, <1>3, <1>4, <1>5 DEF Stepped
<1> QED
  BY <1>2, <1>3, <1>6

LEMMA RowsStep ==
  ASSUME NEW p \in Inputs, NEW done, NEW index, NEW out, NEW len, NEW picked,
         Ready(p, done, index, out, len), Stepped(p, done, index, out, len, picked)
  PROVE  /\ nextTokens' \in [DOMAIN p -> Token]
         /\ output' \in Seq(Token) /\ HoldsRows(output', Len(p), curLen')
         /\ curLen' = len + 1 /\ curLen' \in Nat
         /\ \A b \in DOMAIN p : /\ RowOf(output', curLen', b) = Append(RowOf(out, len, b), nextTokens'[b])
                                /\ RowOf(out, len, b) \in Seq(Token) /\ Len(RowOf(out, len, b)) = len
<1> DEFINE N == Len(p)
           toks == [b \in DOMAIN p |-> EndToken(done[b], picked[b])]
<1>1. N \in Nat /\ DOMAIN p = 1 .. N
  BY IdsAreRows
<1>2. done \in [DOMAIN p -> {-1, 0, 1}] /\ picked \in [DOMAIN p -> Token]
  BY DEF Ready, Stepped
<1>3. toks \in [1 .. N -> Token]
  BY <1>1, <1>2, EndTokenType
<1>4. nextTokens' = toks /\ curLen' = len + 1 /\ output' = Insert(out, toks, len + 1)
  BY DEF Stepped
<1>5. len + 1 \in Nat \ {0} /\ (len + 1) - 1 = len /\ len \in Nat
  BY DEF Ready
<1>6. out \in Seq(Token) /\ HoldsRows(out, N, len)
  BY DEF Ready
<1> HIDE DEF toks, N
<1>7. Insert(out, toks, len + 1) \in Seq(Token) /\ InsertsTokens(out, toks, N, len + 1)
  BY <1>1, <1>3, <1>5, <1>6, InsertGrows
<1>8. \A b \in 1 .. N : RowOf(Insert(out, toks, len + 1), len + 1, b) = Append(RowOf(out, (len + 1) - 1, b), toks[b])
  BY <1>7 DEF InsertsTokens
<1>9. \A b \in 1 .. N : RowOf(out, len, b) \in Seq(Token) /\ Len(RowOf(out, len, b)) = len
  BY <1>1, <1>5, <1>6, RowOfIs
<1>10. HoldsRows(output', N, curLen')
  BY <1>4, <1>7 DEF InsertsTokens
<1>11. \A b \in DOMAIN p : RowOf(output', curLen', b) = Append(RowOf(out, len, b), nextTokens'[b])
  BY <1>1, <1>4, <1>5, <1>8
<1> QED
  BY <1>1, <1>3, <1>4, <1>5, <1>7, <1>9, <1>10, <1>11 DEF N

LEMMA SampleStep ==
  ASSUME NEW p \in Inputs, NEW done, NEW index, NEW out, NEW len, NEW picked,
         Ready(p, done, index, out, len), Stepped(p, done, index, out, len, picked),
         NEW b \in DOMAIN p
  PROVE  LET g == GenOf(output', curLen', b, Len(p[1]))
         IN  /\ Eos # -1 => Shaped(g, doneBatch'[b])
             /\ MarkedRightly(g, doneBatch'[b])
             /\ doneBatch'[b] \in {-1, 0, 1}
             /\ RowOf(output', curLen', b)[curLen'] = nextTokens'[b]
             /\ \A w \in StopWords :
                  /\ NonePassed(g, doneBatch'[b], w)
                  /\ Tracked(g, doneBatch'[b], w, stopWordsIndex'[w][b])
                  /\ stopWordsIndex'[w][b] \in Nat /\ stopWordsIndex'[w][b] <= Len(w)
<1> DEFINE m == Len(p[1])
           r == RowOf(out, len, b)
           g0 == SubSeq(r, m + 1, len)
           g == GenOf(output', curLen', b, m)
           d == done[b]
           idx == IndexOf(index, b)
           t == EndToken(d, picked[b])
<1>1. d \in {-1, 0, 1} /\ picked[b] \in Token /\ t \in Token
  BY EndTokenType DEF Ready, Stepped
<1>2. nextTokens'[b] = t /\ doneBatch'[b] = Flag(d, idx, picked[b])
  BY DEF Stepped
<1>3. \A w \in StopWords : stopWordsIndex'[w][b] = Index(d, idx, picked[b], w)
  BY DEF Stepped
<1>4. /\ RowOf(output', curLen', b) = Append(r, t)
      /\ r \in Seq(Token) /\ Len(r) = len /\ curLen' = len + 1
  BY <1>2, RowsStep
<1>5. m \in Nat /\ len \in Nat /\ m <= len
  BY IdsAreRows DEF Ready
<1>6. WordsBefore(g0, d, idx) /\ (Eos # -1 => Shaped(g0, d))
  BY DEF Ready, GenOf
<1> HIDE DEF r, g0, d, idx, t, m
<1>7. g0 \in Seq(Token) /\ g = Append(g0, t)
  <2>1. m \in 0 .. Len(r)
    BY <1>4, <1>5
  <2>2. SubSeq(r, m + 1, Len(r)) \in Seq(Token) /\ SubSeq(Append(r, t), m + 1, Len(r) + 1) = Append(SubSeq(r, m + 1, Len(r)), t)
    BY <1>1, <1>4, <2>1, GeneratedGrows
  <2> QED
    BY <2>2, <1>4 DEF g0, GenOf
<1> HIDE DEF g
<1>8. Eos # -1 => Shaped(g, doneBatch'[b])
  BY <1>1, <1>2, <1>6, <1>7, ShapedStep DEF t
<1>9. /\ MarkedRightly(g, doneBatch'[b])
      /\ \A w \in StopWords :
                  /\ NonePassed(g, doneBatch'[b], w)
                  /\ Tracked(g, doneBatch'[b], w, stopWordsIndex'[w][b])
                  /\ stopWordsIndex'[w][b] \in Nat /\ stopWordsIndex'[w][b] <= Len(w)
  BY <1>1, <1>2, <1>3, <1>6, <1>7, WordsStep DEF t
<1>10. doneBatch'[b] \in {-1, 0, 1}
  BY <1>1, <1>2, FlagType
<1>11. RowOf(output', curLen', b)[curLen'] = nextTokens'[b]
  BY <1>1, <1>2, <1>4, AppendIs
<1> QED
  BY <1>8, <1>9, <1>10, <1>11 DEF g, m

LEMMA ReadyFirst ==
  ASSUME NEW p \in Inputs
  PROVE  Ready(p, [b \in DOMAIN p |-> 0], [w \in StopWords |-> [b \in DOMAIN p |-> 0]],
               Ids(p, Len(p[1])), Len(p[1]))
<1> DEFINE len == Len(p[1])
           done == [b \in DOMAIN p |-> 0]
           index == [w \in StopWords |-> [b \in DOMAIN p |-> 0]]
           out == Ids(p, len)
<1>1. DOMAIN p = 1 .. Len(p) /\ len \in Nat /\ out \in Seq(Token) /\ HoldsRows(out, Len(p), len)
  BY IdsAreRows
<1>2. \A w \in StopWords : w \in Seq(Int) /\ Len(w) \in Nat /\ (w # <<>> => Len(w) # 0)
  <2>1. \A w \in StopWords : w \in Seq(Int)
    BY TokenFacts
  <2> QED
    BY <2>1, SeqIs, EmptySeq
<1>3. Len(<<>>) = 0 /\ ToSet(<<>>) = {}
  BY DEF ToSet
<1>4. ASSUME NEW b \in DOMAIN p
      PROVE  /\ WordsBefore(GenOf(out, len, b, len), done[b], IndexOf(index, b))
             /\ Shaped(GenOf(out, len, b, len), done[b])
  <2>1. RowOf(out, len, b) = p[b]
    BY <1>1, IdsAreRows
  <2>2. GenOf(out, len, b, len) = <<>>
    <3>1. len + 1 \in Int /\ len \in Int /\ len < len + 1
      BY <1>1
    <3> HIDE DEF len, out
    <3> QED
      BY <2>1, <3>1, SubSeqEmpty DEF GenOf
  <2> DEFINE idx == IndexOf(index, b)
  <2>3. done[b] = 0 /\ idx = [w \in StopWords |-> 0]
    BY DEF IndexOf
  <2>4. Shaped(<<>>, 0)
    BY <1>3 DEF Shaped
  <2>5. MarkedRightly(<<>>, 0)
    BY DEF MarkedRightly
  <2>6. ASSUME NEW w \in StopWords, w # <<>> PROVE NonePassed(<<>>, 0, w) /\ Tracked(<<>>, 0, w, 0)
    <3>1. Len(w) \in Nat /\ Len(w) # 0
      BY <1>2, <2>6
    <3>2. ~\E k \in 0 .. Len(<<>>) - Len(w) : TRUE
      BY <1>3, <3>1
    <3>3. EndsIn(<<>>, w, 0) /\ \A m \in 0 .. Len(w) : EndsIn(<<>>, w, m) => 0 = m
      BY <1>3, <3>1 DEF EndsIn
    <3> QED
      BY <3>1, <3>2, <3>3 DEF NonePassed, Tracked
  <2>7. WordsBefore(<<>>, 0, idx)
    <3>1. idx \in [StopWords -> Nat] /\ \A w \in StopWords : idx[w] = 0
      BY <2>3
    <3> HIDE DEF idx
    <3> QED
      BY <1>2, <2>5, <2>6, <3>1 DEF WordsBefore
  <2> QED
    BY <2>2, <2>3, <2>4, <2>7
<1>5. done \in [DOMAIN p -> {-1, 0, 1}] /\ len >= len
  BY <1>1
<1> HIDE DEF len, index, out, done
<1>6. Ready(p, done, index, out, len)
  BY <1>1, <1>4, <1>5 DEF Ready, len
<1> QED
  BY <1>6 DEF len, index, out, done

LEMMA ReadyNext ==
  ASSUME IInv, step # 0
  PROVE  prompts \in Inputs /\ Ready(prompts, doneBatch, stopWordsIndex, output, curLen)
<1>1. prompts \in Inputs
  BY DEF IInv, TypeOK
<1>2. /\ Len(prompts) \in Nat \ {0} /\ DOMAIN prompts = 1 .. Len(prompts) /\ Len(prompts[1]) \in Nat
  BY <1>1, IdsAreRows
<1>3. /\ doneBatch \in [DOMAIN prompts -> {-1, 0, 1}]
      /\ output \in Seq(Token) /\ HoldsRows(output, Len(prompts), curLen) /\ curLen \in Nat
      /\ stopWordsIndex \in [StopWords -> [DOMAIN prompts -> Nat]]
      /\ \A w \in StopWords : \A b \in DOMAIN prompts : stopWordsIndex[w][b] <= Len(w)
  BY DEF IInv, TypeOK, HoldsRows
<1>4. curLen >= Len(prompts[1])
  BY <1>2, <1>3 DEF IInv, InvRows, SeqLen
<1>5. ASSUME NEW b \in DOMAIN prompts
      PROVE  /\ WordsBefore(GenOf(output, curLen, b, Len(prompts[1])), doneBatch[b], IndexOf(stopWordsIndex, b))
             /\ Eos # -1 => Shaped(GenOf(output, curLen, b, Len(prompts[1])), doneBatch[b])
  <2>1. GenOf(output, curLen, b, Len(prompts[1])) = Generated(b)
    BY DEF GenOf, RowOf, Generated, Row, SeqLen
  <2> DEFINE g == Generated(b)
             idx == IndexOf(stopWordsIndex, b)
  <2> HIDE DEF g
  <2>2. idx \in [StopWords -> Nat] /\ \A w \in StopWords : idx[w] = stopWordsIndex[w][b]
    BY <1>3 DEF IndexOf
  <2>3. \A w \in StopWords : idx[w] <= Len(w)
    BY <1>3, <2>2
  <2>4. MarkedRightly(g, doneBatch[b]) /\ \A w \in StopWords : NonePassed(g, doneBatch[b], w)
    BY DEF IInv, StopWordsFound, g
  <2>5. \A w \in StopWords : Tracked(g, doneBatch[b], w, stopWordsIndex[w][b])
    BY DEF IInv, InvTracked, g
  <2>6. Eos # -1 => Shaped(g, doneBatch[b])
    BY DEF IInv, OutputShape, g
  <2> HIDE DEF idx
  <2>7. WordsBefore(g, doneBatch[b], idx)
    BY <2>2, <2>3, <2>4, <2>5 DEF WordsBefore
  <2> QED
    BY <2>1, <2>6, <2>7 DEF g, idx
<1> QED
  BY <1>1, <1>3, <1>4, <1>5 DEF Ready

(* The parts of the vocabulary. *)
LEMMA PartFacts ==
  ASSUME NEW r \in Rank
  PROVE  /\ SplitSize(r) \in Nat \ {0} /\ SplitOffset(r) \in Nat
         /\ Ranks = 1 => SplitSize(r) = VocabSize /\ SplitOffset(r) = 0
<1> DEFINE q == VocabSize \div Ranks
           m == VocabSize % Ranks
<1>1. VocabSize \in Nat /\ Ranks \in Nat \ {0} /\ Ranks <= VocabSize /\ r \in 0 .. Ranks-1
  BY SearchAssumption DEF Rank
<1>2. q \in Nat /\ m \in 0 .. Ranks-1 /\ VocabSize = Ranks * q + m
  BY <1>1, DivMod
<1>3. q # 0
  <2> SUFFICES ASSUME q = 0 PROVE FALSE
    OBVIOUS
  <2>1. Ranks * q = 0
    BY <1>1
  <2> QED
    BY <1>1, <1>2, <2>1
<1>4. q * r \in Nat
  BY <1>1, <1>2
<1>5. SplitSize(r) = q + (IF r < m THEN 1 ELSE 0) /\ SplitOffset(r) = q * r + (IF r < m THEN r ELSE m)
  BY DEF SplitSize, SplitOffset, Extra
<1>6. Ranks = 1 => m = 0 /\ r = 0 /\ q = VocabSize /\ q * r = 0
  BY <1>1, <1>2
<1> HIDE DEF q, m
<1> QED
  BY <1>1, <1>2, <1>3, <1>4, <1>5, <1>6

(* A step establishes the invariant. *)
LEMMA StepKeeps ==
  ASSUME NEW p \in Inputs, NEW done, NEW index, NEW out, NEW len, NEW picked, NEW vec,
         Ready(p, done, index, out, len), Stepped(p, done, index, out, len, picked),
         \A r \in Rank : \A b \in DOMAIN p : vec[r][b] \subseteq 0 .. SplitSize(r)-1,
         prompts' = p, cachedRepetVec' = vec, config' = config, config \in Configs,
         calls' \in Nat, step' \in Nat \ {0}
  PROVE  IInv'
<1>1. /\ nextTokens' \in [DOMAIN p -> Token]
      /\ output' \in Seq(Token) /\ HoldsRows(output', Len(p), curLen')
      /\ curLen' = len + 1 /\ curLen' \in Nat
  BY RowsStep
<1>2. Len(p) \in Nat \ {0} /\ Len(p[1]) \in Nat /\ p # <<>>
  BY IdsAreRows, InputAssumption
<1>3. \A b \in DOMAIN p : doneBatch'[b] \in {-1, 0, 1}
  BY SampleStep
<1>4. doneBatch' \in [DOMAIN p -> {-1, 0, 1}]
  BY <1>3 DEF Stepped
<1>5. \A b \in DOMAIN p : \A w \in StopWords : stopWordsIndex'[w][b] \in Nat /\ stopWordsIndex'[w][b] <= Len(w)
  BY SampleStep
<1>6. stopWordsIndex' \in [StopWords -> [DOMAIN p -> Nat]]
  <2>1. stopWordsIndex' = [w \in StopWords |-> [b \in DOMAIN p |-> Index(done[b], IndexOf(index, b), picked[b], w)]]
    BY DEF Stepped
  <2> QED
    BY <1>5, <2>1
<1>7. TypeOK'
  BY <1>1, <1>2, <1>4, <1>5, <1>6 DEF TypeOK, HoldsRows
<1>8. ASSUME NEW b \in DOMAIN p
      PROVE  /\ Generated(b)' = GenOf(output', curLen', b, Len(p[1]))
             /\ Row(b)' = RowOf(output', curLen', b)
  BY DEF Generated, Row, SeqLen, GenOf, RowOf
<1>9. InvRows'
  <2>1. curLen' > Len(p[1])
    BY <1>1, <1>2 DEF Ready
  <2>2. \A b \in DOMAIN p : RowOf(output', curLen', b)[curLen'] = nextTokens'[b]
    BY SampleStep
  <2> QED
    BY <2>1, <2>2, <1>8 DEF InvRows, SeqLen
<1>10. OutputShape'
  <2>1. \A b \in DOMAIN p : Eos # -1 => Shaped(GenOf(output', curLen', b, Len(p[1])), doneBatch'[b])
    BY SampleStep
  <2> QED
    BY <2>1, <1>8 DEF OutputShape
<1>11. StopWordsFound'
  <2>1. \A b \in DOMAIN p :
          /\ MarkedRightly(GenOf(output', curLen', b, Len(p[1])), doneBatch'[b])
          /\ \A w \in StopWords : NonePassed(GenOf(output', curLen', b, Len(p[1])), doneBatch'[b], w)
    BY SampleStep
  <2> QED
    BY <2>1, <1>8 DEF StopWordsFound
<1>12. InvTracked'
  <2>1. \A b \in DOMAIN p : \A w \in StopWords :
          Tracked(GenOf(output', curLen', b, Len(p[1])), doneBatch'[b], w, stopWordsIndex'[w][b])
    BY SampleStep
  <2> QED
    BY <2>1, <1>8 DEF InvTracked
<1> QED
  BY <1>7, <1>9, <1>10, <1>11, <1>12 DEF IInv

LEMMA PromptVecType ==
  ASSUME NEW p \in Inputs, NEW r \in Rank, NEW b \in DOMAIN p
  PROVE  PromptVec(r, p[b]) \subseteq 0 .. SplitSize(r)-1
<1>1. ToSet(p[b]) \subseteq Token
  <2>1. p[b] \in Seq(Token)
    BY IdsAreRows
  <2> QED
    BY <2>1, SeqIs DEF ToSet
<1>2. SplitSize(r) \in Nat /\ SplitOffset(r) \in Nat /\ (Ranks = 1 => SplitSize(r) = VocabSize)
  BY PartFacts
<1>3. CASE Ranks > 1
  <2>1. \A t \in SplitOffset(r)+1 .. SplitOffset(r)+SplitSize(r)-1 : t - SplitOffset(r) \in 0 .. SplitSize(r)-1
    BY <1>2
  <2> QED
    BY <1>3, <2>1 DEF PromptVec
<1>4. CASE ~(Ranks > 1)
  <2>1. Ranks = 1
    BY <1>4, SearchAssumption
  <2> QED
    BY <1>1, <1>2, <1>4, <2>1 DEF PromptVec, Token
<1> QED
  BY <1>3, <1>4

LEMMA GrownVecType ==
  ASSUME NEW r \in Rank, NEW b, cachedRepetVec[r][b] \subseteq 0 .. SplitSize(r)-1
  PROVE  GrownVec(r, b) \subseteq 0 .. SplitSize(r)-1
<1>1. SplitSize(r) \in Nat /\ SplitOffset(r) \in Nat
  BY PartFacts
<1>2. \A t \in SplitOffset(r) .. SplitOffset(r)+SplitSize(r)-1 : t - SplitOffset(r) \in 0 .. SplitSize(r)-1
  BY <1>1
<1> QED
  BY <1>2 DEF GrownVec

(* Both forms of getNextToken are such a step. *)
FirstVec(p) == [r \in Rank |-> [b \in DOMAIN p |-> PromptVec(r, p[b])]]
NextVec == [r \in Rank |-> [b \in DOMAIN prompts |-> GrownVec(r, b)]]

LEMMA FirstIs ==
  ASSUME NEW p \in Inputs, GetFirstToken(p), IInv
  PROVE  /\ prompts' = p /\ calls' = calls + 1 /\ calls \in Nat /\ step' = 1 /\ IInv'
         /\ cachedRepetVec' = FirstVec(p) /\ config' = config
         /\ \E done, index : \E picked \in [DOMAIN p -> Token] :
              /\ \A b \in DOMAIN p : done[b] = 0
              /\ \A b \in DOMAIN p : picked[b] \in
                   Picks(b, logits'[b], [r \in Rank |-> FirstVec(p)[r][b]], Len(logits'))
              /\ Ready(p, done, index, Ids(p, Len(p[1])), Len(p[1]))
              /\ Stepped(p, done, index, Ids(p, Len(p[1])), Len(p[1]), picked)
         /\ logits' \in [DOMAIN p -> LogitRows]
<1> DEFINE done == [b \in DOMAIN p |-> 0]
           index == [w \in StopWords |-> [b \in DOMAIN p |-> 0]]
           out == Ids(p, Len(p[1]))
           vec == FirstVec(p)
<1>1. PICK rows \in [DOMAIN p -> LogitRows] : Search(rows, done, index, vec, out, Len(p[1]))
  BY DEF GetFirstToken, FirstVec
<1>2. Ready(p, done, index, out, Len(p[1]))
  BY ReadyFirst
<1> HIDE DEF index, out, vec
<1>3. /\ logits' = rows /\ cachedRepetVec' = vec /\ config' = config
      /\ \E picked \in [DOMAIN p -> Token] :
           /\ \A b \in DOMAIN p : picked[b] \in Picks(b, rows[b], [r \in Rank |-> vec[r][b]], Len(rows))
           /\ Stepped(p, done, index, out, Len(p[1]), picked)
  BY <1>1, SearchIs
<1>4. PICK picked \in [DOMAIN p -> Token] :
           /\ \A b \in DOMAIN p : picked[b] \in Picks(b, rows[b], [r \in Rank |-> vec[r][b]], Len(rows))
           /\ Stepped(p, done, index, out, Len(p[1]), picked)
  BY <1>3
<1>5. prompts' = p /\ calls' = calls + 1 /\ step' = 1 /\ calls \in Nat /\ config \in Configs
  BY DEF GetFirstToken, IInv, TypeOK
<1>6. \A r \in Rank : \A b \in DOMAIN p : vec[r][b] \subseteq 0 .. SplitSize(r)-1
  BY PromptVecType DEF vec, FirstVec
<1>7. calls' \in Nat /\ step' \in Nat \ {0}
  BY <1>5
<1> HIDE DEF done
<1>8. IInv'
  BY <1>2, <1>3, <1>4, <1>5, <1>6, <1>7, StepKeeps
<1>9. \A b \in DOMAIN p : done[b] = 0
  BY DEF done
<1> QED
  BY <1>1, <1>2, <1>3, <1>4, <1>5, <1>8, <1>9 DEF vec, out

LEMMA NextIs ==
  ASSUME GetNextToken, IInv
  PROVE  /\ prompts' = prompts /\ prompts \in Inputs /\ calls' = calls /\ step # 0 /\ IInv'
         /\ cachedRepetVec' = NextVec /\ config' = config
         /\ \E picked \in [DOMAIN prompts -> Token] :
              /\ \A b \in DOMAIN prompts : picked[b] \in
                   Picks(b, logits'[b], [r \in Rank |-> NextVec[r][b]], Len(logits'))
              /\ Ready(prompts, doneBatch, stopWordsIndex, output, curLen)
              /\ Stepped(prompts, doneBatch, stopWordsIndex, output, curLen, picked)
         /\ logits' \in [DOMAIN prompts -> LogitRows]
<1>1. step # 0 /\ step' = step + 1 /\ prompts' = prompts /\ calls' = calls
  BY DEF GetNextToken
<1>2. PICK rows \in [DOMAIN prompts -> LogitRows] :
        Search(rows, doneBatch, stopWordsIndex, NextVec, output, curLen)
  BY DEF GetNextToken, NextVec
<1>3. prompts \in Inputs /\ Ready(prompts, doneBatch, stopWordsIndex, output, curLen)
  BY <1>1, ReadyNext
<1> DEFINE vec == NextVec
<1> HIDE DEF vec
<1>4. /\ logits' = rows /\ cachedRepetVec' = vec /\ config' = config
      /\ \E picked \in [DOMAIN prompts -> Token] :
           /\ \A b \in DOMAIN prompts : picked[b] \in Picks(b, rows[b], [r \in Rank |-> vec[r][b]], Len(rows))
           /\ Stepped(prompts, doneBatch, stopWordsIndex, output, curLen, picked)
  BY <1>2, <1>3, SearchIs DEF vec
<1>5. PICK picked \in [DOMAIN prompts -> Token] :
           /\ \A b \in DOMAIN prompts : picked[b] \in Picks(b, rows[b], [r \in Rank |-> vec[r][b]], Len(rows))
           /\ Stepped(prompts, doneBatch, stopWordsIndex, output, curLen, picked)
  BY <1>4
<1>6. \A r \in Rank : \A b \in DOMAIN prompts : vec[r][b] \subseteq 0 .. SplitSize(r)-1
  <2>1. \A r \in Rank : \A b \in DOMAIN prompts : cachedRepetVec[r][b] \subseteq 0 .. SplitSize(r)-1
    BY <1>1 DEF IInv, TypeOK
  <2> QED
    BY <2>1, GrownVecType DEF vec, NextVec
<1>7. calls' \in Nat /\ step' \in Nat \ {0} /\ config \in Configs
  BY <1>1 DEF IInv, TypeOK
<1>8. IInv'
  BY <1>1, <1>3, <1>4, <1>5, <1>6, <1>7, StepKeeps
<1> QED
  BY <1>1, <1>2, <1>3, <1>4, <1>5, <1>8 DEF vec

LEMMA InitEstablishes == Init => IInv
<1> SUFFICES ASSUME Init PROVE IInv
  OBVIOUS
<1>1. prompts = <<>> /\ DOMAIN prompts = {} /\ step = 0
  BY DEF Init
<1>2. TypeOK
  <2>1. Len(<<>>) * 0 = 0 /\ Len(<<>>) = 0 /\ <<>> \in Seq(Token)
    OBVIOUS
  <2>2. nextTokens \in [{} -> Token] /\ doneBatch \in [{} -> {-1, 0, 1}]
    BY DEF Init
  <2> QED
    BY <1>1, <2>1, <2>2 DEF Init, TypeOK
<1> QED
  BY <1>1, <1>2 DEF IInv, InvRows, OutputShape, StopWordsFound, InvTracked

(* The inductive invariant, for every searcher and any calls. *)
THEOREM Invariance == Spec => []IInv
<1>1. ASSUME IInv, [Next]_vars PROVE IInv'
  <2>1. CASE GetNextToken
    BY <1>1, <2>1, NextIs
  <2>2. ASSUME NEW p \in Inputs, GetFirstToken(p) PROVE IInv'
    BY <1>1, <2>2, FirstIs
  <2>3. CASE UNCHANGED vars
    BY <1>1, <2>3 DEF vars, IInv, TypeOK, InvRows, OutputShape, StopWordsFound, InvTracked,
       Generated, Row, SeqLen
  <2> QED
    BY <1>1, <2>1, <2>2, <2>3 DEF Next
<1> QED
  BY <1>1, InitEstablishes, PTL DEF Spec

(* Flags, matches and tokens: one of each for every sample of the batch,   *)
(* in range, in the second generation as in the first.                     *)
THEOREM TypeCorrect == Spec => []TypeOK
BY Invariance, PTL DEF IInv

(* A sample ends once, with eosTokenId, and is padded from then on.        *)
THEOREM OutputIsShaped == Spec => []OutputShape
BY Invariance, PTL DEF IInv

(* stopWordsCheck marks a sample at the end of a stop word only, and       *)
(* passes over none that follows a token foreign to it.                    *)
THEOREM StopWordsAreFound == Spec => []StopWordsFound
BY Invariance, PTL DEF IInv

(* One token more at the end of each row, and nothing else, whatever the   *)
(* insertions into the rows before it have moved.                          *)
THEOREM RowsOnlyGrow == Spec => RowsGrow
<1> DEFINE before(b) == IF calls' # calls THEN prompts'[b] ELSE Row(b)
<1>1. ASSUME IInv, [Next]_vars
      PROVE  [\A b \in DOMAIN prompts' : Row(b)' = Append(before(b), nextTokens'[b])]_vars
  <2>1. CASE GetNextToken
    <3>1. prompts' = prompts /\ prompts \in Inputs /\ calls' = calls
      BY <1>1, <2>1, NextIs
    <3>2. PICK picked : /\ Ready(prompts, doneBatch, stopWordsIndex, output, curLen)
                        /\ Stepped(prompts, doneBatch, stopWordsIndex, output, curLen, picked)
      BY <1>1, <2>1, NextIs
    <3>3. \A b \in DOMAIN prompts : RowOf(output', curLen', b) = Append(RowOf(output, curLen, b), nextTokens'[b])
      BY <3>1, <3>2, RowsStep
    <3>4. ASSUME NEW b \in DOMAIN prompts PROVE Row(b)' = Append(Row(b), nextTokens'[b])
      BY <3>3 DEF Row, RowOf
    <3> QED
      BY <3>1, <3>4
  <2>2. ASSUME NEW p \in Inputs, GetFirstToken(p)
        PROVE  \A b \in DOMAIN prompts' : Row(b)' = Append(before(b), nextTokens'[b])
    <3>1. prompts' = p /\ calls' = calls + 1 /\ calls \in Nat
      BY <1>1, <2>2, FirstIs
    <3>2. PICK done, index, picked : /\ Ready(p, done, index, Ids(p, Len(p[1])), Len(p[1]))
                                     /\ Stepped(p, done, index, Ids(p, Len(p[1])), Len(p[1]), picked)
      BY <1>1, <2>2, FirstIs
    <3>3. \A b \in DOMAIN p : RowOf(output', curLen', b) = Append(RowOf(Ids(p, Len(p[1])), Len(p[1]), b), nextTokens'[b])
      BY <3>2, RowsStep
    <3>4. \A b \in DOMAIN p : RowOf(Ids(p, Len(p[1])), Len(p[1]), b) = p[b]
      BY IdsAreRows
    <3>5. ASSUME NEW b \in DOMAIN p PROVE Row(b)' = Append(p[b], nextTokens'[b])
      BY <3>3, <3>4 DEF Row, RowOf
    <3>6. calls' # calls
      BY <3>1
    <3> QED
      BY <3>1, <3>5, <3>6
  <2>3. CASE UNCHANGED vars
    BY <2>3
  <2> QED
    BY <1>1, <2>1, <2>2, <2>3 DEF Next
<1> QED
  BY <1>1, Invariance, PTL DEF Spec, RowsGrow

-----------------------------------------------------------------------------
(* The largest logit.  Pairs <<logit, id>>. *)
Pairs == Int \X Int
First(S, p) == p \in S /\ \A q \in S : q[1] < p[1] \/ (q[1] = p[1] /\ p[2] <= q[2])

LEMMA ScanIs ==
  ASSUME NEW S \in SUBSET Pairs, NEW p, First(S, p)
  PROVE  Scan(S) = p
<1>1. First(S, Scan(S))
  BY DEF First, Scan
<1> DEFINE q == Scan(S)
<1> HIDE DEF q
<1>2. q \in Pairs /\ p \in Pairs /\ First(S, q)
  BY <1>1 DEF First, q
<1>3. q[1] = p[1] /\ q[2] = p[2] /\ q[1] \in Int /\ q[2] \in Int
  BY <1>2 DEF First, Pairs
<1> QED
  BY <1>2, <1>3 DEF Pairs, q

(* A scan of a range of ids finds one. *)
LEMMA FirstExists ==
  ASSUME NEW f, NEW lo \in Nat, NEW n \in Nat, \A k \in lo .. lo + n : f[k] \in Int
  PROVE  \E p \in Pairs : First({<<f[k], k>> : k \in lo .. lo + n}, p)
<1> DEFINE T == {m \in Nat : m <= n => \E p \in Pairs : First({<<f[k], k>> : k \in lo .. lo + m}, p)}
<1>1. 0 \in T
  <2>1. {<<f[k], k>> : k \in lo .. lo + 0} = {<<f[lo], lo>>} /\ <<f[lo], lo>> \in Pairs
    BY DEF Pairs
  <2>2. First({<<f[lo], lo>>}, <<f[lo], lo>>)
    BY DEF First
  <2> QED
    BY <2>1, <2>2
<1>2. ASSUME NEW m \in Nat, m \in T PROVE m + 1 \in T
  <2> DEFINE S == {<<f[k], k>> : k \in lo .. lo + m}
             x == <<f[lo + (m + 1)], lo + (m + 1)>>
  <2> SUFFICES ASSUME m + 1 <= n
               PROVE  \E p \in Pairs : First({<<f[k], k>> : k \in lo .. lo + (m + 1)}, p)
    OBVIOUS
  <2>1. PICK p \in Pairs : First(S, p)
    <3>1. m <= n
      OBVIOUS
    <3> HIDE DEF S
    <3>2. m <= n => \E p \in Pairs : First(S, p)
      BY <1>2, Zenon DEF S
    <3> QED
      BY <3>1, <3>2
  <2>2. {<<f[k], k>> : k \in lo .. lo + (m + 1)} = S \cup {x}
    <3>1. lo .. lo + (m + 1) = (lo .. lo + m) \cup {lo + (m + 1)}
      OBVIOUS
    <3> QED
      BY <3>1
  <2>3. x \in Pairs /\ S \in SUBSET Pairs /\ p[2] <= lo + m /\ p[2] \in Int
    <3>1. p \in S
      BY <2>1 DEF First
    <3>2. PICK k \in lo .. lo + m : p = <<f[k], k>>
      BY <3>1
    <3> QED
      BY <3>2 DEF Pairs
  <2>4. x[1] \in Int /\ x[2] = lo + (m + 1) /\ p[1] \in Int
    BY <2>3 DEF Pairs
  <2> HIDE DEF S, x
  <2>5. CASE x[1] > p[1]
    <3>1. First(S \cup {x}, x)
      <4>1. ASSUME NEW q \in S PROVE q[1] < x[1]
        <5>1. q[1] \in Int /\ (q[1] < p[1] \/ q[1] = p[1])
          BY <2>1, <2>3 DEF First, Pairs
        <5> QED
          BY <5>1, <2>4, <2>5
      <4> QED
        BY <4>1, <2>4 DEF First
    <3> QED
      BY <3>1, <2>2, <2>3
  <2>6. CASE ~(x[1] > p[1])
    <3>1. x[1] < p[1] \/ (x[1] = p[1] /\ p[2] <= x[2])
      BY <2>3, <2>4, <2>6
    <3>2. First(S \cup {x}, p)
      BY <2>1, <3>1 DEF First
    <3> QED
      BY <3>2, <2>1, <2>2
  <2> QED
    BY <2>5, <2>6
<1> HIDE DEF T
<1>3. n \in T
  BY <1>1, <1>2, InductionOnNat
<1> QED
  BY <1>3 DEF T

(* The first of all is the first of the firsts of parts. *)
LEMMA FirstOfFirsts ==
  ASSUME NEW I, NEW part, NEW first, NEW p,
         \A i \in I : part[i] \in SUBSET Pairs /\ First(part[i], first[i]),
         First(UNION {part[i] : i \in I}, p)
  PROVE  First({first[i] : i \in I}, p) /\ Scan({first[i] : i \in I}) = p
<1>1. PICK j \in I : p \in part[j]
  BY DEF First
<1>2. First(part[j], p)
  BY <1>1 DEF First
<1>3. first[j] = p
  BY <1>2, ScanIs
<1>4. First({first[i] : i \in I}, p)
  BY <1>3 DEF First
<1>5. {first[i] : i \in I} \in SUBSET Pairs
  BY DEF First
<1> QED
  BY <1>4, <1>5, ScanIs

(* The parts of the ranks follow on one another and cover the vocabulary. *)
PartOf(r) == SplitOffset(r) .. SplitOffset(r) + SplitSize(r) - 1

LEMMA PartsCover ==
  /\ \A r \in Rank : PartOf(r) \subseteq Token
  /\ \A t \in Token : \E r \in Rank : t \in PartOf(r)
<1> DEFINE q == VocabSize \div Ranks
           m == VocabSize % Ranks
           off(i) == q * i + (IF i < m THEN i ELSE m)
<1>1. VocabSize \in Nat /\ Ranks \in Nat \ {0} /\ Rank = 0 .. Ranks-1 /\ Token = 0 .. VocabSize-1
  BY SearchAssumption DEF Rank, Token
<1>2. q \in Nat /\ m \in 0 .. Ranks-1 /\ VocabSize = Ranks * q + m
  BY <1>1, DivMod
<1>3. \A r \in Rank : SplitOffset(r) = off(r) /\ SplitSize(r) = q + (IF r < m THEN 1 ELSE 0)
  BY DEF SplitOffset, SplitSize, Extra
<1> HIDE DEF q, m
<1>4. \A i \in Nat : off(i) \in Nat
  <2>1. \A i \in Nat : q * i \in Nat
    BY <1>2
  <2> QED
    BY <2>1, <1>2
<1>5. \A i \in Nat : off(i + 1) = off(i) + (q + (IF i < m THEN 1 ELSE 0))
  <2> TAKE i \in Nat
  <2> DEFINE a == q * i
             c == q * (i + 1)
  <2>1. c = a + q /\ a \in Nat
    BY <1>2
  <2>2. off(i) = a + (IF i < m THEN i ELSE m) /\ off(i + 1) = c + (IF i + 1 < m THEN i + 1 ELSE m)
    OBVIOUS
  <2> HIDE DEF a, c, off
  <2> QED
    BY <2>1, <2>2, <1>2
<1>6. off(0) = 0 /\ off(Ranks) = VocabSize
  <2> DEFINE a == q * 0
             c == q * Ranks
  <2>1. a = 0 /\ c \in Nat /\ VocabSize = c + m /\ ~(Ranks < m)
    BY <1>1, <1>2
  <2>2. off(0) = a + (IF 0 < m THEN 0 ELSE m) /\ off(Ranks) = c + (IF Ranks < m THEN Ranks ELSE m)
    OBVIOUS
  <2> HIDE DEF a, c, off
  <2> QED
    BY <2>1, <2>2, <1>2
<1>7. \A i \in 0 .. Ranks : off(i) <= VocabSize
  <2> TAKE i \in 0 .. Ranks
  <2>1. i \in Nat /\ i <= Ranks
    BY <1>1
  <2> DEFINE a == q * i
             c == q * Ranks
  <2>2. a <= c /\ a \in Nat /\ c \in Nat /\ VocabSize = c + m
    BY <2>1, <1>1, <1>2, MulMono
  <2>3. off(i) = a + (IF i < m THEN i ELSE m)
    OBVIOUS
  <2> HIDE DEF a, c, off
  <2> QED
    BY <2>1, <2>2, <2>3, <1>2
<1> HIDE DEF off
<1>8. \A r \in Rank : PartOf(r) = off(r) .. off(r + 1) - 1
  <2> TAKE r \in Rank
  <2>1. r \in Nat
    BY <1>1
  <2> DEFINE z == q + (IF r < m THEN 1 ELSE 0)
             o == off(r)
  <2>2. off(r + 1) = o + z
    BY <2>1, <1>5
  <2>3. SplitOffset(r) = o /\ SplitSize(r) = z /\ o \in Nat /\ z \in Nat
    BY <2>1, <1>2, <1>3, <1>4
  <2> HIDE DEF z, o
  <2>4. PartOf(r) = o .. o + z - 1
    BY <2>3 DEF PartOf
  <2>5. o + z - 1 = off(r + 1) - 1
    BY <2>2, <2>3
  <2> QED
    BY <2>4, <2>5 DEF o
<1>9. \A r \in Rank : PartOf(r) \subseteq Token
  <2> TAKE r \in Rank
  <2>1. r \in Nat /\ r + 1 \in 0 .. Ranks
    BY <1>1
  <2>2. off(r) \in Nat /\ off(r + 1) \in Nat /\ off(r + 1) <= VocabSize
    BY <2>1, <1>4, <1>7
  <2> QED
    BY <2>2, <1>1, <1>8
<1> DEFINE T == {n \in Nat : n <= Ranks => \A t \in 0 .. off(n) - 1 : \E r \in 0 .. n-1 : t \in off(r) .. off(r + 1) - 1}
<1>10. 0 \in T
  BY <1>6
<1>11. ASSUME NEW n \in Nat, n \in T PROVE n + 1 \in T
  <2> SUFFICES ASSUME n + 1 <= Ranks, NEW t \in 0 .. off(n + 1) - 1
               PROVE  \E r \in 0 .. (n + 1) - 1 : t \in off(r) .. off(r + 1) - 1
    OBVIOUS
  <2>1. off(n) \in Nat /\ off(n + 1) \in Nat /\ n <= Ranks
    <3>1. n + 1 \in Nat /\ n <= Ranks
      BY <1>1
    <3> QED
      BY <3>1, <1>4
  <2>2. CASE t < off(n)
    <3>1. t \in 0 .. off(n) - 1
      BY <2>1, <2>2
    <3>2. PICK r \in 0 .. n-1 : t \in off(r) .. off(r + 1) - 1
      BY <1>11, <2>1, <3>1
    <3>3. r \in 0 .. (n + 1) - 1
      OBVIOUS
    <3> QED
      BY <3>2, <3>3
  <2>3. CASE ~(t < off(n))
    <3>1. n \in 0 .. (n + 1) - 1 /\ t \in off(n) .. off(n + 1) - 1
      BY <2>1, <2>3
    <3> QED
      BY <3>1
  <2> QED
    BY <2>2, <2>3
<1> HIDE DEF T
<1>12. Ranks \in T
  BY <1>1, <1>10, <1>11, InductionOnNat
<1>13. \A t \in Token : \E r \in Rank : t \in off(r) .. off(r + 1) - 1
  BY <1>1, <1>6, <1>12 DEF T
<1> QED
  BY <1>8, <1>9, <1>13

(* The search for the largest logit of a part, split over threads. *)
LEMMA LocalMaxIs ==
  ASSUME NEW p \in Inputs, NEW r \in Rank, NEW f \in [0 .. SplitSize(r)-1 -> Int]
  PROVE  /\ {<<f[k], k>> : k \in 0 .. SplitSize(r)-1} \in SUBSET Pairs
         /\ First({<<f[k], k>> : k \in 0 .. SplitSize(r)-1},
                  LocalMax(r, {<<f[k], k>> : k \in 0 .. SplitSize(r)-1}, Len(p)))
<1> DEFINE sz == SplitSize(r)
           buf == {<<f[k], k>> : k \in 0 .. sz-1}
           T == ThrPerSample(Len(p))
           s == SizePerThr(r, Len(p))
<1>1. sz \in Nat \ {0} /\ Len(p) \in Nat \ {0} /\ NumThreads \in Nat
  BY PartFacts, IdsAreRows, SearchAssumption
<1>2. T \in Nat
  BY <1>1, DivMod DEF ThrPerSample
<1>3. buf \in SUBSET Pairs
  BY DEF Pairs
<1>4. PICK x \in Pairs : First(buf, x)
  <2>1. sz - 1 \in Nat /\ 0 + (sz - 1) = sz - 1
    BY <1>1
  <2> HIDE DEF sz
  <2>2. \A k \in 0 .. 0 + (sz - 1) : f[k] \in Int
    BY <2>1 DEF sz
  <2>3. \E x \in Pairs : First({<<f[k], k>> : k \in 0 .. 0 + (sz - 1)}, x)
    BY <2>1, <2>2, FirstExists
  <2> QED
    BY <2>1, <2>3
<1> HIDE DEF buf
<1>5. CASE ~(T >= 2)
  <2>1. LocalMax(r, buf, Len(p)) = Scan(buf)
    BY <1>5 DEF LocalMax
  <2> QED
    BY <1>3, <1>4, <2>1, ScanIs DEF buf
<1>6. CASE T >= 2
  <2>1. s = ((sz + T) - 1) \div T
    <3>1. sz + T - 1 = (sz + T) - 1
      BY <1>1, <1>2
    <3> QED
      BY <3>1 DEF SizePerThr
  <2>2. (T - 1) * s < sz
    BY <1>6, ThreadsAssumption
  <2> HIDE DEF s, T, sz
  <2> DEFINE rem == ((sz + T) - 1) % T
  <2>3. s \in Nat /\ rem \in 0 .. T-1 /\ (sz + T) - 1 = T * s + rem
    <3>1. (sz + T) - 1 \in Nat /\ T \in Nat \ {0}
      BY <1>1, <1>2, <1>6
    <3> QED
      BY <2>1, <3>1, DivMod
  <2> HIDE DEF rem
  <2>4. sz <= T * s /\ T * s \in Nat
    BY <2>3, <1>1, <1>2
  <2>5. s # 0
    <3> SUFFICES ASSUME s = 0 PROVE FALSE
      OBVIOUS
    <3>1. T * s = 0
      BY <1>2
    <3> QED
      BY <2>4, <3>1, <1>1
  <2> DEFINE I == 0 .. T-1
             part == [t \in I |-> {y \in buf : y[2] \in t * s .. (t+1) * s - 1}]
             first == [t \in I |-> Scan(part[t])]
  <2>6. ASSUME NEW t \in I PROVE part[t] \in SUBSET Pairs /\ First(part[t], first[t])
    <3> DEFINE lo == t * s
               hi == IF lo + s <= sz THEN lo + s - 1 ELSE sz - 1
               n == hi - lo
    <3>1. (t+1) * s = lo + s /\ lo \in Nat
      BY <1>2, <2>3
    <3>2. lo < sz
      <4>1. s * t <= s * (T - 1) /\ s * t \in Nat /\ s * (T - 1) \in Nat
        BY <1>2, <1>6, <2>3, MulMono
      <4>2. s * t = lo /\ s * (T - 1) = (T - 1) * s
        BY <1>2, <2>3
      <4> QED
        BY <4>1, <4>2, <2>2, <1>1
    <3> HIDE DEF lo
    <3>3. n \in Nat /\ lo + n = hi /\ hi < sz
      BY <3>1, <3>2, <2>3, <2>5, <1>1
    <3>4. \A k \in 0 .. sz-1 : k \in lo .. lo + s - 1 <=> k \in lo .. lo + n
      BY <3>1, <3>2, <3>3, <2>3, <2>5, <1>1
    <3>5. \A k \in lo .. lo + n : k \in 0 .. sz-1
      BY <3>1, <3>3, <1>1
    <3> HIDE DEF n
    <3>6. part[t] = {y \in buf : y[2] \in lo .. lo + s - 1}
      <4>1. part[t] = {y \in buf : y[2] \in lo .. (t+1) * s - 1}
        BY DEF lo
      <4>2. (t+1) * s - 1 = lo + s - 1
        BY <3>1, <2>3
      <4> QED
        BY <4>1, <4>2
    <3>7. part[t] = {<<f[k], k>> : k \in lo .. lo + n}
      <4> HIDE DEF part
      <4>1. \A y : y \in part[t] <=> \E k \in 0 .. sz-1 : y = <<f[k], k>> /\ y[2] \in lo .. lo + s - 1
        BY <3>6 DEF buf
      <4>2. \A y : y \in part[t] <=> \E k \in lo .. lo + n : y = <<f[k], k>>
        BY <4>1, <3>4, <3>5
      <4> QED
        BY <4>2
    <3>8. \A k \in lo .. lo + n : f[k] \in Int
      BY <3>5 DEF sz
    <3>9. PICK y \in Pairs : First(part[t], y)
      <4> HIDE DEF part
      <4>1. \E y \in Pairs : First({<<f[k], k>> : k \in lo .. lo + n}, y)
        BY <3>1, <3>3, <3>8, FirstExists
      <4> QED
        BY <4>1, <3>7
    <3>10. part[t] \in SUBSET Pairs
      BY <1>3, <3>6
    <3>11. first[t] = Scan(part[t])
      OBVIOUS
    <3> HIDE DEF part, first
    <3> QED
      BY <3>9, <3>10, <3>11, ScanIs
  <2>7. UNION {part[t] : t \in I} = buf
    <3>1. ASSUME NEW y \in buf PROVE \E t \in I : y \in part[t]
      <4>1. PICK k \in 0 .. sz-1 : y = <<f[k], k>>
        BY DEF buf
      <4> DEFINE t == k \div s
      <4>2. k \in Nat /\ s \in Nat \ {0}
        BY <1>1, <2>3, <2>5
      <4> DEFINE u == k % s
      <4>3. t \in Nat /\ u \in 0 .. s-1 /\ k = s * t + u
        BY <4>2, DivMod
      <4> HIDE DEF t, u
      <4>4. t < T
        <5> SUFFICES ASSUME t >= T PROVE FALSE
          BY <1>2, <4>3
        <5>1. s * T <= s * t /\ s * T \in Nat /\ s * t \in Nat
          BY <1>2, <4>2, <4>3, MulMono
        <5>2. s * T = T * s
          BY <1>2, <4>2
        <5> DEFINE a == s * t
                   c == T * s
        <5>3. c <= a /\ a \in Nat /\ c \in Nat /\ k = a + u /\ sz <= c
          BY <5>1, <5>2, <4>3, <2>4
        <5> HIDE DEF a, c
        <5> QED
          BY <5>3, <4>2, <4>3, <1>1
      <4>5. t \in I
        BY <1>2, <4>3, <4>4
      <4>6. t * s = s * t /\ (t+1) * s = s * t + s /\ s * t \in Nat
        BY <4>2, <4>3
      <4>7. k \in t * s .. (t+1) * s - 1
        <5> DEFINE a == s * t
                   c == t * s
                   d == (t+1) * s
        <5>1. a \in Nat /\ c = a /\ d = a + s /\ k = a + u
          BY <4>3, <4>6
        <5> HIDE DEF a, c, d
        <5>2. k \in c .. d - 1
          BY <5>1, <4>2, <4>3
        <5> QED
          BY <5>2 DEF c, d
      <4>8. y[2] = k
        BY <4>1
      <4> QED
        BY <4>5, <4>7, <4>8
    <3>2. \A t \in I : part[t] \subseteq buf
      OBVIOUS
    <3> HIDE DEF part, I
    <3> QED
      BY <3>1, <3>2
  <2>8. {first[t] : t \in I} = {Scan({y \in buf : y[2] \in t * s .. (t+1) * s - 1}) : t \in I}
    OBVIOUS
  <2> HIDE DEF part, first
  <2>9. First(UNION {part[t] : t \in I}, x)
    BY <1>4, <2>7
  <2>10. Scan({first[t] : t \in I}) = x
    BY <2>6, <2>9, FirstOfFirsts
  <2>11. LocalMax(r, buf, Len(p)) = Scan({first[t] : t \in I})
    BY <1>6, <2>8 DEF LocalMax, ThreadMax, T, s
  <2> QED
    BY <1>3, <1>4, <2>10, <2>11 DEF buf, sz
<1> QED
  BY <1>5, <1>6

(* What the ranks know of the tokens seen. *)
Knows(vec, seen) ==
  Penalty # 1 => \A r \in Rank : \A k \in 0 .. SplitSize(r)-1 : k \in vec[r] <=> SplitOffset(r) + k \in seen

(* The logits after the penalty, and the part of rank r with its own ids   *)
(* and with those of the whole vocabulary.                                 *)
Weight(row, seen) == [t \in Token |-> IF Penalty # 1 /\ t \in seen THEN Penalised(row[t]) ELSE row[t]]
PartRow(row, seen, r) == {<<Weight(row, seen)[t], t>> : t \in PartOf(r)}

LEMMA WeightType ==
  ASSUME NEW row \in LogitRows, NEW seen
  PROVE  Weight(row, seen) \in [Token -> Int]
<1>1. \A t \in Token : row[t] \in Int /\ Penalty \in Nat \ {0}
  BY SearchAssumption
<1>2. ASSUME NEW v \in Int, NEW d \in Nat \ {0} PROVE v * d \in Int /\ (v >= 0 => v \div d \in Int)
  OBVIOUS
<1>3. \A t \in Token : Penalised(row[t]) \in Int
  BY <1>1, <1>2 DEF Penalised
<1> QED
  BY <1>1, <1>3 DEF Weight

LEMMA OutBufIs ==
  ASSUME NEW row \in LogitRows, NEW vec, NEW seen, NEW r \in Rank, Knows(vec, seen)
  PROVE  LET f == [k \in 0 .. SplitSize(r)-1 |-> Weight(row, seen)[SplitOffset(r) + k]]
         IN  /\ f \in [0 .. SplitSize(r)-1 -> Int]
             /\ OutBuf(r, row, vec[r]) = {<<f[k], k>> : k \in 0 .. SplitSize(r)-1}
             /\ Global(r, OutBuf(r, row, vec[r])) = PartRow(row, seen, r)
<1> DEFINE o == SplitOffset(r)
           sz == SplitSize(r)
           f == [k \in 0 .. sz-1 |-> Weight(row, seen)[o + k]]
<1>1. o \in Nat /\ sz \in Nat
  BY PartFacts
<1>2. PartOf(r) = o .. o + sz - 1 /\ PartOf(r) \subseteq Token
  BY PartsCover DEF PartOf
<1>3. OutBuf(r, row, vec[r]) =
        {<<IF Penalty # 1 /\ k \in vec[r] THEN Penalised(row[o + k]) ELSE row[o + k], k>> : k \in 0 .. sz-1}
  BY DEF OutBuf
<1>4. Penalty # 1 => \A k \in 0 .. sz-1 : k \in vec[r] <=> o + k \in seen
  BY DEF Knows
<1> HIDE DEF o, sz
<1>5. \A k \in 0 .. sz-1 : o + k \in PartOf(r) /\ o + k \in Token
  BY <1>1, <1>2
<1>6. f \in [0 .. sz-1 -> Int]
  BY <1>5, WeightType
<1>7. \A k \in 0 .. sz-1 : f[k] = IF Penalty # 1 /\ k \in vec[r] THEN Penalised(row[o + k]) ELSE row[o + k]
  BY <1>4, <1>5 DEF Weight
<1>8. OutBuf(r, row, vec[r]) = {<<f[k], k>> : k \in 0 .. sz-1}
  <2> HIDE DEF f
  <2> QED
    BY <1>3, <1>7
<1>9. Global(r, OutBuf(r, row, vec[r])) = {<<f[k], k + o>> : k \in 0 .. sz-1}
  <2> HIDE DEF f
  <2>1. Global(r, OutBuf(r, row, vec[r])) = {<<p[1], p[2] + o>> : p \in {<<f[k], k>> : k \in 0 .. sz-1}}
    BY <1>8 DEF Global, o
  <2>2. \A y : y \in {<<p[1], p[2] + o>> : p \in {<<f[k], k>> : k \in 0 .. sz-1}} <=> \E k \in 0 .. sz-1 : y = <<f[k], k + o>>
    <3>1. \A k \in 0 .. sz-1 : <<f[k], k>>[1] = f[k] /\ <<f[k], k>>[2] = k
      OBVIOUS
    <3>2. \A y : y \in {<<p[1], p[2] + o>> : p \in {<<f[k], k>> : k \in 0 .. sz-1}}
                   <=> \E k \in 0 .. sz-1 : y = <<<<f[k], k>>[1], <<f[k], k>>[2] + o>>
      BY Zenon
    <3> QED
      BY <3>1, <3>2
  <2> QED
    BY <2>1, <2>2
<1>10. {<<f[k], k + o>> : k \in 0 .. sz-1} = PartRow(row, seen, r)
  <2>1. ASSUME NEW k \in 0 .. sz-1 PROVE k + o \in PartOf(r) /\ f[k] = Weight(row, seen)[k + o]
    <3>1. k + o = o + k
      BY <1>1
    <3> QED
      BY <3>1, <1>5
  <2>2. ASSUME NEW t \in PartOf(r) PROVE t - o \in 0 .. sz-1 /\ (t - o) + o = t
    BY <1>1, <1>2
  <2> HIDE DEF f
  <2>3. ASSUME NEW t \in PartOf(r) PROVE \E k \in 0 .. sz-1 : <<f[k], k + o>> = <<Weight(row, seen)[t], t>>
    <3>1. f[t - o] = Weight(row, seen)[t]
      BY <2>1, <2>2
    <3> QED
      BY <2>2, <3>1
  <2> QED
    BY <2>1, <2>3 DEF PartRow
<1> QED
  BY <1>6, <1>8, <1>9, <1>10 DEF o, sz

(* The parts make up what one process would have. *)
LEMMA PartsAreAll ==
  ASSUME NEW row \in LogitRows, NEW seen
  PROVE  /\ PenalisedRow(row, seen) = {<<Weight(row, seen)[t], t>> : t \in Token}
         /\ PenalisedRow(row, seen) \in SUBSET Pairs
         /\ PenalisedRow(row, seen) = UNION {PartRow(row, seen, r) : r \in Rank}
         /\ \A r \in Rank : PartRow(row, seen, r) \in SUBSET Pairs
<1>1. PenalisedRow(row, seen) = {<<Weight(row, seen)[t], t>> : t \in Token}
  <2>1. \A t \in Token : Weight(row, seen)[t] = IF Penalty # 1 /\ t \in seen THEN Penalised(row[t]) ELSE row[t]
    BY DEF Weight
  <2> QED
    BY <2>1 DEF PenalisedRow
<1>2. \A t \in Token : <<Weight(row, seen)[t], t>> \in Pairs
  BY WeightType, TokenFacts DEF Pairs
<1>3. PenalisedRow(row, seen) \in SUBSET Pairs
  BY <1>1, <1>2
<1>4. \A r \in Rank : PartRow(row, seen, r) \subseteq PenalisedRow(row, seen)
  BY <1>1, PartsCover DEF PartRow
<1>5. \A y \in PenalisedRow(row, seen) : \E r \in Rank : y \in PartRow(row, seen, r)
  <2> SUFFICES ASSUME NEW t \in Token PROVE \E r \in Rank : <<Weight(row, seen)[t], t>> \in PartRow(row, seen, r)
    BY <1>1
  <2> QED
    BY PartsCover DEF PartRow
<1> QED
  BY <1>1, <1>3, <1>4, <1>5

(* Threads and ranks together find what one process would. *)
LEMMA MaxIdIs ==
  ASSUME NEW p \in Inputs, NEW row \in LogitRows, NEW vec, NEW seen, Knows(vec, seen)
  PROVE  MaxId(row, vec, Len(p)) = Scan(PenalisedRow(row, seen))[2]
<1> DEFINE best(r) == LocalMax(r, OutBuf(r, row, vec[r]), Len(p))
           part == [r \in Rank |-> PartRow(row, seen, r)]
           first == [r \in Rank |-> <<best(r)[1], best(r)[2] + SplitOffset(r)>>]
<1>1. ASSUME NEW r \in Rank PROVE First(part[r], first[r])
  <2> DEFINE buf == OutBuf(r, row, vec[r])
             o == SplitOffset(r)
             f == [k \in 0 .. SplitSize(r)-1 |-> Weight(row, seen)[SplitOffset(r) + k]]
  <2>1. /\ f \in [0 .. SplitSize(r)-1 -> Int]
        /\ buf = {<<f[k], k>> : k \in 0 .. SplitSize(r)-1}
        /\ Global(r, buf) = PartRow(row, seen, r)
    <3> HIDE DEF part, first
    <3> QED
      BY OutBufIs
  <2> HIDE DEF f, buf
  <2>2. buf \in SUBSET Pairs /\ First(buf, LocalMax(r, buf, Len(p)))
    BY <2>1, LocalMaxIs
  <2> DEFINE x == LocalMax(r, buf, Len(p))
  <2>3. part[r] = {<<q[1], q[2] + o>> : q \in buf}
    <3>1. part[r] = PartRow(row, seen, r)
      OBVIOUS
    <3> HIDE DEF part
    <3> QED
      BY <2>1, <3>1 DEF Global
  <2>4. first[r] = <<x[1], x[2] + o>>
    BY DEF buf
  <2>5. o \in Nat
    BY PartFacts
  <2> HIDE DEF x, o, part, first
  <2>6. First(buf, x) /\ x \in Pairs
    BY <2>2 DEF x, First
  <2>7. ASSUME NEW q \in buf PROVE q[1] < x[1] \/ (q[1] = x[1] /\ x[2] + o <= q[2] + o)
    <3>1. q[2] \in Int /\ x[2] \in Int
      BY <2>2, <2>6 DEF Pairs
    <3>2. q[1] < x[1] \/ (q[1] = x[1] /\ x[2] <= q[2])
      BY <2>6 DEF First
    <3> QED
      BY <2>5, <3>1, <3>2
  <2>8. <<x[1], x[2] + o>> \in part[r]
    BY <2>3, <2>6 DEF First
  <2>9. \A y \in part[r] : y[1] < x[1] \/ (y[1] = x[1] /\ x[2] + o <= y[2])
    BY <2>3, <2>7
  <2> QED
    BY <2>4, <2>8, <2>9 DEF First
<1>2. UNION {Global(r, {best(r)}) : r \in Rank} = {first[r] : r \in Rank}
  <2>1. \A r \in Rank : Global(r, {best(r)}) = {first[r]}
    BY DEF Global
  <2> HIDE DEF first, best
  <2> QED
    BY <2>1
<1>3. PICK x \in Pairs : First(PenalisedRow(row, seen), x)
  <2> DEFINE n == VocabSize - 1
             w == Weight(row, seen)
  <2>1. n \in Nat /\ 0 \in Nat /\ Token = 0 .. 0 + n
    BY TokenFacts DEF Token
  <2>2. \A k \in 0 .. 0 + n : w[k] \in Int
    BY <2>1, WeightType
  <2> HIDE DEF n, w
  <2>3. \E x \in Pairs : First({<<w[k], k>> : k \in 0 .. 0 + n}, x)
    BY <2>1, <2>2, FirstExists
  <2>4. PenalisedRow(row, seen) = {<<w[k], k>> : k \in 0 .. 0 + n}
    BY <2>1, PartsAreAll DEF w
  <2> QED
    BY <2>3, <2>4
<1>4. UNION {part[r] : r \in Rank} = PenalisedRow(row, seen)
  BY PartsAreAll
<1>5. \A r \in Rank : part[r] \in SUBSET Pairs
  BY PartsAreAll
<1> HIDE DEF part, first
<1>6. Scan({first[r] : r \in Rank}) = x
  <2>1. \A i \in Rank : part[i] \in SUBSET Pairs /\ First(part[i], first[i])
    BY <1>1, <1>5
  <2>2. First(UNION {part[i] : i \in Rank}, x)
    BY <1>3, <1>4
  <2> QED
    BY <2>1, <2>2, FirstOfFirsts, Zenon
<1>7. Scan(PenalisedRow(row, seen)) = x
  BY <1>3, PartsAreAll, ScanIs
<1>8. MaxId(row, vec, Len(p)) = Scan(UNION {Global(r, {best(r)}) : r \in Rank})[2]
  BY DEF MaxId
<1> QED
  BY <1>2, <1>6, <1>7, <1>8

-----------------------------------------------------------------------------
(* What the ranks know of the tokens of a row. *)
Seen(vec, b) == [r \in Rank |-> vec[r][b]]
KnowsAll(vec, seen) ==
  \A r \in Rank : \A k \in 0 .. SplitSize(r)-1 : k \in vec[r] <=> SplitOffset(r) + k \in seen

LEMMA PromptKnown ==
  ASSUME EdgesUnused, NEW p \in Inputs, NEW b \in DOMAIN p
  PROVE  KnowsAll(Seen(FirstVec(p), b), ToSet(p[b]))
<1> SUFFICES ASSUME NEW r \in Rank, NEW k \in 0 .. SplitSize(r)-1
             PROVE  k \in PromptVec(r, p[b]) <=> SplitOffset(r) + k \in ToSet(p[b])
  BY DEF KnowsAll, Seen, FirstVec
<1>1. SplitSize(r) \in Nat /\ SplitOffset(r) \in Nat /\ (Ranks = 1 => SplitOffset(r) = 0)
  BY PartFacts
<1> DEFINE S == ToSet(p[b])
           o == SplitOffset(r)
           z == SplitSize(r)
<1>2. CASE Ranks > 1
  <2>1. o \notin S
    BY <1>2 DEF EdgesUnused
  <2>2. PromptVec(r, p[b]) = {t - o : t \in S \cap o+1 .. o+z-1}
    BY <1>2 DEF PromptVec
  <2> HIDE DEF S, o, z
  <2>3. ASSUME k \in PromptVec(r, p[b]) PROVE o + k \in S
    <3>1. PICK t \in S \cap o+1 .. o+z-1 : k = t - o
      BY <2>2, <2>3
    <3>2. o + k = t
      BY <3>1, <1>1 DEF o
    <3> QED
      BY <3>1, <3>2
  <2>4. ASSUME o + k \in S PROVE k \in PromptVec(r, p[b])
    <3>1. k # 0
      BY <2>1, <2>4, <1>1 DEF o
    <3>2. o + k \in o+1 .. o+z-1 /\ (o + k) - o = k
      BY <3>1, <1>1 DEF o, z
    <3> QED
      BY <2>2, <2>4, <3>2
  <2> QED
    BY <2>3, <2>4 DEF o, S
<1>3. CASE ~(Ranks > 1)
  <2>1. Ranks = 1
    BY <1>3, SearchAssumption
  <2>2. PromptVec(r, p[b]) = S /\ o + k = k
    BY <2>1, <1>1, <1>3 DEF PromptVec
  <2> QED
    BY <2>2
<1> QED
  BY <1>2, <1>3

(* A step adds its token to both. *)
LEMMA SeenStep ==
  ASSUME NEW p \in Inputs, NEW vec, NEW b \in DOMAIN p, NEW row \in Seq(Token),
         KnowsAll(Seen(vec, b), ToSet(row)), cachedRepetVec' = vec, nextTokens'[b] \in Token,
         Row(b)' = Append(row, nextTokens'[b])
  PROVE  \A r \in Rank : \A k \in 0 .. SplitSize(r)-1 :
           k \in GrownVec(r, b)' <=> SplitOffset(r) + k \in ToSet(Row(b)')
<1> SUFFICES ASSUME NEW r \in Rank, NEW k \in 0 .. SplitSize(r)-1
             PROVE  k \in GrownVec(r, b)' <=> SplitOffset(r) + k \in ToSet(Row(b)')
  OBVIOUS
<1> DEFINE o == SplitOffset(r)
           z == SplitSize(r)
           t == nextTokens'[b]
<1>1. ToSet(Row(b)') = ToSet(row) \cup {t}
  BY AppendIs
<1>2. k \in vec[r][b] <=> o + k \in ToSet(row)
  BY DEF KnowsAll, Seen
<1>3. GrownVec(r, b)' = vec[r][b] \cup {u - o : u \in {t} \cap o .. o + z - 1}
  BY DEF GrownVec
<1>4. o \in Nat /\ z \in Nat /\ k \in 0 .. z-1 /\ t \in Int
  <2>1. o \in Nat /\ z \in Nat
    BY PartFacts
  <2>2. \A u \in Token : u \in Int
    BY TokenFacts
  <2> QED
    BY <2>1, <2>2
<1> HIDE DEF o, z, t
<1>5. k \in {u - o : u \in {t} \cap o .. o + z - 1} <=> o + k = t
  <2>1. ASSUME NEW u \in {t} \cap o .. o + z - 1, k = u - o PROVE o + k = t
    BY <2>1, <1>4
  <2>2. ASSUME o + k = t PROVE t \in o .. o + z - 1 /\ k = t - o
    BY <2>2, <1>4
  <2> QED
    BY <2>1, <2>2
<1> QED
  BY <1>1, <1>2, <1>3, <1>5 DEF o

LEMMA SeenStays == ASSUME EdgesUnused PROVE IInv /\ InvSeen /\ [Next]_vars => InvSeen'
<1> SUFFICES ASSUME IInv, InvSeen, [Next]_vars PROVE InvSeen'
  OBVIOUS
<1>1. CASE GetNextToken
  <2>1. prompts' = prompts /\ prompts \in Inputs /\ step # 0 /\ cachedRepetVec' = NextVec
    BY <1>1, NextIs
  <2>2. PICK picked : /\ Ready(prompts, doneBatch, stopWordsIndex, output, curLen)
                      /\ Stepped(prompts, doneBatch, stopWordsIndex, output, curLen, picked)
    BY <1>1, NextIs
  <2>3. ASSUME NEW b \in DOMAIN prompts
        PROVE  \A r \in Rank : \A k \in 0 .. SplitSize(r)-1 :
                 k \in GrownVec(r, b)' <=> SplitOffset(r) + k \in ToSet(Row(b)')
    <3>1. /\ RowOf(output', curLen', b) = Append(RowOf(output, curLen, b), nextTokens'[b])
          /\ RowOf(output, curLen, b) \in Seq(Token) /\ nextTokens'[b] \in Token
      BY <2>1, <2>2, RowsStep
    <3>2. Row(b) = RowOf(output, curLen, b) /\ Row(b)' = RowOf(output', curLen', b)
      BY DEF Row, RowOf
    <3>3. KnowsAll(Seen(NextVec, b), ToSet(Row(b)))
      BY <2>1 DEF InvSeen, KnowsAll, Seen, NextVec
    <3> HIDE DEF Row, NextVec
    <3>4. Row(b)' = Append(Row(b), nextTokens'[b]) /\ Row(b) \in Seq(Token)
      BY <3>1, <3>2
    <3> QED
      BY <2>1, <3>1, <3>3, <3>4, SeenStep
  <2> QED
    BY <2>1, <2>3 DEF InvSeen
<1>2. ASSUME NEW p \in Inputs, GetFirstToken(p) PROVE InvSeen'
  <2>1. prompts' = p /\ cachedRepetVec' = FirstVec(p)
    BY <1>2, FirstIs
  <2>2. PICK done, index, picked : /\ Ready(p, done, index, Ids(p, Len(p[1])), Len(p[1]))
                                   /\ Stepped(p, done, index, Ids(p, Len(p[1])), Len(p[1]), picked)
    BY <1>2, FirstIs
  <2>3. ASSUME NEW b \in DOMAIN p
        PROVE  \A r \in Rank : \A k \in 0 .. SplitSize(r)-1 :
                 k \in GrownVec(r, b)' <=> SplitOffset(r) + k \in ToSet(Row(b)')
    <3>1. /\ RowOf(output', curLen', b) = Append(RowOf(Ids(p, Len(p[1])), Len(p[1]), b), nextTokens'[b])
          /\ nextTokens'[b] \in Token
      BY <2>2, RowsStep
    <3>2. RowOf(Ids(p, Len(p[1])), Len(p[1]), b) = p[b] /\ p[b] \in Seq(Token)
      BY IdsAreRows
    <3>3. Row(b)' = Append(p[b], nextTokens'[b])
      BY <3>1, <3>2 DEF Row, RowOf
    <3>4. KnowsAll(Seen(FirstVec(p), b), ToSet(p[b]))
      BY PromptKnown
    <3> QED
      BY <2>1, <3>1, <3>2, <3>3, <3>4, SeenStep
  <2> QED
    BY <2>1, <2>3 DEF InvSeen
<1>3. CASE UNCHANGED vars
  BY <1>3 DEF vars, InvSeen, GrownVec, Row
<1> QED
  BY <1>1, <1>2, <1>3 DEF Next

(* Prompts without the first token of a part: the ranks penalise the       *)
(* tokens of the row and no other.                                         *)
THEOREM SeenIsKnown == ASSUME EdgesUnused PROVE Spec => []InvSeen
<1>1. Init => InvSeen
  BY DEF Init, InvSeen
<1> QED
  BY <1>1, SeenStays, Invariance, PTL DEF Spec

(* How the token of a running sample is picked. *)
LEMMA PickedFor ==
  ASSUME IInv, Next, Penalty # 1 => EdgesUnused /\ InvSeen,
         NEW b \in DOMAIN prompts', Running(b)
  PROVE  /\ prompts' \in Inputs /\ logits'[b] \in LogitRows
         /\ \E vec : /\ nextTokens'[b] \in Picks(b, logits'[b], vec, Len(prompts'))
                     /\ Knows(vec, SeenBefore(b))
<1>1. CASE GetNextToken
  <2>1. prompts' = prompts /\ prompts \in Inputs /\ step # 0 /\ calls' = calls
    BY <1>1, NextIs
  <2>2. PICK picked \in [DOMAIN prompts -> Token] :
          /\ \A c \in DOMAIN prompts : picked[c] \in
               Picks(c, logits'[c], [r \in Rank |-> NextVec[r][c]], Len(logits'))
          /\ Stepped(prompts, doneBatch, stopWordsIndex, output, curLen, picked)
    BY <1>1, NextIs
  <2>3. doneBatch[b] = 0
    BY <2>1 DEF Running
  <2>4. nextTokens'[b] = picked[b]
    <3>1. nextTokens'[b] = EndToken(doneBatch[b], picked[b])
      BY <2>1, <2>2 DEF Stepped
    <3> QED
      BY <3>1, <2>3, <2>1, <2>2, EndTokenType DEF EndToken
  <2>5. logits' \in [DOMAIN prompts -> LogitRows]
    BY <1>1, NextIs
  <2>6. Len(logits') = Len(prompts)
    BY <2>1, <2>5, IdsAreRows, FunctionIsSeq
  <2>7. SeenBefore(b) = ToSet(Row(b))
    BY <2>1 DEF SeenBefore
  <2>8. Penalty # 1 => KnowsAll(Seen(NextVec, b), ToSet(Row(b)))
    BY <2>1 DEF InvSeen, KnowsAll, Seen, NextVec
  <2>9. nextTokens'[b] \in Picks(b, logits'[b], Seen(NextVec, b), Len(prompts'))
    BY <2>1, <2>2, <2>4, <2>6 DEF Seen
  <2>10. Knows(Seen(NextVec, b), SeenBefore(b))
    BY <2>7, <2>8 DEF Knows, KnowsAll
  <2> QED
    BY <2>1, <2>5, <2>9, <2>10
<1>2. ASSUME NEW p \in Inputs, GetFirstToken(p)
      PROVE  /\ prompts' \in Inputs /\ logits'[b] \in LogitRows
             /\ \E vec : /\ nextTokens'[b] \in Picks(b, logits'[b], vec, Len(prompts'))
                         /\ Knows(vec, SeenBefore(b))
  <2>1. prompts' = p /\ calls' = calls + 1 /\ calls \in Nat
    BY <1>2, FirstIs
  <2>2. PICK done, index, picked :
          /\ picked \in [DOMAIN p -> Token]
          /\ \A c \in DOMAIN p : done[c] = 0
          /\ \A c \in DOMAIN p : picked[c] \in
               Picks(c, logits'[c], [r \in Rank |-> FirstVec(p)[r][c]], Len(logits'))
          /\ Stepped(p, done, index, Ids(p, Len(p[1])), Len(p[1]), picked)
    BY <1>2, FirstIs
  <2>4. nextTokens'[b] = picked[b]
    <3>1. nextTokens'[b] = EndToken(done[b], picked[b])
      BY <2>1, <2>2 DEF Stepped
    <3> QED
      BY <3>1, <2>1, <2>2, EndTokenType DEF EndToken
  <2>5. logits' \in [DOMAIN p -> LogitRows]
    BY <1>2, FirstIs
  <2>6. Len(logits') = Len(p)
    BY <2>1, <2>5, IdsAreRows, FunctionIsSeq
  <2>7. SeenBefore(b) = ToSet(p[b])
    BY <2>1 DEF SeenBefore
  <2>8. Penalty # 1 => KnowsAll(Seen(FirstVec(p), b), ToSet(p[b]))
    BY <2>1, PromptKnown
  <2>9. nextTokens'[b] \in Picks(b, logits'[b], Seen(FirstVec(p), b), Len(prompts'))
    BY <2>1, <2>2, <2>4, <2>6 DEF Seen
  <2>10. Knows(Seen(FirstVec(p), b), SeenBefore(b))
    BY <2>7, <2>8 DEF Knows, KnowsAll
  <2> QED
    BY <2>1, <2>5, <2>9, <2>10
<1> QED
  BY <1>1, <1>2 DEF Next

LEMMA BestStep ==
  ASSUME IInv, [Next]_vars, Penalty # 1 => EdgesUnused /\ InvSeen
  PROVE  [~config.doSample => \A b \in DOMAIN prompts' : Running(b) =>
           nextTokens'[b] = Scan(PenalisedRow(logits'[b], SeenBefore(b)))[2]]_vars
<1> SUFFICES ASSUME Next, ~config.doSample, NEW b \in DOMAIN prompts', Running(b)
             PROVE  nextTokens'[b] = Scan(PenalisedRow(logits'[b], SeenBefore(b)))[2]
  OBVIOUS
<1>1. prompts' \in Inputs /\ logits'[b] \in LogitRows
  BY PickedFor
<1>2. PICK vec : /\ nextTokens'[b] \in Picks(b, logits'[b], vec, Len(prompts'))
                 /\ Knows(vec, SeenBefore(b))
  BY PickedFor
<1>3. nextTokens'[b] = MaxId(logits'[b], vec, Len(prompts'))
  BY <1>2 DEF Picks
<1> QED
  BY <1>1, <1>2, <1>3, MaxIdIs

(* Greedy search over any number of ranks and threads picks what one       *)
(* process would, provided that no prompt has the first token of a part    *)
(* or that nothing is penalised.                                           *)
THEOREM BestIsPicked == ASSUME Penalty = 1 \/ EdgesUnused PROVE Spec => TokenIsBest
<1>1. CASE Penalty = 1
  <2>1. ASSUME IInv, [Next]_vars
        PROVE  [~config.doSample => \A b \in DOMAIN prompts' : Running(b) =>
                 nextTokens'[b] = Scan(PenalisedRow(logits'[b], SeenBefore(b)))[2]]_vars
    BY <1>1, <2>1, BestStep
  <2> QED
    BY <2>1, Invariance, PTL DEF Spec, TokenIsBest
<1>2. CASE EdgesUnused
  BY <1>2, BestStep, SeenIsKnown, Invariance, PTL DEF Spec, TokenIsBest
<1> QED
  BY <1>1, <1>2

-----------------------------------------------------------------------------
(* The TopK largest. *)
Beats(q, p) == q[1] > p[1] \/ (q[1] = p[1] /\ q[2] > p[2])
Above(S, p) == {q \in S : Beats(q, p)}

LEMMA GreatestIs ==
  ASSUME NEW n, NEW S
  PROVE  Greatest(n, S) = {p \in S : Cardinality(Above(S, p)) < n} /\ Greatest(n, S) \subseteq S
BY DEF Greatest, Above, Beats

LEMMA BeatsIsOrder ==
  ASSUME NEW p \in Pairs, NEW q \in Pairs, NEW x \in Pairs
  PROVE  ~Beats(p, p) /\ (Beats(p, q) /\ Beats(q, x) => Beats(p, x))
BY DEF Beats, Pairs

LEMMA AboveFinite ==
  ASSUME NEW S, IsFiniteSet(S), NEW p
  PROVE  IsFiniteSet(Above(S, p)) /\ Cardinality(Above(S, p)) \in Nat
<1>1. Above(S, p) \in SUBSET S
  BY DEF Above
<1> QED
  BY <1>1, FS_Subset, FS_CardinalityType

(* The greatest of the greatest of parts are among the greatest of all: an *)
(* element that some part has left out, although it beats p, would have n  *)
(* that its part has kept above it, hence above p.                         *)
AllOf(part, I) == UNION {part[i] : i \in I}
KeptOf(n, part, I) == UNION {Greatest(n, part[i]) : i \in I}

LEMMA GreatestOfParts ==
  ASSUME NEW n \in Nat, NEW A \in SUBSET Pairs, IsFiniteSet(A), NEW I, NEW part, A = AllOf(part, I)
  PROVE  Greatest(n, KeptOf(n, part, I)) \subseteq Greatest(n, A)
<1> USE DEF AllOf, KeptOf
<1> DEFINE G == UNION {Greatest(n, part[i]) : i \in I}
<1>1. \A i \in I : part[i] \subseteq A /\ Greatest(n, part[i]) \subseteq part[i]
  BY GreatestIs
<1>2. G \subseteq A
  BY <1>1
<1>3. \A i \in I : \A q \in part[i] \ G : ~(Cardinality(Above(part[i], q)) < n)
  BY GreatestIs
<1>4. \A i \in I : IsFiniteSet(part[i])
  BY <1>1, FS_Subset
<1>5. IsFiniteSet(G)
  BY <1>2, FS_Subset
<1> HIDE DEF G
<1> SUFFICES ASSUME NEW p \in G, Cardinality(Above(G, p)) < n, ~(Cardinality(Above(A, p)) < n) PROVE FALSE
  <2>1. Greatest(n, G) = {p \in G : Cardinality(Above(G, p)) < n}
    BY GreatestIs
  <2>2. Greatest(n, A) = {p \in A : Cardinality(Above(A, p)) < n}
    BY GreatestIs
  <2> QED
    BY <1>2, <2>1, <2>2 DEF G
<1> DEFINE X == Above(A, p) \ G
<1>6. X # {}
  <2> SUFFICES ASSUME X = {} PROVE FALSE
    OBVIOUS
  <2>1. Above(A, p) = Above(G, p)
    BY <1>2 DEF Above
  <2> QED
    BY <2>1
<1>7. PICK q \in X : \A y \in X : Cardinality(Above(A, q)) <= Cardinality(Above(A, y))
  <2> DEFINE T == {Cardinality(Above(A, y)) : y \in X}
  <2>1. T \in SUBSET Nat /\ T # {}
    BY <1>6, AboveFinite
  <2>2. PICK c \in T : \A d \in T : c <= d
    BY <2>1, LeastNatural
  <2>3. PICK q \in X : c = Cardinality(Above(A, q))
    OBVIOUS
  <2>4. \A y \in X : Cardinality(Above(A, y)) \in T
    OBVIOUS
  <2> QED
    BY <2>2, <2>3, <2>4
<1>8. q \in Pairs /\ p \in Pairs /\ q \in A /\ q \notin G /\ Beats(q, p)
  BY <1>2, <1>7 DEF Above
<1>9. PICK i \in I : q \in part[i]
  BY <1>8
<1>10. ASSUME NEW y \in X PROVE ~Beats(y, q)
  <2> SUFFICES ASSUME Beats(y, q) PROVE FALSE
    OBVIOUS
  <2>1. y \in A /\ y \in Pairs
    BY DEF Above
  <2>2. Above(A, y) \subseteq Above(A, q)
    BY <2>1, <1>8, BeatsIsOrder DEF Above
  <2>3. y \in Above(A, q) /\ y \notin Above(A, y)
    BY <2>1, BeatsIsOrder DEF Above
  <2>4. /\ Cardinality(Above(A, y)) <= Cardinality(Above(A, q))
        /\ Cardinality(Above(A, q)) = Cardinality(Above(A, y)) => Above(A, q) = Above(A, y)
    BY <2>2, AboveFinite, FS_Subset
  <2>5. Cardinality(Above(A, y)) \in Nat /\ Cardinality(Above(A, q)) \in Nat
    BY AboveFinite
  <2>6. Cardinality(Above(A, q)) <= Cardinality(Above(A, y))
    BY <1>7
  <2>7. Cardinality(Above(A, q)) = Cardinality(Above(A, y))
    BY <2>4, <2>5, <2>6
  <2> QED
    BY <2>3, <2>4, <2>7
<1>11. Above(part[i], q) \subseteq Above(G, p)
  <2> SUFFICES ASSUME NEW y \in part[i], Beats(y, q) PROVE y \in G /\ Beats(y, p)
    BY DEF Above
  <2>1. y \in A /\ y \in Pairs
    BY <1>1
  <2>2. Beats(y, p)
    BY <2>1, <1>8, BeatsIsOrder
  <2>3. y \in Above(A, p)
    BY <2>1, <2>2 DEF Above
  <2> QED
    BY <2>2, <2>3, <1>10
<1>12. Cardinality(Above(part[i], q)) <= Cardinality(Above(G, p))
  BY <1>11, <1>5, AboveFinite, FS_Subset
<1>13. ~(Cardinality(Above(part[i], q)) < n)
  BY <1>3, <1>8, <1>9
<1>14. Cardinality(Above(part[i], q)) \in Nat /\ Cardinality(Above(G, p)) \in Nat
  BY <1>4, <1>5, AboveFinite
<1> QED
  BY <1>12, <1>13, <1>14

(* Ids of the part or of the whole vocabulary: the greatest are the same.  *)
LEMMA GreatestShifted ==
  ASSUME NEW n, NEW r \in Rank, NEW S \in SUBSET Pairs, IsFiniteSet(S)
  PROVE  Global(r, Greatest(n, S)) = Greatest(n, Global(r, S))
<1> DEFINE o == SplitOffset(r)
           f(p) == <<p[1], p[2] + o>>
           G == Global(r, S)
<1>1. o \in Nat
  BY PartFacts
<1> HIDE DEF o
<1>2. \A V : Global(r, V) = {f(p) : p \in V}
  BY DEF Global, o
<1>3. ASSUME NEW p \in Pairs, NEW q \in Pairs PROVE f(p) = f(q) => p = q
  <2> SUFFICES ASSUME f(p) = f(q) PROVE p = q
    OBVIOUS
  <2>1. p = <<p[1], p[2]>> /\ q = <<q[1], q[2]>> /\ p[2] \in Int /\ q[2] \in Int
    BY DEF Pairs
  <2>2. p[1] = q[1] /\ p[2] + o = q[2] + o
    OBVIOUS
  <2>3. p[2] = q[2]
    BY <1>1, <2>1, <2>2
  <2> QED
    BY <2>1, <2>2, <2>3
<1>4. ASSUME NEW p \in Pairs, NEW q \in Pairs PROVE Beats(f(q), f(p)) <=> Beats(q, p)
  BY <1>1 DEF Pairs, Beats
<1> HIDE DEF f
<1>5. ASSUME NEW p \in S PROVE Cardinality(Above(G, f(p))) = Cardinality(Above(S, p))
  <2> DEFINE U == Above(S, p)
             V == Above(G, f(p))
             g == [q \in U |-> f(q)]
  <2>1. \A q \in U : q \in S /\ q \in Pairs /\ Beats(q, p)
    BY DEF Above
  <2>2. \A q \in U : f(q) \in V
    BY <2>1, <1>2, <1>4 DEF Above
  <2>3. \A y \in V : \E q \in U : y = f(q)
    BY <1>2, <1>4 DEF Above
  <2> HIDE DEF U, V
  <2>4. g \in [U -> V]
    BY <2>2
  <2>5. \A a, b \in U : g[a] = g[b] => a = b
    BY <2>1, <1>3
  <2>6. \A y \in V : \E q \in U : g[q] = y
    BY <2>3
  <2>7. g \in Bijection(U, V)
    <3> HIDE DEF g
    <3>1. g \in Injection(U, V)
      BY <2>4, <2>5 DEF Injection, IsInjective
    <3>2. g \in Surjection(U, V)
      BY <2>4, <2>6 DEF Surjection
    <3> QED
      BY <3>1, <3>2 DEF Bijection
  <2>8. ExistsBijection(U, V)
    BY <2>7, Fun_ExistsBij
  <2>9. IsFiniteSet(U)
    BY AboveFinite DEF U
  <2> QED
    BY <2>8, <2>9, FS_Bijection DEF U, V
<1>6. Global(r, Greatest(n, S)) = {f(p) : p \in {x \in S : Cardinality(Above(S, x)) < n}}
  BY <1>2, GreatestIs
<1>7. Greatest(n, G) = {y \in {f(p) : p \in S} : Cardinality(Above(G, y)) < n}
  BY <1>2, GreatestIs
<1> HIDE DEF G
<1>8. {f(p) : p \in {x \in S : Cardinality(Above(S, x)) < n}} = {y \in {f(p) : p \in S} : Cardinality(Above(G, y)) < n}
  BY <1>5
<1> QED
  BY <1>6, <1>7, <1>8 DEF G

LEMMA RowFinite ==
  ASSUME NEW f, NEW lo \in Int, NEW hi \in Int
  PROVE  IsFiniteSet({<<f[k], k>> : k \in lo .. hi})
<1> DEFINE S == lo .. hi
           T == {<<f[k], k>> : k \in S}
           g == [k \in S |-> <<f[k], k>>]
<1>1. g \in [S -> T] /\ \A y \in T : \E k \in S : g[k] = y
  OBVIOUS
<1>2. IsFiniteSet(S)
  BY FS_Interval
<1> HIDE DEF S, T, g
<1>3. g \in Surjection(S, T)
  BY <1>1, Fun_IsSurj
<1>4. IsFiniteSet(T)
  BY <1>2, <1>3, FS_Surjection
<1> QED
  BY <1>4 DEF S, T

LEMMA TopKIs ==
  ASSUME NEW row \in LogitRows, NEW vec, NEW seen, Knows(vec, seen)
  PROVE  TopKIds(row, vec) \subseteq {p[2] : p \in Greatest(TopK, PenalisedRow(row, seen))}
<1> DEFINE part == [r \in Rank |-> PartRow(row, seen, r)]
           A == PenalisedRow(row, seen)
           kept == UNION {Global(r, Greatest(TopK, OutBuf(r, row, vec[r]))) : r \in Rank}
<1>1. ASSUME NEW r \in Rank PROVE Global(r, Greatest(TopK, OutBuf(r, row, vec[r]))) = Greatest(TopK, part[r])
  <2> DEFINE f == [k \in 0 .. SplitSize(r)-1 |-> Weight(row, seen)[SplitOffset(r) + k]]
             buf == OutBuf(r, row, vec[r])
  <2> HIDE DEF part
  <2>1. /\ f \in [0 .. SplitSize(r)-1 -> Int]
        /\ buf = {<<f[k], k>> : k \in 0 .. SplitSize(r)-1}
        /\ Global(r, buf) = PartRow(row, seen, r)
    BY OutBufIs
  <2> HIDE DEF f, buf
  <2>2. SplitSize(r)-1 \in Int /\ 0 \in Int
    BY PartFacts
  <2>3. IsFiniteSet(buf)
    BY <2>1, <2>2, RowFinite
  <2>4. buf \in SUBSET Pairs
    BY <2>1 DEF Pairs
  <2>5. Global(r, Greatest(TopK, buf)) = Greatest(TopK, Global(r, buf))
    BY <2>3, <2>4, GreatestShifted
  <2> QED
    BY <2>1, <2>5 DEF buf, part
<1>2. kept = KeptOf(TopK, part, Rank)
  <2> HIDE DEF part
  <2> QED
    BY <1>1 DEF KeptOf
<1>3. A \in SUBSET Pairs /\ A = UNION {part[r] : r \in Rank}
  BY PartsAreAll
<1>4. IsFiniteSet(A)
  <2>1. A = {<<Weight(row, seen)[t], t>> : t \in 0 .. VocabSize-1}
    BY PartsAreAll DEF Token
  <2>2. VocabSize-1 \in Int /\ 0 \in Int
    BY SearchAssumption
  <2> HIDE DEF A
  <2> QED
    BY <2>1, <2>2, RowFinite
<1>5. TopK \in Nat
  BY SearchAssumption
<1> HIDE DEF part, A
<1>6. Greatest(TopK, KeptOf(TopK, part, Rank)) \subseteq Greatest(TopK, A)
  <2>1. A = AllOf(part, Rank)
    BY <1>3 DEF AllOf
  <2> QED
    BY <1>3, <1>4, <1>5, <2>1, GreatestOfParts
<1>7. TopKIds(row, vec) = {p[2] : p \in Greatest(TopK, kept)}
  BY DEF TopKIds
<1> HIDE DEF kept
<1> QED
  BY <1>2, <1>6, <1>7 DEF A

LEMMA TopKStep ==
  ASSUME IInv, [Next]_vars, Penalty # 1 => EdgesUnused /\ InvSeen
  PROVE  [config.doSample => \A b \in DOMAIN prompts' : Running(b) =>
           \/ nextTokens'[b] \in {p[2] : p \in Greatest(TopK, PenalisedRow(logits'[b], SeenBefore(b)))}
           \/ nextTokens'[b] = IF b <= Len(nextTokens) THEN nextTokens[b] ELSE 0]_vars
<1> SUFFICES ASSUME Next, config.doSample, NEW b \in DOMAIN prompts', Running(b)
             PROVE  \/ nextTokens'[b] \in {p[2] : p \in Greatest(TopK, PenalisedRow(logits'[b], SeenBefore(b)))}
                    \/ nextTokens'[b] = IF b <= Len(nextTokens) THEN nextTokens[b] ELSE 0
  OBVIOUS
<1>1. prompts' \in Inputs /\ logits'[b] \in LogitRows
  BY PickedFor
<1>2. PICK vec : /\ nextTokens'[b] \in Picks(b, logits'[b], vec, Len(prompts'))
                 /\ Knows(vec, SeenBefore(b))
  BY PickedFor
<1>3. nextTokens'[b] \in TopKIds(logits'[b], vec) \cup {IF b <= Len(nextTokens) THEN nextTokens[b] ELSE 0}
  BY <1>2 DEF Picks
<1>4. TopKIds(logits'[b], vec) \subseteq {p[2] : p \in Greatest(TopK, PenalisedRow(logits'[b], SeenBefore(b)))}
  BY <1>1, <1>2, TopKIs
<1> QED
  BY <1>3, <1>4

(* Sampling draws from the TopK of the whole vocabulary, although every    *)
(* rank has sorted its own part only (or keeps the token of the step       *)
(* before, when rounding leaves the random number above the sum).          *)
THEOREM DrawnFromTopK == ASSUME Penalty = 1 \/ EdgesUnused PROVE Spec => TokenInTopK
<1>1. CASE Penalty = 1
  <2>1. ASSUME IInv, [Next]_vars
        PROVE  [config.doSample => \A b \in DOMAIN prompts' : Running(b) =>
                 \/ nextTokens'[b] \in {p[2] : p \in Greatest(TopK, PenalisedRow(logits'[b], SeenBefore(b)))}
                 \/ nextTokens'[b] = IF b <= Len(nextTokens) THEN nextTokens[b] ELSE 0]_vars
    BY <1>1, <2>1, TopKStep
  <2> QED
    BY <2>1, Invariance, PTL DEF Spec, TokenInTopK
<1>2. CASE EdgesUnused
  BY <1>2, TopKStep, SeenIsKnown, Invariance, PTL DEF Spec, TokenInTopK
<1> QED
  BY <1>1, <1>2
=============================================================================
