------------------------ MODULE CommonDecoder_proofs ------------------------
(***************************************************************************)
(* CommonDecoder::forward keeps the KV cache and returns the logits of     *)
(* every row's own sequence, for every size of batch, beams and prompt.    *)
(***************************************************************************)
EXTENDS CommonDecoder, SequenceTheorems, WellFoundedInduction, TLAPS

-----------------------------------------------------------------------------
(* Facts about the naturals.  Induction is for a property given as a set:  *)
(* the provers cannot apply it to one given as an operator.                *)

(* A non-empty set of naturals has a least element. *)
LEMMA LeastNatural ==
  ASSUME NEW T \in SUBSET Nat, T # {}
  PROVE  \E x \in T : \A y \in T : x <= y
<1>1. PICK x \in T : \A y \in T : ~(<<y, x>> \in OpToRel(<, Nat))
  BY WFMin, NatLessThanWellFounded
<1>2. \A y \in T : ~(y < x)
  BY <1>1 DEF OpToRel
<1> QED
  BY <1>2

(* Induction, for a property given as a set. *)
LEMMA InductionOnNat ==
  ASSUME NEW T, 0 \in T, \A n \in Nat : n \in T => n + 1 \in T
  PROVE  Nat \subseteq T
<1> SUFFICES ASSUME Nat \ T # {} PROVE FALSE
  OBVIOUS
<1>1. PICK x \in Nat \ T : \A y \in Nat \ T : x <= y
  BY LeastNatural
<1>2. x # 0 /\ x - 1 \in Nat
  BY <1>1
<1>3. x - 1 \in T
  BY <1>1, <1>2
<1> QED
  BY <1>1, <1>2, <1>3

(* Division with remainder by a positive number. *)
LEMMA DivMod ==
  ASSUME NEW m \in Nat, NEW n \in Nat \ {0}
  PROVE  /\ m \div n \in Nat /\ m % n \in 0 .. n-1
         /\ m = n * (m \div n) + (m % n)
OBVIOUS

(* The quotient and the remainder are the only ones. *)
LEMMA DivModUnique ==
  ASSUME NEW n \in Nat \ {0}, NEW q \in Nat, NEW r \in 0 .. n-1
  PROVE  (n * q + r) \div n = q /\ (n * q + r) % n = r
OBVIOUS

LEMMA DivModIs ==
  ASSUME NEW a, NEW n \in Nat \ {0}, NEW q \in Nat, NEW r \in 0 .. n-1, a = n * q + r
  PROVE  a \div n = q /\ a % n = r
BY DivModUnique

(* Products keep the order. *)
LEMMA MulMono ==
  ASSUME NEW a \in Nat, NEW b \in Nat, NEW c \in Nat, a <= b
  PROVE  c * a \in Nat /\ c * b \in Nat /\ c * a <= c * b
<1>1. PICK d \in Nat : b = a + d
  <2>1. b - a \in Nat /\ b = a + (b - a)
    OBVIOUS
  <2> QED
    BY <2>1
<1>2. c * b = c * a + c * d /\ c * d \in Nat /\ c * a \in Nat
  BY <1>1
<1> QED
  BY <1>2

(* Element i of row b of a matrix with rows of length n, stored flat. *)
LEMMA FlatIndex ==
  ASSUME NEW m \in Nat, NEW n \in Nat \ {0}, NEW b \in 0 .. m-1, NEW i \in 0 .. n-1
  PROVE  /\ b * n + i \in 0 .. m*n - 1
         /\ (b * n + i) \div n = b /\ (b * n + i) % n = i
<1>1. b \in Nat /\ b <= m - 1 /\ m - 1 \in Nat /\ i \in Nat
  OBVIOUS
<1>2. b * n + i = n * b + i
  BY <1>1
<1>3. (b * n + i) \div n = b /\ (b * n + i) % n = i
  BY <1>1, <1>2, DivModUnique
<1>4. n * b \in Nat /\ n * b <= n * (m - 1) /\ n * (m - 1) \in Nat
  BY <1>1, MulMono
<1>5. n * (m - 1) = m * n - n /\ m * n \in Nat
  OBVIOUS
<1> QED
  BY <1>1, <1>2, <1>3, <1>4, <1>5

FlatAt(x, m, n, b, i) == x \in 0 .. m*n - 1 /\ x \div n = b /\ x % n = i

LEMMA FlatAtIndex ==
  ASSUME NEW m \in Nat, NEW n \in Nat \ {0}, NEW b \in 0 .. m-1, NEW i \in 0 .. n-1, NEW x, x = b * n + i
  PROVE  FlatAt(x, m, n, b, i)
BY FlatIndex DEF FlatAt

-----------------------------------------------------------------------------
(* The mask of prepareAttnMask is causal when its stride is the number of  *)
(* keys, as the attention reads it.                                        *)
Causal(mask, batchSize, inputSeqLen, pastSeqLen) ==
  \A b \in 0 .. batchSize-1, i \in 0 .. inputSeqLen-1, j \in 0 .. (pastSeqLen+inputSeqLen)-1 :
    LET k == (b*inputSeqLen + i) * (pastSeqLen + inputSeqLen) + j
    IN  k \in DOMAIN mask /\ (mask[k] <=> j <= pastSeqLen + i)

LEMMA MaskCausal ==
  ASSUME NEW s \in Nat, NEW batchSize \in Nat, NEW inputSeqLen \in Nat \ {0}, NEW pastSeqLen \in Nat,
         NEW accSeqLen, (IF s = 0 THEN inputSeqLen ELSE accSeqLen) = pastSeqLen + inputSeqLen
  PROVE  Causal(AttnMask(s, batchSize, inputSeqLen, accSeqLen), batchSize, inputSeqLen, pastSeqLen)
<1> DEFINE I == inputSeqLen
           L == pastSeqLen + inputSeqLen
           mask == AttnMask(s, batchSize, I, accSeqLen)
<1>1. mask = [k \in 0 .. batchSize*I*L - 1 |-> k % L <= (L - I) + ((k \div L) % I)]
  BY DEF AttnMask
<1>2. L \in Nat \ {0} /\ L - I = pastSeqLen /\ batchSize * I \in Nat
  OBVIOUS
<1> HIDE DEF L, mask
<1>3. ASSUME NEW b \in 0 .. batchSize-1, NEW i \in 0 .. I-1, NEW j \in 0 .. L-1
      PROVE  (b*I + i) * L + j \in DOMAIN mask /\ (mask[(b*I + i) * L + j] <=> j <= pastSeqLen + i)
  <2> DEFINE x == b*I + i
  <2>1. x \in 0 .. batchSize*I - 1 /\ x % I = i
    BY FlatIndex
  <2> HIDE DEF x
  <2>2. x * L + j \in 0 .. (batchSize*I)*L - 1 /\ (x * L + j) \div L = x /\ (x * L + j) % L = j
    BY <1>2, <2>1, FlatIndex
  <2>3. x * L + j \in DOMAIN mask /\ (mask[x * L + j] <=> j <= pastSeqLen + i)
    BY <1>1, <1>2, <2>1, <2>2
  <2> QED
    BY <2>3 DEF x
<1>4. Causal(mask, batchSize, I, pastSeqLen)
  BY <1>3 DEF Causal, L
<1> QED
  BY <1>4 DEF mask

(* What the attention computes for a row that has its sequence's keys in   *)
(* the cache and is given the sequence's next tokens.                      *)
Fed(d, ids, b, inputSeqLen, pastSeqLen, seq) ==
  \A n \in 0 .. inputSeqLen-1 :
    /\ ids[b*inputSeqLen + n + 1] = seq[pastSeqLen + n + 1]
    /\ PositionOf(d, pastSeqLen, inputSeqLen, b*inputSeqLen + n) = pastSeqLen + n

Holds(kv, b, len, seq) == \A j \in 0 .. len-1 : kv[b][j] = History(seq, j)

LEMMA AttentionTrue ==
  ASSUME NEW d, NEW kv, NEW ids, NEW batchSize \in Nat, NEW inputSeqLen \in Nat \ {0}, NEW pastSeqLen \in Nat,
         NEW mask, Causal(mask, batchSize, inputSeqLen, pastSeqLen),
         pastSeqLen + inputSeqLen <= MaxPositions,
         NEW b \in 0 .. batchSize-1, b \in DOMAIN kv, NEW seq,
         Fed(d, ids, b, inputSeqLen, pastSeqLen, seq), Holds(kv, b, pastSeqLen, seq)
  PROVE  Holds(Attention(d, kv, ids, batchSize, inputSeqLen, pastSeqLen, mask), b,
               pastSeqLen + inputSeqLen, seq)
<1> DEFINE I == inputSeqLen
           P == pastSeqLen
           keyLen == P + I
           New(c, i) == <<ids[c*I + i + 1], PositionOf(d, P, I, c*I + i)>>
           Key(c, j) == IF j >= P THEN New(c, j - P) ELSE kv[c][j].key
           Open(c, i, j) == LET k == (c*I + i) * keyLen + j IN k \in DOMAIN mask /\ mask[k]
           Seen(c, i) == [j \in {j \in 0 .. keyLen-1 : Open(c, i, j)} |-> Key(c, j)]
           Out == Attention(d, kv, ids, batchSize, I, P, mask)
<1>1. Out[b] = [j \in Position |->
                  IF b < batchSize /\ j \in P .. keyLen-1
                  THEN [key |-> New(b, j - P), sees |-> Seen(b, j - P)] ELSE kv[b][j]]
  BY DEF Attention
<1>2. \A i \in 0 .. I-1 : New(b, i) = <<seq[P + i + 1], P + i>>
  BY DEF Fed
<1>3. \A j \in 0 .. keyLen-1 : Key(b, j) = <<seq[j + 1], j>>
  <2> SUFFICES ASSUME NEW j \in 0 .. keyLen-1 PROVE Key(b, j) = <<seq[j + 1], j>>
    OBVIOUS
  <2>1. CASE j >= P
    <3>1. j - P \in 0 .. I-1 /\ P + (j - P) = j
      BY <2>1
    <3> QED
      BY <1>2, <2>1, <3>1
  <2>2. CASE ~(j >= P)
    <3>1. j \in 0 .. P-1
      BY <2>2
    <3>2. kv[b][j] = History(seq, j)
      BY <3>1 DEF Holds
    <3>3. History(seq, j).key = <<seq[j + 1], j>>
      BY DEF History
    <3> QED
      BY <2>2, <3>2, <3>3
  <2> QED
    BY <2>1, <2>2
<1>4. \A i \in 0 .. I-1, j \in 0 .. keyLen-1 : Open(b, i, j) <=> j <= P + i
  BY DEF Causal
<1> HIDE DEF New, Key, Open, Out
<1>5. ASSUME NEW i \in 0 .. I-1 PROVE Seen(b, i) = [j \in 0 .. P+i |-> <<seq[j + 1], j>>]
  <2>1. {j \in 0 .. keyLen-1 : Open(b, i, j)} = 0 .. P+i
    BY <1>4
  <2>2. \A j \in 0 .. P+i : j \in 0 .. keyLen-1
    OBVIOUS
  <2> QED
    BY <1>3, <2>1, <2>2
<1> HIDE DEF Seen
<1> SUFFICES ASSUME NEW j \in 0 .. keyLen-1 PROVE Out[b][j] = History(seq, j)
  BY DEF Out, Holds
<1>6. j \in Position /\ b < batchSize
  BY SizeAssumption DEF Position
<1>7. CASE j >= P
  <2>1. j - P \in 0 .. I-1 /\ P + (j - P) = j /\ j \in P .. keyLen-1
    BY <1>7
  <2>2. Out[b][j] = [key |-> New(b, j - P), sees |-> Seen(b, j - P)]
    BY <1>1, <1>6, <2>1
  <2> QED
    BY <1>2, <1>5, <2>1, <2>2 DEF History
<1>8. CASE ~(j >= P)
  BY <1>1, <1>6, <1>8 DEF Holds
<1> QED
  BY <1>7, <1>8

(* Spreading the rows of step 0 in place, from the last sample down, reads *)
(* every sample's row before it is written over.                           *)
RowOfEveryBeam(rows, bs, beams) == rows = [i \in 0 .. bs*beams-1 |-> rows[i]]
SpreadsSamples(rows, bs, beams) == Spread(rows, bs, beams) = [i \in 0 .. bs*beams-1 |-> rows[i \div beams]]

LEMMA SpreadTrue ==
  ASSUME NEW bs \in Nat \ {0}, NEW beams \in Nat \ {0}, NEW rows, RowOfEveryBeam(rows, bs, beams)
  PROVE  SpreadsSamples(rows, bs, beams)
<1> DEFINE D == 0 .. bs*beams-1
           G(n) == [i \in D |-> IF i >= (bs - n) * beams THEN rows[i \div beams] ELSE rows[i]]
           body(f) == [n \in 0 .. bs |-> IF n = 0 THEN rows ELSE SpreadOne(f[n-1], bs - n, beams)]
           after == CHOOSE f : f = body(f)
           g == [n \in 0 .. bs |-> G(n)]
<1>1. Spread(rows, bs, beams) = after[bs]
  BY DEF Spread
<1>2. G(0) = rows
  <2>1. \A i \in D : ~(i >= (bs - 0) * beams)
    OBVIOUS
  <2> QED
    BY <2>1 DEF RowOfEveryBeam
<1>3. ASSUME NEW n \in 1 .. bs PROVE SpreadOne(G(n-1), bs - n, beams) = G(n)
  <2> DEFINE b == bs - n
             lo == b * beams
             hi == (b + 1) * beams
  <2>1. b \in Nat /\ b < bs /\ bs - (n - 1) = b + 1
    OBVIOUS
  <2>2. lo \in Nat /\ hi = lo + beams /\ hi \in Nat
    BY <2>1
  <2>3. b <= lo /\ hi <= bs*beams
    <3>1. b * 1 <= b * beams
      BY <2>1, MulMono
    <3>2. beams * (b + 1) <= beams * bs /\ beams * bs = bs * beams /\ beams * (b + 1) = (b + 1) * beams
      BY <2>1, MulMono
    <3> QED
      BY <2>1, <3>1, <3>2
  <2> HIDE DEF lo, hi
  <2>4. b \in D /\ ~(b >= hi)
    BY <2>1, <2>2, <2>3
  <2>5. ASSUME NEW i \in D, lo <= i, i < hi PROVE i \div beams = b
    <3>1. i = beams * b + (i - lo) /\ i - lo \in 0 .. beams-1
      <4>1. beams * b = lo
        BY <2>1 DEF lo
      <4> QED
        BY <2>2, <2>5, <4>1
    <3> DEFINE y == i - lo
    <3> HIDE DEF y
    <3>2. i = beams * b + y /\ y \in 0 .. beams-1
      BY <3>1 DEF y
    <3> HIDE DEF b
    <3> QED
      BY <2>1, <3>2, DivModIs
  <2>6. G(n-1) = [i \in D |-> IF i >= hi THEN rows[i \div beams] ELSE rows[i]]
    BY <2>1 DEF hi
  <2>7. G(n) = [i \in D |-> IF i >= lo THEN rows[i \div beams] ELSE rows[i]]
    BY DEF lo
  <2> DEFINE Gp == G(n-1)
  <2>8. G(n-1)[b] = rows[b]
    BY <2>4, <2>6
  <2>9. SpreadOne(Gp, b, beams) = [i \in DOMAIN Gp |-> IF i \in lo .. hi - 1 THEN Gp[b] ELSE Gp[i]]
    BY DEF SpreadOne, lo, hi
  <2>10. DOMAIN Gp = D
    OBVIOUS
  <2>11. ASSUME NEW i \in D
         PROVE  (IF i \in lo .. hi - 1 THEN Gp[b] ELSE Gp[i]) = (IF i >= lo THEN rows[i \div beams] ELSE rows[i])
    <3> HIDE DEF G
    <3>1. i \in Nat
      OBVIOUS
    <3>2. CASE i \in lo .. hi - 1
      <4>1. lo <= i /\ i < hi
        BY <2>2, <3>2
      <4>2. i \div beams = b
        BY <2>5, <4>1
      <4> QED
        BY <2>8, <3>2, <4>1, <4>2
    <3>3. CASE i \notin lo .. hi - 1
      <4>1. (i >= hi) <=> (i >= lo)
        BY <2>2, <3>1, <3>3
      <4>2. Gp[i] = IF i >= hi THEN rows[i \div beams] ELSE rows[i]
        BY <2>6
      <4> QED
        BY <3>3, <4>1, <4>2
    <3> QED
      BY <3>2, <3>3
  <2> HIDE DEF G, Gp
  <2>12. SpreadOne(Gp, b, beams) = G(n)
    BY <2>7, <2>9, <2>10, <2>11
  <2> QED
    BY <2>12 DEF Gp
<1> HIDE DEF G
<1>4. g = body(g)
  <2>1. ASSUME NEW n \in 0 .. bs PROVE g[n] = IF n = 0 THEN rows ELSE SpreadOne(g[n-1], bs - n, beams)
    <3>1. CASE n = 0
      BY <1>2, <3>1
    <3>2. CASE n # 0
      <4>1. n \in 1 .. bs /\ n - 1 \in 0 .. bs
        BY <3>2
      <4> QED
        BY <1>3, <3>2, <4>1
    <3> QED
      BY <3>1, <3>2
  <2> QED
    BY <2>1
<1>5. after = body(after)
  <2> HIDE DEF body, g
  <2> QED
    BY <1>4
<1> DEFINE T == {n \in Nat : n <= bs => after[n] = G(n)}
<1> HIDE DEF after
<1>6. 0 \in T
  BY <1>2, <1>5
<1>7. ASSUME NEW n \in Nat, n \in T PROVE n + 1 \in T
  <2> SUFFICES ASSUME n + 1 <= bs PROVE after[n + 1] = G(n + 1)
    OBVIOUS
  <2>1. n + 1 \in 1 .. bs /\ n + 1 \in 0 .. bs /\ (n + 1) - 1 = n /\ n <= bs
    OBVIOUS
  <2>2. after[n + 1] = SpreadOne(after[n], bs - (n + 1), beams)
    BY <1>5, <2>1
  <2>3. SpreadOne(G((n + 1) - 1), bs - (n + 1), beams) = G(n + 1)
    BY <1>3, <2>1
  <2> QED
    BY <1>7, <2>1, <2>2, <2>3
<1>8. after[bs] = G(bs)
  <2> HIDE DEF T
  <2>1. Nat \subseteq T
    BY <1>6, <1>7, InductionOnNat
  <2> QED
    BY <2>1 DEF T
<1>9. G(bs) = [i \in D |-> rows[i \div beams]]
  <2>1. (bs - bs) * beams = 0
    OBVIOUS
  <2>2. \A i \in D : i >= (bs - bs) * beams
    BY <2>1
  <2> QED
    BY <2>2 DEF G
<1> QED
  BY <1>1, <1>8, <1>9 DEF SpreadsSamples

-----------------------------------------------------------------------------
LEMMA ShapeType ==
  ASSUME NEW s \in Shapes
  PROVE  /\ s.bs \in Nat \ {0} /\ s.beams \in Nat \ {0} /\ s.len \in Nat \ {0}
         /\ s.bs * s.beams \in Nat \ {0} /\ s.bs <= s.bs * s.beams
<1>1. s.bs \in Nat \ {0} /\ s.beams \in Nat \ {0} /\ s.len \in Nat \ {0}
  BY ShapeAssumption
<1>2. s.bs * 1 <= s.bs * s.beams /\ s.bs * s.beams \in Nat
  BY <1>1, MulMono
<1> QED
  BY <1>1, <1>2

(* Row b is a row of sample b \div beams. *)
LEMMA SampleOf ==
  ASSUME NEW bs \in Nat \ {0}, NEW beams \in Nat \ {0}, NEW b \in 0 .. bs*beams-1
  PROVE  b \div beams \in 0 .. bs-1 /\ (beams = 1 => b \div beams = b)
<1> DEFINE q == b \div beams
           r == b % beams
<1>1. b \in Nat /\ bs*beams \in Nat
  OBVIOUS
<1>2. q \in Nat /\ r \in 0 .. beams-1 /\ b = beams * q + r
  BY <1>1, DivMod
<1> HIDE DEF q, r
<1>3. q < bs
  <2> SUFFICES ASSUME bs <= q PROVE FALSE
    BY <1>2
  <2>1. beams * bs <= beams * q /\ beams * q \in Nat /\ beams * bs = bs * beams
    BY <1>2, MulMono
  <2> QED
    BY <1>1, <1>2, <2>1
<1>4. beams = 1 => q = b
  BY <1>2
<1> QED
  BY <1>2, <1>3, <1>4 DEF q

(* An entry depends only on the tokens up to its own. *)
LEMMA HistorySame ==
  ASSUME NEW s, NEW t, NEW i \in Nat, \A n \in 1 .. i+1 : s[n] = t[n]
  PROVE  History(s, i) = History(t, i)
<1>1. \A j \in 0 .. i : s[j+1] = t[j+1]
  <2>1. \A j \in 0 .. i : j + 1 \in 1 .. i+1
    OBVIOUS
  <2> QED
    BY <2>1
<1>2. i \in 0 .. i
  OBVIOUS
<1>3. [j \in 0 .. i |-> <<s[j+1], j>>] = [j \in 0 .. i |-> <<t[j+1], j>>] /\ s[i+1] = t[i+1]
  BY <1>1, <1>2
<1> QED
  BY <1>3 DEF History

LEMMA AttentionRows ==
  ASSUME NEW d, NEW kv, NEW ids, NEW batchSize, NEW inputSeqLen, NEW pastSeqLen, NEW mask
  PROVE  DOMAIN Attention(d, kv, ids, batchSize, inputSeqLen, pastSeqLen, mask) = DOMAIN kv
BY DEF Attention

-----------------------------------------------------------------------------
LEMMA InitEstablishes == Init => IInv /\ InvBuffers
<1> SUFFICES ASSUME Init PROVE IInv /\ InvBuffers
  OBVIOUS
<1>1. InvType
  <2>1. prefix \in Seq(Int)
    BY DEF Init
  <2>2. dec \in [Decoders -> [prefixSharing : BOOLEAN, prefixSeqLen : Nat, initSeqLen : Nat, accSeqLen : Nat]]
    BY DEF Init
  <2>3. model \in Models /\ phase = "idle" /\ step \in Nat /\ all \in BOOLEAN
    BY DEF Init
  <2> QED
    BY <2>1, <2>2, <2>3 DEF InvType
<1>2. ~dec["first"].prefixSharing /\ ~dec["next"].prefixSharing /\ phase = "idle"
  BY DEF Init, Decoders
<1>3. IInv
  BY <1>1, <1>2 DEF IInv, InvPrefix, InvGeneration, InvLengths, InvPrompts, InvCache, InvPrefixCache, LogitsTrue
<1>4. InvBuffers
  BY DEF Init, InvBuffers, BufferFits
<1> QED
  BY <1>3, <1>4

LEMMA StutterKeeps == IInv /\ UNCHANGED vars => IInv'
<1> SUFFICES ASSUME IInv, UNCHANGED vars PROVE IInv'
  OBVIOUS
<1>1. /\ model' = model /\ dec' = dec /\ cache' = cache /\ prefixCache' = prefixCache /\ logits' = logits
      /\ all' = all /\ shape' = shape /\ step' = step /\ seqs' = seqs /\ prefix' = prefix /\ phase' = phase
  BY DEF vars, decoderVars, clientVars
<1>2. InvType' /\ InvPrefix' /\ InvPrefixCache'
  BY <1>1 DEF IInv, InvType, InvPrefix, InvPrefixCache
<1>3. InvGeneration'
  BY <1>1 DEF IInv, InvGeneration, Rows
<1>4. InvLengths' /\ InvPrompts'
  BY <1>1 DEF IInv, InvLengths, InvPrompts, Pending, Rows
<1>5. InvCache' /\ LogitsTrue'
  BY <1>1 DEF IInv, InvCache, LogitsTrue, Pending, Rows
<1> QED
  BY <1>2, <1>3, <1>4, <1>5 DEF IInv

LEMMA FinishedKeeps == IInv /\ Finished => IInv'
<1> SUFFICES ASSUME IInv, Finished PROVE IInv'
  OBVIOUS
<1>1. /\ model' = model /\ dec' = dec /\ prefixCache' = prefixCache /\ all' = all
      /\ step' = step /\ prefix' = prefix /\ phase' = "idle"
  BY DEF Finished, decoderVars
<1> QED
  BY <1>1 DEF IInv, InvType, InvPrefix, InvGeneration, InvLengths, InvPrompts, InvCache, InvPrefixCache,
              LogitsTrue

LEMMA UnsetPrefixKeeps == IInv /\ UnsetPrefix => IInv'
<1> SUFFICES ASSUME IInv, UnsetPrefix PROVE IInv'
  OBVIOUS
<1>1. /\ model' = model /\ cache' = cache /\ prefixCache' = prefixCache /\ logits' = logits
      /\ all' = all /\ shape' = shape /\ step' = step /\ seqs' = seqs /\ prefix' = prefix /\ phase' = phase
      /\ dec' = [dec EXCEPT !["first"].prefixSharing = FALSE]
  BY DEF UnsetPrefix, clientVars
<1>2. /\ dec' \in [Decoders -> [prefixSharing : BOOLEAN, prefixSeqLen : Nat, initSeqLen : Nat, accSeqLen : Nat]]
      /\ dec'["next"] = dec["next"] /\ ~dec'["first"].prefixSharing
      /\ dec'["first"].initSeqLen = dec["first"].initSeqLen /\ dec'["first"].accSeqLen = dec["first"].accSeqLen
  BY <1>1 DEF IInv, InvType, Decoders
<1>3. InvType' /\ InvPrefix' /\ InvPrefixCache'
  BY <1>1, <1>2 DEF IInv, InvType, InvPrefix, InvPrefixCache
<1>4. InvGeneration'
  BY <1>1, <1>2 DEF IInv, InvGeneration, Rows
<1>5. InvLengths'
  BY <1>1, <1>2 DEF IInv, InvLengths, Pending
<1>6. InvPrompts'
  BY <1>1, <1>2 DEF IInv, InvPrompts, Rows
<1>7. InvCache' /\ LogitsTrue'
  BY <1>1 DEF IInv, InvCache, LogitsTrue, Pending, Rows
<1> QED
  BY <1>3, <1>4, <1>5, <1>6, <1>7 DEF IInv

LEMMA SetPrefixKeeps ==
  ASSUME IInv, NEW p \in SharedPrefixes, SetPrefix(p)
  PROVE  IInv'
<1> DEFINE d == [dec["first"] EXCEPT !.prefixSharing = TRUE, !.prefixSeqLen = Len(p)]
           mask == AttnMask(0, 1, Len(p), d.accSeqLen)
           kv == Attention(d, [b \in {0} |-> Empty], p, 1, Len(p), 0, mask)
<1>1. /\ model' = model /\ cache' = cache /\ all' = all /\ shape' = shape /\ step' = step /\ seqs' = seqs
      /\ prefix' = p /\ phase' = phase /\ phase # "search" /\ prefixCache' = kv[0]
      /\ dec' = [dec EXCEPT !["first"] = d] /\ ~model.learned /\ Len(p) <= MaxPositions
  BY DEF SetPrefix
<1>2. p \in Seq(Int) /\ Len(p) \in Nat \ {0}
  BY PrefixAssumption
<1>3. /\ dec' \in [Decoders -> [prefixSharing : BOOLEAN, prefixSeqLen : Nat, initSeqLen : Nat, accSeqLen : Nat]]
      /\ dec'["next"] = dec["next"] /\ dec'["first"].prefixSharing /\ dec'["first"].prefixSeqLen = Len(p)
      /\ dec'["first"].initSeqLen = dec["first"].initSeqLen /\ dec'["first"].accSeqLen = dec["first"].accSeqLen
  BY <1>1, <1>2 DEF IInv, InvType, Decoders
<1> HIDE DEF d
<1>4. \A j \in 0 .. Len(p)-1 : kv[0][j] = History(p, j)
  <2> DEFINE I == Len(p)
             none == [b \in {0} |-> Empty]
  <2>1. Causal(mask, 1, I, 0)
    <3>1. 0 \in Nat /\ 1 \in Nat /\ (IF 0 = 0 THEN I ELSE d.accSeqLen) = 0 + I
      BY <1>2
    <3> QED
      BY <1>2, <3>1, MaskCausal
  <2>2. ASSUME NEW n \in 0 .. I-1
        PROVE  p[0*I + n + 1] = p[0 + n + 1] /\ PositionOf(d, 0, I, 0*I + n) = 0 + n
    <3>1. 0*I + n = n /\ 0 + n = n
      BY <1>2
    <3>2. (0*I + n) % I = n
      <4>1. 0 \in 0 .. 1-1 /\ 1 \in Nat
        OBVIOUS
      <4> QED
        BY <1>2, <4>1, FlatIndex
    <3> QED
      BY <1>1, <3>1, <3>2 DEF PositionOf
  <2>3. 0 \in 0 .. 1-1 /\ 0 \in DOMAIN none /\ 0 + I <= MaxPositions /\ 1 \in Nat /\ 0 \in Nat
    BY <1>1, <1>2
  <2>4. Holds(none, 0, 0, p) /\ Fed(d, p, 0, I, 0, p)
    BY <2>2 DEF Holds, Fed
  <2> HIDE DEF mask, none
  <2>5. Holds(Attention(d, none, p, 1, I, 0, mask), 0, 0 + I, p)
    BY <1>2, <2>1, <2>3, <2>4, AttentionTrue
  <2> QED
    BY <1>2, <2>5 DEF none, Holds
<1> HIDE DEF kv
<1>5. InvType' /\ InvPrefix' /\ InvPrefixCache'
  BY <1>1, <1>2, <1>3, <1>4 DEF IInv, InvType, InvPrefix, InvPrefixCache
<1>6. InvGeneration'
  BY <1>1, <1>3 DEF IInv, InvGeneration, Rows
<1>7. InvLengths'
  BY <1>1, <1>3 DEF IInv, InvLengths, Pending
<1>8. InvPrompts'
  BY <1>1, <1>3 DEF IInv, InvPrompts, Rows
<1>9. InvCache' /\ LogitsTrue'
  BY <1>1 DEF IInv, InvCache, LogitsTrue, Pending, Rows
<1> QED
  BY <1>5, <1>6, <1>7, <1>8, <1>9 DEF IInv

(* Every row of the searcher goes on from a row of its sample: the keys of *)
(* the prompt, which reorder leaves, are the same in both.                 *)
LEMMA SearchKeeps ==
  ASSUME IInv, NEW idx \in Indices, Search(idx)
  PROVE  IInv'
<1> DEFINE I == dec["first"].initSeqLen
           n == I + step
<1>1. /\ model' = model /\ dec' = dec /\ prefixCache' = prefixCache /\ all' = all /\ shape' = shape
      /\ prefix' = prefix /\ phase = "search" /\ phase' = "forward" /\ ~all /\ step' = step + 1
      /\ Len(seqs[0]) < MaxPositions
      /\ seqs' = [b \in Rows |-> Append(seqs[idx[b]], b)]
      /\ cache' = IF shape.beams > 1 THEN ReorderCache(cache, idx, dec["first"]) ELSE cache
  BY DEF Search
<1>2. /\ shape \in Shapes /\ (shape.beams > 1 => ~model.hybrid) /\ (shape.bs * shape.beams > 1 => ~model.learned)
      /\ seqs \in [Rows -> Seq(Int)] /\ DOMAIN cache = Rows /\ I \in Nat /\ I > 0 /\ step \in Nat /\ n \in Nat
      /\ \A b \in Rows : Len(seqs[b]) = n
      /\ dec \in [Decoders -> [prefixSharing : BOOLEAN, prefixSeqLen : Nat, initSeqLen : Nat, accSeqLen : Nat]]
  BY <1>1 DEF IInv, InvType, InvGeneration, Decoders
<1>3. /\ shape.bs \in Nat \ {0} /\ shape.beams \in Nat \ {0} /\ shape.bs * shape.beams \in Nat \ {0}
      /\ 0 \in Rows
  BY <1>2, ShapeType DEF Rows
<1>4. n < MaxPositions /\ Rows' = Rows
  BY <1>1, <1>2, <1>3 DEF Rows
<1>5. \A b \in Rows : b \in Nat /\ idx[b] \in Rows /\ idx[b] \div shape.beams = b \div shape.beams
  BY DEF Indices, Rows
<1> HIDE DEF I, n
<1>6. ASSUME NEW b \in Rows
      PROVE  /\ seqs'[b] \in Seq(Int) /\ Len(seqs'[b]) = n + 1
             /\ \A i \in 1 .. n : seqs'[b][i] = seqs[idx[b]][i]
  <2>1. seqs'[b] = Append(seqs[idx[b]], b) /\ seqs[idx[b]] \in Seq(Int) /\ Len(seqs[idx[b]]) = n /\ b \in Int
    BY <1>1, <1>2, <1>5
  <2> QED
    BY <2>1
<1>7. InvType' /\ InvPrefix' /\ InvPrefixCache'
  BY <1>1, <1>2 DEF IInv, InvType, InvPrefix, InvPrefixCache
<1>8. DOMAIN cache' = Rows
  BY <1>1, <1>2 DEF ReorderCache
<1>9. InvGeneration'
  <2>1. seqs' \in [Rows -> Seq(Int)]
    BY <1>1, <1>6
  <2>2. \A b \in Rows : Len(seqs'[b]) = I + step' /\ Len(seqs'[b]) <= MaxPositions
    <3>1. n + 1 = I + step' /\ n + 1 <= MaxPositions
      BY <1>1, <1>2, <1>4, SizeAssumption DEF n
    <3> QED
      BY <1>6, <3>1
  <2> QED
    BY <1>1, <1>2, <1>4, <1>8, <2>1, <2>2 DEF InvGeneration, I
<1>10. InvLengths'
  BY <1>1, <1>2 DEF IInv, InvLengths, Pending, I
<1>11. InvPrompts'
  <2>1. I <= n
    BY <1>2 DEF n
  <2>2. ASSUME NEW b \in Rows, NEW c \in Rows, b \div shape.beams = c \div shape.beams, NEW i \in 1 .. I
        PROVE  seqs'[b][i] = seqs'[c][i]
    <3>1. idx[b] \div shape.beams = idx[c] \div shape.beams /\ idx[b] \in Rows /\ idx[c] \in Rows
      BY <1>5, <2>2
    <3>2. seqs[idx[b]][i] = seqs[idx[c]][i]
      BY <1>1, <3>1 DEF IInv, InvPrompts, I
    <3>3. i \in 1 .. n
      BY <1>2, <2>1
    <3> QED
      BY <1>6, <3>2, <3>3
  <2> QED
    BY <1>1, <1>4, <2>2 DEF InvPrompts, I
<1>12. ASSUME NEW b \in Rows, NEW i \in 0 .. n-1
       PROVE  cache'[b][i] = History(seqs'[b], i)
  <2>1. i \in Nat /\ i \in Position /\ \A k \in 1 .. i+1 : k \in 1 .. n
    BY <1>2, <1>4, SizeAssumption DEF Position
  <2>2. \A c \in Rows : cache[c][i] = History(seqs[c], i)
    BY <1>1, <1>2 DEF IInv, InvCache, Pending
  <2>3. History(seqs[idx[b]], i) = History(seqs'[b], i)
    <3>1. \A k \in 1 .. i+1 : seqs[idx[b]][k] = seqs'[b][k]
      BY <1>6, <2>1
    <3> QED
      BY <2>1, <3>1, HistorySame
  <2>4. CASE shape.beams = 1
    <3>1. idx[b] = b
      <4>1. b \in 0 .. shape.bs * shape.beams - 1 /\ idx[b] \in 0 .. shape.bs * shape.beams - 1
        BY <1>5 DEF Rows
      <4>2. b \div shape.beams = b /\ idx[b] \div shape.beams = idx[b]
        BY <1>3, <2>4, <4>1, SampleOf
      <4> QED
        BY <1>5, <4>2
    <3>2. cache' = cache
      BY <1>1, <2>4
    <3> QED
      BY <2>2, <2>3, <3>1, <3>2
  <2>5. CASE shape.beams # 1
    <3>1. shape.beams > 1 /\ ~model.hybrid /\ cache' = ReorderCache(cache, idx, dec["first"])
      BY <1>1, <1>2, <1>3, <2>5
    <3>2. dec["first"].accSeqLen = n
      BY <1>1, <1>2, <3>1 DEF IInv, InvLengths, Pending, I, n
    <3>3. cache'[b][i] = IF i \in I .. n-1 THEN cache[idx[b]][i] ELSE cache[b][i]
      BY <1>2, <2>1, <3>1, <3>2 DEF ReorderCache, I
    <3>4. CASE i >= I
      BY <1>2, <1>5, <2>1, <2>2, <2>3, <3>3, <3>4
    <3>5. CASE ~(i >= I)
      <4>1. \A k \in 1 .. i+1 : k \in 1 .. I
        BY <1>2, <2>1, <3>5
      <4>2. \A k \in 1 .. I : seqs[b][k] = seqs[idx[b]][k]
        BY <1>1, <1>5 DEF IInv, InvPrompts, I
      <4>3. \A k \in 1 .. i+1 : seqs[b][k] = seqs[idx[b]][k]
        BY <4>1, <4>2
      <4>4. History(seqs[b], i) = History(seqs[idx[b]], i)
        BY <2>1, <4>3, HistorySame
      <4>5. cache'[b][i] = cache[b][i]
        BY <1>2, <3>3, <3>5
      <4> QED
        BY <2>2, <2>3, <4>4, <4>5
    <3> QED
      BY <3>4, <3>5
  <2> QED
    BY <2>4, <2>5
<1>13. InvCache'
  <2>1. \A b \in Rows : 0 .. Len(seqs'[b])-1-1 = 0 .. n-1
    BY <1>2, <1>6
  <2> QED
    BY <1>1, <1>4, <1>12, <2>1 DEF InvCache, Pending
<1>14. LogitsTrue'
  BY <1>1 DEF LogitsTrue
<1> QED
  BY <1>7, <1>9, <1>10, <1>11, <1>13, <1>14 DEF IInv

(* A later step adds the token of every row to the row's keys. *)
LEMMA NextStepKeeps ==
  ASSUME IInv, NextStep
  PROVE  IInv'
<1> DEFINE B == shape.bs * shape.beams
           first == dec["first"]
           P == first.initSeqLen + step - 1
           d0 == IF model.hybrid /\ step = 1
                 THEN SkipFirstStep(dec["next"], first.initSeqLen) ELSE dec[Running]
           d1 == [d0 EXCEPT !.accSeqLen = @ + 1]
           ids == [n \in 1 .. B |-> seqs[n-1][Len(seqs[n-1])]]
           mask == AttnMask(MaskStep(d0, step), B, 1, d1.accSeqLen)
           kv == Attention(d0, cache, ids, B, 1, d0.accSeqLen, mask)
           D == [prefixSharing : BOOLEAN, prefixSeqLen : Nat, initSeqLen : Nat, accSeqLen : Nat]
<1>1. /\ model' = model /\ prefixCache' = prefixCache /\ all' = all /\ shape' = shape /\ prefix' = prefix
      /\ step' = step /\ seqs' = seqs /\ phase = "forward" /\ phase' = "search" /\ dec' = [dec EXCEPT ![Running] = d1]
      /\ cache' = kv /\ logits' = [b \in Rows |-> kv[b][d0.accSeqLen]]
  BY DEF NextStep
<1>2. /\ shape \in Shapes /\ (shape.bs * shape.beams > 1 => ~model.learned)
      /\ seqs \in [Rows -> Seq(Int)] /\ DOMAIN cache = Rows /\ first.initSeqLen \in Nat /\ first.initSeqLen > 0
      /\ step \in Nat /\ step > 0 /\ ~all
      /\ \A b \in Rows : Len(seqs[b]) = first.initSeqLen + step /\ Len(seqs[b]) <= MaxPositions
      /\ dec \in [Decoders -> D] /\ dec["first"] \in D /\ dec["next"] \in D
      /\ model \in Models /\ model.hybrid \in BOOLEAN /\ model.learned \in BOOLEAN
  BY <1>1, ModelAssumption DEF IInv, InvType, InvGeneration, Decoders
<1>3. B \in Nat \ {0} /\ Rows = 0 .. B-1 /\ 0 \in Rows
  BY <1>2, ShapeType DEF Rows
<1>4. P \in Nat \ {0} /\ P + 1 <= MaxPositions /\ \A b \in Rows : Len(seqs[b]) = P + 1
  <2>1. P \in Nat \ {0} /\ P + 1 = first.initSeqLen + step
    BY <1>2
  <2>2. \A b \in Rows : Len(seqs[b]) = P + 1 /\ Len(seqs[b]) <= MaxPositions
    BY <1>2, <2>1
  <2> HIDE DEF P
  <2> QED
    BY <1>3, <2>1, <2>2
<1>5. d0 \in D /\ d0.accSeqLen = P /\ Running \in Decoders
  <2>1. CASE model.hybrid /\ step = 1
    <3>1. Running = "next" /\ d0 = SkipFirstStep(dec["next"], first.initSeqLen)
      BY <1>2, <2>1 DEF Running
    <3>2. P = first.initSeqLen
      BY <1>2, <2>1
    <3>3. SkipFirstStep(dec["next"], first.initSeqLen) \in D
          /\ SkipFirstStep(dec["next"], first.initSeqLen).accSeqLen = first.initSeqLen
      BY <1>2 DEF SkipFirstStep
    <3> QED
      BY <3>1, <3>2, <3>3 DEF Decoders
  <2>2. CASE model.hybrid /\ step # 1
    <3>1. Running = "next" /\ d0 = dec["next"]
      BY <1>2, <2>2 DEF Running
    <3>2. dec["next"].accSeqLen = P
      BY <1>1, <1>2, <2>2 DEF IInv, InvLengths, Pending
    <3> QED
      BY <1>2, <3>1, <3>2 DEF Decoders
  <2>3. CASE ~model.hybrid
    <3>1. Running = "first" /\ d0 = dec["first"]
      BY <1>2, <2>3 DEF Running
    <3>2. dec["first"].accSeqLen = P
      BY <1>1, <1>2, <2>3 DEF IInv, InvLengths, Pending
    <3> QED
      BY <1>2, <3>1, <3>2 DEF Decoders
  <2> QED
    BY <1>2, <2>1, <2>2, <2>3
<1>6. /\ d1 \in D /\ d1.accSeqLen = P + 1 /\ d1.prefixSharing = d0.prefixSharing
      /\ d1.prefixSeqLen = d0.prefixSeqLen /\ d1.initSeqLen = d0.initSeqLen
  BY <1>4, <1>5
<1>7. /\ dec' \in [Decoders -> D] /\ dec'["first"].initSeqLen = first.initSeqLen
      /\ dec'["first"].prefixSharing = first.prefixSharing /\ dec'["first"].prefixSeqLen = first.prefixSeqLen
      /\ dec'["next"].prefixSharing = dec["next"].prefixSharing
      /\ dec'[Running].accSeqLen = P + 1
  <2>1. dec' = [dec EXCEPT ![Running] = d1]
    BY <1>1
  <2>2. CASE model.hybrid
    <3>1. Running = "next"
      BY <1>2, <2>2 DEF Running
    <3>2. d0.prefixSharing = dec["next"].prefixSharing
      BY <1>2, <3>1 DEF SkipFirstStep
    <3> HIDE DEF d0, d1
    <3> QED
      BY <1>2, <1>6, <2>1, <3>1, <3>2 DEF Decoders
  <2>3. CASE ~model.hybrid
    <3>1. Running = "first" /\ d0 = dec["first"]
      BY <1>2, <2>3 DEF Running
    <3> HIDE DEF d0, d1
    <3> QED
      BY <1>2, <1>6, <2>1, <3>1 DEF Decoders
  <2> QED
    BY <1>2, <2>2, <2>3
<1> HIDE DEF d1, B, P
<1>8. Causal(mask, B, 1, P)
  <2>1. MaskStep(d0, step) \in Nat /\ MaskStep(d0, step) # 0
    BY <1>2, <1>5 DEF MaskStep
  <2>2. (IF MaskStep(d0, step) = 0 THEN 1 ELSE d1.accSeqLen) = P + 1
    BY <1>6, <2>1
  <2>3. B \in Nat /\ 1 \in Nat \ {0} /\ P \in Nat
    BY <1>3, <1>4
  <2> HIDE DEF d0
  <2> QED
    BY <2>1, <2>2, <2>3, MaskCausal
<1> HIDE DEF d0, mask
<1>9. ASSUME NEW b \in Rows PROVE Holds(kv, b, P + 1, seqs[b])
  <2>1. b \in Nat /\ b \in 0 .. B-1 /\ b \in DOMAIN cache
    BY <1>2, <1>3
  <2>2. Fed(d0, ids, b, 1, P, seqs[b])
    <3>1. ASSUME NEW n \in 0 .. 1-1
          PROVE  ids[b*1 + n + 1] = seqs[b][P + n + 1] /\ PositionOf(d0, P, 1, b*1 + n) = P + n
      <4>1. n = 0 /\ b*1 + n + 1 = b + 1 /\ P + n + 1 = P + 1 /\ b*1 + n = b /\ P + n = P /\ b + 1 \in 1 .. B
            /\ (b + 1) - 1 = b
        BY <1>3, <1>4, <2>1
      <4>2. ids[b + 1] = seqs[b][P + 1]
        BY <1>4, <4>1
      <4>3. PositionOf(d0, P, 1, b) = P
        <5>1. CASE model.learned
          <6>1. b = 0
            BY <1>2, <1>3, <2>1, <5>1 DEF B
          <6>2. EmbeddingPast(d0) = P
            BY <1>4, <1>5 DEF EmbeddingPast
          <6> QED
            BY <1>4, <5>1, <6>1, <6>2 DEF PositionOf
        <5>2. CASE ~model.learned
          <6>1. b % 1 = 0
            BY <2>1
          <6> QED
            BY <1>4, <5>2, <6>1 DEF PositionOf
        <5> QED
          BY <5>1, <5>2
      <4> QED
        BY <4>1, <4>2, <4>3
    <3> HIDE DEF ids
    <3> QED
      BY <3>1 DEF Fed
  <2>3. Holds(cache, b, P, seqs[b])
    <3>1. \A i \in 0 .. Len(seqs[b])-1-1 : cache[b][i] = History(seqs[b], i)
      BY <1>1 DEF IInv, InvCache, Pending
    <3>2. Len(seqs[b])-1-1 = P - 1
      BY <1>4
    <3> QED
      BY <3>1, <3>2 DEF Holds
  <2> HIDE DEF ids
  <2>4. Holds(Attention(d0, cache, ids, B, 1, P, mask), b, P + 1, seqs[b])
    <3>1. B \in Nat /\ 1 \in Nat \ {0} /\ P \in Nat
      BY <1>3, <1>4
    <3> QED
      BY <1>4, <1>8, <2>1, <2>2, <2>3, <3>1, AttentionTrue
  <2> QED
    BY <1>5, <2>4
<1>10. DOMAIN kv = Rows
  BY <1>2, AttentionRows
<1> HIDE DEF kv
<1>11. Rows' = Rows
  BY <1>1 DEF Rows
<1>12. InvType' /\ InvPrefix' /\ InvPrefixCache'
  BY <1>1, <1>7 DEF IInv, InvType, InvPrefix, InvPrefixCache
<1>13. InvGeneration'
  BY <1>1, <1>7, <1>10, <1>11 DEF IInv, InvGeneration
<1>14. InvLengths'
  <2>1. Running = IF model.hybrid THEN "next" ELSE "first"
    BY <1>2 DEF Running
  <2> QED
    BY <1>1, <1>2, <1>7, <2>1 DEF InvLengths, Pending, P
<1>15. InvPrompts'
  BY <1>1, <1>7, <1>11 DEF IInv, InvPrompts
<1>16. InvCache'
  <2>1. ASSUME NEW b \in Rows, NEW i \in 0 .. Len(seqs[b])-1-0 PROVE kv[b][i] = History(seqs[b], i)
    <3>1. i \in 0 .. (P + 1)-1
      BY <1>4
    <3> QED
      BY <1>9, <3>1 DEF Holds
  <2> QED
    BY <1>1, <1>11, <2>1 DEF InvCache, Pending
<1>17. LogitsTrue'
  <2>1. ASSUME NEW b \in Rows PROVE logits'[b] = History(seqs[b], Len(seqs[b]) - 1)
    <3>1. P \in 0 .. (P + 1)-1 /\ Len(seqs[b]) - 1 = P
      BY <1>4
    <3>2. kv[b][P] = History(seqs[b], P)
      BY <1>9, <3>1 DEF Holds
    <3> QED
      BY <1>1, <1>5, <3>1, <3>2
  <2> QED
    BY <1>1, <1>2, <1>11, <2>1 DEF LogitsTrue
<1> QED
  BY <1>12, <1>13, <1>14, <1>15, <1>16, <1>17 DEF IInv

(* The prompt of a sample: the prefix that is shared, and len tokens. *)
LEMMA PromptOf ==
  ASSUME IInv, NEW u \in Nat, NEW len \in Nat
  PROVE  LET first == dec["first"]
             P     == IF first.prefixSharing THEN first.prefixSeqLen ELSE 0
         IN  /\ P \in Nat
             /\ Prompt(first, u, len) \in Seq(Int) /\ Len(Prompt(first, u, len)) = P + len
             /\ \A n \in 1 .. P : Prompt(first, u, len)[n] = prefix[n]
<1> DEFINE first == dec["first"]
           own == [i \in 1 .. len |-> -1 - u]
<1>1. own \in Seq(Int) /\ Len(own) = len
  OBVIOUS
<1>2. prefix \in Seq(Int) /\ first.prefixSharing \in BOOLEAN
  BY DEF IInv, InvType, Decoders
<1> HIDE DEF own
<1>3. CASE first.prefixSharing
  <2>1. Prompt(first, u, len) = prefix \o own /\ Len(prefix) = first.prefixSeqLen /\ Len(prefix) \in Nat
    BY <1>2, <1>3 DEF Prompt, IInv, InvPrefix, own
  <2>2. /\ prefix \o own \in Seq(Int) /\ Len(prefix \o own) = Len(prefix) + len
        /\ \A n \in 1 .. Len(prefix) : (prefix \o own)[n] = prefix[n]
    <3> HIDE DEF first
    <3> QED
      BY <1>1, <1>2
  <2> QED
    BY <1>3, <2>1, <2>2
<1>4. CASE ~first.prefixSharing
  <2>1. Prompt(first, u, len) = <<>> \o own
    BY <1>4 DEF Prompt, own
  <2>2. <<>> \o own = own
    BY <1>1
  <2> QED
    BY <1>1, <1>4, <2>1, <2>2
<1> QED
  BY <1>2, <1>3, <1>4

(* Step 0 fills the cache with the prompts, behind a shared prefix. *)
LEMMA FirstStepKeeps ==
  ASSUME IInv, NEW s \in Shapes, NEW logitsAll \in BOOLEAN, FirstStep(s, logitsAll)
  PROVE  IInv'
<1> DEFINE first == dec["first"]
           ids == [u \in 0 .. s.bs-1 |-> Prompt(first, u, s.len)]
           seqLen == Len(ids[0])
           P == IF first.prefixSharing THEN first.prefixSeqLen ELSE 0
           I == seqLen - P
           newIds == [k \in 1 .. s.bs * I |-> ids[(k-1) \div I][P + ((k-1) % I) + 1]]
           start == [first EXCEPT !.initSeqLen = seqLen, !.accSeqLen = 0]
           resized == [b \in 0 .. s.bs*s.beams-1 |-> Empty]
           filled == IF first.prefixSharing
                     THEN ExpandPrefixCache(resized, s.bs, first.prefixSeqLen) ELSE resized
           mask == AttnMask(MaskStep(first, 0), s.bs, I, seqLen)
           kv == Attention(start, filled, newIds, s.bs, I, P, mask)
           lastRows == [b \in DOMAIN kv |-> IF b < s.bs THEN kv[b][seqLen-1] ELSE NoEntry]
           D == [prefixSharing : BOOLEAN, prefixSeqLen : Nat, initSeqLen : Nat, accSeqLen : Nat]
           R == 0 .. s.bs*s.beams-1
<1>1. /\ model' = model /\ prefixCache' = prefixCache /\ prefix' = prefix /\ shape' = s /\ step' = 0
      /\ phase' = "search" /\ all' = logitsAll /\ seqLen <= MaxPositions
      /\ (s.beams > 1 => ~model.hybrid) /\ (s.bs * s.beams > 1 => ~model.learned)
      /\ (logitsAll => s.beams = 1 /\ ~first.prefixSharing)
  BY DEF FirstStep
<1>2. /\ dec' = [dec EXCEPT !["first"] = [start EXCEPT !.accSeqLen = @ + seqLen]]
      /\ seqs' = [b \in R |-> ids[b \div s.beams]]
  BY DEF FirstStep
<1>3. cache' = IF s.beams > 1 THEN ExpandCache(kv, s.beams, seqLen) ELSE kv
  BY DEF FirstStep
<1>4. logits' = IF logitsAll THEN [k \in 0 .. s.bs * I - 1 |-> kv[k \div I][P + (k % I)]]
                ELSE Spread(lastRows, s.bs, s.beams)
  BY DEF FirstStep
<1>5. /\ s.bs \in Nat \ {0} /\ s.beams \in Nat \ {0} /\ s.len \in Nat \ {0} /\ s.bs * s.beams \in Nat \ {0}
      /\ s.bs <= s.bs * s.beams
  BY ShapeType
<1>6. /\ P \in Nat /\ 0 \in 0 .. s.bs-1
      /\ \A u \in 0 .. s.bs-1 : /\ ids[u] \in Seq(Int) /\ Len(ids[u]) = P + s.len
                                /\ \A n \in 1 .. P : ids[u][n] = prefix[n]
  <2>1. 0 \in 0 .. s.bs-1
    BY <1>5
  <2>2. ASSUME NEW u \in 0 .. s.bs-1
        PROVE  /\ P \in Nat /\ ids[u] \in Seq(Int) /\ Len(ids[u]) = P + s.len
               /\ \A n \in 1 .. P : ids[u][n] = prefix[n]
    <3>1. u \in Nat /\ s.len \in Nat
      BY <1>5
    <3> QED
      BY <3>1, PromptOf
  <2> QED
    BY <2>1, <2>2
<1>7. seqLen = P + s.len /\ seqLen \in Nat \ {0} /\ I = s.len /\ I \in Nat \ {0}
  <2>1. seqLen = P + s.len
    BY <1>6
  <2> HIDE DEF seqLen, P
  <2> QED
    BY <1>5, <1>6, <2>1
<1>8. dec \in [Decoders -> D] /\ first \in D /\ first.prefixSharing \in BOOLEAN /\ model.learned \in BOOLEAN
  BY ModelAssumption DEF IInv, InvType, Decoders
<1> HIDE DEF ids, seqLen, P, I
<1>9. start \in D /\ start.accSeqLen = 0 /\ start.initSeqLen = seqLen /\ start.prefixSharing = first.prefixSharing
      /\ start.prefixSeqLen = first.prefixSeqLen
  BY <1>7, <1>8
<1>10. /\ dec' \in [Decoders -> D] /\ dec'["next"] = dec["next"]
       /\ dec'["first"].initSeqLen = seqLen /\ dec'["first"].accSeqLen = seqLen
       /\ dec'["first"].prefixSharing = first.prefixSharing /\ dec'["first"].prefixSeqLen = first.prefixSeqLen
  <2> HIDE DEF start
  <2> DEFINE d1 == [start EXCEPT !.accSeqLen = @ + seqLen]
  <2>1. /\ d1 \in D /\ d1.initSeqLen = seqLen /\ d1.accSeqLen = seqLen
        /\ d1.prefixSharing = first.prefixSharing /\ d1.prefixSeqLen = first.prefixSeqLen
    BY <1>7, <1>9
  <2>2. dec' = [dec EXCEPT !["first"] = d1]
    BY <1>2
  <2> HIDE DEF d1
  <2> QED
    BY <1>8, <2>1, <2>2 DEF Decoders
<1>11. Rows' = R /\ DOMAIN resized = R /\ DOMAIN filled = R /\ DOMAIN kv = R /\ \A u \in 0 .. s.bs-1 : u \in R
  <2>1. Rows' = R /\ DOMAIN resized = R /\ \A u \in 0 .. s.bs-1 : u \in R
    BY <1>1, <1>5 DEF Rows
  <2>2. DOMAIN filled = R
    BY <2>1 DEF ExpandPrefixCache
  <2> QED
    BY <2>1, <2>2, AttentionRows
<1>12. \A b \in R : b \div s.beams \in 0 .. s.bs-1 /\ (s.beams = 1 => b \div s.beams = b)
  BY <1>5, SampleOf
<1>13. Causal(mask, s.bs, I, P)
  <2>1. MaskStep(first, 0) \in Nat /\ (MaskStep(first, 0) = 0 => P = 0)
    BY <1>8 DEF MaskStep, P
  <2>2. (IF MaskStep(first, 0) = 0 THEN I ELSE seqLen) = P + I
    BY <1>5, <1>6, <1>7, <2>1
  <2>3. s.bs \in Nat
    BY <1>5
  <2> QED
    BY <1>6, <1>7, <2>1, <2>2, <2>3, MaskCausal
<1>14. ASSUME NEW u \in 0 .. s.bs-1 PROVE Holds(filled, u, P, ids[u])
  <2> SUFFICES ASSUME NEW j \in 0 .. P-1 PROVE filled[u][j] = History(ids[u], j)
    BY DEF Holds
  <2>1. first.prefixSharing /\ P = first.prefixSeqLen
    BY <1>8 DEF P
  <2>2. j \in Nat /\ j \in Position /\ u \in R /\ u < s.bs /\ j < first.prefixSeqLen
    <3>1. j \in Nat /\ j < P /\ P <= seqLen
      BY <1>5, <1>6, <1>7
    <3>2. j \in Position
      <4>1. seqLen \in Nat /\ seqLen <= MaxPositions
        BY <1>1, <1>7
      <4> QED
        BY <1>6, <3>1, <4>1, SizeAssumption DEF Position
    <3>3. u \in R /\ u < s.bs
      BY <1>5, <1>11
    <3> QED
      BY <2>1, <3>1, <3>2, <3>3
  <2>3. filled[u][j] = prefixCache[j]
    BY <1>11, <2>1, <2>2 DEF ExpandPrefixCache
  <2>4. prefixCache[j] = History(prefix, j)
    BY <2>1 DEF IInv, InvPrefixCache, InvPrefix
  <2>5. \A n \in 1 .. j+1 : prefix[n] = ids[u][n]
    BY <1>6, <2>2
  <2> QED
    BY <2>2, <2>3, <2>4, <2>5, HistorySame
<1>15. ASSUME NEW u \in 0 .. s.bs-1 PROVE Fed(start, newIds, u, I, P, ids[u])
  <2> SUFFICES ASSUME NEW n \in 0 .. I-1
               PROVE  /\ newIds[u*I + n + 1] = ids[u][P + n + 1]
                      /\ PositionOf(start, P, I, u*I + n) = P + n
    BY DEF Fed
  <2> DEFINE x == u*I + n
  <2>1. x \in 0 .. s.bs*I - 1 /\ x \div I = u /\ x % I = n
    <3>1. s.bs \in Nat /\ I \in Nat \ {0}
      BY <1>5, <1>7
    <3>2. x = u*I + n
      OBVIOUS
    <3> HIDE DEF x
    <3>3. FlatAt(x, s.bs, I, u, n)
      BY <3>1, <3>2, FlatAtIndex
    <3> QED
      BY <3>3 DEF FlatAt
  <2>2. s.bs * I \in Nat
    BY <1>5, <1>7
  <2>3. newIds[x + 1] = ids[u][P + n + 1]
    <3> HIDE DEF x
    <3>1. x + 1 \in 1 .. s.bs*I /\ (x + 1) - 1 = x
      BY <2>1, <2>2
    <3> QED
      BY <2>1, <3>1
  <2>4. PositionOf(start, P, I, x) = P + n
    <3>1. CASE model.learned
      <4>1. s.bs = 1
        BY <1>1, <1>5, <3>1
      <4>2. x = n
        <5>1. u = 0
          BY <4>1
        <5> QED
          BY <1>7, <5>1
      <4>3. ~first.prefixSharing /\ P = 0
        BY <1>8, <3>1 DEF IInv, InvPrefix, P
      <4> HIDE DEF start
      <4>4. EmbeddingPast(start) = 0
        BY <1>9, <4>3 DEF EmbeddingPast
      <4> HIDE DEF x
      <4> QED
        BY <3>1, <4>2, <4>3, <4>4 DEF PositionOf
    <3>2. CASE ~model.learned
      <4> HIDE DEF x, start
      <4> QED
        BY <2>1, <3>2 DEF PositionOf
    <3> QED
      BY <3>1, <3>2
  <2> QED
    BY <2>3, <2>4
<1> HIDE DEF filled, newIds, mask, start
<1>16. ASSUME NEW u \in 0 .. s.bs-1 PROVE Holds(kv, u, seqLen, ids[u])
  <2>1. s.bs \in Nat /\ u \in DOMAIN filled /\ P + I <= MaxPositions /\ seqLen = P + I
    BY <1>1, <1>5, <1>6, <1>7, <1>11
  <2>2. Holds(kv, u, P + I, ids[u])
    BY <1>6, <1>7, <1>13, <1>14, <1>15, <2>1, AttentionTrue
  <2> QED
    BY <2>1, <2>2
<1> HIDE DEF kv
<1>17. InvType' /\ InvPrefix' /\ InvPrefixCache'
  BY <1>1, <1>10 DEF IInv, InvType, InvPrefix, InvPrefixCache
<1>18. InvGeneration'
  <2>1. seqs' \in [R -> Seq(Int)] /\ \A b \in R : Len(seqs'[b]) = seqLen
    BY <1>2, <1>6, <1>7, <1>12
  <2>2. DOMAIN cache' = R
    BY <1>3, <1>11 DEF ExpandCache
  <2>3. \A b \in R : Len(seqs'[b]) = seqLen + 0 /\ Len(seqs'[b]) <= MaxPositions
    BY <1>1, <1>7, <2>1
  <2>4. seqLen > 0
    BY <1>7
  <2> QED
    BY <1>1, <1>10, <1>11, <2>1, <2>2, <2>3, <2>4 DEF InvGeneration
<1>19. InvLengths'
  BY <1>1, <1>7, <1>10 DEF InvLengths, Pending
<1>20. InvPrompts'
  <2>1. \A b, c \in R : b \div s.beams = c \div s.beams => seqs'[b] = seqs'[c]
    BY <1>2
  <2> QED
    BY <1>1, <1>11, <2>1 DEF InvPrompts
<1>21. InvCache'
  <2>1. ASSUME NEW b \in R, NEW i \in 0 .. Len(seqs'[b])-1-0 PROVE cache'[b][i] = History(seqs'[b], i)
    <3> DEFINE u == b \div s.beams
    <3>1. u \in 0 .. s.bs-1 /\ seqs'[b] = ids[u] /\ (s.beams = 1 => u = b)
      BY <1>2, <1>12
    <3> HIDE DEF u
    <3>2. i \in 0 .. seqLen-1 /\ i \in Position /\ i < seqLen
      <4>1. Len(seqs'[b]) = seqLen
        BY <1>6, <1>7, <3>1
      <4>2. i \in 0 .. seqLen-1
        BY <1>7, <4>1
      <4> QED
        BY <1>1, <1>7, <4>2, SizeAssumption DEF Position
    <3>3. kv[u][i] = History(ids[u], i)
      BY <1>16, <3>1, <3>2 DEF Holds
    <3>4. cache'[b][i] = kv[u][i]
      <4>1. CASE s.beams > 1
        BY <1>3, <1>11, <3>2, <4>1 DEF ExpandCache, u
      <4>2. CASE ~(s.beams > 1)
        <5>0. s.beams \in Nat \ {0}
          BY <1>5
        <5>1. s.beams = 1 /\ cache' = kv
          BY <1>3, <4>2, <5>0
        <5> QED
          BY <3>1, <5>1
      <4> QED
        BY <4>1, <4>2
    <3> QED
      BY <3>1, <3>3, <3>4
  <2> QED
    BY <1>1, <1>11, <2>1 DEF InvCache, Pending
<1>22. CASE logitsAll
  <2>1. s.beams = 1 /\ ~first.prefixSharing /\ P = 0 /\ I = s.len /\ seqLen = s.len
    BY <1>1, <1>5, <1>7, <1>22 DEF P
  <2>2. logits' = [k \in 0 .. s.bs * I - 1 |-> kv[k \div I][P + (k % I)]]
    BY <1>4, <1>22
  <2>3. ASSUME NEW k \in DOMAIN logits'
        PROVE  logits'[k] = History(seqs'[k \div s.len], k % s.len)
    <3> DEFINE u == k \div I
               n == k % I
    <3>1. k \in 0 .. s.bs * I - 1 /\ k \in Nat
      BY <1>5, <1>7, <2>2
    <3>2. u \in 0 .. s.bs-1
      BY <1>5, <1>7, <3>1, SampleOf
    <3>3. n \in 0 .. I-1
      BY <1>7, <3>1, DivMod
    <3>4. logits'[k] = kv[u][P + n]
      BY <2>2, <3>1
    <3>5. seqs'[u] = ids[u]
      <4> HIDE DEF u
      <4> QED
        BY <1>2, <1>11, <1>12, <2>1, <3>2
    <3> HIDE DEF u, n
    <3>6. P + n = n /\ n \in 0 .. seqLen-1
      BY <2>1, <3>3
    <3>7. logits'[k] = History(seqs'[u], n)
      BY <1>16, <3>2, <3>4, <3>5, <3>6 DEF Holds
    <3> QED
      BY <2>1, <3>7 DEF u, n
  <2>4. LogitsTrue'
    BY <1>1, <1>22, <2>3 DEF LogitsTrue
  <2> QED
    BY <1>17, <1>18, <1>19, <1>20, <1>21, <2>4 DEF IInv
<1>23. CASE ~logitsAll
  <2>1. RowOfEveryBeam(lastRows, s.bs, s.beams)
    BY <1>11 DEF RowOfEveryBeam
  <2>2. logits' = Spread(lastRows, s.bs, s.beams)
    BY <1>4, <1>23
  <2> HIDE DEF lastRows
  <2>3. logits' = [b \in R |-> lastRows[b \div s.beams]]
    <3>1. SpreadsSamples(lastRows, s.bs, s.beams)
      BY <1>5, <2>1, SpreadTrue
    <3> QED
      BY <2>2, <3>1 DEF SpreadsSamples
  <2>4. ASSUME NEW b \in R PROVE logits'[b] = History(seqs'[b], Len(seqs'[b]) - 1)
    <3> DEFINE u == b \div s.beams
    <3>1. u \in 0 .. s.bs-1 /\ seqs'[b] = ids[u]
      BY <1>2, <1>12
    <3>2. logits'[b] = lastRows[u]
      BY <2>3
    <3> HIDE DEF u
    <3>3. lastRows[u] = kv[u][seqLen-1]
      BY <1>5, <1>11, <3>1 DEF lastRows
    <3>4. seqLen-1 \in 0 .. seqLen-1 /\ Len(ids[u]) = seqLen
      BY <1>6, <1>7, <3>1
    <3>5. kv[u][seqLen-1] = History(ids[u], seqLen-1)
      BY <1>16, <3>1, <3>4 DEF Holds
    <3> QED
      BY <3>1, <3>2, <3>3, <3>4, <3>5
  <2>5. LogitsTrue'
    BY <1>1, <1>11, <1>23, <2>4 DEF LogitsTrue
  <2> QED
    BY <1>17, <1>18, <1>19, <1>20, <1>21, <2>5 DEF IInv
<1> QED
  BY <1>22, <1>23

(* The KV cache and the logits are those of every row's own sequence in    *)
(* every state: the parts of IInv, for any number of rows and positions.   *)
THEOREM Invariance == Spec => []IInv
<1>1. IInv /\ [Next]_vars => IInv'
  <2> SUFFICES ASSUME IInv, [Next]_vars PROVE IInv'
    OBVIOUS
  <2>1. CASE UNCHANGED vars
    BY <2>1, StutterKeeps
  <2>2. CASE \E p \in SharedPrefixes : SetPrefix(p)
    BY <2>2, SetPrefixKeeps
  <2>3. CASE UnsetPrefix
    BY <2>3, UnsetPrefixKeeps
  <2>4. CASE \E s \in Shapes, logitsAll \in BOOLEAN : FirstStep(s, logitsAll)
    BY <2>4, FirstStepKeeps
  <2>5. CASE \E idx \in Indices : Search(idx)
    BY <2>5, SearchKeeps
  <2>6. CASE Finished
    BY <2>6, FinishedKeeps
  <2>7. CASE NextStep
    BY <2>7, NextStepKeeps
  <2> QED
    BY <2>1, <2>2, <2>3, <2>4, <2>5, <2>6, <2>7 DEF Next
<1> QED
  BY <1>1, InitEstablishes, PTL DEF Spec

(* Between two calls the cache of every row holds exactly its sequence, at *)
(* its positions, through prefixes, beams, reorder and the change of       *)
(* decoders of a HybridModel.                                              *)
THEOREM CacheIsTrue == Spec => []CacheTrue
<1>1. IInv => CacheTrue
  <2> SUFFICES ASSUME IInv PROVE CacheTrue
    OBVIOUS
  <2>1. ASSUME phase # "idle", NEW b \in Rows
        PROVE  dec[IF phase = "forward" /\ step = 1 THEN "first" ELSE Running].accSeqLen = Len(seqs[b]) - Pending
    <3>1. /\ Len(seqs[b]) = dec["first"].initSeqLen + step /\ step \in Nat /\ dec["first"].initSeqLen \in Nat
          /\ phase \in {"search", "forward"} /\ model.hybrid \in BOOLEAN /\ (phase = "forward" => step > 0)
      BY <2>1, ModelAssumption DEF IInv, InvType, InvGeneration, Decoders
    <3>2. IF model.hybrid /\ step - Pending > 0
          THEN dec["next"].accSeqLen = dec["first"].initSeqLen + step - Pending
          ELSE dec["first"].accSeqLen = dec["first"].initSeqLen + step - Pending
      BY <2>1 DEF IInv, InvLengths
    <3> QED
      BY <3>1, <3>2 DEF Running, Pending
  <2>2. ASSUME phase # "idle", NEW b \in Rows
        PROVE  \A i \in 0 .. Len(seqs[b])-1-Pending : cache[b][i] = History(seqs[b], i)
    BY <2>2 DEF IInv, InvCache
  <2> QED
    BY <2>1, <2>2 DEF IInv, InvPrefixCache, CacheTrue, Pending
<1> QED
  BY <1>1, Invariance, PTL

(* A row of the logits belongs to the row's own sequence and to all of it, *)
(* also after step 0, where the rows are spread in place over the beams.   *)
THEOREM LogitsAreTrue == Spec => []LogitsTrue
<1>1. IInv => LogitsTrue
  BY DEF IInv
<1> QED
  BY <1>1, Invariance, PTL

-----------------------------------------------------------------------------
(* prepareBuffers makes room for the activations and the logits. *)
LEMMA ExtentGrows ==
  ASSUME NEW a \in Nat, NEW b \in Nat, NEW l \in Nat, NEW m \in Nat, a <= b, l <= m
  PROVE  Extent(a, l) \in Nat /\ Extent(b, m) \in Nat /\ Extent(a, l) <= Extent(b, m)
<1> DEFINE ah == a * HiddenSize
           bh == b * HiddenSize
           lv == l * VocabSize
           mv == m * VocabSize
<1>1. HiddenSize \in Nat /\ VocabSize \in Nat
  BY SizeAssumption
<1>2. ah \in Nat /\ bh \in Nat /\ ah <= bh
  <2>1. HiddenSize * a \in Nat /\ HiddenSize * b \in Nat /\ HiddenSize * a <= HiddenSize * b
    BY <1>1, MulMono
  <2>2. HiddenSize * a = ah /\ HiddenSize * b = bh
    BY <1>1
  <2> HIDE DEF ah, bh
  <2> QED
    BY <2>1, <2>2
<1>3. lv \in Nat /\ mv \in Nat /\ lv <= mv
  <2>1. VocabSize * l \in Nat /\ VocabSize * m \in Nat /\ VocabSize * l <= VocabSize * m
    BY <1>1, MulMono
  <2>2. VocabSize * l = lv /\ VocabSize * m = mv
    BY <1>1
  <2> HIDE DEF lv, mv
  <2> QED
    BY <2>1, <2>2
<1>4. Extent(a, l) = ah + Biggest(ah, lv) /\ Extent(b, m) = bh + Biggest(bh, mv)
  BY DEF Extent
<1> HIDE DEF ah, bh, lv, mv
<1> QED
  BY <1>2, <1>3, <1>4 DEF Biggest

LEMMA ResizedFits ==
  ASSUME NEW a \in Nat, NEW l \in Nat, actBuffers \in Nat
  PROVE  Resized(a, l) \in Nat /\ actBuffers <= Resized(a, l) /\ Extent(a, l) <= Resized(a, l)
<1> DEFINE H == HiddenSize
           ah == a * H
           lv == l * VocabSize
           out == OutRows(a, l)
<1>1. H \in Nat \ {0} /\ VocabSize \in Nat
  BY SizeAssumption
<1>2. ah \in Nat /\ lv \in Nat
  BY <1>1
<1>3. /\ out = IF lv > ah THEN lv \div H + 1 ELSE a
      /\ Extent(a, l) = ah + Biggest(ah, lv)
      /\ Resized(a, l) = Biggest(actBuffers, (a + out) * H)
  BY DEF OutRows, Extent, Resized
<1> HIDE DEF H, lv, out
<1>4. out \in Nat /\ out * H \in Nat /\ Biggest(ah, lv) <= out * H
  <2>1. CASE lv > ah
    <3> DEFINE q == lv \div H
    <3>1. q \in Nat /\ lv % H \in 0 .. H-1 /\ lv = H * q + (lv % H)
      BY <1>1, <1>2, DivMod
    <3> HIDE DEF q, ah
    <3>2. out = q + 1
      BY <1>3, <2>1 DEF q
    <3>3. (q + 1) * H = H * q + H /\ H * q \in Nat
      BY <1>1, <3>1
    <3>4. lv <= out * H /\ out * H \in Nat
      BY <1>1, <3>1, <3>2, <3>3
    <3> QED
      BY <1>2, <2>1, <3>1, <3>2, <3>4 DEF Biggest
  <2>2. CASE ~(lv > ah)
    <3>1. out = a /\ out * H = ah
      BY <1>3, <2>2
    <3> HIDE DEF ah
    <3> QED
      BY <1>2, <2>2, <3>1 DEF Biggest
  <2> QED
    BY <2>1, <2>2
<1>5. (a + out) * H = ah + out * H
  BY <1>1, <1>4
<1> DEFINE oh == out * H
<1> HIDE DEF ah, oh
<1>6. oh \in Nat /\ Biggest(ah, lv) <= oh /\ Resized(a, l) = Biggest(actBuffers, ah + oh)
  BY <1>3, <1>4, <1>5 DEF oh
<1> QED
  BY <1>2, <1>3, <1>6 DEF Biggest

LEMMA BuffersKept ==
  ASSUME IInv, InvBuffers, [Next]_vars, \A s \in Shapes : s.beams <= s.len
  PROVE  InvBuffers'
<1> DEFINE B == shape.bs * shape.beams
<1>1. actBuffers \in Nat /\ used \in Nat /\ used <= actBuffers /\ phase \in {"idle", "search", "forward"}
  BY DEF InvBuffers, BufferFits, IInv, InvType
<1>2. phase # "idle" /\ ~all => Extent(B, B) <= actBuffers
  BY DEF InvBuffers
<1>3. CASE /\ actBuffers' = actBuffers /\ used' = used /\ shape' = shape
           /\ phase' # "idle" /\ ~all' => phase # "idle" /\ ~all
  BY <1>1, <1>2, <1>3 DEF InvBuffers, BufferFits, Extent
<1>4. CASE UNCHANGED vars \/ UnsetPrefix \/ Finished \/ \E idx \in Indices : Search(idx)
  <2>1. /\ actBuffers' = actBuffers /\ used' = used /\ shape' = shape /\ all' = all
        /\ phase' # "idle" => phase # "idle"
    BY <1>4 DEF vars, decoderVars, clientVars, UnsetPrefix, Finished, Search
  <2> QED
    BY <1>3, <2>1
<1>5. ASSUME NEW p \in SharedPrefixes, SetPrefix(p) PROVE InvBuffers'
  <2>1. /\ actBuffers' = Resized(Len(p), 1) /\ used' = Extent(Len(p), 0) /\ shape' = shape /\ all' = all
        /\ phase' = phase
    BY <1>5 DEF SetPrefix
  <2>2. Len(p) \in Nat /\ 0 \in Nat /\ 1 \in Nat /\ 0 <= 1 /\ Len(p) <= Len(p)
    BY PrefixAssumption
  <2>3. /\ Extent(Len(p), 0) \in Nat /\ Extent(Len(p), 1) \in Nat /\ Extent(Len(p), 0) <= Extent(Len(p), 1)
    BY <2>2, ExtentGrows
  <2>4. /\ Resized(Len(p), 1) \in Nat /\ actBuffers <= Resized(Len(p), 1)
        /\ Extent(Len(p), 1) <= Resized(Len(p), 1)
    BY <1>1, <2>2, ResizedFits
  <2>5. actBuffers' \in Nat /\ used' \in Nat /\ used' <= actBuffers'
    BY <2>1, <2>3, <2>4
  <2>6. ASSUME phase' # "idle", ~all' PROVE Extent(B, B) <= actBuffers'
    <3>1. shape \in Shapes /\ Extent(B, B) <= actBuffers
      BY <1>2, <2>1, <2>6 DEF IInv, InvGeneration
    <3>2. B \in Nat /\ B <= B
      BY <3>1, ShapeType
    <3> HIDE DEF B
    <3>3. Extent(B, B) \in Nat
      BY <3>2, ExtentGrows
    <3> QED
      BY <1>1, <2>1, <2>4, <3>1, <3>3
  <2>7. Extent(B, B)' = Extent(B, B)
    BY <2>1 DEF Extent
  <2> QED
    BY <2>5, <2>6, <2>7 DEF InvBuffers, BufferFits
<1>6. ASSUME NEW s \in Shapes, NEW logitsAll \in BOOLEAN, FirstStep(s, logitsAll) PROVE InvBuffers'
  <2> DEFINE first == dec["first"]
             P == IF first.prefixSharing THEN first.prefixSeqLen ELSE 0
             rows == s.bs * (Len(Prompt(first, 0, s.len)) - P)
             n == LogitsLen(s.bs, s, logitsAll)
             k == s.bs * s.beams
  <2>1. s.bs \in Nat \ {0} /\ s.beams \in Nat /\ s.len \in Nat /\ k \in Nat /\ s.beams <= s.len /\ s.bs * s.len \in Nat
    BY ShapeType
  <2>2. P \in Nat /\ Len(Prompt(first, 0, s.len)) = P + s.len
    BY <2>1, PromptOf
  <2>3. /\ actBuffers' = Resized(rows, n) /\ used' = Extent(rows, n) /\ shape' = s /\ all' = logitsAll
    <3>1. [u \in 0 .. s.bs-1 |-> Prompt(first, u, s.len)][0] = Prompt(first, 0, s.len)
      BY <2>1
    <3> QED
      BY <1>6, <3>1 DEF FirstStep
  <2>4. rows = s.bs * s.len
    BY <2>1, <2>2
  <2>5. n = IF logitsAll THEN s.bs * s.len ELSE k
    BY DEF LogitsLen
  <2>6. k <= s.bs * s.len
    BY <2>1, MulMono
  <2> HIDE DEF rows, n, k
  <2>7. rows \in Nat /\ n \in Nat /\ (~logitsAll => n = k) /\ k <= rows
    BY <2>1, <2>4, <2>5, <2>6
  <2>8. Resized(rows, n) \in Nat /\ Extent(rows, n) <= Resized(rows, n)
    BY <1>1, <2>7, ResizedFits
  <2>9. Extent(rows, n) \in Nat
    <3>1. rows <= rows /\ n <= n
      BY <2>7
    <3> QED
      BY <2>7, <3>1, ExtentGrows
  <2>10. ASSUME ~logitsAll PROVE Extent(k, k) <= actBuffers'
    <3>1. Extent(k, k) \in Nat /\ Extent(k, k) <= Extent(rows, n)
      <4>1. k \in Nat /\ k <= n /\ k <= rows /\ rows \in Nat /\ n \in Nat
        BY <2>1, <2>7, <2>10
      <4> QED
        BY <4>1, ExtentGrows
    <3> QED
      BY <2>3, <2>8, <2>9, <3>1
  <2>11. Extent(B, B)' = Extent(k, k)
    BY <2>3 DEF Extent, k
  <2> QED
    BY <2>3, <2>8, <2>9, <2>10, <2>11 DEF InvBuffers, BufferFits
<1>7. CASE NextStep
  <2>1. /\ actBuffers' = actBuffers /\ used' = Extent(B, B) /\ shape' = shape /\ all' = all
        /\ phase = "forward"
    BY <1>7 DEF NextStep
  <2>2. ~all /\ shape \in Shapes
    BY <2>1 DEF IInv, InvGeneration
  <2>3. B \in Nat /\ B <= B
    BY <2>2, ShapeType
  <2>4. Extent(B, B)' = Extent(B, B)
    BY <2>1 DEF Extent
  <2>5. Extent(B, B) \in Nat
    <3> HIDE DEF B
    <3> QED
      BY <2>3, ExtentGrows
  <2> QED
    BY <1>1, <1>2, <2>1, <2>2, <2>4, <2>5 DEF InvBuffers, BufferFits
<1> QED
  BY <1>4, <1>5, <1>6, <1>7 DEF Next

(* forward writes within actBuffers, which only step 0 enlarges: the later *)
(* steps find room.  The hypothesis is what the buffer of step 0 needs: it *)
(* has a row of activations for every token of a sample and none for the   *)
(* beams.                                                                  *)
THEOREM BuffersFit ==
  ASSUME \A s \in Shapes : s.beams <= s.len
  PROVE  Spec => []BufferFits
<1>1. IInv /\ InvBuffers /\ [Next]_vars => InvBuffers'
  BY BuffersKept
<1>2. InvBuffers => BufferFits
  BY DEF InvBuffers
<1> QED
  BY <1>1, <1>2, Invariance, InitEstablishes, PTL DEF Spec
=============================================================================
