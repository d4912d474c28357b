-------------------------- MODULE IndexBuildProofs --------------------------
(***************************************************************************)
(* The writer and the reader of the index agree, for every size and input: *)
(* what load accepts is complete, its offset table is usable, and every    *)
(* vector of the input is found in it.                                     *)
(***************************************************************************)
EXTENDS IndexBuild, SequenceLemmas

----------------------------------------------------------------------------
(* The layout                                                              *)

\* Every section starts for the reader where the writer's previous section ends,
\* and the reader needs exactly the bytes the writer writes: a file cut short
\* anywhere is too small.
THEOREM ReaderAgreesWithWriter ==
    ASSUME NEW nc \in Nat, NEW nv \in Nat
    PROVE  /\ CentOff = HeaderBytes
           /\ OffsetOff(nc) = CentOff + CentroidBytes(nc)
           /\ VecOff(nc) = OffsetOff(nc) + OffsetBytes(nc)
           /\ LabelOff(nc, nv) = VecOff(nc) + VectorBytes(nv)
           /\ Needed(nc, nv) = HeaderBytes + CentroidBytes(nc) + OffsetBytes(nc)
                                  + VectorBytes(nv) + LabelBytes(nv)
BY DEF CentOff, OffsetOff, VecOff, LabelOff, Needed, HeaderBytes, DIMS,
       CentroidBytes, OffsetBytes, VectorBytes, LabelBytes

\* The f32 and u64 slices that search makes of the mapping by from_raw_parts are
\* aligned, for every number of centroids (the mapping itself is page-aligned).
THEOREM SlicesAreAligned ==
    ASSUME NEW nc \in Nat
    PROVE  CentOff % 4 = 0 /\ OffsetOff(nc) % 8 = 0
<1>1. OffsetOff(nc) = 8 * (4 + 7 * nc)
  BY DEF OffsetOff, CentOff, DIMS
<1>2. 4 + 7 * nc \in Nat
  OBVIOUS
<1>3. \A m \in Nat : (8 * m) % 8 = 0
  OBVIOUS
<1> QED BY <1>1, <1>2, <1>3 DEF CentOff

----------------------------------------------------------------------------
(* The offset table                                                        *)

\* The offset table: 0 first, and each cluster's length after the other.
LEMMA StartsAre ==
    ASSUME NEW n \in Nat, NEW cl, \A c \in 0 .. n - 1 : Len(cl[c]) \in Nat
    PROVE  /\ Starts(n, cl) \in [0 .. n -> Nat]
           /\ Starts(n, cl)[0] = 0
           /\ \A c \in 1 .. n : Starts(n, cl)[c] = Starts(n, cl)[c - 1] + Len(cl[c - 1])
<1> DEFINE x == [i \in 1 .. n |-> Len(cl[i - 1])]
<1>1. x \in [1 .. n -> Nat] /\ \A c \in 1 .. n : x[c] = Len(cl[c - 1])
  OBVIOUS
<1>2. Starts(n, cl) = RunningSum(n, x)
  BY DEF Starts
<1>3. 0 \in Nat /\ \A a, b \in Nat : a + b \in Nat
  OBVIOUS
<1> HIDE DEF x
<1>4. PICK f : f = RunningSum(n, x)
  OBVIOUS
<1>5. f \in [0 .. n -> Nat] /\ Running(f, x, n)
  BY <1>1, <1>3, <1>4, SumIsRunning
<1>6. f[0] = 0 /\ \A k \in 1 .. n : f[k] = f[k - 1] + x[k]
  BY <1>5 DEF Running
<1>7. \A c \in 1 .. n : f[c] = f[c - 1] + Len(cl[c - 1])
  BY <1>1, <1>6
<1> QED
  BY <1>2, <1>4, <1>5, <1>6, <1>7, Zenon

\* How many vectors the clusters hold: the last offset.
Held(n, cl) == StartOf(n, cl, n)

\* Sums that never change.
LEMMA ConstantSums ==
    ASSUME NEW n \in Nat, NEW f, \A k \in 1 .. n : f[k] = f[k - 1]
    PROVE  f[n] = f[0]
<1> DEFINE T == {k \in Nat : k <= n => f[k] = f[0]}
<1>1. T \in SUBSET Nat /\ 0 \in T
  OBVIOUS
<1>2. ASSUME NEW k \in T PROVE k + 1 \in T
  <2>1. SUFFICES ASSUME k + 1 <= n PROVE f[k + 1] = f[0]
    OBVIOUS
  <2>2. k \in Nat /\ k <= n /\ k + 1 \in 1 .. n /\ (k + 1) - 1 = k
    BY <2>1
  <2>3. f[k] = f[0] /\ f[k + 1] = f[(k + 1) - 1]
    BY <2>2
  <2> QED
    BY <2>2, <2>3
<1>3. T = Nat
  <2> HIDE DEF T
  <2> QED
    BY <1>1, <1>2, InductiveSet
<1> QED
  BY <1>3

\* Before the first vector is assigned.
LEMMA HeldNone ==
    ASSUME NEW n \in Nat, NEW cl, \A c \in 0 .. n - 1 : cl[c] = <<>>
    PROVE  Held(n, cl) = 0
<1>1. PICK f : f = Starts(n, cl)
  OBVIOUS
<1>2. \A c \in 0 .. n - 1 : Len(cl[c]) = 0 /\ Len(cl[c]) \in Nat
  OBVIOUS
<1>3. /\ f \in [0 .. n -> Nat] /\ f[0] = 0
      /\ \A c \in 1 .. n : f[c] = f[c - 1] + Len(cl[c - 1])
  BY <1>1, <1>2, StartsAre
<1>4. \A k \in 1 .. n : f[k] = f[k - 1]
  <2> TAKE k \in 1 .. n
  <2>1. k - 1 \in 0 .. n - 1 /\ k - 1 \in 0 .. n
    OBVIOUS
  <2>2. f[k - 1] \in Nat /\ Len(cl[k - 1]) = 0
    BY <1>2, <1>3, <2>1
  <2> QED
    BY <1>3, <2>2
<1>5. f[n] = f[0]
  BY <1>4, ConstantSums
<1> QED
  BY <1>1, <1>3, <1>5 DEF Held, StartOf

\* One vector more in one cluster is one more in all.
LEMMA HeldOneMore ==
    ASSUME NEW n \in Nat, NEW cl \in [0 .. n - 1 -> Seq(Nat)], NEW c \in 0 .. n - 1, NEW p \in Nat
    PROVE  Held(n, [cl EXCEPT ![c] = Append(cl[c], p)]) = Held(n, cl) + 1
<1>1. PICK new : new = [cl EXCEPT ![c] = Append(cl[c], p)]
  OBVIOUS
<1>2. /\ \A d \in 0 .. n - 1 : Len(cl[d]) \in Nat /\ Len(new[d]) \in Nat
      /\ \A d \in 0 .. n - 1 : Len(new[d]) = Len(cl[d]) + IF d = c THEN 1 ELSE 0
  <2>1. \A d \in 0 .. n - 1 : cl[d] \in Seq(Nat) /\ Len(cl[d]) \in Nat
    OBVIOUS
  <2>2. Len(Append(cl[c], p)) = Len(cl[c]) + 1
    BY <2>1
  <2>3. \A d \in 0 .. n - 1 : new[d] = IF d = c THEN Append(cl[c], p) ELSE cl[d]
    BY <1>1
  <2>4. ASSUME NEW d \in 0 .. n - 1
        PROVE  Len(new[d]) \in Nat /\ Len(new[d]) = Len(cl[d]) + IF d = c THEN 1 ELSE 0
    <3>1. PICK l \in Nat : l = Len(cl[d])
      BY <2>1
    <3>2. CASE d = c
      <4>1. new[d] = Append(cl[c], p)
        BY <2>3, <3>2
      <4>2. Len(new[d]) = l + 1
        BY <2>2, <3>1, <3>2, <4>1
      <4> QED
        BY <3>1, <3>2, <4>2
    <3>3. CASE d # c
      <4>1. new[d] = cl[d]
        BY <2>3, <3>3
      <4>2. Len(new[d]) = l
        BY <3>1, <4>1
      <4> QED
        BY <3>1, <3>3, <4>2
    <3> QED
      BY <3>2, <3>3
  <2> QED
    BY <2>1, <2>4
<1>3. PICK f \in [0 .. n -> Nat], g \in [0 .. n -> Nat] : f = Starts(n, cl) /\ g = Starts(n, new)
  BY <1>2, StartsAre
<1>4. /\ f[0] = 0 /\ \A d \in 1 .. n : f[d] = f[d - 1] + Len(cl[d - 1])
      /\ g[0] = 0 /\ \A d \in 1 .. n : g[d] = g[d - 1] + Len(new[d - 1])
  BY <1>2, <1>3, StartsAre
<1> DEFINE h == [k \in 0 .. n |-> g[k] - f[k] - IF k > c THEN 1 ELSE 0]
<1>5. \A k \in 1 .. n : h[k] = h[k - 1]
  <2> TAKE k \in 1 .. n
  <2>1. k - 1 \in 0 .. n - 1 /\ k - 1 \in 0 .. n /\ k \in 0 .. n
    OBVIOUS
  <2>2. f[k] \in Nat /\ g[k] \in Nat /\ f[k - 1] \in Nat /\ g[k - 1] \in Nat
    BY <2>1
  <2>3. Len(new[k - 1]) = Len(cl[k - 1]) + (IF k - 1 = c THEN 1 ELSE 0) /\ Len(cl[k - 1]) \in Nat
    BY <1>2, <2>1
  <2>4. f[k] = f[k - 1] + Len(cl[k - 1]) /\ g[k] = g[k - 1] + Len(new[k - 1])
    BY <1>4
  <2>5. /\ h[k] = g[k] - f[k] - (IF k > c THEN 1 ELSE 0)
        /\ h[k - 1] = g[k - 1] - f[k - 1] - IF k - 1 > c THEN 1 ELSE 0
    BY <2>1
  <2> HIDE DEF h
  <2>6. CASE k - 1 = c
    <3>1. k > c /\ ~ (k - 1 > c)
      BY <2>6
    <3>2. PICK l \in Nat : l = Len(cl[k - 1])
      BY <2>3
    <3>3. PICK f1 \in Nat, g1 \in Nat : f1 = f[k - 1] /\ g1 = g[k - 1]
      BY <2>2
    <3>4. f[k] = f1 + l /\ g[k] = g1 + (l + 1)
      BY <2>3, <2>4, <2>6, <3>2, <3>3
    <3>5. h[k] = g[k] - f[k] - 1 /\ h[k - 1] = g1 - f1 - 0
      BY <2>5, <3>1, <3>3
    <3> QED
      BY <3>4, <3>5
  <2>7. CASE k - 1 # c
    <3>1. k > c <=> k - 1 > c
      BY <2>7
    <3> QED
      BY <2>2, <2>3, <2>4, <2>5, <2>7, <3>1
  <2> QED
    BY <2>6, <2>7
<1>6. h[n] = g[n] - f[n] - 1 /\ h[0] = 0
  BY <1>4
<1>7. h[n] = h[0]
  <2> HIDE DEF h
  <2> QED
    BY <1>5, ConstantSums
<1>8. f[n] \in Nat /\ g[n] \in Nat
  OBVIOUS
<1> HIDE DEF h
<1>9. g[n] = f[n] + 1
  BY <1>6, <1>7, <1>8
<1> QED
  BY <1>1, <1>3, <1>9 DEF Held, StartOf

----------------------------------------------------------------------------
(* Words in a file                                                         *)

\* f has the w bytes of a number at a byte offset.
HasWord(f, off, w, v) == \A b \in 1 .. w : f[off + b] = [value |-> v, byte |-> b]

BytesOf(V) == [value : V, byte : Nat]

\* s is a sequence of n bytes.
OfLen(s, T, n) == n \in Nat /\ s \in Seq(T) /\ Len(s) = n

\* The bytes of one number.
LEMMA WordIs ==
    ASSUME NEW V, NEW v \in V, NEW w \in Nat
    PROVE  OfLen(Word(w, v), BytesOf(V), w) /\ HasWord(Word(w, v), 0, w, v)
<1>1. Word(w, v) = [b \in 1 .. w |-> [value |-> v, byte |-> b]]
  BY DEF Word
<1>2. \A b \in 1 .. w : [value |-> v, byte |-> b] \in BytesOf(V)
  BY DEF BytesOf
<1>3. Word(w, v) \in Seq(BytesOf(V)) /\ Len(Word(w, v)) = w
  BY <1>1, <1>2
<1> QED
  BY <1>1, <1>3 DEF HasWord, OfLen

\* What is read is what was written there.
LEMMA ReadWord ==
    ASSUME NEW f, NEW off \in Nat, NEW w \in Nat \ {0}, NEW v, HasWord(f, off, w, v)
    PROVE  Read(f, off, w) = v
<1>1. f[off + 1] = [value |-> v, byte |-> 1]
  BY DEF HasWord
<1>2. f[off + 1].value = v
  BY <1>1
<1>3. \A b \in 1 .. w : f[off + b] = [value |-> f[off + 1].value, byte |-> b]
  BY <1>2 DEF HasWord
<1> QED
  BY <1>2, <1>3 DEF Read

\* The lengths of two sequences written one after the other add up.
LEMMA ConcatLen ==
    ASSUME NEW T, NEW s, NEW t, NEW m, NEW n, OfLen(s, T, m), OfLen(t, T, n)
    PROVE  OfLen(s \o t, T, m + n)
BY Concat DEF OfLen

\* Words stay where they are when something is written behind them.
LEMMA WordBefore ==
    ASSUME NEW T, NEW s, NEW t, NEW m, NEW n, OfLen(s, T, m), OfLen(t, T, n),
           NEW off \in Nat, NEW w \in Nat, NEW v, off + w <= m, HasWord(s, off, w, v)
    PROVE  HasWord(s \o t, off, w, v)
<1>1. \A j \in 1 .. m : (s \o t)[j] = s[j]
  BY Concat DEF OfLen
<1>2. \A b \in 1 .. w : off + b \in 1 .. m
  BY DEF OfLen
<1> QED
  BY <1>1, <1>2 DEF HasWord

\* A section moves by what is in front of it.
LEMMA WordBehind ==
    ASSUME NEW T, NEW s, NEW t, NEW m, NEW n, OfLen(s, T, m), OfLen(t, T, n),
           NEW off \in Nat, NEW w \in Nat, NEW v, off + w <= n, HasWord(t, off, w, v)
    PROVE  HasWord(s \o t, m + off, w, v)
<1>1. m \in Nat /\ n \in Nat
  BY DEF OfLen
<1>2. \A j \in 1 .. n : (s \o t)[m + j] = t[j]
  BY Concat DEF OfLen
<1>3. \A b \in 1 .. w : off + b \in 1 .. n /\ m + (off + b) = (m + off) + b
  BY <1>1
<1> QED
  BY <1>2, <1>3 DEF HasWord

\* A prefix has the words that lie in it.
LEMMA WordInPrefix ==
    ASSUME NEW T, NEW s \in Seq(T), NEW len \in 0 .. Len(s),
           NEW off \in Nat, NEW w \in Nat, NEW v, off + w <= len, HasWord(s, off, w, v)
    PROVE  HasWord(SubSeq(s, 1, len), off, w, v)
<1>1. \A j \in 1 .. len : SubSeq(s, 1, len)[j] = s[j]
  OBVIOUS
<1>2. \A b \in 1 .. w : off + b \in 1 .. len
  OBVIOUS
<1> QED
  BY <1>1, <1>2 DEF HasWord

----------------------------------------------------------------------------
(* The sections of an index                                                *)

\* An image write_index is called with.
ImageOK(img) ==
    /\ img.num_centroids \in Nat
    /\ img.clusters \in [0 .. img.num_centroids - 1 -> Seq(Nat)]
    /\ img.num_vecs = Held(img.num_centroids, img.clusters)

\* The numbers written for an image.
Values(img) ==
    Int \cup {"IVFX"} \cup {img.centroids[c] : c \in 0 .. img.num_centroids - 1}
        \cup {Quantize(img.refs[v].x) : v \in Nat}

Vectors(img) == Len(VectorOrder(img))
OffsetIn(img, c) == StartOf(img.num_centroids, img.clusters, c)

\* The clusters are in the order one after the other, each from its offset on.
LEMMA OrderIs ==
    ASSUME NEW img, ImageOK(img)
    PROVE  /\ VectorOrder(img) \in Seq(Nat)
           /\ Vectors(img) \in Nat
           /\ Vectors(img) = OffsetIn(img, img.num_centroids)
           /\ OffsetIn(img, 0) = 0
           /\ \A c \in 0 .. img.num_centroids : OffsetIn(img, c) \in Nat
           /\ \A c \in 0 .. img.num_centroids - 1 :
                 /\ OffsetIn(img, c + 1) = OffsetIn(img, c) + Len(img.clusters[c])
                 /\ OffsetIn(img, c + 1) <= Vectors(img)
                 /\ \A j \in 1 .. Len(img.clusters[c]) :
                       VectorOrder(img)[OffsetIn(img, c) + j] = img.clusters[c][j]
<1> DEFINE n == img.num_centroids
           cl == img.clusters
           seqs == [k \in 1 .. n |-> cl[k - 1]]
           at == Starts(n, cl)
<1>1. n \in Nat /\ cl \in [0 .. n - 1 -> Seq(Nat)]
  BY DEF ImageOK
<1>2. \A c \in 0 .. img.num_centroids - 1 : Len(cl[c]) \in Nat
  BY <1>1
<1>3. /\ at \in [0 .. n -> Nat] /\ at[0] = 0
      /\ \A c \in 1 .. n : at[c] = at[c - 1] + Len(cl[c - 1])
  BY <1>1, <1>2, StartsAre
<1>4. seqs \in [1 .. n -> Seq(Nat)] /\ \A k \in 1 .. n : seqs[k] = cl[k - 1]
  BY <1>1
<1>5. EndsAt(at, seqs, n)
  BY <1>3 DEF EndsAt
<1>6. FlattenSeq(seqs) \in Seq(Nat) /\ HoldsFirst(FlattenSeq(seqs), seqs, at, n)
  <2> HIDE DEF seqs, at
  <2> QED
    BY <1>1, <1>4, <1>5, Flattened
<1>7. VectorOrder(img) = FlattenSeq(seqs)
  BY DEF VectorOrder, InClusterOrder
<1>8. \A c : OffsetIn(img, c) = at[c]
  BY DEF StartOf, OffsetIn
<1> HIDE DEF seqs, at
<1>9. VectorOrder(img) \in Seq(Nat) /\ Vectors(img) = at[n]
  BY <1>6, <1>7 DEF HoldsFirst, Vectors
<1>10. ASSUME NEW c \in 0 .. n - 1
       PROVE  /\ at[c + 1] = at[c] + Len(cl[c])
              /\ at[c + 1] <= at[n]
              /\ \A j \in 1 .. Len(cl[c]) : VectorOrder(img)[at[c] + j] = cl[c][j]
  <2>1. PICK k \in 1 .. n : k = c + 1 /\ k - 1 = c
    BY <1>1
  <2>2. at[k] = at[k - 1] + Len(cl[k - 1]) /\ seqs[k] = cl[k - 1]
    BY <1>3, <1>4
  <2>3. /\ at[k] <= at[n]
        /\ \A j \in 1 .. Len(seqs[k]) : FlattenSeq(seqs)[at[k - 1] + j] = seqs[k][j]
    BY <1>6 DEF HoldsFirst
  <2> QED
    BY <1>7, <2>1, <2>2, <2>3
<1>11. \A c \in 0 .. n : OffsetIn(img, c) \in Nat
  BY <1>3, <1>8
<1>12. \A c \in 0 .. n - 1 :
          /\ OffsetIn(img, c + 1) = OffsetIn(img, c) + Len(cl[c])
          /\ OffsetIn(img, c + 1) <= Vectors(img)
          /\ \A j \in 1 .. Len(cl[c]) : VectorOrder(img)[OffsetIn(img, c) + j] = cl[c][j]
  BY <1>8, <1>9, <1>10
<1>13. OffsetIn(img, 0) = 0 /\ Vectors(img) = OffsetIn(img, n)
  BY <1>3, <1>8, <1>9
<1>14. Vectors(img) \in Nat
  <2>1. n \in 0 .. n
    BY <1>1
  <2> QED
    BY <1>11, <1>13, <2>1
<1>15. VectorOrder(img) \in Seq(Nat)
  BY <1>9
<1> QED
  BY <1>11, <1>12, <1>13, <1>14, <1>15, Zenon

\* Every position lies in a cluster.
LEMMA EveryPlaceInACluster ==
    ASSUME NEW img, ImageOK(img), NEW k \in 1 .. Vectors(img)
    PROVE  \E c \in 0 .. img.num_centroids - 1 : \E j \in 1 .. Len(img.clusters[c]) :
              k = OffsetIn(img, c) + j
<1>1. PICK n \in Nat : n = img.num_centroids
  BY DEF ImageOK
<1>2. /\ \A c \in 0 .. n : OffsetIn(img, c) \in Nat
      /\ OffsetIn(img, 0) = 0 /\ OffsetIn(img, n) = Vectors(img) /\ Vectors(img) \in Nat
  BY <1>1, OrderIs
<1> DEFINE T == {c \in 0 .. n : k <= OffsetIn(img, c)}
<1>3. T \in SUBSET Nat /\ n \in T
  BY <1>2
<1>4. PICK d \in T : \A e \in T : d <= e
  <2> HIDE DEF T
  <2> QED
    BY <1>3, LeastNat
<1>5. d \in 1 .. n /\ d - 1 \in 0 .. n - 1 /\ d - 1 \notin T /\ (d - 1) + 1 = d
  BY <1>2, <1>4
<1>6. PICK c \in 0 .. n - 1 : c = d - 1 /\ c + 1 = d
  BY <1>5
<1>7. OffsetIn(img, c) < k /\ k <= OffsetIn(img, c + 1) /\ OffsetIn(img, c) \in Nat
  BY <1>2, <1>4, <1>5, <1>6
<1>8. OffsetIn(img, c + 1) = OffsetIn(img, c) + Len(img.clusters[c]) /\ Len(img.clusters[c]) \in Nat
  <2>1. img.clusters[c] \in Seq(Nat)
    BY <1>1 DEF ImageOK
  <2> QED
    BY <1>1, <2>1, OrderIs
<1>9. PICK j \in 1 .. Len(img.clusters[c]) : k = OffsetIn(img, c) + j
  <2>1. PICK a \in Nat : a = OffsetIn(img, c)
    BY <1>7
  <2>2. PICK l \in Nat : l = Len(img.clusters[c])
    BY <1>8
  <2>3. a < k /\ k <= a + l /\ k \in Nat
    BY <1>2, <1>7, <1>8, <2>1, <2>2
  <2>4. k - a \in 1 .. l /\ k = a + (k - a)
    BY <2>3
  <2> QED
    BY <2>1, <2>2, <2>4
<1> QED
  BY <1>1, <1>9

\* Seven words of the header's widths, one after the other.
LEMMA SevenWords ==
    ASSUME NEW T, NEW w1, NEW w2, NEW w3, NEW w4, NEW w5, NEW w6, NEW w7, NEW x, NEW y,
           OfLen(w1, T, 4), OfLen(w2, T, 4), OfLen(w3, T, 8), OfLen(w4, T, 4),
           OfLen(w5, T, 4), OfLen(w6, T, 4), OfLen(w7, T, 4),
           HasWord(w3, 0, 8, x), HasWord(w4, 0, 4, y)
    PROVE  LET h == (((((w1 \o w2) \o w3) \o w4) \o w5) \o w6) \o w7
           IN  OfLen(h, T, 32) /\ HasWord(h, 8, 8, x) /\ HasWord(h, 16, 4, y)
<1>1. PICK h2 : h2 = w1 \o w2
  OBVIOUS
<1>2. OfLen(h2, T, 8)
  <2>1. OfLen(w1 \o w2, T, 4 + 4)
    BY ConcatLen
  <2> QED
    BY <1>1, <2>1
<1>3. PICK h3 : h3 = h2 \o w3
  OBVIOUS
<1>4. OfLen(h3, T, 16) /\ HasWord(h3, 8, 8, x)
  <2>1. OfLen(h2 \o w3, T, 8 + 8)
    BY <1>2, ConcatLen
  <2>2. HasWord(h2 \o w3, 8 + 0, 8, x)
    BY <1>2, WordBehind
  <2> QED
    BY <1>3, <2>1, <2>2
<1>5. PICK h4 : h4 = h3 \o w4
  OBVIOUS
<1>6. OfLen(h4, T, 20) /\ HasWord(h4, 8, 8, x) /\ HasWord(h4, 16, 4, y)
  <2>1. OfLen(h3 \o w4, T, 16 + 4)
    BY <1>4, ConcatLen
  <2>2. HasWord(h3 \o w4, 16 + 0, 4, y)
    BY <1>4, WordBehind
  <2>3. HasWord(h3 \o w4, 8, 8, x)
    BY <1>4, WordBefore
  <2> QED
    BY <1>5, <2>1, <2>2, <2>3
\* The last three words change nothing in front of them.
<1>7. ASSUME NEW h, NEW n \in Nat, NEW u, n >= 20, OfLen(u, T, 4),
             OfLen(h, T, n), HasWord(h, 8, 8, x), HasWord(h, 16, 4, y)
      PROVE  OfLen(h \o u, T, n + 4) /\ HasWord(h \o u, 8, 8, x) /\ HasWord(h \o u, 16, 4, y)
  <2>1. OfLen(h \o u, T, n + 4)
    BY <1>7, ConcatLen
  <2>2. HasWord(h \o u, 8, 8, x)
    BY <1>7, WordBefore
  <2>3. HasWord(h \o u, 16, 4, y)
    BY <1>7, WordBefore
  <2> QED
    BY <2>1, <2>2, <2>3
<1>8. PICK h5 : h5 = h4 \o w5
  OBVIOUS
<1>9. OfLen(h5, T, 24) /\ HasWord(h5, 8, 8, x) /\ HasWord(h5, 16, 4, y)
  <2>1. OfLen(h4 \o w5, T, 20 + 4) /\ HasWord(h4 \o w5, 8, 8, x) /\ HasWord(h4 \o w5, 16, 4, y)
    BY <1>6, <1>7
  <2> QED
    BY <1>8, <2>1
<1>10. PICK h6 : h6 = h5 \o w6
  OBVIOUS
<1>11. OfLen(h6, T, 28) /\ HasWord(h6, 8, 8, x) /\ HasWord(h6, 16, 4, y)
  <2>1. OfLen(h5 \o w6, T, 24 + 4) /\ HasWord(h5 \o w6, 8, 8, x) /\ HasWord(h5 \o w6, 16, 4, y)
    BY <1>7, <1>9
  <2> QED
    BY <1>10, <2>1
<1>12. PICK h7 : h7 = h6 \o w7
  OBVIOUS
<1>13. OfLen(h7, T, 32) /\ HasWord(h7, 8, 8, x) /\ HasWord(h7, 16, 4, y)
  <2>1. OfLen(h6 \o w7, T, 28 + 4) /\ HasWord(h6 \o w7, 8, 8, x) /\ HasWord(h6 \o w7, 16, 4, y)
    BY <1>7, <1>11
  <2> QED
    BY <1>12, <2>1
<1> QED
  BY <1>1, <1>3, <1>5, <1>8, <1>10, <1>12, <1>13

\* The header: 32 bytes with the magic, the version and the sizes in their places.
LEMMA HeaderIs ==
    ASSUME NEW img, ImageOK(img)
    PROVE  /\ OfLen(Header(img), BytesOf(Values(img)), HeaderBytes)
           /\ HasWord(Header(img), 8, 8, Vectors(img))
           /\ HasWord(Header(img), 16, 4, img.num_centroids)
<1> DEFINE T == BytesOf(Values(img))
           w1 == Word(4, "IVFX")
           w2 == Word(4, 1)
           w3 == Word(8, Vectors(img))
           w4 == Word(4, img.num_centroids)
           w5 == Word(4, DIMS)
           w6 == Word(4, Probes)
           w7 == Word(4, 0)
<1>1. /\ "IVFX" \in Values(img) /\ 1 \in Values(img) /\ Vectors(img) \in Values(img)
      /\ img.num_centroids \in Values(img) /\ DIMS \in Values(img) /\ Probes \in Values(img)
      /\ 0 \in Values(img)
  BY OrderIs, BuildAssumption DEF Values, ImageOK, DIMS
<1>2. OfLen(w1, T, 4)
  BY <1>1, WordIs
<1>3. OfLen(w2, T, 4)
  BY <1>1, WordIs
<1>4. OfLen(w3, T, 8) /\ HasWord(w3, 0, 8, Vectors(img))
  BY <1>1, WordIs
<1>5. OfLen(w4, T, 4) /\ HasWord(w4, 0, 4, img.num_centroids)
  BY <1>1, WordIs
<1>6. OfLen(w5, T, 4)
  BY <1>1, WordIs
<1>7. OfLen(w6, T, 4)
  BY <1>1, WordIs
<1>8. OfLen(w7, T, 4)
  BY <1>1, WordIs
<1>9. Header(img) = (((((w1 \o w2) \o w3) \o w4) \o w5) \o w6) \o w7
  <2>1. img.num_vecs = Vectors(img)
    BY OrderIs DEF ImageOK, Held, OffsetIn
  <2> QED
    BY <2>1 DEF Header
<1> HIDE DEF T, w1, w2, w3, w4, w5, w6, w7
<1>10. LET h == (((((w1 \o w2) \o w3) \o w4) \o w5) \o w6) \o w7
       IN  OfLen(h, T, 32) /\ HasWord(h, 8, 8, Vectors(img)) /\ HasWord(h, 16, 4, img.num_centroids)
  BY <1>2, <1>3, <1>4, <1>5, <1>6, <1>7, <1>8, SevenWords
<1> QED
  BY <1>9, <1>10 DEF T, HeaderBytes

\* A section of n items of w bytes.
LEMMA SectionIs ==
    ASSUME NEW T, NEW n \in Nat, NEW w \in Nat, NEW seqs,
           seqs = [k \in 1 .. n |-> seqs[k]], \A k \in 1 .. n : OfLen(seqs[k], T, w)
    PROVE  /\ OfLen(FlattenSeq(seqs), T, n * w)
           /\ \A k \in 1 .. n : \A v : HasWord(seqs[k], 0, w, v) =>
                 HasWord(FlattenSeq(seqs), (k - 1) * w, w, v)
           /\ \A k \in 1 .. n : \A off, u \in Nat : \A v :
                 off + u <= w /\ HasWord(seqs[k], off, u, v) =>
                    HasWord(FlattenSeq(seqs), (k - 1) * w + off, u, v)
<1> DEFINE at == [k \in 0 .. n |-> k * w]
<1>1. seqs \in [1 .. n -> Seq(T)] /\ \A k \in 1 .. n : Len(seqs[k]) = w
  BY DEF OfLen
<1>2. at \in [0 .. n -> Nat] /\ at[0] = 0 /\ at[n] = n * w /\ n * w \in Nat
  OBVIOUS
<1>3. \A k \in 1 .. n : at[k - 1] = (k - 1) * w /\ at[k] = k * w
  OBVIOUS
<1>4. \A k \in 1 .. n : k * w = (k - 1) * w + w
  OBVIOUS
<1> HIDE DEF at
<1>5. EndsAt(at, seqs, n)
  BY <1>1, <1>2, <1>3, <1>4 DEF EndsAt
<1>6. FlattenSeq(seqs) \in Seq(T) /\ HoldsFirst(FlattenSeq(seqs), seqs, at, n)
  BY <1>1, <1>5, Flattened
<1>7. OfLen(FlattenSeq(seqs), T, n * w)
  BY <1>2, <1>6 DEF HoldsFirst, OfLen
<1>8. \A k \in 1 .. n : \A b \in 1 .. w : FlattenSeq(seqs)[(k - 1) * w + b] = seqs[k][b]
  BY <1>1, <1>3, <1>6 DEF HoldsFirst
<1>9. ASSUME NEW k \in 1 .. n, NEW v, HasWord(seqs[k], 0, w, v)
      PROVE  HasWord(FlattenSeq(seqs), (k - 1) * w, w, v)
  <2>1. ASSUME NEW b \in 1 .. w
        PROVE  FlattenSeq(seqs)[(k - 1) * w + b] = [value |-> v, byte |-> b]
    <3>1. 0 + b = b
      OBVIOUS
    <3>2. seqs[k][b] = [value |-> v, byte |-> b]
      BY <1>9, <3>1 DEF HasWord
    <3>3. FlattenSeq(seqs)[(k - 1) * w + b] = seqs[k][b]
      BY <1>8, Zenon
    <3> QED
      BY <3>2, <3>3, Zenon
  <2> QED
    BY <2>1, Zenon DEF HasWord
<1>10. ASSUME NEW k \in 1 .. n, NEW off \in Nat, NEW u \in Nat, NEW v,
              off + u <= w, HasWord(seqs[k], off, u, v)
       PROVE  HasWord(FlattenSeq(seqs), (k - 1) * w + off, u, v)
  <2>1. PICK p \in Nat : p = (k - 1) * w
    BY <1>2, <1>4
  <2>2. ASSUME NEW b \in 1 .. u
        PROVE  FlattenSeq(seqs)[(p + off) + b] = [value |-> v, byte |-> b]
    <3>1. off + b \in 1 .. w /\ (p + off) + b = p + (off + b)
      BY <1>10
    <3>2. seqs[k][off + b] = [value |-> v, byte |-> b]
      BY <1>10 DEF HasWord
    <3>3. FlattenSeq(seqs)[p + (off + b)] = seqs[k][off + b]
      BY <1>8, <2>1, <3>1, Zenon
    <3> QED
      BY <3>1, <3>2, <3>3
  <2> QED
    BY <2>1, <2>2 DEF HasWord
<1> QED
  BY <1>7, <1>9, <1>10

\* Each centroid takes 14 words, the first of them at 56 c.
LEMMA CentroidsAre ==
    ASSUME NEW img, ImageOK(img)
    PROVE  /\ OfLen(CentroidSection(img), BytesOf(Values(img)), CentroidBytes(img.num_centroids))
           /\ \A c \in 0 .. img.num_centroids - 1 :
                 HasWord(CentroidSection(img), c * DIMS * 4, 4, img.centroids[c])
<1> DEFINE T == BytesOf(Values(img))
           row(k) == [j \in 1 .. DIMS |-> Word(4, img.centroids[k - 1])]
           rows == [k \in 1 .. img.num_centroids |-> FlattenSeq(row(k))]
<1>1. img.num_centroids \in Nat /\ DIMS \in Nat /\ 1 \in 1 .. DIMS
  BY DEF ImageOK, DIMS
<1>2. ASSUME NEW k \in 1 .. img.num_centroids
      PROVE  /\ OfLen(FlattenSeq(row(k)), T, DIMS * 4)
             /\ HasWord(FlattenSeq(row(k)), 0, 4, img.centroids[k - 1])
  <2>1. img.centroids[k - 1] \in Values(img)
    <3>1. k - 1 \in 0 .. img.num_centroids - 1
      BY <1>1
    <3> QED
      BY <3>1 DEF Values
  <2>2. PICK v \in Values(img) : v = img.centroids[k - 1]
    BY <2>1
  <2>3. OfLen(Word(4, v), T, 4) /\ HasWord(Word(4, v), 0, 4, v)
    BY WordIs
  <2> DEFINE r == row(k)
  <2>4. /\ r = [j \in 1 .. DIMS |-> r[j]]
        /\ \A j \in 1 .. DIMS : OfLen(r[j], T, 4) /\ HasWord(r[j], 0, 4, v)
    BY <2>2, <2>3
  <2> HIDE DEF r, T
  <2>5. /\ OfLen(FlattenSeq(r), T, DIMS * 4)
        /\ \A j \in 1 .. DIMS : \A x : HasWord(r[j], 0, 4, x) => HasWord(FlattenSeq(r), (j - 1) * 4, 4, x)
    BY <1>1, <2>4, SectionIs
  <2>6. (1 - 1) * 4 = 0
    OBVIOUS
  <2>7. HasWord(FlattenSeq(r), (1 - 1) * 4, 4, v)
    BY <1>1, <2>4, <2>5
  <2> QED
    BY <2>2, <2>5, <2>6, <2>7 DEF r
<1>3. rows = [k \in 1 .. img.num_centroids |-> rows[k]]
  OBVIOUS
<1>4. \A k \in 1 .. img.num_centroids :
         OfLen(rows[k], T, DIMS * 4) /\ HasWord(rows[k], 0, 4, img.centroids[k - 1])
  <2> HIDE DEF row
  <2> QED
    BY <1>2
<1>5. CentroidSection(img) = FlattenSeq(rows)
  BY DEF CentroidSection
<1> HIDE DEF rows, T
<1>6. PICK w \in Nat : w = DIMS * 4 /\ 0 + 4 <= w
  BY DEF DIMS
<1>7. /\ OfLen(FlattenSeq(rows), T, img.num_centroids * w)
      /\ \A k \in 1 .. img.num_centroids : \A off, u \in Nat : \A v :
            off + u <= w /\ HasWord(rows[k], off, u, v) =>
               HasWord(FlattenSeq(rows), (k - 1) * w + off, u, v)
  <2>1. \A k \in 1 .. img.num_centroids : OfLen(rows[k], T, w)
    BY <1>4, <1>6
  <2> QED
    BY <1>1, <1>3, <2>1, SectionIs
<1>8. img.num_centroids * w = CentroidBytes(img.num_centroids)
  BY <1>1, <1>6 DEF CentroidBytes, DIMS
<1>9. ASSUME NEW c \in 0 .. img.num_centroids - 1
      PROVE  HasWord(FlattenSeq(rows), c * DIMS * 4, 4, img.centroids[c])
  <2>1. c + 1 \in 1 .. img.num_centroids /\ (c + 1) - 1 = c
    BY <1>1
  <2>2. HasWord(rows[c + 1], 0, 4, img.centroids[c])
    BY <1>4, <2>1
  <2>3. HasWord(FlattenSeq(rows), c * w + 0, 4, img.centroids[c])
    BY <1>6, <1>7, <2>1, <2>2
  <2>4. c * w + 0 = c * DIMS * 4
    BY <1>1, <1>6 DEF DIMS
  <2> QED
    BY <2>3, <2>4
<1> QED
  BY <1>5, <1>7, <1>8, <1>9 DEF T

\* The offset of cluster c lies at 8 c.
LEMMA OffsetsAre ==
    ASSUME NEW img, ImageOK(img)
    PROVE  /\ OfLen(OffsetSection(img), BytesOf(Values(img)), OffsetBytes(img.num_centroids))
           /\ \A c \in 0 .. img.num_centroids :
                 HasWord(OffsetSection(img), c * 8, 8, OffsetIn(img, c))
<1> DEFINE T == BytesOf(Values(img))
           n == img.num_centroids + 1
           words == [k \in 1 .. n |-> Word(8, OffsetIn(img, k - 1))]
<1>1. img.num_centroids \in Nat /\ n \in Nat
  BY DEF ImageOK
<1>2. \A c \in 0 .. img.num_centroids : OffsetIn(img, c) \in Nat
  <2>1. \A c \in 0 .. img.num_centroids - 1 : Len(img.clusters[c]) \in Nat
    BY DEF ImageOK
  <2>2. Starts(img.num_centroids, img.clusters) \in [0 .. img.num_centroids -> Nat]
    BY <1>1, <2>1, StartsAre
  <2> QED
    BY <2>2 DEF StartOf, OffsetIn
<1>3. ASSUME NEW c \in 0 .. img.num_centroids
      PROVE  /\ OfLen(Word(8, OffsetIn(img, c)), T, 8)
             /\ HasWord(Word(8, OffsetIn(img, c)), 0, 8, OffsetIn(img, c))
  <2>1. OffsetIn(img, c) \in Values(img)
    BY <1>2 DEF Values
  <2> QED
    BY <2>1, WordIs
<1>4. ASSUME NEW k \in 1 .. n
      PROVE  /\ OfLen(words[k], T, 8)
             /\ HasWord(words[k], 0, 8, OffsetIn(img, k - 1))
  <2>1. k - 1 \in 0 .. img.num_centroids
    BY <1>1
  <2> QED
    BY <1>3, <2>1
<1>5. words = [k \in 1 .. n |-> words[k]]
  OBVIOUS
<1>6. OffsetSection(img) = FlattenSeq(words)
  BY DEF OffsetSection, OffsetIn
<1> HIDE DEF words, T
<1>7. /\ OfLen(FlattenSeq(words), T, n * 8)
      /\ \A k \in 1 .. n : \A v : HasWord(words[k], 0, 8, v) =>
            HasWord(FlattenSeq(words), (k - 1) * 8, 8, v)
  BY <1>1, <1>4, <1>5, SectionIs
<1>8. ASSUME NEW c \in 0 .. img.num_centroids
      PROVE  HasWord(FlattenSeq(words), c * 8, 8, OffsetIn(img, c))
  <2>1. c + 1 \in 1 .. n /\ (c + 1) - 1 = c
    BY <1>1
  <2> QED
    BY <1>4, <1>7, <2>1
<1> QED
  BY <1>6, <1>7, <1>8 DEF T, OffsetBytes

\* The bytes of the k-th vector in the order of the clusters lie from 14 (k - 1) on.
LEMMA VectorsAre ==
    ASSUME NEW img, ImageOK(img)
    PROVE  /\ OfLen(VectorSection(img), BytesOf(Values(img)), VectorBytes(Vectors(img)))
           /\ \A k \in 1 .. Vectors(img) : \A j \in 0 .. DIMS - 1 :
                 HasWord(VectorSection(img), (k - 1) * DIMS + j, 1,
                         Quantize(img.refs[VectorOrder(img)[k]].x))
<1> DEFINE T == BytesOf(Values(img))
           order == VectorOrder(img)
           n == Vectors(img)
           byte(k) == Quantize(img.refs[order[k]].x)
           items == [k \in 1 .. n |-> VectorOf(img.refs[order[k]])]
<1>1. order \in Seq(Nat) /\ n \in Nat /\ n = Len(order) /\ DIMS \in Nat
  BY OrderIs DEF Vectors, DIMS
<1>2. ASSUME NEW k \in 1 .. n
      PROVE  /\ OfLen(VectorOf(img.refs[order[k]]), T, DIMS)
             /\ \A j \in 0 .. DIMS - 1 : HasWord(VectorOf(img.refs[order[k]]), j, 1, byte(k))
  <2>1. order[k] \in Nat
    BY <1>1
  <2>2. Quantize(img.refs[order[k]].x) \in Values(img)
    BY <2>1 DEF Values
  <2>3. PICK q \in Values(img) : q = byte(k)
    BY <2>2
  <2> DEFINE r == [j \in 1 .. DIMS |-> Word(1, q)]
  <2>4. OfLen(Word(1, q), T, 1) /\ HasWord(Word(1, q), 0, 1, q)
    BY WordIs
  <2>5. /\ r = [j \in 1 .. DIMS |-> r[j]]
        /\ \A j \in 1 .. DIMS : OfLen(r[j], T, 1) /\ HasWord(r[j], 0, 1, q)
    BY <2>4
  <2>6. VectorOf(img.refs[order[k]]) = FlattenSeq(r)
    BY <2>3 DEF VectorOf
  <2> HIDE DEF r, T, byte
  <2>7. /\ OfLen(FlattenSeq(r), T, DIMS * 1)
        /\ \A j \in 1 .. DIMS : \A x : HasWord(r[j], 0, 1, x) => HasWord(FlattenSeq(r), (j - 1) * 1, 1, x)
    BY <1>1, <2>5, SectionIs
  <2>8. ASSUME NEW j \in 0 .. DIMS - 1 PROVE HasWord(FlattenSeq(r), j, 1, q)
    <3>1. j + 1 \in 1 .. DIMS /\ ((j + 1) - 1) * 1 = j
      BY <1>1
    <3>2. HasWord(FlattenSeq(r), ((j + 1) - 1) * 1, 1, q)
      BY <2>5, <2>7, <3>1
    <3> QED
      BY <3>1, <3>2
  <2>9. DIMS * 1 = DIMS
    BY <1>1
  <2> QED
    BY <2>3, <2>6, <2>7, <2>8, <2>9
<1>3. items = [k \in 1 .. n |-> items[k]]
  OBVIOUS
<1>4. \A k \in 1 .. n : /\ OfLen(items[k], T, DIMS)
                       /\ \A j \in 0 .. DIMS - 1 : HasWord(items[k], j, 1, byte(k))
  <2> HIDE DEF byte, T
  <2> QED
    BY <1>2
<1>5. VectorSection(img) = FlattenSeq(items)
  BY DEF VectorSection, Vectors, VectorOrder
<1> HIDE DEF items, T, byte
<1>6. /\ OfLen(FlattenSeq(items), T, n * DIMS)
      /\ \A k \in 1 .. n : \A off, u \in Nat : \A v :
            off + u <= DIMS /\ HasWord(items[k], off, u, v) =>
               HasWord(FlattenSeq(items), (k - 1) * DIMS + off, u, v)
  BY <1>1, <1>3, <1>4, SectionIs
<1>7. ASSUME NEW k \in 1 .. n, NEW j \in 0 .. DIMS - 1
      PROVE  HasWord(FlattenSeq(items), (k - 1) * DIMS + j, 1, byte(k))
  <2>1. j \in Nat /\ 1 \in Nat /\ j + 1 <= DIMS
    BY <1>1
  <2>2. HasWord(items[k], j, 1, byte(k))
    BY <1>4
  <2> QED
    BY <1>6, <2>1, <2>2
<1> QED
  BY <1>5, <1>6, <1>7 DEF T, VectorBytes, byte

LabelByte(r) == IF r.label = "fraud" THEN 1 ELSE 0

\* The label of the k-th vector is the k-th byte of the labels.
LEMMA LabelsAre ==
    ASSUME NEW img, ImageOK(img)
    PROVE  /\ OfLen(LabelSection(img), BytesOf(Values(img)), LabelBytes(Vectors(img)))
           /\ \A k \in 1 .. Vectors(img) :
                 HasWord(LabelSection(img), k - 1, 1, LabelByte(img.refs[VectorOrder(img)[k]]))
<1> DEFINE T == BytesOf(Values(img))
           n == Vectors(img)
           order == VectorOrder(img)
           items == [k \in 1 .. n |-> LabelOf(img.refs[order[k]])]
<1>1. n \in Nat /\ n = Len(LabelOrder(img)) /\ LabelOrder(img) = order
  BY OrderIs DEF Vectors, LabelOrder, VectorOrder
<1>2. ASSUME NEW r PROVE OfLen(LabelOf(r), T, 1) /\ HasWord(LabelOf(r), 0, 1, LabelByte(r))
  <2>1. PICK v \in Values(img) : v = LabelByte(r)
    BY DEF Values, LabelByte
  <2>2. LabelOf(r) = Word(1, v)
    BY <2>1 DEF LabelOf, LabelByte
  <2> QED
    BY <2>1, <2>2, WordIs
<1>3. items = [k \in 1 .. n |-> items[k]]
  OBVIOUS
<1>4. \A k \in 1 .. n : OfLen(items[k], T, 1) /\ HasWord(items[k], 0, 1, LabelByte(img.refs[order[k]]))
  <2> HIDE DEF T
  <2> QED
    BY <1>2
<1>5. LabelSection(img) = FlattenSeq(items)
  BY <1>1 DEF LabelSection
<1> HIDE DEF items, T
<1>6. /\ OfLen(FlattenSeq(items), T, n * 1)
      /\ \A k \in 1 .. n : \A v : HasWord(items[k], 0, 1, v) =>
            HasWord(FlattenSeq(items), (k - 1) * 1, 1, v)
  BY <1>1, <1>3, <1>4, SectionIs
<1>7. \A k \in 1 .. n : HasWord(FlattenSeq(items), k - 1, 1, LabelByte(img.refs[order[k]]))
  <2> TAKE k \in 1 .. n
  <2>1. (k - 1) * 1 = k - 1
    BY <1>1
  <2>2. HasWord(FlattenSeq(items), (k - 1) * 1, 1, LabelByte(img.refs[order[k]]))
    BY <1>4, <1>6
  <2> QED
    BY <2>1, <2>2
<1>8. n * 1 = LabelBytes(n)
  BY <1>1 DEF LabelBytes
<1> QED
  BY <1>5, <1>6, <1>7, <1>8 DEF T

\* t behind s: the words of both are where they are expected.
Extends(st, s, m, t, n) ==
    \A off, w \in Nat : \A v :
        /\ off + w <= m /\ HasWord(s, off, w, v) => HasWord(st, off, w, v)
        /\ off + w <= n /\ HasWord(t, off, w, v) => HasWord(st, m + off, w, v)

\* Two sections.
LEMMA TwoSections ==
    ASSUME NEW T, NEW s, NEW t, NEW m, NEW n, OfLen(s, T, m), OfLen(t, T, n)
    PROVE  OfLen(s \o t, T, m + n) /\ Extends(s \o t, s, m, t, n)
<1>1. OfLen(s \o t, T, m + n)
  BY ConcatLen
<1>2. ASSUME NEW off \in Nat, NEW w \in Nat, NEW v, off + w <= m, HasWord(s, off, w, v)
      PROVE  HasWord(s \o t, off, w, v)
  BY <1>2, WordBefore
<1>3. ASSUME NEW off \in Nat, NEW w \in Nat, NEW v, off + w <= n, HasWord(t, off, w, v)
      PROVE  HasWord(s \o t, m + off, w, v)
  BY <1>3, WordBehind
<1> QED
  BY <1>1, <1>2, <1>3 DEF Extends

\* The file: as long as load requires, with everything where load and search look for it.
LEMMA BytesAre ==
    ASSUME NEW img, ImageOK(img)
    PROVE  /\ OfLen(Bytes(img), BytesOf(Values(img)), Needed(img.num_centroids, Vectors(img)))
           /\ HasWord(Bytes(img), 8, 8, Vectors(img))
           /\ HasWord(Bytes(img), 16, 4, img.num_centroids)
           /\ \A c \in 0 .. img.num_centroids - 1 :
                 HasWord(Bytes(img), CentOff + c * DIMS * 4, 4, img.centroids[c])
           /\ \A c \in 0 .. img.num_centroids :
                 HasWord(Bytes(img), OffsetOff(img.num_centroids) + c * 8, 8, OffsetIn(img, c))
           /\ \A k \in 1 .. Vectors(img) : \A j \in 0 .. DIMS - 1 :
                 HasWord(Bytes(img), VecOff(img.num_centroids) + ((k - 1) * DIMS + j), 1,
                         Quantize(img.refs[VectorOrder(img)[k]].x))
           /\ \A k \in 1 .. Vectors(img) :
                 HasWord(Bytes(img), LabelOff(img.num_centroids, Vectors(img)) + (k - 1), 1,
                         LabelByte(img.refs[VectorOrder(img)[k]]))
<1>1. PICK T : T = BytesOf(Values(img))
  OBVIOUS
<1>2. PICK nc \in Nat : nc = img.num_centroids
  BY DEF ImageOK
<1>3. PICK nv \in Nat : nv = Vectors(img)
  BY OrderIs
<1>4. PICK b1 : b1 = Header(img)
  OBVIOUS
<1>5. PICK b2 : b2 = CentroidSection(img)
  OBVIOUS
<1>6. PICK b3 : b3 = OffsetSection(img)
  OBVIOUS
<1>7. PICK b4 : b4 = VectorSection(img)
  OBVIOUS
<1>8. PICK b5 : b5 = LabelSection(img)
  OBVIOUS
<1>10. OfLen(b1, T, 32) /\ HasWord(b1, 8, 8, nv) /\ HasWord(b1, 16, 4, nc)
  BY <1>1, <1>2, <1>3, <1>4, HeaderIs DEF HeaderBytes
<1>11. /\ OfLen(b2, T, CentroidBytes(nc))
       /\ \A c \in 0 .. nc - 1 : HasWord(b2, c * DIMS * 4, 4, img.centroids[c])
  BY <1>1, <1>2, <1>5, CentroidsAre
<1>12. /\ OfLen(b3, T, OffsetBytes(nc))
       /\ \A c \in 0 .. nc : HasWord(b3, c * 8, 8, OffsetIn(img, c))
  BY <1>1, <1>2, <1>6, OffsetsAre
<1>13. /\ OfLen(b4, T, VectorBytes(nv))
       /\ \A k \in 1 .. nv : \A j \in 0 .. DIMS - 1 :
             HasWord(b4, (k - 1) * DIMS + j, 1, Quantize(img.refs[VectorOrder(img)[k]].x))
  BY <1>1, <1>3, <1>7, VectorsAre
<1>14. /\ OfLen(b5, T, LabelBytes(nv))
       /\ \A k \in 1 .. nv : HasWord(b5, k - 1, 1, LabelByte(img.refs[VectorOrder(img)[k]]))
  BY <1>1, <1>3, <1>8, LabelsAre
\* The sections end where load has the next one begin.
<1>15. /\ CentOff = 32 /\ CentroidBytes(nc) \in Nat /\ OffsetBytes(nc) \in Nat
       /\ VectorBytes(nv) \in Nat /\ LabelBytes(nv) \in Nat
       /\ OffsetOff(nc) \in Nat /\ VecOff(nc) \in Nat /\ LabelOff(nc, nv) \in Nat
       /\ Needed(nc, nv) \in Nat
       /\ CentOff <= OffsetOff(nc) /\ OffsetOff(nc) <= VecOff(nc) /\ VecOff(nc) <= LabelOff(nc, nv)
       /\ LabelOff(nc, nv) <= Needed(nc, nv)
       /\ CentOff + CentroidBytes(nc) = OffsetOff(nc)
       /\ OffsetOff(nc) + OffsetBytes(nc) = VecOff(nc)
       /\ VecOff(nc) + VectorBytes(nv) = LabelOff(nc, nv)
       /\ LabelOff(nc, nv) + LabelBytes(nv) = Needed(nc, nv)
  BY DEF CentroidBytes, OffsetBytes, VectorBytes, LabelBytes, DIMS,
         CentOff, OffsetOff, VecOff, LabelOff, Needed
<1>16. PICK s2 : s2 = b1 \o b2
  OBVIOUS
<1>17. PICK s3 : s3 = s2 \o b3
  OBVIOUS
<1>18. PICK s4 : s4 = s3 \o b4
  OBVIOUS
<1>19. PICK s5 : s5 = s4 \o b5
  OBVIOUS
<1>20. Bytes(img) = s5
  BY <1>4, <1>5, <1>6, <1>7, <1>8, <1>16, <1>17, <1>18, <1>19 DEF Bytes
<1>21. OfLen(s2, T, OffsetOff(nc)) /\ Extends(s2, b1, 32, b2, CentroidBytes(nc))
  <2>1. OfLen(b1 \o b2, T, 32 + CentroidBytes(nc)) /\ Extends(b1 \o b2, b1, 32, b2, CentroidBytes(nc))
    BY <1>10, <1>11, TwoSections
  <2> QED
    BY <1>15, <1>16, <2>1
<1>22. OfLen(s3, T, VecOff(nc)) /\ Extends(s3, s2, OffsetOff(nc), b3, OffsetBytes(nc))
  <2>1. /\ OfLen(s2 \o b3, T, OffsetOff(nc) + OffsetBytes(nc))
        /\ Extends(s2 \o b3, s2, OffsetOff(nc), b3, OffsetBytes(nc))
    BY <1>12, <1>21, TwoSections
  <2> QED
    BY <1>15, <1>17, <2>1
<1>23. OfLen(s4, T, LabelOff(nc, nv)) /\ Extends(s4, s3, VecOff(nc), b4, VectorBytes(nv))
  <2>1. /\ OfLen(s3 \o b4, T, VecOff(nc) + VectorBytes(nv))
        /\ Extends(s3 \o b4, s3, VecOff(nc), b4, VectorBytes(nv))
    BY <1>13, <1>22, TwoSections
  <2> QED
    BY <1>15, <1>18, <2>1
<1>24. OfLen(s5, T, Needed(nc, nv)) /\ Extends(s5, s4, LabelOff(nc, nv), b5, LabelBytes(nv))
  <2>1. /\ OfLen(s4 \o b5, T, LabelOff(nc, nv) + LabelBytes(nv))
        /\ Extends(s4 \o b5, s4, LabelOff(nc, nv), b5, LabelBytes(nv))
    BY <1>14, <1>23, TwoSections
  <2> QED
    BY <1>15, <1>19, <2>1
\* What is in the first sections is in the file.
<1>25. ASSUME NEW off \in Nat, NEW w \in Nat, NEW v, off + w <= LabelOff(nc, nv), HasWord(s4, off, w, v)
       PROVE  HasWord(s5, off, w, v)
  BY <1>24, <1>25 DEF Extends
<1>26. ASSUME NEW off \in Nat, NEW w \in Nat, NEW v, off + w <= VecOff(nc), HasWord(s3, off, w, v)
       PROVE  HasWord(s5, off, w, v)
  <2>1. HasWord(s4, off, w, v)
    BY <1>23, <1>26 DEF Extends
  <2>2. off + w <= LabelOff(nc, nv)
    BY <1>15, <1>26
  <2> QED
    BY <1>25, <2>1, <2>2
<1>27. ASSUME NEW off \in Nat, NEW w \in Nat, NEW v, off + w <= OffsetOff(nc), HasWord(s2, off, w, v)
       PROVE  HasWord(s5, off, w, v)
  <2>1. HasWord(s3, off, w, v)
    BY <1>22, <1>27 DEF Extends
  <2>2. off + w <= VecOff(nc)
    BY <1>15, <1>27
  <2> QED
    BY <1>26, <2>1, <2>2
<1>28. ASSUME NEW off \in Nat, NEW w \in Nat, NEW v, off + w <= 32, HasWord(b1, off, w, v)
       PROVE  HasWord(s5, off, w, v)
  <2>1. HasWord(s2, off, w, v)
    BY <1>21, <1>28 DEF Extends
  <2>2. off + w <= OffsetOff(nc)
    BY <1>15, <1>28
  <2> QED
    BY <1>27, <2>1, <2>2
<1>29. HasWord(s5, 8, 8, nv) /\ HasWord(s5, 16, 4, nc)
  BY <1>10, <1>28
<1>30. ASSUME NEW c \in 0 .. nc - 1
       PROVE  HasWord(s5, CentOff + c * DIMS * 4, 4, img.centroids[c])
  <2>1. PICK off \in Nat : off = c * DIMS * 4 /\ off + 4 <= CentroidBytes(nc)
    BY DEF DIMS, CentroidBytes
  <2>2. HasWord(b2, off, 4, img.centroids[c])
    BY <1>11, <2>1
  <2>3. HasWord(s2, 32 + off, 4, img.centroids[c])
    BY <1>21, <2>1, <2>2 DEF Extends
  <2>4. 32 + off \in Nat /\ (32 + off) + 4 <= OffsetOff(nc)
    BY <1>15, <2>1
  <2>5. HasWord(s5, 32 + off, 4, img.centroids[c])
    BY <1>27, <2>3, <2>4
  <2> QED
    BY <1>15, <2>1, <2>5
<1>31. ASSUME NEW c \in 0 .. nc
       PROVE  HasWord(s5, OffsetOff(nc) + c * 8, 8, OffsetIn(img, c))
  <2>1. PICK off \in Nat : off = c * 8 /\ off + 8 <= OffsetBytes(nc)
    BY DEF OffsetBytes
  <2>2. HasWord(b3, off, 8, OffsetIn(img, c))
    BY <1>12, <2>1
  <2>3. HasWord(s3, OffsetOff(nc) + off, 8, OffsetIn(img, c))
    BY <1>22, <2>1, <2>2 DEF Extends
  <2>4. OffsetOff(nc) + off \in Nat /\ (OffsetOff(nc) + off) + 8 <= VecOff(nc)
    BY <1>15, <2>1
  <2>5. HasWord(s5, OffsetOff(nc) + off, 8, OffsetIn(img, c))
    BY <1>26, <2>3, <2>4
  <2> QED
    BY <2>1, <2>5
<1>32. ASSUME NEW k \in 1 .. nv, NEW j \in 0 .. DIMS - 1
       PROVE  HasWord(s5, VecOff(nc) + ((k - 1) * DIMS + j), 1, Quantize(img.refs[VectorOrder(img)[k]].x))
  <2>1. PICK off \in Nat : off = (k - 1) * DIMS + j /\ off + 1 <= VectorBytes(nv)
    BY DEF DIMS, VectorBytes
  <2>2. PICK q : q = Quantize(img.refs[VectorOrder(img)[k]].x)
    OBVIOUS
  <2>3. HasWord(b4, off, 1, q)
    BY <1>13, <2>1, <2>2
  <2>4. HasWord(s4, VecOff(nc) + off, 1, q)
    BY <1>23, <2>1, <2>3 DEF Extends
  <2>5. VecOff(nc) + off \in Nat /\ (VecOff(nc) + off) + 1 <= LabelOff(nc, nv)
    BY <1>15, <2>1
  <2>6. HasWord(s5, VecOff(nc) + off, 1, q)
    BY <1>25, <2>4, <2>5
  <2> QED
    BY <2>1, <2>2, <2>6
<1>33. ASSUME NEW k \in 1 .. nv
       PROVE  HasWord(s5, LabelOff(nc, nv) + (k - 1), 1, LabelByte(img.refs[VectorOrder(img)[k]]))
  <2>1. PICK off \in Nat : off = k - 1 /\ off + 1 <= LabelBytes(nv)
    BY DEF LabelBytes
  <2>2. PICK q : q = LabelByte(img.refs[VectorOrder(img)[k]])
    OBVIOUS
  <2>3. HasWord(b5, off, 1, q)
    BY <1>14, <2>1, <2>2
  <2>4. HasWord(s5, LabelOff(nc, nv) + off, 1, q)
    BY <1>24, <2>1, <2>3 DEF Extends
  <2> QED
    BY <2>1, <2>2, <2>4
<1> QED
  BY <1>1, <1>2, <1>3, <1>20, <1>24, <1>29, <1>30, <1>31, <1>32, <1>33

----------------------------------------------------------------------------
(* The invariant                                                           *)

\* No centroid is closer to x than c.
Closest(x, cs, c) == \A d \in DOMAIN cs : SqDist(x, cs[c]) <= SqDist(x, cs[d])

\* The long ones of the first m records are in the clusters, each at one place and each
\* with a closest centroid.
Assigned(in, cs, cl, m) ==
    /\ \A c \in DOMAIN cl : \A j \in 1 .. Len(cl[c]) :
          cl[c][j] \in 1 .. m /\ in[cl[c][j]].long /\ Closest(in[cl[c][j]].x, cs, c)
    /\ \A k \in 1 .. m : in[k].long =>
          \E c \in DOMAIN cl : \E j \in 1 .. Len(cl[c]) : cl[c][j] = k
    /\ \A c, d \in DOMAIN cl : \A i \in 1 .. Len(cl[c]) : \A j \in 1 .. Len(cl[d]) :
          cl[c][i] = cl[d][j] => c = d /\ i = j

\* An image of the whole input, which this run has written.
OfThisRun(img) ==
    /\ ImageOK(img) /\ img.num_centroids = num_centroids
    /\ img.refs \in Seq(RefLine)
    /\ img.centroids \in [0 .. img.num_centroids - 1 -> Int]
    /\ Assigned(img.refs, img.centroids, img.clusters, Len(img.refs))

\* Types, and what pass 2 has assigned so far.
Building ==
    /\ num_centroids \in Nat
    /\ refs \in Seq(RefLine) /\ sample \in Seq(Int)
    /\ pos \in 1 .. Len(refs) + 1
    /\ clusters \in [Cents -> Seq(Nat)]
    /\ phase = "off" => pos = 1
    /\ phase \in {"off", "sample", "lloyd"} => clusters = [c \in Cents |-> <<>>] /\ total = 0
    /\ phase = "assign" => total = Held(num_centroids, clusters)
    /\ phase \in {"lloyd", "assign"} => centroids \in [Cents -> Int]
    /\ phase = "assign" => Assigned(refs, centroids, clusters, pos - 1)

\* What is on disk is the beginning of an image.
OnDisk ==
    /\ disk = [img |-> disk.img, len |-> disk.len]
    /\ disk.len \in Nat
    /\ phase = "write" \/ disk.len > 0 =>
          OfThisRun(disk.img) /\ disk.len <= Len(Bytes(disk.img))

\* What is loaded is all of one.
InMemory ==
    loaded.status = "ok" => OfThisRun(loaded.img) /\ loaded.len = Len(Bytes(loaded.img))

IInv == Building /\ OnDisk /\ InMemory

\* nearest_centroid finds one, and none is closer.
LEMMA NearestIs ==
    ASSUME NEW n \in Nat \ {0}, NEW cs \in [0 .. n - 1 -> Int], NEW x \in Int
    PROVE  Nearest(x, cs) \in 0 .. n - 1 /\ Closest(x, cs, Nearest(x, cs))
<1> DEFINE dist(c) == SqDist(x, cs[c])
           D == {dist(c) : c \in 0 .. n - 1}
<1>1. \A c \in 0 .. n - 1 : dist(c) \in Nat
  <2> TAKE c \in 0 .. n - 1
  <2>1. PICK y \in Int : y = x - cs[c]
    OBVIOUS
  <2>2. y * y \in Nat
    OBVIOUS
  <2> QED
    BY <2>1, <2>2 DEF SqDist
<1> HIDE DEF dist
<1>2. D \in SUBSET Nat /\ D # {}
  <2>1. dist(0) \in D
    OBVIOUS
  <2> QED
    BY <1>1, <2>1
<1>3. PICK m \in D : \A y \in D : m <= y
  <2> HIDE DEF D
  <2> QED
    BY <1>2, LeastNat
<1> DEFINE I == {c \in 0 .. n - 1 : dist(c) = m}
<1>4. I \in SUBSET Nat /\ I # {}
  OBVIOUS
<1>5. PICK i \in I : \A j \in I : i <= j
  <2> HIDE DEF I
  <2> QED
    BY <1>4, LeastNat
<1> DEFINE First(c) == \A d \in DOMAIN cs :
               dist(c) < dist(d) \/ (dist(c) = dist(d) /\ c <= d)
<1>6. DOMAIN cs = 0 .. n - 1
  OBVIOUS
<1>7. i \in DOMAIN cs /\ First(i)
  <2>1. i \in 0 .. n - 1 /\ dist(i) = m
    OBVIOUS
  <2>2. ASSUME NEW d \in 0 .. n - 1
        PROVE  dist(i) < dist(d) \/ (dist(i) = dist(d) /\ i <= d)
    <3>1. m <= dist(d) /\ dist(d) \in Nat /\ m \in Nat
      BY <1>1, <1>2, <1>3
    <3>2. dist(d) = m => i <= d
      BY <1>5
    <3> QED
      BY <2>1, <3>1, <3>2
  <2> QED
    BY <1>6, <2>1, <2>2
<1>8. Nearest(x, cs) = CHOOSE c \in DOMAIN cs : First(c)
  BY DEF Nearest, dist
<1> HIDE DEF First
<1>9. Nearest(x, cs) \in DOMAIN cs /\ First(Nearest(x, cs))
  BY <1>7, <1>8
<1>10. PICK c \in 0 .. n - 1 : c = Nearest(x, cs) /\ First(c)
  BY <1>6, <1>9
<1>11. ASSUME NEW d \in DOMAIN cs PROVE dist(c) <= dist(d)
  BY <1>1, <1>6, <1>10, <1>11 DEF First
<1> QED
  BY <1>10, <1>11 DEF Closest, dist

\* The mean of a cluster is a coordinate.
LEMMA MeanIs ==
    ASSUME NEW n \in Nat, NEW cs \in [0 .. n - 1 -> Int], NEW s \in Seq(Int), NEW c \in 0 .. n - 1
    PROVE  Mean(c, s, cs) \in Int
<1> DEFINE x == [k \in 1 .. Len(s) |-> IF Nearest(s[k], cs) = c THEN s[k] ELSE 0]
<1>1. Len(s) \in Nat /\ x \in [1 .. Len(s) -> Int]
  OBVIOUS
<1>2. 0 \in Int /\ \A a, b \in Int : a + b \in Int
  OBVIOUS
<1>3. Total(c, s, cs) = RunningSum(Len(s), x)[Len(s)]
  BY DEF Total
<1> HIDE DEF x
<1>4. RunningSum(Len(s), x) \in [0 .. Len(s) -> Int]
  BY <1>1, <1>2, SumsAre
<1>5. Total(c, s, cs) \in Int
  <2>1. Len(s) \in 0 .. Len(s)
    BY <1>1
  <2>2. RunningSum(Len(s), x)[Len(s)] \in Int
    BY <1>4, <2>1, Zenon
  <2> QED
    BY <1>3, <2>2
<1>6. PICK A : A = AssignedTo(c, s, cs)
  OBVIOUS
<1>7. IsFiniteSet(A)
  <2>1. A \subseteq 1 .. Len(s) /\ IsFiniteSet(1 .. Len(s))
    BY <1>1, <1>6, FS_Interval DEF AssignedTo
  <2> QED
    BY <2>1, FS_Subset
<1>8. CASE A = {}
  BY <1>6, <1>8 DEF Mean
<1>9. CASE A # {}
  <2>1. Cardinality(A) \in Nat /\ Cardinality(A) # 0
    BY <1>7, <1>9, FS_CardinalityType, FS_EmptySet
  <2>2. Mean(c, s, cs) = Total(c, s, cs) \div Cardinality(A)
    BY <1>6, <1>9 DEF Mean
  <2>3. \A a \in Int : \A b \in Nat \ {0} : a \div b \in Int
    OBVIOUS
  <2> QED
    BY <1>5, <2>1, <2>2, <2>3
<1> QED
  BY <1>8, <1>9

\* A record that is passed over.
LEMMA AssignSkips ==
    ASSUME NEW in, NEW cs, NEW cl, NEW m \in Nat, Assigned(in, cs, cl, m), ~ in[m + 1].long
    PROVE  Assigned(in, cs, cl, m + 1)
<1>1. \A k \in 1 .. m : k \in 1 .. m + 1
  OBVIOUS
<1>2. \A k \in 1 .. m + 1 : k = m + 1 \/ k \in 1 .. m
  OBVIOUS
<1> QED
  BY <1>1, <1>2 DEF Assigned

\* A record that is added to the cluster of a closest centroid.
LEMMA AssignAdds ==
    ASSUME NEW n \in Nat, NEW in, NEW cs, NEW cl \in [0 .. n - 1 -> Seq(Nat)], NEW m \in Nat,
           Assigned(in, cs, cl, m), in[m + 1].long,
           NEW c \in 0 .. n - 1, Closest(in[m + 1].x, cs, c)
    PROVE  Assigned(in, cs, [cl EXCEPT ![c] = Append(cl[c], m + 1)], m + 1)
<1>1. PICK p \in Nat : p = m + 1 /\ p \notin 1 .. m /\ p \in 1 .. p
  OBVIOUS
<1>2. PICK new : new = [cl EXCEPT ![c] = Append(cl[c], p)]
  OBVIOUS
<1>3. PICK l \in Nat : l = Len(cl[c])
  OBVIOUS
<1>4. DOMAIN cl = 0 .. n - 1 /\ DOMAIN new = 0 .. n - 1
  BY <1>2
<1>5. \A d \in 0 .. n - 1 : d # c => new[d] = cl[d]
  BY <1>2
<1>6. new[c] = Append(cl[c], p) /\ cl[c] \in Seq(Nat)
  BY <1>2
<1>7. /\ Len(new[c]) = l + 1 /\ new[c][l + 1] = p
      /\ \A j \in 1 .. l : new[c][j] = cl[c][j]
  BY <1>1, <1>3, <1>6
\* Every place but the new one is an old one, with what it had.
<1>8. ASSUME NEW d \in 0 .. n - 1, NEW j \in 1 .. Len(new[d]), ~ (d = c /\ j = l + 1)
      PROVE  j \in 1 .. Len(cl[d]) /\ new[d][j] = cl[d][j]
  <2>1. CASE d = c
    BY <1>3, <1>7, <1>8, <2>1
  <2>2. CASE d # c
    BY <1>5, <1>8, <2>2
  <2> QED
    BY <2>1, <2>2
<1>9. ASSUME NEW d \in 0 .. n - 1, NEW j \in 1 .. Len(cl[d])
      PROVE  cl[d][j] \in 1 .. m /\ in[cl[d][j]].long /\ Closest(in[cl[d][j]].x, cs, d)
  BY <1>4 DEF Assigned
<1>10. ASSUME NEW d \in 0 .. n - 1, NEW j \in 1 .. Len(new[d])
       PROVE  new[d][j] \in 1 .. p /\ in[new[d][j]].long /\ Closest(in[new[d][j]].x, cs, d)
  <2>1. CASE d = c /\ j = l + 1
    BY <1>1, <1>7, <2>1
  <2>2. CASE ~ (d = c /\ j = l + 1)
    <3>1. new[d][j] = cl[d][j] /\ j \in 1 .. Len(cl[d])
      BY <1>8, <2>2
    <3>2. new[d][j] \in 1 .. m /\ in[new[d][j]].long /\ Closest(in[new[d][j]].x, cs, d)
      BY <1>9, <3>1
    <3>3. \A k \in 1 .. m : k \in 1 .. p
      BY <1>1
    <3> QED
      BY <3>2, <3>3
  <2> QED
    BY <2>1, <2>2
<1>11. ASSUME NEW k \in 1 .. p, in[k].long
       PROVE  \E d \in 0 .. n - 1 : \E j \in 1 .. Len(new[d]) : new[d][j] = k
  <2>1. CASE k = p
    <3>1. l + 1 \in 1 .. Len(new[c])
      BY <1>7
    <3> QED
      BY <1>7, <2>1, <3>1
  <2>2. CASE k \in 1 .. m
    <3>1. PICK d \in 0 .. n - 1, j \in Nat : j \in 1 .. Len(cl[d]) /\ cl[d][j] = k
      <4>1. \E d \in 0 .. n - 1 : \E j \in 1 .. Len(cl[d]) : cl[d][j] = k
        BY <1>4, <1>11, <2>2 DEF Assigned
      <4> QED
        BY <4>1
    <3>2. j \in 1 .. Len(new[d]) /\ new[d][j] = cl[d][j]
      <4>1. CASE d = c
        BY <1>3, <1>7, <3>1, <4>1
      <4>2. CASE d # c
        BY <1>5, <3>1, <4>2
      <4> QED
        BY <4>1, <4>2
    <3> QED
      BY <3>1, <3>2
  <2> QED
    BY <1>1, <2>1, <2>2
<1>12. ASSUME NEW d \in 0 .. n - 1, NEW e \in 0 .. n - 1,
              NEW i \in 1 .. Len(new[d]), NEW j \in 1 .. Len(new[e]), new[d][i] = new[e][j]
       PROVE  d = e /\ i = j
  <2>1. CASE (d = c /\ i = l + 1) /\ (e = c /\ j = l + 1)
    BY <2>1
  <2>2. CASE (d = c /\ i = l + 1) /\ ~ (e = c /\ j = l + 1)
    <3>1. new[d][i] = p
      BY <1>7, <2>2
    <3>2. new[e][j] \in 1 .. m
      BY <1>8, <1>9, <2>2
    <3> QED
      BY <1>1, <1>12, <3>1, <3>2
  <2>3. CASE ~ (d = c /\ i = l + 1) /\ (e = c /\ j = l + 1)
    <3>1. new[e][j] = p
      BY <1>7, <2>3
    <3>2. new[d][i] \in 1 .. m
      BY <1>8, <1>9, <2>3
    <3> QED
      BY <1>1, <1>12, <3>1, <3>2
  <2>4. CASE ~ (d = c /\ i = l + 1) /\ ~ (e = c /\ j = l + 1)
    <3>1. i \in 1 .. Len(cl[d]) /\ j \in 1 .. Len(cl[e]) /\ cl[d][i] = cl[e][j]
      BY <1>8, <1>12, <2>4
    <3> QED
      BY <1>4, <3>1 DEF Assigned
  <2> QED
    BY <2>1, <2>2, <2>3, <2>4
<1>13. Assigned(in, cs, new, p)
  BY <1>4, <1>10, <1>11, <1>12 DEF Assigned
<1> QED
  BY <1>1, <1>2, <1>13

\* load accepts no proper prefix: the sizes in the header are those of the image, and
\* the length it computes from them is that of the whole file.
LEMMA AcceptedIsWhole ==
    ASSUME Building, OnDisk, LoadAccepts(File)
    PROVE  OfThisRun(disk.img) /\ disk.len = Len(Bytes(disk.img))
<1>1. disk.len > 0
  <2>1. SUFFICES ASSUME disk.len = 0 PROVE FALSE
    BY DEF OnDisk
  <2>2. File = <<>>
    BY <2>1 DEF File
  <2>3. Len(File) >= 32
    BY DEF LoadAccepts, HeaderBytes
  <2> QED
    BY <2>2, <2>3
<1>2. OfThisRun(disk.img) /\ ImageOK(disk.img) /\ disk.len \in Nat /\ disk.len <= Len(Bytes(disk.img))
  BY <1>1 DEF OnDisk, OfThisRun
<1>3. PICK T : T = BytesOf(Values(disk.img))
  OBVIOUS
<1>4. PICK s : s = Bytes(disk.img)
  OBVIOUS
<1>5. PICK nc \in Nat : nc = disk.img.num_centroids
  BY <1>2 DEF ImageOK
<1>6. PICK nv \in Nat : nv = Vectors(disk.img)
  BY <1>2, OrderIs
<1>7. OfLen(s, T, Needed(nc, nv)) /\ HasWord(s, 8, 8, nv) /\ HasWord(s, 16, 4, nc)
  BY <1>2, <1>3, <1>4, <1>5, <1>6, BytesAre
<1>8. s \in Seq(T) /\ Len(s) = Needed(nc, nv) /\ Needed(nc, nv) \in Nat
  BY <1>7 DEF OfLen
<1>9. PICK len \in 0 .. Len(s) : len = disk.len
  BY <1>2, <1>4, <1>8
<1>10. File = SubSeq(s, 1, len)
  BY <1>1, <1>4, <1>9 DEF File
<1>11. Len(File) = len
  BY <1>8, <1>9, <1>10
<1>12. len >= 32 /\ len >= Needed(Read(File, 16, 4), Read(File, 8, 8))
  BY <1>11 DEF LoadAccepts, HeaderBytes
<1>13. HasWord(SubSeq(s, 1, len), 8, 8, nv) /\ HasWord(SubSeq(s, 1, len), 16, 4, nc)
  BY <1>7, <1>8, <1>12, WordInPrefix
<1>14. Read(File, 8, 8) = nv /\ Read(File, 16, 4) = nc
  BY <1>10, <1>13, ReadWord
<1>15. len = Len(s)
  BY <1>8, <1>9, <1>12, <1>14
<1> QED
  BY <1>2, <1>4, <1>9, <1>15

\* Before the build there is no file.
LEMMA InitInv == Init => IInv
<1> SUFFICES ASSUME Init PROVE IInv
  OBVIOUS
<1>1. Building
  BY BuildAssumption DEF Init, Building, Cents
<1>2. OnDisk
  BY DEF Init, OnDisk
<1>3. InMemory
  BY DEF Init, InMemory
<1> QED
  BY <1>1, <1>2, <1>3 DEF IInv

\* Every step keeps the invariant.
LEMMA NextInv == IInv /\ [Next]_vars => IInv'
<1> SUFFICES ASSUME IInv, [Next]_vars PROVE IInv'
  OBVIOUS
<1>1. Building /\ OnDisk /\ InMemory
  BY DEF IInv
<1>2. num_centroids' = num_centroids /\ Cents' = Cents
  BY DEF Next, vars, working, BadArgs, StartBuild, SampleRecord, SeedCentroids, LloydIteration,
         LloydDone, AssignRecord, LloydPanics, AssignPanics, CreateFile, WriteByte, IndexFlushed,
         WriteRaw, WriteDone, BuildDies, Load, Cents
\* A step that leaves file and loader alone, and is not in the writing of the index.
<1>3. ASSUME Building', disk' = disk, loaded' = loaded, phase' = "write" => phase = "write"
      PROVE  IInv'
  <2>1. OnDisk'
    BY <1>1, <1>2, <1>3 DEF OnDisk, OfThisRun, ImageOK
  <2>2. InMemory'
    BY <1>1, <1>2, <1>3 DEF InMemory, OfThisRun, ImageOK
  <2> QED
    BY <1>3, <2>1, <2>2 DEF IInv
\* A step in which the build does nothing, or goes on to the file, or ends.
<1>4. ASSUME UNCHANGED working, phase' = phase \/ phase' \in {"write", "raw", "done", "dead"}
      PROVE  Building'
  BY <1>1, <1>2, <1>4 DEF Building, working
<1>5. /\ num_centroids \in Nat /\ refs \in Seq(RefLine) /\ Len(refs) \in Nat
      /\ sample \in Seq(Int) /\ pos \in 1 .. Len(refs) + 1 /\ pos \in Nat
      /\ clusters \in [Cents -> Seq(Nat)]
  BY <1>1 DEF Building
<1>6. CASE BadArgs \/ LloydPanics \/ AssignPanics \/ WriteDone \/ BuildDies
  BY <1>3, <1>4, <1>6 DEF BadArgs, LloydPanics, AssignPanics, WriteDone, BuildDies
<1>7. CASE StartBuild
  <2>1. refs' \in Seq(RefLine) /\ pos = 1
    BY <1>1, <1>7, BuildAssumption DEF StartBuild, Building
  <2>2. Len(refs') \in Nat
    BY <2>1
  <2>3. Building'
    BY <1>1, <1>2, <1>7, <2>1, <2>2 DEF StartBuild, Building
  <2> QED
    BY <1>3, <1>7, <2>3 DEF StartBuild
<1>8. CASE SampleRecord
  <2>1. /\ refs' = refs /\ clusters' = clusters /\ total' = total
        /\ phase = "sample" /\ phase' \in {"sample", "dead"}
    BY <1>8 DEF SampleRecord
  <2>2. pos' \in 1 .. Len(refs) + 1
    BY <1>5, <1>8 DEF SampleRecord
  <2>3. sample' \in Seq(Int)
    <3>1. refs[pos] \in RefLine
      <4>1. pos \in 1 .. Len(refs)
        BY <1>5, <1>8 DEF SampleRecord
      <4> QED
        BY <1>5, <4>1
    <3>2. refs[pos].x \in Int
      BY <3>1 DEF RefLine
    <3>3. sample' = sample \/ sample' = Append(sample, refs[pos].x)
      BY <1>8 DEF SampleRecord
    <3>4. \A y \in Int : Append(sample, y) \in Seq(Int)
      BY <1>5
    <3> QED
      BY <1>5, <3>2, <3>3, <3>4
  <2>4. Building'
    BY <1>1, <1>2, <2>1, <2>2, <2>3 DEF Building
  <2> QED
    BY <1>3, <1>8, <2>1, <2>4 DEF SampleRecord
<1>9. CASE SeedCentroids
  <2>1. /\ phase = "sample" /\ phase' \in {"dead", "lloyd"}
        /\ UNCHANGED <<refs, pos, sample, clusters, total, disk, loaded>>
    BY <1>9 DEF SeedCentroids
  <2>2. phase' = "lloyd" => centroids' \in [Cents -> Int]
    <3>1. SUFFICES ASSUME phase' = "lloyd" PROVE centroids' \in [Cents -> Int]
      OBVIOUS
    <3>2. PICK p \in Injection(Cents, 1 .. Len(sample)) : centroids' = [c \in Cents |-> sample[p[c]]]
      BY <1>9, <3>1 DEF SeedCentroids
    <3>3. p \in [Cents -> 1 .. Len(sample)]
      BY <3>2 DEF Injection
    <3>4. \A c \in Cents : sample[p[c]] \in Int
      BY <1>5, <3>3
    <3> QED
      BY <3>2, <3>4
  <2>3. Building'
    BY <1>1, <1>2, <2>1, <2>2 DEF Building
  <2> QED
    BY <1>3, <2>1, <2>3
<1>10. CASE LloydIteration
  <2>1. /\ phase = "lloyd" /\ phase' = "lloyd"
        /\ UNCHANGED <<refs, pos, sample, clusters, total, disk, loaded>>
        /\ centroids' = [c \in Cents |-> Mean(c, sample, centroids)]
    BY <1>10 DEF LloydIteration
  <2>2. centroids \in [0 .. num_centroids - 1 -> Int]
    BY <1>1, <2>1 DEF Building, Cents
  <2>3. \A c \in 0 .. num_centroids - 1 : Mean(c, sample, centroids) \in Int
    BY <1>5, <2>2, MeanIs
  <2>4. centroids' \in [Cents -> Int]
    BY <2>1, <2>3 DEF Cents
  <2>5. Building'
    BY <1>1, <1>2, <2>1, <2>4 DEF Building
  <2> QED
    BY <1>3, <2>1, <2>5
<1>11. CASE LloydDone
  <2>1. /\ phase = "lloyd" /\ phase' = "assign" /\ pos' = 1
        /\ UNCHANGED <<refs, sample, centroids, clusters, total, disk, loaded>>
    BY <1>11 DEF LloydDone
  <2>2. clusters = [c \in Cents |-> <<>>] /\ total = 0 /\ centroids \in [Cents -> Int]
    BY <1>1, <2>1 DEF Building
  <2>3. Assigned(refs, centroids, clusters, 0)
    <3>1. DOMAIN clusters = Cents /\ \A c \in Cents : 1 .. Len(clusters[c]) = {}
      BY <2>2
    <3>2. 1 .. 0 = {}
      OBVIOUS
    <3> QED
      BY <3>1, <3>2 DEF Assigned
  <2>4. Building'
    <3>1. 1 - 1 = 0 /\ 1 \in 1 .. Len(refs) + 1
      BY <1>5
    <3>2. Held(num_centroids, clusters) = 0
      <4>1. \A c \in 0 .. num_centroids - 1 : clusters[c] = <<>>
        BY <2>2 DEF Cents
      <4> QED
        BY <1>5, <4>1, HeldNone
    <3>3. total' = Held(num_centroids', clusters')
      BY <1>2, <2>1, <2>2, <3>2
    <3> QED
      BY <1>2, <1>5, <2>1, <2>2, <2>3, <3>1, <3>3 DEF Building, Held
  <2> QED
    BY <1>3, <2>1, <2>4
<1>12. CASE AssignRecord
  <2>1. /\ phase = "assign" /\ phase' = "assign" /\ pos <= Len(refs) /\ pos' = pos + 1
        /\ UNCHANGED <<refs, sample, centroids, disk, loaded>>
        /\ refs[pos].long => num_centroids > 0
    BY <1>12 DEF AssignRecord
  <2>2. /\ centroids \in [Cents -> Int] /\ Assigned(refs, centroids, clusters, pos - 1)
    BY <1>1, <2>1 DEF Building
  <2>3. PICK m \in Nat : m = pos - 1 /\ m + 1 = pos /\ pos' - 1 = m + 1
    BY <1>5, <2>1
  <2>4. pos' \in 1 .. Len(refs) + 1
    BY <1>5, <2>1
  <2>0. total = Held(num_centroids, clusters)
    BY <1>1, <2>1 DEF Building
  <2>5. /\ clusters' \in [Cents -> Seq(Nat)] /\ Assigned(refs, centroids, clusters', m + 1)
        /\ total' = Held(num_centroids, clusters')
    <3>1. CASE ~ refs[pos].long
      <4>1. clusters' = clusters /\ total' = total
        BY <1>12, <3>1 DEF AssignRecord
      <4> QED
        BY <1>5, <2>0, <2>2, <2>3, <3>1, <4>1, AssignSkips
    <3>2. CASE refs[pos].long
      <4>1. PICK n \in Nat \ {0} : n = num_centroids
        BY <1>5, <2>1, <3>2
      <4>2. refs[pos] \in RefLine
        BY <1>5, <2>1
      <4>3. PICK x \in Int : x = refs[pos].x
        BY <4>2 DEF RefLine
      <4>4. centroids \in [0 .. n - 1 -> Int] /\ clusters \in [0 .. n - 1 -> Seq(Nat)] /\ Cents = 0 .. n - 1
        BY <1>5, <2>2, <4>1 DEF Cents
      <4>5. PICK c \in 0 .. n - 1 : c = Nearest(x, centroids) /\ Closest(x, centroids, c)
        BY <4>4, NearestIs
      <4>6. clusters' = [clusters EXCEPT ![c] = Append(clusters[c], m + 1)]
        BY <1>12, <2>3, <3>2, <4>3, <4>5 DEF AssignRecord
      <4>7. Append(clusters[c], m + 1) \in Seq(Nat)
        BY <4>4
      <4>8. clusters' \in [Cents -> Seq(Nat)]
        BY <4>4, <4>6, <4>7
      <4>9. Assigned(refs, centroids, [clusters EXCEPT ![c] = Append(clusters[c], m + 1)], m + 1)
        BY <2>2, <2>3, <3>2, <4>3, <4>4, <4>5, AssignAdds
      <4>10. total' = total + 1
        BY <1>12, <3>2 DEF AssignRecord
      <4>11. Held(n, [clusters EXCEPT ![c] = Append(clusters[c], m + 1)]) = Held(n, clusters) + 1
        <5>1. n \in Nat /\ m + 1 \in Nat
          BY <4>1, <2>3
        <5> QED
          BY <4>4, <5>1, HeldOneMore
      <4>12. total' = Held(num_centroids, clusters')
        BY <2>0, <4>1, <4>6, <4>10, <4>11
      <4> QED
        BY <4>6, <4>8, <4>9, <4>12
    <3> QED
      BY <3>1, <3>2
  <2>6. Building'
    <3>1. total' = Held(num_centroids', clusters')
      BY <1>2, <2>5
    <3> QED
      BY <1>2, <1>5, <2>1, <2>2, <2>3, <2>4, <2>5, <3>1 DEF Building, Held
  <2> QED
    BY <1>3, <2>1, <2>6
<1>13. CASE CreateFile
  <2>1. Building'
    BY <1>4, <1>13 DEF CreateFile
  <2>2. disk' = [img |-> ThisImage, len |-> 0] /\ loaded' = loaded
    BY <1>13 DEF CreateFile
  <2>3. OfThisRun(ThisImage)
    <3>1. phase = "assign" /\ pos - 1 = Len(refs)
      BY <1>5, <1>13 DEF CreateFile
    <3>2. /\ centroids \in [Cents -> Int] /\ Assigned(refs, centroids, clusters, Len(refs))
          /\ total = Held(num_centroids, clusters)
      BY <1>1, <3>1 DEF Building
    <3> QED
      BY <1>5, <3>2 DEF Cents, ImageOK, ThisImage, OfThisRun
  <2>4. Len(Bytes(ThisImage)) \in Nat
    BY <2>3, BytesAre DEF OfLen, OfThisRun
  <2>5. OnDisk'
    BY <1>2, <2>2, <2>3, <2>4 DEF OnDisk, OfThisRun, ImageOK, ThisImage
  <2>6. InMemory'
    BY <1>1, <1>2, <2>2 DEF InMemory, OfThisRun, ImageOK
  <2> QED
    BY <2>1, <2>5, <2>6 DEF IInv
<1>14. CASE WriteByte
  <2>1. Building'
    BY <1>4, <1>14 DEF WriteByte
  <2>2. /\ disk' = [img |-> disk.img, len |-> disk.len + 1] /\ loaded' = loaded
        /\ disk.len < Len(Bytes(disk.img)) /\ disk.len \in Nat /\ OfThisRun(disk.img)
    BY <1>1, <1>14 DEF WriteByte, OnDisk
  <2>3. Len(Bytes(disk.img)) \in Nat
    BY <2>2, BytesAre DEF OfLen, OfThisRun
  <2>4. OnDisk'
    BY <1>2, <2>2, <2>3 DEF OnDisk, OfThisRun, ImageOK
  <2>5. InMemory'
    BY <1>1, <1>2, <2>2 DEF InMemory, OfThisRun, ImageOK
  <2> QED
    BY <2>1, <2>4, <2>5 DEF IInv
<1>15. CASE IndexFlushed \/ WriteRaw
  BY <1>3, <1>4, <1>15 DEF IndexFlushed, WriteRaw
<1>16. CASE Load
  <2>1. Building'
    BY <1>4, <1>16 DEF Load
  <2>2. disk' = disk /\ phase' = phase
    BY <1>16 DEF Load
  <2>3. OnDisk'
    BY <1>1, <1>2, <2>2 DEF OnDisk, OfThisRun, ImageOK
  <2>4. CASE LoadAccepts(File)
    <3>1. loaded' = [status |-> "ok", img |-> disk.img, len |-> disk.len]
      BY <1>16, <2>4 DEF Load
    <3>2. OfThisRun(disk.img) /\ disk.len = Len(Bytes(disk.img))
      BY <1>1, <2>4, AcceptedIsWhole
    <3>3. InMemory'
      BY <1>2, <3>1, <3>2 DEF InMemory, OfThisRun, ImageOK
    <3> QED
      BY <2>1, <2>3, <3>3 DEF IInv
  <2>5. CASE ~ LoadAccepts(File)
    <3>1. loaded'.status # "ok"
      BY <1>16, <2>5 DEF Load
    <3> QED
      BY <2>1, <2>3, <3>1 DEF IInv, InMemory
  <2> QED
    BY <2>4, <2>5
<1>17. CASE UNCHANGED vars
  BY <1>3, <1>4, <1>17 DEF vars
<1> QED
  BY <1>6, <1>7, <1>8, <1>9, <1>10, <1>11, <1>12, <1>13, <1>14, <1>15, <1>16, <1>17 DEF Next

\* The disk holds the beginning of an image at any moment, and an API process that
\* has accepted the file has all of it.
THEOREM Invariance == Spec => []IInv
BY InitInv, NextInv, PTL DEF Spec

\* Whatever prefix a build that runs or was killed leaves on disk, Searcher::load
\* accepts only the whole index, for every input, number of centroids and vectors.
THEOREM TornIndexesRefused == Spec => []TornIndexRefused
<1>1. IInv => TornIndexRefused
  BY DEF IInv, InMemory, TornIndexRefused
<1> QED
  BY <1>1, Invariance, PTL

\* What load and search read of a file that is complete.
LEMMA WhatIsRead ==
    ASSUME IInv, loaded.status = "ok", NEW img, img = loaded.img
    PROVE  /\ NumVecs = Vectors(img) /\ NumCents = num_centroids
           /\ \A c \in 0 .. num_centroids : OffsetAt(c) = OffsetIn(img, c)
           /\ \A c \in 0 .. num_centroids - 1 :
                 Read(Mapped, CentOff + c * DIMS * 4, 4) = img.centroids[c]
           /\ \A v \in 0 .. Vectors(img) - 1 : \A j \in 0 .. DIMS - 1 :
                 Read(Mapped, VecOff(num_centroids) + v * DIMS + j, 1)
                    = Quantize(img.refs[VectorOrder(img)[v + 1]].x)
           /\ \A v \in 0 .. Vectors(img) - 1 :
                 Read(Mapped, LabelOff(num_centroids, Vectors(img)) + v, 1)
                    = LabelByte(img.refs[VectorOrder(img)[v + 1]])
<1>1. ImageOK(img) /\ img.num_centroids = num_centroids /\ loaded.len = Len(Bytes(img))
  BY DEF IInv, InMemory, OfThisRun
<1>2. PICK T : T = BytesOf(Values(img))
  OBVIOUS
<1>3. PICK s : s = Bytes(img)
  OBVIOUS
<1>4. PICK nc \in Nat : nc = num_centroids
  BY <1>1 DEF ImageOK
<1>5. PICK nv \in Nat : nv = Vectors(img)
  BY <1>1, OrderIs
<1>6. /\ OfLen(s, T, Needed(nc, nv)) /\ HasWord(s, 8, 8, nv) /\ HasWord(s, 16, 4, nc)
      /\ \A c \in 0 .. nc - 1 : HasWord(s, CentOff + c * DIMS * 4, 4, img.centroids[c])
      /\ \A c \in 0 .. nc : HasWord(s, OffsetOff(nc) + c * 8, 8, OffsetIn(img, c))
  BY <1>1, <1>2, <1>3, <1>4, <1>5, BytesAre
<1>7. /\ \A k \in 1 .. nv : \A j \in 0 .. DIMS - 1 :
            HasWord(s, VecOff(nc) + ((k - 1) * DIMS + j), 1, Quantize(img.refs[VectorOrder(img)[k]].x))
      /\ \A k \in 1 .. nv :
            HasWord(s, LabelOff(nc, nv) + (k - 1), 1, LabelByte(img.refs[VectorOrder(img)[k]]))
  BY <1>1, <1>3, <1>4, <1>5, BytesAre
<1>8. s \in Seq(T) /\ Len(s) = Needed(nc, nv) /\ Needed(nc, nv) \in Nat
  BY <1>6 DEF OfLen
<1>9. PICK len \in 0 .. Len(s) : len = Len(s)
  BY <1>8
<1>10. Mapped = SubSeq(s, 1, len)
  BY <1>1, <1>3, <1>9 DEF Mapped
\* Every word of the file is read back.
<1>11. ASSUME NEW off \in Nat, NEW w \in Nat \ {0}, NEW v, off + w <= Needed(nc, nv),
              HasWord(s, off, w, v)
       PROVE  Read(Mapped, off, w) = v
  <2>1. HasWord(SubSeq(s, 1, len), off, w, v)
    BY <1>8, <1>9, <1>11, WordInPrefix
  <2> QED
    BY <1>10, <1>11, <2>1, ReadWord
<1>12. /\ OffsetOff(nc) \in Nat /\ VecOff(nc) \in Nat /\ LabelOff(nc, nv) \in Nat
       /\ OffsetOff(nc) >= 32 /\ OffsetOff(nc) <= Needed(nc, nv)
       /\ \A c \in 0 .. nc : (OffsetOff(nc) + c * 8) + 8 <= Needed(nc, nv)
       /\ \A v \in 0 .. nv - 1 : LabelOff(nc, nv) + v + 1 <= Needed(nc, nv)
  BY DEF Needed, LabelOff, VecOff, OffsetOff, CentOff, DIMS
<1>13. NumVecs = nv /\ NumCents = nc
  <2>1. Read(Mapped, 8, 8) = nv
    BY <1>6, <1>8, <1>11, <1>12
  <2>2. Read(Mapped, 16, 4) = nc
    BY <1>6, <1>8, <1>11, <1>12
  <2> QED
    BY <2>1, <2>2 DEF NumVecs, NumCents
<1>14. ASSUME NEW c \in 0 .. nc PROVE OffsetAt(c) = OffsetIn(img, c)
  <2>1. PICK off \in Nat : off = OffsetOff(nc) + c * 8
    BY <1>12
  <2>2. HasWord(s, off, 8, OffsetIn(img, c))
    BY <1>6, <2>1, Zenon
  <2>3. off + 8 <= Needed(nc, nv)
    BY <1>12, <2>1
  <2>4. Read(Mapped, off, 8) = OffsetIn(img, c)
    BY <1>11, <2>2, <2>3
  <2> QED
    BY <1>13, <2>1, <2>4 DEF OffsetAt
<1>15. ASSUME NEW c \in 0 .. nc - 1 PROVE Read(Mapped, CentOff + c * DIMS * 4, 4) = img.centroids[c]
  <2>1. PICK off \in Nat : off = CentOff + c * DIMS * 4 /\ off + 4 <= OffsetOff(nc)
    BY DEF CentOff, DIMS, OffsetOff
  <2>2. HasWord(s, off, 4, img.centroids[c])
    BY <1>6, <2>1, Zenon
  <2>3. off + 4 <= Needed(nc, nv)
    <3>1. Needed(nc, nv) \in Nat /\ OffsetOff(nc) \in Nat /\ OffsetOff(nc) <= Needed(nc, nv)
      BY <1>8, <1>12
    <3> QED
      BY <2>1, <3>1
  <2>4. Read(Mapped, off, 4) = img.centroids[c]
    BY <1>11, <2>2, <2>3
  <2> QED
    BY <2>1, <2>4
<1>16. ASSUME NEW v \in 0 .. nv - 1, NEW j \in 0 .. DIMS - 1
       PROVE  Read(Mapped, VecOff(nc) + v * DIMS + j, 1) = Quantize(img.refs[VectorOrder(img)[v + 1]].x)
  <2>1. v + 1 \in 1 .. nv /\ (v + 1) - 1 = v
    OBVIOUS
  <2>2. PICK q : q = Quantize(img.refs[VectorOrder(img)[v + 1]].x)
    OBVIOUS
  <2>3. HasWord(s, VecOff(nc) + (v * DIMS + j), 1, q)
    BY <1>7, <2>1, <2>2
  <2>4. PICK off \in Nat : /\ off = VecOff(nc) + (v * DIMS + j)
                           /\ off = VecOff(nc) + v * DIMS + j
                           /\ off + 1 <= LabelOff(nc, nv)
    <3>1. PICK a \in Nat : a = VecOff(nc) /\ LabelOff(nc, nv) = a + nv * 14
      BY <1>12 DEF DIMS, LabelOff
    <3>2. v * 14 + j \in Nat /\ v * 14 + j + 1 <= nv * 14
      BY DEF DIMS
    <3>3. /\ a + (v * 14 + j) \in Nat /\ a + (v * 14 + j) = a + v * 14 + j
          /\ (a + (v * 14 + j)) + 1 <= a + nv * 14
      BY <3>2 DEF DIMS
    <3> QED
      BY <3>1, <3>3 DEF DIMS
  <2>5. off + 1 <= Needed(nc, nv)
    BY <2>4, <1>12 DEF Needed
  <2>6. Read(Mapped, off, 1) = q
    BY <1>11, <2>3, <2>4, <2>5
  <2> QED
    BY <2>2, <2>4, <2>6
<1>17. ASSUME NEW v \in 0 .. nv - 1
       PROVE  Read(Mapped, LabelOff(nc, nv) + v, 1) = LabelByte(img.refs[VectorOrder(img)[v + 1]])
  <2>1. v + 1 \in 1 .. nv /\ (v + 1) - 1 = v
    OBVIOUS
  <2>2. PICK q : q = LabelByte(img.refs[VectorOrder(img)[v + 1]])
    OBVIOUS
  <2>3. HasWord(s, LabelOff(nc, nv) + v, 1, q)
    BY <1>7, <2>1, <2>2
  <2>4. PICK off \in Nat : off = LabelOff(nc, nv) + v /\ off + 1 <= Needed(nc, nv)
    BY <1>12
  <2>5. Read(Mapped, off, 1) = q
    BY <1>11, <2>3, <2>4
  <2> QED
    BY <2>2, <2>4, <2>5
<1> QED
  BY <1>4, <1>5, <1>13, <1>14, <1>15, <1>16, <1>17

\* The numbers search takes from a complete image.
LEMMA InvImpliesUsable == IInv => OffsetsAreUsable
<1> SUFFICES ASSUME IInv, loaded.status = "ok" PROVE OffsetsAreUsable
  BY DEF OffsetsAreUsable
<1>1. PICK img : img = loaded.img
  OBVIOUS
<1>2. ImageOK(img) /\ img.num_centroids = num_centroids
  BY <1>1 DEF IInv, InMemory, OfThisRun
<1>3. PICK nc \in Nat : nc = num_centroids
  BY <1>2 DEF ImageOK
<1>4. /\ NumVecs = Vectors(img) /\ NumCents = nc
      /\ \A c \in 0 .. nc : OffsetAt(c) = OffsetIn(img, c)
  BY <1>1, <1>3, WhatIsRead
<1>5. /\ OffsetIn(img, 0) = 0 /\ OffsetIn(img, nc) = Vectors(img)
      /\ \A c \in 0 .. nc : OffsetIn(img, c) \in Nat
      /\ \A c \in 0 .. nc - 1 : OffsetIn(img, c + 1) = OffsetIn(img, c) + Len(img.clusters[c])
  BY <1>2, <1>3, OrderIs
<1>6. ASSUME NEW c \in 0 .. nc - 1 PROVE OffsetAt(c) <= OffsetAt(c + 1)
  <2>1. c \in 0 .. nc /\ c + 1 \in 0 .. nc
    OBVIOUS
  <2>2. img.clusters[c] \in Seq(Nat)
    BY <1>2, <1>3 DEF ImageOK
  <2>3. OffsetIn(img, c) \in Nat /\ Len(img.clusters[c]) \in Nat
    BY <1>5, <2>1, <2>2
  <2> QED
    BY <1>4, <1>5, <2>1, <2>3
<1>7. 0 \in 0 .. nc /\ nc \in 0 .. nc
  OBVIOUS
<1> QED
  BY <1>3, <1>4, <1>5, <1>6, <1>7 DEF OffsetsAreUsable

\* Every index load accepts has the offset table search relies on (the assumption of
\* IvfSearch): 0 first, never decreasing, num_vecs last.
THEOREM AcceptedIndexIsUsable == Spec => []OffsetsAreUsable
BY Invariance, InvImpliesUsable, PTL

\* The records write_index writes a vector for.
Longs(in) == {k \in 1 .. Len(in) : in[k].long}

\* Each long vector has one position in the order of the clusters.
LEMMA OnePlaceEach ==
    ASSUME NEW img, ImageOK(img), NEW in, NEW cs, Assigned(in, cs, img.clusters, Len(in))
    PROVE  /\ \A v \in 1 .. Vectors(img) : VectorOrder(img)[v] \in Longs(in)
           /\ \A v, w \in 1 .. Vectors(img) : VectorOrder(img)[v] = VectorOrder(img)[w] => v = w
           /\ \A k \in Longs(in) : \E c \in 0 .. img.num_centroids - 1 :
                 /\ Closest(in[k].x, cs, c)
                 /\ \E v \in 1 .. Vectors(img) :
                       /\ VectorOrder(img)[v] = k
                       /\ OffsetIn(img, c) < v /\ v <= OffsetIn(img, c + 1)
<1>1. PICK n \in Nat : n = img.num_centroids
  BY DEF ImageOK
<1>2. PICK cl \in [0 .. n - 1 -> Seq(Nat)] : cl = img.clusters /\ DOMAIN cl = 0 .. n - 1
  BY <1>1 DEF ImageOK
<1>3. PICK order : order = VectorOrder(img)
  OBVIOUS
<1>4. PICK nv \in Nat : nv = Vectors(img)
  BY OrderIs
<1>5. \A c \in 0 .. n - 1 : Len(cl[c]) \in Nat
  OBVIOUS
<1>6. /\ \A c \in 0 .. n : OffsetIn(img, c) \in Nat
      /\ \A c \in 0 .. n - 1 : /\ OffsetIn(img, c + 1) = OffsetIn(img, c) + Len(cl[c])
                               /\ OffsetIn(img, c + 1) <= nv
                               /\ \A j \in 1 .. Len(cl[c]) : order[OffsetIn(img, c) + j] = cl[c][j]
  <2>1. /\ \A c \in 0 .. img.num_centroids : OffsetIn(img, c) \in Nat
        /\ \A c \in 0 .. img.num_centroids - 1 :
              /\ OffsetIn(img, c + 1) = OffsetIn(img, c) + Len(img.clusters[c])
              /\ OffsetIn(img, c + 1) <= Vectors(img)
              /\ \A j \in 1 .. Len(img.clusters[c]) :
                    VectorOrder(img)[OffsetIn(img, c) + j] = img.clusters[c][j]
    BY OrderIs, Zenon
  <2> QED
    BY <1>1, <1>2, <1>3, <1>4, <2>1, Zenon
<1>7. \A v \in 1 .. nv : \E c \in 0 .. n - 1 : \E j \in 1 .. Len(cl[c]) : v = OffsetIn(img, c) + j
  BY <1>1, <1>2, <1>4, EveryPlaceInACluster
<1>8. /\ \A c \in 0 .. n - 1 : \A j \in 1 .. Len(cl[c]) :
            cl[c][j] \in Longs(in) /\ Closest(in[cl[c][j]].x, cs, c)
      /\ \A k \in Longs(in) : \E c \in 0 .. n - 1 : \E j \in 1 .. Len(cl[c]) : cl[c][j] = k
      /\ \A c, d \in 0 .. n - 1 : \A i \in 1 .. Len(cl[c]) : \A j \in 1 .. Len(cl[d]) :
            cl[c][i] = cl[d][j] => c = d /\ i = j
  <2>1. Assigned(in, cs, cl, Len(in))
    BY <1>2
  <2>2. \A c \in 0 .. n - 1 : \A j \in 1 .. Len(cl[c]) :
           cl[c][j] \in Longs(in) /\ Closest(in[cl[c][j]].x, cs, c)
    BY <1>2, <2>1, Zenon DEF Assigned, Longs
  <2>3. ASSUME NEW k \in Longs(in)
        PROVE  \E c \in 0 .. n - 1 : \E j \in 1 .. Len(cl[c]) : cl[c][j] = k
    <3>1. k \in 1 .. Len(in) /\ in[k].long
      BY DEF Longs
    <3>2. \A i \in 1 .. Len(in) : in[i].long =>
             \E c \in DOMAIN cl : \E j \in 1 .. Len(cl[c]) : cl[c][j] = i
      BY <2>1, Zenon DEF Assigned
    <3>3. \E c \in DOMAIN cl : \E j \in 1 .. Len(cl[c]) : cl[c][j] = k
      BY <3>1, <3>2, Zenon
    <3> QED
      BY <1>2, <3>3
  <2>4. \A c, d \in 0 .. n - 1 : \A i \in 1 .. Len(cl[c]) : \A j \in 1 .. Len(cl[d]) :
           cl[c][i] = cl[d][j] => c = d /\ i = j
    BY <1>2, <2>1, Zenon DEF Assigned
  <2> QED
    BY <2>2, <2>3, <2>4, Zenon
<1>9. ASSUME NEW v \in 1 .. nv PROVE order[v] \in Longs(in)
  <2>1. PICK c \in 0 .. n - 1, j \in Nat : j \in 1 .. Len(cl[c]) /\ v = OffsetIn(img, c) + j
    BY <1>7
  <2>2. order[v] = cl[c][j]
    BY <1>6, <2>1
  <2>3. cl[c][j] \in Longs(in)
    BY <1>8, <2>1, Zenon
  <2> QED
    BY <2>2, <2>3
<1>10. ASSUME NEW v \in 1 .. nv, NEW w \in 1 .. nv, order[v] = order[w] PROVE v = w
  <2>1. PICK c \in 0 .. n - 1, i \in Nat : i \in 1 .. Len(cl[c]) /\ v = OffsetIn(img, c) + i
    BY <1>7
  <2>2. PICK d \in 0 .. n - 1, j \in Nat : j \in 1 .. Len(cl[d]) /\ w = OffsetIn(img, d) + j
    BY <1>7
  <2>3. cl[c][i] = cl[d][j]
    BY <1>6, <1>10, <2>1, <2>2
  <2>4. c = d /\ i = j
    BY <1>8, <2>1, <2>2, <2>3
  <2> QED
    BY <2>1, <2>2, <2>4
<1>11. ASSUME NEW k \in Longs(in)
       PROVE  \E c \in 0 .. n - 1 :
                 /\ Closest(in[k].x, cs, c)
                 /\ \E v \in 1 .. nv : /\ order[v] = k
                                      /\ OffsetIn(img, c) < v /\ v <= OffsetIn(img, c + 1)
  <2>1. PICK c \in 0 .. n - 1, j \in Nat : j \in 1 .. Len(cl[c]) /\ cl[c][j] = k
    BY <1>8
  <2>2. PICK a \in Nat : a = OffsetIn(img, c)
    <3>1. c \in 0 .. n
      OBVIOUS
    <3> QED
      BY <1>6, <3>1, Zenon
  <2>3. PICK b \in Nat : b = OffsetIn(img, c + 1) /\ b = a + Len(cl[c]) /\ b <= nv
    <3>1. OffsetIn(img, c + 1) = a + Len(cl[c]) /\ OffsetIn(img, c + 1) <= nv
      BY <1>6, <2>2
    <3> QED
      BY <1>5, <3>1
  <2>4. PICK v \in 1 .. nv : v = a + j /\ a < v /\ v <= b
    BY <1>5, <2>1, <2>3
  <2>5. order[v] = k
    BY <1>6, <2>1, <2>2, <2>4
  <2>6. Closest(in[k].x, cs, c)
    BY <1>8, <2>1
  <2> QED
    BY <2>2, <2>3, <2>4, <2>5, <2>6
<1> QED
  BY <1>1, <1>3, <1>4, <1>9, <1>10, <1>11

\* An accepted file has every vector of the input where search looks for it.
LEMMA InvImpliesFindable == IInv => EveryVectorFindable
<1> SUFFICES ASSUME IInv, loaded.status = "ok" PROVE EveryVectorFindable
  BY DEF EveryVectorFindable
<1>1. PICK img : img = loaded.img
  OBVIOUS
<1> DEFINE in == loaded.img.refs
           longs == {k \in 1 .. Len(in) : in[k].long}
<1>2. in = img.refs
  BY <1>1
<1>3. PICK cs : cs = img.centroids
  OBVIOUS
<1>4. PICK order : order = VectorOrder(img)
  OBVIOUS
<1>5. /\ ImageOK(img) /\ img.num_centroids = num_centroids
      /\ cs \in [0 .. num_centroids - 1 -> Int]
      /\ Assigned(in, cs, img.clusters, Len(in))
  BY <1>1, <1>2, <1>3 DEF IInv, InMemory, OfThisRun
<1>6. PICK nv \in Nat : nv = Vectors(img)
  BY <1>5, OrderIs
<1>7. PICK nc \in Nat : nc = num_centroids
  BY <1>5 DEF ImageOK
<1>8. longs = Longs(in)
  BY DEF Longs
<1> HIDE DEF in, longs
<1>9. /\ \A v \in 1 .. nv : order[v] \in longs
      /\ \A v, w \in 1 .. nv : order[v] = order[w] => v = w
      /\ \A k \in longs : \E c \in 0 .. nc - 1 :
            /\ Closest(in[k].x, cs, c)
            /\ \E v \in 1 .. nv : /\ order[v] = k
                                 /\ OffsetIn(img, c) < v /\ v <= OffsetIn(img, c + 1)
  <2>1. /\ \A v \in 1 .. Vectors(img) : VectorOrder(img)[v] \in Longs(in)
        /\ \A v, w \in 1 .. Vectors(img) : VectorOrder(img)[v] = VectorOrder(img)[w] => v = w
        /\ \A k \in Longs(in) : \E c \in 0 .. img.num_centroids - 1 :
              /\ Closest(in[k].x, cs, c)
              /\ \E v \in 1 .. Vectors(img) :
                    /\ VectorOrder(img)[v] = k
                    /\ OffsetIn(img, c) < v /\ v <= OffsetIn(img, c + 1)
    BY <1>5, OnePlaceEach, Zenon
  <2> QED
    BY <1>4, <1>5, <1>6, <1>7, <1>8, <2>1, Zenon
<1>10. /\ NumVecs = nv /\ NumCents = nc
       /\ \A c \in 0 .. nc : OffsetAt(c) = OffsetIn(img, c)
       /\ \A c \in 0 .. nc - 1 : Read(Mapped, CentOff + c * DIMS * 4, 4) = cs[c]
  BY <1>1, <1>3, <1>6, <1>7, WhatIsRead
<1>11. /\ \A v \in 0 .. nv - 1 : \A j \in 0 .. DIMS - 1 :
             Read(Mapped, VecOff(nc) + v * DIMS + j, 1) = Quantize(in[order[v + 1]].x)
       /\ \A v \in 0 .. nv - 1 :
             Read(Mapped, LabelOff(nc, nv) + v, 1) = LabelByte(in[order[v + 1]])
  BY <1>1, <1>2, <1>4, <1>6, <1>7, WhatIsRead
<1>12. \A c \in 0 .. nc : OffsetIn(img, c) \in Nat
  BY <1>5, <1>7, OrderIs
\* The position of each vector.
<1> DEFINE place == [k \in longs |-> CHOOSE v \in 0 .. nv - 1 : order[v + 1] = k]
<1>13. ASSUME NEW k \in longs PROVE place[k] \in 0 .. nv - 1 /\ order[place[k] + 1] = k
  <2>1. PICK v \in 1 .. nv : order[v] = k
    BY <1>9
  <2>2. v - 1 \in 0 .. nv - 1 /\ order[(v - 1) + 1] = k
    BY <2>1
  <2>3. \E u \in 0 .. nv - 1 : order[u + 1] = k
    BY <2>2
  <2> QED
    BY <2>3
<1>14. place = [k \in longs |-> place[k]]
  OBVIOUS
<1> HIDE DEF place
<1>15. place \in Bijection(longs, 0 .. NumVecs - 1)
  <2>1. place \in [longs -> 0 .. nv - 1]
    BY <1>13, <1>14
  <2>2. \A k, l \in longs : place[k] = place[l] => k = l
    BY <1>13
  <2>3. ASSUME NEW v \in 0 .. nv - 1 PROVE \E k \in longs : place[k] = v
    <3>1. v + 1 \in 1 .. nv /\ order[v + 1] \in longs
      BY <1>9
    <3>2. PICK u \in 0 .. nv - 1 : u = place[order[v + 1]] /\ order[u + 1] = order[v + 1]
      BY <1>13, <3>1
    <3>3. u + 1 = v + 1
      BY <1>9, <3>1, <3>2
    <3> QED
      BY <3>1, <3>2, <3>3
  <2>4. DOMAIN place = longs
    BY <2>1
  <2>5. IsInjective(place)
    BY <2>2, <2>4 DEF IsInjective
  <2> QED
    BY <1>10, <2>1, <2>3, <2>5 DEF Bijection, Injection, Surjection
<1>16. ASSUME NEW k \in longs
       PROVE  \E c \in 0 .. nc - 1 :
                 /\ OffsetAt(c) <= place[k] /\ place[k] < OffsetAt(c + 1)
                 /\ \A d \in 0 .. nc - 1 :
                       SqDist(in[k].x, Read(Mapped, CentOff + c * DIMS * 4, 4))
                          <= SqDist(in[k].x, Read(Mapped, CentOff + d * DIMS * 4, 4))
  <2>1. PICK c \in 0 .. nc - 1 :
           /\ Closest(in[k].x, cs, c)
           /\ \E v \in 1 .. nv : order[v] = k /\ OffsetIn(img, c) < v /\ v <= OffsetIn(img, c + 1)
    BY <1>9
  <2>2. PICK v \in 1 .. nv : order[v] = k /\ OffsetIn(img, c) < v /\ v <= OffsetIn(img, c + 1)
    BY <2>1
  <2>3. PICK u \in 0 .. nv - 1 : u = place[k] /\ order[u + 1] = k /\ u + 1 \in 1 .. nv
    BY <1>13
  <2>4. u + 1 = v
    BY <1>9, <2>2, <2>3
  <2>5. c \in 0 .. nc /\ c + 1 \in 0 .. nc
    OBVIOUS
  <2>6. OffsetAt(c) <= place[k] /\ place[k] < OffsetAt(c + 1)
    BY <1>10, <1>12, <2>2, <2>3, <2>4, <2>5
  <2>7. \A d \in 0 .. nc - 1 : SqDist(in[k].x, cs[c]) <= SqDist(in[k].x, cs[d])
    BY <1>5, <1>7, <2>1 DEF Closest
  <2> QED
    BY <1>10, <2>6, <2>7
<1>17. ASSUME NEW k \in longs
       PROVE  /\ \A j \in 0 .. DIMS - 1 : Read(Mapped, VecOff(nc) + place[k] * DIMS + j, 1) = Quantize(in[k].x)
              /\ Read(Mapped, LabelOff(nc, nv) + place[k], 1) = (IF in[k].label = "fraud" THEN 1 ELSE 0)
  <2>1. PICK v \in 0 .. nv - 1 : v = place[k] /\ order[v + 1] = k
    BY <1>13
  <2>2. \A j \in 0 .. DIMS - 1 : Read(Mapped, VecOff(nc) + v * DIMS + j, 1) = Quantize(in[k].x)
    BY <1>11, <2>1
  <2>3. Read(Mapped, LabelOff(nc, nv) + v, 1) = LabelByte(in[k])
    BY <1>11, <2>1
  <2> QED
    BY <2>1, <2>2, <2>3 DEF LabelByte
<1>18. \E p \in Bijection(longs, 0 .. NumVecs - 1) : \A k \in longs :
          /\ /\ \A j \in 0 .. DIMS - 1 :
                   Read(Mapped, VecOff(NumCents) + p[k] * DIMS + j, 1) = Quantize(in[k].x)
             /\ Read(Mapped, LabelOff(NumCents, NumVecs) + p[k], 1)
                   = (IF in[k].label = "fraud" THEN 1 ELSE 0)
          /\ \E c \in Cents :
                /\ OffsetAt(c) <= p[k] /\ p[k] < OffsetAt(c + 1)
                /\ \A d \in Cents :
                      SqDist(in[k].x, Read(Mapped, CentOff + c * DIMS * 4, 4))
                         <= SqDist(in[k].x, Read(Mapped, CentOff + d * DIMS * 4, 4))
  <2>1. NumCents = nc /\ NumVecs = nv /\ Cents = 0 .. nc - 1
    BY <1>7, <1>10 DEF Cents
  <2> QED
    BY <1>15, <1>16, <1>17, <2>1, Zenon
<1> QED
  BY <1>18, Zenon DEF EveryVectorFindable, in, longs

\* For every input, number of centroids and iterations: read through the layout of load,
\* an accepted index has each reference vector once, in the cluster of a nearest
\* centroid, with its own 14 bytes and its own label.
THEOREM AcceptedIndexHasEveryVector == Spec => []EveryVectorFindable
BY Invariance, InvImpliesFindable, PTL
=============================================================================
