--------------------------- MODULE ClassifyProofs ---------------------------
(***************************************************************************)
(* Theorems about classify_mismatches: its brute force finds the nearest   *)
(* references, its ranks tell what was probed and the causes it files are  *)
(* the causes, for every corpus, query and K.                              *)
(***************************************************************************)
EXTENDS Classify, SequenceLemmas

----------------------------------------------------------------------------
(* What the brute force keeps                                              *)

Candidate(m) == [vi : 1 .. m, d : Int, is_fraud : BOOLEAN]
TrueDist(v) == SqDist(query, refs[v].x)

\* S has the nearest of the first m references, with their own distances and labels:
\* one that is left out is no nearer than any that is in, and none of K is left out.
NearestAmong(S, m) ==
    /\ S \subseteq Candidate(m)
    /\ \A c \in S : c.d = TrueDist(c.vi) /\ c.is_fraud = refs[c.vi].is_fraud
    /\ \A v \in 1 .. m : \/ \E c \in S : c.vi = v
                         \/ m > K /\ \A c \in S : c.d <= TrueDist(v)

\* After the first m references best holds as many as there is room for.
Kept(m) ==
    /\ best \in Seq(Candidate(m))
    /\ Len(best) = IF m < K THEN m ELSE K
    /\ \A n, o \in DOMAIN best : n # o => best[n] # best[o]
    /\ NearestAmong(Range(best), m)

\* best[0] is the farthest as soon as it may be replaced.
FirstIsFarthest ==
    Len(best) = K => \A n \in DOMAIN best : best[n].d <= best[1].d

NearestFirst ==
    \A n, o \in DOMAIN best : n < o => best[n].d <= best[o].d

FilesOK ==
    /\ data \in Data
    /\ lines \in Seq(Mismatch) /\ mismatches \in Seq(Mismatch)
    /\ refs \in Seq(RefLine)
    /\ i \in Nat \ {0} /\ idx \in Nat \ {0}

Brute ==
    pc = "brute" => /\ i <= Len(mismatches) /\ idx <= Len(refs) + 1
                    /\ Kept(idx - 1)
                    /\ FirstIsFarthest

Classified ==
    pc = "classify" => /\ i <= Len(mismatches)
                       /\ Kept(Len(refs))
                       /\ NearestFirst

IInv == FilesOK /\ Brute /\ Classified

----------------------------------------------------------------------------
(* Sorting                                                                 *)

\* t has all elements of S, each once, the smaller key first.
Arranged(t, S, key) ==
    /\ t \in Seq(S) /\ Len(t) = Cardinality(S) /\ DOMAIN t = 1 .. Len(t)
    /\ \A a, b \in DOMAIN t : a # b => t[a] # t[b]
    /\ \A s \in S : \E a \in DOMAIN t : t[a] = s
    /\ \A a, b \in DOMAIN t : a < b => key[t[a]] <= key[t[b]]

\* A sorted order of a finite set is a sequence of all its elements, each once.
LEMMA SortedSeq ==
    ASSUME NEW S, IsFiniteSet(S), NEW key, NEW t \in SortedBy(S, key)
    PROVE  Arranged(t, S, key)
<1> DEFINE D == 1 .. Cardinality(S)
<1>1. Cardinality(S) \in Nat
  BY FS_CardinalityType
<1>2. /\ t \in [D -> S]
      /\ \A a, b \in D : a # b => t[a] # t[b]
      /\ \A a, b \in DOMAIN t : a < b => key[t[a]] <= key[t[b]]
  BY DEF SortedBy, SetToSeqs
<1>3. IsFiniteSet(D) /\ Cardinality(D) = Cardinality(S)
  BY <1>1, FS_Interval
<1>4. t \in Injection(D, S)
  BY <1>2 DEF Injection, IsInjective
<1>5. t \in Surjection(D, S)
  BY <1>3, <1>4, FS_Injection
<1>6. \A s \in S : \E a \in D : t[a] = s
  BY <1>5 DEF Surjection
<1>7. t \in Seq(S) /\ Len(t) = Cardinality(S)
  BY <1>1, <1>2
<1>8. /\ DOMAIN t = 1 .. Len(t)
      /\ \A a, b \in DOMAIN t : a # b => t[a] # t[b]
      /\ \A s \in S : \E a \in DOMAIN t : t[a] = s
  BY <1>1, <1>2, <1>6, <1>7
<1> QED
  BY <1>2, <1>7, <1>8, Zenon DEF Arranged

\* The elements of a sequence without repetitions are as many as it is long.
LEMMA RangeSize ==
    ASSUME NEW S, NEW s \in Seq(S), \A a, b \in DOMAIN s : a # b => s[a] # s[b]
    PROVE  IsFiniteSet(Range(s)) /\ Cardinality(Range(s)) = Len(s)
<1> DEFINE D == 1 .. Len(s)
<1>1. Len(s) \in Nat /\ DOMAIN s = D
  OBVIOUS
<1>2. IsFiniteSet(D) /\ Cardinality(D) = Len(s)
  BY <1>1, FS_Interval
<1>3. s \in [D -> Range(s)]
  BY <1>1 DEF Range
<1>4. \A r \in Range(s) : \E a \in D : s[a] = r
  BY <1>1 DEF Range
<1>5. s \in Bijection(D, Range(s))
  BY <1>1, <1>3, <1>4 DEF Bijection, Injection, Surjection, IsInjective
<1>6. ExistsBijection(D, Range(s))
  BY <1>5 DEF ExistsBijection
<1> QED
  BY <1>2, <1>6, FS_Bijection

\* A candidate is determined by its reference.
LEMMA OnePerReference ==
    ASSUME NEW m \in Nat, NEW S, NearestAmong(S, m), NEW c \in S, NEW o \in S, c.vi = o.vi
    PROVE  c = o
<1>1. c \in Candidate(m) /\ o \in Candidate(m) /\ c.d = o.d /\ c.is_fraud = o.is_fraud
  BY DEF NearestAmong
<1> QED
  BY <1>1 DEF Candidate

----------------------------------------------------------------------------
(* The invariant                                                           *)

\* Before a file is read there is no candidate.
LEMMA InitInv == Init => IInv
<1> SUFFICES ASSUME Init PROVE IInv
  OBVIOUS
<1>1. FilesOK
  BY ClassifyAssumption DEF Init, FilesOK
<1> QED
  BY <1>1 DEF Init, IInv, Brute, Classified

\* The distances the brute force compares are numbers.
LEMMA DistancesAreInts ==
    ASSUME FilesOK, i <= Len(mismatches)
    PROVE  /\ query \in Int
           /\ \A v \in 1 .. Len(refs) : TrueDist(v) \in Int /\ refs[v].is_fraud \in BOOLEAN
<1>1. query \in Int
  <2>1. i \in 1 .. Len(mismatches) /\ mismatches \in Seq(Mismatch)
    BY DEF FilesOK
  <2>2. mismatches[i] \in Mismatch
    BY <2>1
  <2> QED
    BY <2>2 DEF query, Mismatch
<1>2. ASSUME NEW v \in 1 .. Len(refs) PROVE refs[v].x \in Int /\ refs[v].is_fraud \in BOOLEAN
  <2>1. refs[v] \in RefLine
    BY <1>2 DEF FilesOK
  <2> QED
    BY <2>1 DEF RefLine
<1>3. \A a, b \in Int : SqDist(a, b) \in Int
  BY DEF SqDist
<1> QED
  BY <1>1, <1>2, <1>3 DEF TrueDist


\* One reference of the brute force.
LEMMA BruteForceInv ==
    ASSUME IInv, BruteForceStep
    PROVE  IInv'
<1> DEFINE m == idx - 1
           new == [vi |-> idx, d |-> SqDist(query, refs[idx].x), is_fraud |-> refs[idx].is_fraud]
           R == Range(best)
           More == R \cup {new}
           Other == (R \ {best[1]}) \cup {new}
<1>1. FilesOK /\ pc = "brute" /\ i <= Len(mismatches) /\ idx \in 1 .. Len(refs) /\ m \in Nat
  BY DEF IInv, Brute, BruteForceStep, FilesOK
<1>2. /\ pc' = pc /\ i' = i /\ idx' = idx + 1
      /\ data' = data /\ lines' = lines /\ mismatches' = mismatches /\ refs' = refs
  BY DEF BruteForceStep, files
<1>3. Kept(m) /\ FirstIsFarthest
  BY <1>1 DEF IInv, Brute
<1>4. K \in Nat \ {0}
  BY ClassifyAssumption
<1>5. \A v \in 1 .. Len(refs) : TrueDist(v) \in Int /\ refs[v].is_fraud \in BOOLEAN
  BY <1>1, DistancesAreInts
<1>6. /\ new \in Candidate(idx) /\ new.vi = idx
      /\ new.d = TrueDist(idx) /\ new.is_fraud = refs[idx].is_fraud
  BY <1>1, <1>5 DEF Candidate, TrueDist
<1>7. Candidate(m) \subseteq Candidate(idx)
  BY <1>1 DEF Candidate
<1>8. /\ best \in Seq(Candidate(m)) /\ Len(best) = (IF m < K THEN m ELSE K)
      /\ \A n, o \in DOMAIN best : n # o => best[n] # best[o]
      /\ NearestAmong(R, m)
  BY <1>3 DEF Kept
<1>9. IsFiniteSet(R) /\ Cardinality(R) = Len(best)
  BY <1>8, RangeSize
<1>10. new \notin R
  BY <1>1, <1>6, <1>8 DEF NearestAmong, Candidate
<1>11. NearestAmong(More, idx) \/ idx > K
  BY <1>1, <1>4, <1>5, <1>6, <1>7, <1>8 DEF NearestAmong
<1>12. FilesOK'
  BY <1>1, <1>2 DEF FilesOK
\* It suffices that the list after the step has the nearest of one reference more.
<1>13. ASSUME best' \in Seq(Candidate(idx)), Len(best') = (IF idx < K THEN idx ELSE K),
              \A n, o \in DOMAIN best' : n # o => best'[n] # best'[o],
              NearestAmong(Range(best'), idx), FirstIsFarthest'
       PROVE  IInv'
  <2>1. NearestAmong(Range(best), idx - 1)'
    BY <1>1, <1>2, <1>13 DEF NearestAmong, TrueDist, query
  <2>2. Kept(idx - 1)'
    BY <1>1, <1>2, <1>13, <2>1 DEF Kept
  <2> QED
    BY <1>1, <1>2, <1>12, <1>13, <2>2 DEF IInv, Brute, Classified
\* There is room.
<1>14. CASE Len(best) < K - 1 /\ best' = Append(best, new)
  <2>1. idx < K /\ Len(best) = m
    BY <1>1, <1>4, <1>8, <1>14
  <2>2. best \in Seq(Candidate(idx))
    BY <1>7, <1>8
  <2>3. best' \in Seq(Candidate(idx)) /\ Len(best') = idx
    BY <1>1, <1>6, <1>14, <2>1, <2>2
  <2>4. Range(best') = More
    BY <1>6, <1>14, <2>2 DEF Range
  <2>5. \A n, o \in DOMAIN best' : n # o => best'[n] # best'[o]
    BY <1>8, <1>10, <1>14, <2>2 DEF Range
  <2>6. FirstIsFarthest'
    BY <1>4, <2>1, <2>3 DEF FirstIsFarthest
  <2> QED
    BY <1>1, <1>4, <1>11, <1>13, <2>1, <2>3, <2>4, <2>5, <2>6
\* A full list, sorted anew.
<1>15. ASSUME NEW S, NearestAmong(S, idx), IsFiniteSet(S), Cardinality(S) = K, idx >= K,
              best' \in SortedBy(S, FarthestFirst(S))
       PROVE  IInv'
  <2>1. /\ best' \in Seq(S) /\ Len(best') = K /\ DOMAIN best' = 1 .. K
        /\ \A n, o \in DOMAIN best' : n # o => best'[n] # best'[o]
        /\ \A c \in S : \E n \in DOMAIN best' : best'[n] = c
        /\ \A n, o \in DOMAIN best' :
              n < o => FarthestFirst(S)[best'[n]] <= FarthestFirst(S)[best'[o]]
    <3>1. Arranged(best', S, FarthestFirst(S))
      BY <1>15, SortedSeq
    <3> QED
      BY <1>15, <3>1 DEF Arranged
  <2>2. Range(best') = S
    BY <1>4, <2>1 DEF Range
  <2>3. S \subseteq Candidate(idx)
    BY <1>15 DEF NearestAmong
  <2>4. best' \in Seq(Candidate(idx))
    BY <2>1, <2>3
  <2>5. ASSUME NEW n \in DOMAIN best' PROVE best'[n].d <= best'[1].d
    <3>1. best'[1] \in S /\ best'[n] \in S
      BY <1>4, <2>1, <2>5
    <3>2. best'[1].d \in Int /\ best'[n].d \in Int
      BY <2>3, <3>1 DEF Candidate
    <3>3. FarthestFirst(S)[best'[1]] = -best'[1].d /\ FarthestFirst(S)[best'[n]] = -best'[n].d
      BY <3>1 DEF FarthestFirst
    <3>4. n = 1 \/ -best'[1].d <= -best'[n].d
      BY <1>4, <2>1, <2>5, <3>3
    <3> QED
      BY <3>2, <3>4
  <2>6. FirstIsFarthest'
    BY <2>5 DEF FirstIsFarthest
  <2> QED
    BY <1>1, <1>4, <1>13, <1>15, <2>1, <2>2, <2>4, <2>6
\* The last free place.
<1>16. CASE Len(best) = K - 1 /\ best' \in SortedBy(More, FarthestFirst(More))
  <2>1. idx = K
    BY <1>1, <1>4, <1>8, <1>16
  <2>2. IsFiniteSet(More) /\ Cardinality(More) = K
    <3>1. /\ IsFiniteSet(More)
          /\ Cardinality(More) = IF new \in R THEN Cardinality(R) ELSE Cardinality(R) + 1
      BY <1>9, FS_AddElement
    <3> HIDE DEF new, R, More
    <3> QED
      BY <1>4, <1>9, <1>10, <1>16, <3>1
  <2> QED
    BY <1>4, <1>11, <1>15, <1>16, <2>1, <2>2
\* A nearer reference takes the place of the farthest.
<1>17. CASE Len(best) = K /\ new.d < best[1].d /\ best' \in SortedBy(Other, FarthestFirst(Other))
  <2>1. idx > K /\ 1 \in DOMAIN best
    BY <1>1, <1>4, <1>8, <1>17
  <2>2. best[1] \in R
    BY <2>1 DEF Range
  <2>3. IsFiniteSet(R \ {best[1]}) /\ Cardinality(R \ {best[1]}) = K - 1
    BY <1>4, <1>9, <1>17, <2>2, FS_RemoveElement
  <2>4. new \notin R \ {best[1]}
    BY <1>10
  <2>5. IsFiniteSet(Other) /\ Cardinality(Other) = K
    <3> DEFINE Q == R \ {best[1]}
    <3>1. /\ IsFiniteSet(Other)
          /\ Cardinality(Other) = IF new \in Q THEN Cardinality(Q) ELSE Cardinality(Q) + 1
      BY <2>3, FS_AddElement
    <3>2. new \notin Q /\ Cardinality(Q) = K - 1
      BY <2>3, <2>4
    <3> HIDE DEF new, Q, Other
    <3> QED
      BY <1>4, <3>1, <3>2
  <2>6. \A c \in R : c \in Candidate(m) /\ c.d \in Int /\ c.d <= best[1].d
    BY <1>3, <1>8, <1>17 DEF NearestAmong, Candidate, FirstIsFarthest, Range
  <2>7. new.d \in Int
    BY <1>6 DEF Candidate
  <2>8. \A c \in Other : c.d \in Int /\ c.d <= best[1].d
    BY <1>17, <2>2, <2>6, <2>7
  <2>9. /\ Other \subseteq Candidate(idx)
        /\ \A c \in Other : c.d = TrueDist(c.vi) /\ c.is_fraud = refs[c.vi].is_fraud
    BY <1>6, <1>7, <1>8 DEF NearestAmong
  <2>10. ASSUME NEW v \in 1 .. idx
         PROVE  (\E c \in Other : c.vi = v) \/ (\A c \in Other : c.d <= TrueDist(v))
    <3>1. CASE v = idx
      BY <1>6, <3>1
    <3>2. CASE v = best[1].vi
      <4>1. best[1].d = TrueDist(v)
        BY <1>8, <2>2, <3>2 DEF NearestAmong
      <4> QED
        BY <2>8, <4>1
    <3>3. CASE v \in 1 .. m /\ v # best[1].vi
      <4>1. CASE \E c \in R : c.vi = v
        BY <3>3, <4>1
      <4>2. CASE \A c \in R : c.d <= TrueDist(v)
        <5>1. best[1].d \in Int /\ best[1].d <= TrueDist(v) /\ TrueDist(v) \in Int
          BY <1>1, <1>5, <2>2, <2>6, <3>3, <4>2
        <5> QED
          BY <2>8, <5>1
      <4> QED
        BY <1>8, <3>3, <4>1, <4>2 DEF NearestAmong
    <3> QED
      BY <1>1, <3>1, <3>2, <3>3
  <2>11. NearestAmong(Other, idx)
    BY <2>1, <2>9, <2>10 DEF NearestAmong
  <2> QED
    BY <1>1, <1>4, <1>15, <1>17, <2>1, <2>5, <2>11
\* A reference that is no nearer.
<1>18. CASE Len(best) = K /\ ~ new.d < best[1].d /\ best' = best
  <2>1. idx > K /\ 1 \in DOMAIN best
    BY <1>1, <1>4, <1>8, <1>18
  <2>2. \A c \in R : c \in Candidate(m) /\ c.d \in Int /\ c.d <= best[1].d
    BY <1>3, <1>8, <1>18 DEF NearestAmong, Candidate, FirstIsFarthest, Range
  <2>3. best[1] \in R
    BY <2>1 DEF Range
  <2>4. best[1].d \in Int /\ TrueDist(idx) \in Int /\ best[1].d <= TrueDist(idx)
    BY <1>1, <1>5, <1>6, <1>18, <2>2, <2>3
  <2>5. \A c \in R : c.d <= TrueDist(idx)
    BY <2>2, <2>4
  <2>6. NearestAmong(R, idx)
    BY <1>1, <1>4, <1>7, <1>8, <2>1, <2>5 DEF NearestAmong
  <2>7. best' \in Seq(Candidate(idx))
    BY <1>7, <1>8, <1>18
  <2>8. FirstIsFarthest'
    BY <1>3, <1>18 DEF FirstIsFarthest
  <2> QED
    BY <1>1, <1>4, <1>8, <1>13, <1>18, <2>1, <2>6, <2>7, <2>8
<1> QED
  BY <1>14, <1>16, <1>17, <1>18 DEF BruteForceStep

\* The final sort.
LEMMA FinalSortInv ==
    ASSUME IInv, BruteForceDone
    PROVE  IInv'
<1> DEFINE R == Range(best)
           m == Len(refs)
<1>1. FilesOK /\ pc = "brute" /\ i <= Len(mismatches) /\ m \in Nat /\ idx = m + 1
  BY DEF IInv, Brute, BruteForceDone, FilesOK
<1>2. /\ pc' = "classify" /\ i' = i /\ idx' = idx
      /\ data' = data /\ lines' = lines /\ mismatches' = mismatches /\ refs' = refs
  BY DEF BruteForceDone, files
<1>3. Kept(m)
  BY <1>1 DEF IInv, Brute
<1>4. /\ best \in Seq(Candidate(m)) /\ Len(best) = (IF m < K THEN m ELSE K)
      /\ \A n, o \in DOMAIN best : n # o => best[n] # best[o]
      /\ NearestAmong(R, m)
  BY <1>3 DEF Kept
<1>5. IsFiniteSet(R) /\ Cardinality(R) = Len(best)
  BY <1>4, RangeSize
<1>6. best' \in SortedBy(R, Ascending(R))
  BY DEF BruteForceDone
<1>7. /\ best' \in Seq(R) /\ Len(best') = Cardinality(R) /\ DOMAIN best' = 1 .. Len(best')
      /\ \A n, o \in DOMAIN best' : n # o => best'[n] # best'[o]
      /\ \A c \in R : \E n \in DOMAIN best' : best'[n] = c
      /\ \A n, o \in DOMAIN best' : n < o => Ascending(R)[best'[n]] <= Ascending(R)[best'[o]]
  <2>1. Arranged(best', R, Ascending(R))
    BY <1>5, <1>6, SortedSeq
  <2> QED
    BY <2>1, Zenon DEF Arranged
<1>8. \A n \in DOMAIN best' : best'[n] \in R
  BY <1>7
<1>9. Range(best') = R
  BY <1>7, <1>8 DEF Range
<1>10. NearestFirst'
  BY <1>7, <1>8 DEF NearestFirst, Ascending
<1>11. R \subseteq Candidate(m)
  BY <1>4 DEF NearestAmong
<1>12. best' \in Seq(Candidate(m))
  BY <1>7, <1>11
<1>13. NearestAmong(Range(best), Len(refs))'
  BY <1>1, <1>2, <1>4, <1>9 DEF NearestAmong, TrueDist, query
<1>14. Kept(Len(refs))'
  BY <1>2, <1>4, <1>5, <1>7, <1>12, <1>13 DEF Kept
<1>15. FilesOK'
  BY <1>1, <1>2 DEF FilesOK
<1> QED
  BY <1>1, <1>2, <1>10, <1>14, <1>15 DEF IInv, Brute, Classified

\* Every step keeps the invariant.
LEMMA NextInv == IInv /\ [Next]_vars => IInv'
<1> SUFFICES ASSUME IInv, [Next]_vars PROVE IInv'
  OBVIOUS
<1>1. FilesOK
  BY DEF IInv
\* Outside the two phases only the files matter.
<1>2. ASSUME FilesOK', pc' \notin {"brute", "classify"} PROVE IInv'
  BY <1>2 DEF IInv, Brute, Classified
<1>3. CASE BadInput
  BY <1>1, <1>2, <1>3 DEF BadInput, files, FilesOK
<1>4. CASE LoadIndex
  BY <1>1, <1>2, <1>4 DEF LoadIndex, FilesOK
<1>5. CASE load_references
  <2>1. data.references \in Seq(RefLine) /\ refs \in Seq(RefLine)
    BY <1>1, ClassifyAssumption DEF FilesOK
  <2>2. idx \in 1 .. Len(data.references)
    BY <1>1, <1>5 DEF load_references, FilesOK
  <2>3. data.references[idx] \in RefLine
    BY <2>1, <2>2
  <2>4. refs' \in Seq(RefLine)
    BY <1>5, <2>1, <2>3 DEF load_references
  <2> QED
    BY <1>1, <1>2, <1>5, <2>4 DEF load_references, FilesOK
<1>6. CASE ReferencesLoaded
  BY <1>1, <1>2, <1>6 DEF ReferencesLoaded, files, FilesOK
<1>7. CASE ReadMismatch
  <2>1. idx \in 1 .. Len(lines) /\ lines \in Seq(Mismatch) /\ mismatches \in Seq(Mismatch)
    BY <1>1, <1>7 DEF ReadMismatch, FilesOK
  <2>2. lines[idx] \in Mismatch
    BY <2>1
  <2>3. mismatches' \in Seq(Mismatch)
    BY <1>7, <2>1, <2>2 DEF ReadMismatch
  <2> QED
    BY <1>1, <1>2, <1>7, <2>3 DEF ReadMismatch, FilesOK
<1>8. CASE MismatchesRead
  BY <1>1, <1>2, <1>8 DEF MismatchesRead, files, FilesOK
<1>9. CASE BadRequest
  BY <1>1, <1>2, <1>9 DEF BadRequest, files, FilesOK
<1>10. CASE SearchIndex
  <2>1. /\ pc' = "brute" /\ i' = i /\ i <= Len(mismatches) /\ best' = <<>> /\ idx' = 1
        /\ data' = data /\ lines' = lines /\ mismatches' = mismatches /\ refs' = refs
    BY <1>10 DEF SearchIndex, files
  <2>2. FilesOK'
    BY <1>1, <2>1 DEF FilesOK
  <2>3. Range(best') = {}
    BY <2>1 DEF Range
  <2>4. NearestAmong(Range(best), idx - 1)'
    BY <2>1, <2>3 DEF NearestAmong
  <2>5. Kept(idx - 1)' /\ FirstIsFarthest'
    BY <2>1, <2>4, ClassifyAssumption DEF Kept, FirstIsFarthest
  <2>6. i' <= Len(mismatches') /\ idx' <= Len(refs') + 1
    BY <1>1, <2>1 DEF FilesOK
  <2> QED
    BY <2>1, <2>2, <2>5, <2>6 DEF IInv, Brute, Classified
<1>11. CASE BruteForceStep
  BY <1>11, BruteForceInv
<1>12. CASE BruteForceDone
  BY <1>12, FinalSortInv
<1>13. CASE NotInIndex
  BY <1>1, <1>2, <1>13 DEF NotInIndex, files, FilesOK
<1>14. CASE WriteRecord
  <2>1. pc' = "search" /\ i' = i + 1 /\ idx' = idx /\ UNCHANGED files
    BY <1>14 DEF WriteRecord
  <2> QED
    BY <1>1, <1>2, <2>1 DEF files, FilesOK
<1>15. CASE Finish
  BY <1>1, <1>2, <1>15 DEF Finish, files, FilesOK
<1>16. CASE UNCHANGED vars
  BY <1>16 DEF vars, files, IInv, FilesOK, Brute, Classified, Kept, NearestAmong, TrueDist,
               query, FirstIsFarthest, NearestFirst
<1> QED
  BY <1>3, <1>4, <1>5, <1>6, <1>7, <1>8, <1>9, <1>10, <1>11, <1>12, <1>13, <1>14, <1>15, <1>16
     DEF Next

\* The candidates brute_force_5nn keeps while it goes through the references.
THEOREM Invariance == Spec => []IInv
BY InitInv, NextInv, PTL DEF Spec

\* The invariant says what the classification relies on.
LEMMA InvImpliesNearest == IInv => BestAreNearest
<1> SUFFICES ASSUME IInv, pc = "classify" PROVE BestAreNearest
  BY DEF BestAreNearest
<1> DEFINE m == Len(refs)
<1>1. FilesOK /\ Kept(m) /\ NearestFirst /\ i <= Len(mismatches)
  BY DEF IInv, Classified
<1>2. m \in Nat /\ DOMAIN refs = 1 .. m /\ K \in Nat \ {0}
  BY <1>1, ClassifyAssumption DEF FilesOK
<1>3. /\ best \in Seq(Candidate(m)) /\ Len(best) = (IF m < K THEN m ELSE K)
      /\ \A n, o \in DOMAIN best : n # o => best[n] # best[o]
      /\ NearestAmong(Range(best), m)
  BY <1>1 DEF Kept
<1>4. Len(best) = Min({K, Len(refs)})
  <2>1. Min({K, m}) = IF m < K THEN m ELSE K
    BY <1>2, MinOfTwo
  <2> QED
    BY <1>3, <2>1
<1>5. ASSUME NEW n \in DOMAIN best PROVE best[n] \in Range(best)
  BY DEF Range
<1>6. ASSUME NEW n \in DOMAIN best, NEW o \in DOMAIN best, n # o PROVE best[n].vi # best[o].vi
  BY <1>2, <1>3, <1>5, <1>6, OnePerReference
<1>7. ASSUME NEW n \in DOMAIN best, NEW v \in DOMAIN refs \ Range(true_nn_idxs)
      PROVE  best[n].d <= TrueDist(v)
  <2>1. ASSUME NEW c \in Range(best) PROVE c.vi # v
    BY <1>7, <2>1 DEF Range, true_nn_idxs
  <2> QED
    BY <1>2, <1>3, <1>5, <1>7, <2>1 DEF NearestAmong
<1>8. \A n \in DOMAIN best : /\ best[n].d = TrueDist(best[n].vi)
                             /\ best[n].is_fraud = refs[best[n].vi].is_fraud
  BY <1>3, <1>5 DEF NearestAmong
<1>9. \A n, o \in DOMAIN best : n < o => n # o
  BY <1>3
<1> QED
  BY <1>1, <1>4, <1>6, <1>7, <1>8, <1>9 DEF BestAreNearest, TrueDist, NearestFirst

\* What classify_mismatches calls the true neighbours are the nearest references by
\* the exact distance, for every corpus, query and K: replacing best[0] is right
\* because the list is sorted farthest first whenever it is full.
THEOREM BruteForceIsRight == Spec => []BestAreNearest
BY Invariance, InvImpliesNearest, PTL

----------------------------------------------------------------------------
(* The clusters of the index                                               *)

\* Where the clusters of the index of a file end.
Ends(file) == RunningSum(num_cents, [c \in 1 .. num_cents |-> Len(InCluster(file, c))])
\* The positions of one of them.
Positions(file, c) == load(file).offsets[c] + 1 .. load(file).offsets[c + 1]

\* A cluster holds lines of the file that are nearest to its centroid.
LEMMA ClusterLines ==
    ASSUME NEW file \in Seq(RefLine), NEW c
    PROVE  /\ InCluster(file, c) \in Seq(RefLine)
           /\ \A b \in 1 .. Len(InCluster(file, c)) :
                 Nearest(InCluster(file, c)[b].x, Centroids) = c
<1> DEFINE seqs == [k \in 1 .. Len(file) |->
               IF file[k].long /\ Nearest(file[k].x, Centroids) = c THEN <<file[k]>> ELSE <<>>]
<1>1. Len(file) \in Nat /\ seqs \in [1 .. Len(file) -> Seq(RefLine)]
  OBVIOUS
<1>2. \A k \in 1 .. Len(file) : \A b \in 1 .. Len(seqs[k]) :
          Nearest(seqs[k][b].x, Centroids) = c
  OBVIOUS
<1>3. InCluster(file, c) = FlattenSeq(seqs)
  BY DEF InCluster
<1> HIDE DEF seqs
<1>4. PICK flat : flat = FlattenSeq(seqs)
  OBVIOUS
<1>5. flat \in Seq(RefLine)
  BY <1>1, <1>4, FlattenType
<1>6. ASSUME NEW b \in 1 .. Len(flat) PROVE Nearest(flat[b].x, Centroids) = c
  <2>1. ElementOf(flat[b], seqs, Len(file))
    BY <1>1, <1>4, <1>6, FlattenElement
  <2>2. PICK k \in 1 .. Len(file) : \E a \in 1 .. Len(seqs[k]) : flat[b] = seqs[k][a]
    BY <2>1 DEF ElementOf
  <2>3. PICK a \in 1 .. Len(seqs[k]) : flat[b] = seqs[k][a]
    BY <2>2
  <2>4. Nearest(seqs[k][a].x, Centroids) = c
    BY <1>2
  <2> QED
    BY <2>3, <2>4, Zenon
<1> QED
  BY <1>3, <1>4, <1>5, <1>6, Zenon

\* The index is the clusters one after the other, and its offsets say where each ends.
LEMMA Layout ==
    ASSUME NEW file \in Seq(RefLine)
    PROVE  /\ num_cents \in Nat
           /\ [c \in 1 .. num_cents |-> InCluster(file, c)] \in [1 .. num_cents -> Seq(RefLine)]
           /\ EndsAt(Ends(file), [c \in 1 .. num_cents |-> InCluster(file, c)], num_cents)
           /\ Indexed(file) \in Seq(RefLine)
           /\ HoldsFirst(Indexed(file), [c \in 1 .. num_cents |-> InCluster(file, c)],
                         Ends(file), num_cents)
           /\ \A c \in 1 .. num_cents : Positions(file, c) = Ends(file)[c - 1] + 1 .. Ends(file)[c]
<1> DEFINE seqs == [c \in 1 .. num_cents |-> InCluster(file, c)]
<1>1. num_cents \in Nat
  BY ClassifyAssumption DEF num_cents
<1>2. seqs \in [1 .. num_cents -> Seq(RefLine)]
  BY ClusterLines
<1>3. Ends(file) = RunningSum(num_cents, [c \in 1 .. num_cents |-> Len(seqs[c])])
  BY DEF Ends
<1>4. Indexed(file) = FlattenSeq(seqs)
  BY DEF Indexed
<1>5. \A c \in 1 .. num_cents + 1 : load(file).offsets[c] = Ends(file)[c - 1]
  BY DEF load, Ends
<1> HIDE DEF seqs
<1>6. EndsAt(Ends(file), seqs, num_cents)
  BY <1>1, <1>2, <1>3, EndsExist
<1>7. Indexed(file) \in Seq(RefLine) /\ HoldsFirst(Indexed(file), seqs, Ends(file), num_cents)
  BY <1>1, <1>2, <1>4, <1>6, Flattened
<1>8. ASSUME NEW c \in 1 .. num_cents
      PROVE  Positions(file, c) = Ends(file)[c - 1] + 1 .. Ends(file)[c]
  <2>1. c \in 1 .. num_cents + 1 /\ c + 1 \in 1 .. num_cents + 1 /\ (c + 1) - 1 = c
    BY <1>1
  <2> QED
    BY <1>5, <2>1 DEF Positions
<1> QED
  BY <1>1, <1>2, <1>6, <1>7, <1>8 DEF seqs

\* A position belongs to the cluster its vector is nearest to.
LEMMA InOwnCluster ==
    ASSUME NEW file \in Seq(RefLine), NEW c \in 1 .. num_cents, NEW v \in Positions(file, c)
    PROVE  v \in 1 .. Len(Indexed(file)) /\ Nearest(Indexed(file)[v].x, Centroids) = c
<1>1. PICK seqs : seqs = [d \in 1 .. num_cents |-> InCluster(file, d)]
  OBVIOUS
<1>2. PICK ends : ends = Ends(file)
  OBVIOUS
<1>3. /\ num_cents \in Nat /\ seqs \in [1 .. num_cents -> Seq(RefLine)]
      /\ EndsAt(ends, seqs, num_cents)
      /\ Indexed(file) \in Seq(RefLine) /\ HoldsFirst(Indexed(file), seqs, ends, num_cents)
      /\ v \in ends[c - 1] + 1 .. ends[c]
  BY <1>1, <1>2, Layout
<1>4. /\ ends[c - 1] \in Nat /\ ends[c] \in Nat /\ ends[c] = ends[c - 1] + Len(seqs[c])
      /\ Len(seqs[c]) \in Nat
  BY <1>3 DEF EndsAt
<1>5. PICK b \in 1 .. Len(seqs[c]) : v = ends[c - 1] + b
  <2>1. v - ends[c - 1] \in 1 .. Len(seqs[c]) /\ v = ends[c - 1] + (v - ends[c - 1])
    BY <1>3, <1>4
  <2> QED
    BY <2>1
<1>6. Indexed(file)[v] = seqs[c][b] /\ Len(Indexed(file)) = ends[num_cents]
  BY <1>3, <1>5 DEF HoldsFirst
<1>7. ends[c] <= ends[num_cents] /\ ends[num_cents] \in Nat
  BY <1>3 DEF HoldsFirst, EndsAt
<1>8. v \in 1 .. Len(Indexed(file))
  <2>1. PICK lo \in Nat, hi \in Nat, all \in Nat :
           lo = ends[c - 1] /\ hi = ends[c] /\ all = ends[num_cents]
    BY <1>4, <1>7, Zenon
  <2>2. v \in lo + 1 .. hi /\ hi <= all
    BY <1>3, <1>7, <2>1, Zenon
  <2>3. v \in 1 .. all
    BY <2>2
  <2> QED
    BY <1>6, <2>1, <2>3, Zenon
<1>9. Nearest(seqs[c][b].x, Centroids) = c
  BY <1>1, <1>5, ClusterLines
<1> QED
  BY <1>6, <1>8, <1>9, Zenon

\* Every vector of the index is in a cluster.
LEMMA InSomeCluster ==
    ASSUME NEW file \in Seq(RefLine), NEW v \in 1 .. Len(Indexed(file))
    PROVE  \E c \in 1 .. num_cents : v \in Positions(file, c)
<1>1. PICK seqs : seqs = [d \in 1 .. num_cents |-> InCluster(file, d)]
  OBVIOUS
<1>2. PICK ends : ends = Ends(file)
  OBVIOUS
<1>3. /\ num_cents \in Nat /\ seqs \in [1 .. num_cents -> Seq(RefLine)]
      /\ EndsAt(ends, seqs, num_cents)
      /\ HoldsFirst(Indexed(file), seqs, ends, num_cents)
      /\ \A c \in 1 .. num_cents : Positions(file, c) = ends[c - 1] + 1 .. ends[c]
  BY <1>1, <1>2, Layout
<1>4. v \in 1 .. ends[num_cents]
  BY <1>3 DEF HoldsFirst
<1>5. PICK c \in 1 .. num_cents : \E b \in 1 .. Len(seqs[c]) :
              v = ends[c - 1] + b /\ ends[c - 1] < v /\ v <= ends[c]
  BY <1>3, <1>4, EveryPlace
<1>6. ends[c - 1] < v /\ v <= ends[c]
  BY <1>5
<1>7. ends[c - 1] \in Nat /\ ends[c] \in Nat /\ ends[num_cents] \in Nat
  BY <1>3 DEF EndsAt
<1>8. v \in ends[c - 1] + 1 .. ends[c]
  BY <1>4, <1>6, <1>7
<1> QED
  BY <1>3, <1>8

----------------------------------------------------------------------------
(* Ranks                                                                   *)

\* A sort and a search for the m nearest agree on an element that is tied with no
\* other: it is among the first m exactly when it is one of the nearest.
LEMMA SortFindsNearest ==
    ASSUME NEW n \in Nat, NEW key \in [1 .. n -> Int], NEW t \in SortedBy(1 .. n, key),
           NEW m \in Nat, NEW P \in NearestOf(1 .. n, m, key), NEW q \in 1 .. n,
           \A d \in 1 .. n : d # t[q] => key[d] # key[t[q]]
    PROVE  q <= m <=> t[q] \in P
<1>1. IsFiniteSet(1 .. n) /\ Cardinality(1 .. n) = n
  BY FS_Interval
<1>2. /\ t \in Seq(1 .. n) /\ Len(t) = n /\ DOMAIN t = 1 .. n
      /\ \A a, b \in 1 .. n : a # b => t[a] # t[b]
      /\ \A s \in 1 .. n : \E a \in 1 .. n : t[a] = s
      /\ \A a, b \in 1 .. n : a < b => key[t[a]] <= key[t[b]]
  <2>1. /\ t \in Seq(1 .. n) /\ Len(t) = Cardinality(1 .. n) /\ DOMAIN t = 1 .. Len(t)
        /\ \A a, b \in DOMAIN t : a # b => t[a] # t[b]
        /\ \A s \in 1 .. n : \E a \in DOMAIN t : t[a] = s
        /\ \A a, b \in DOMAIN t : a < b => key[t[a]] <= key[t[b]]
    <3>1. Arranged(t, 1 .. n, key)
      BY <1>1, SortedSeq
    <3> QED
      BY <3>1, Zenon DEF Arranged
  <2> QED
    BY <1>1, <2>1
<1>t. \A a \in 1 .. n : t[a] \in 1 .. n
  <2>1. t \in Seq(1 .. n) /\ Len(t) = n
    BY <1>2
  <2> QED
    BY <2>1
<1>3. PICK c \in 1 .. n : c = t[q]
  BY <1>t
<1>4. /\ P \in SUBSET (1 .. n) /\ Cardinality(P) = IF n < m THEN n ELSE m
      /\ \A a \in P, b \in (1 .. n) \ P : key[a] <= key[b]
  <2>1. Min({m, n}) = IF n < m THEN n ELSE m
    BY MinOfTwo
  <2> QED
    BY <1>1, <2>1 DEF NearestOf, kSubset
<1>5. IsFiniteSet(P)
  BY <1>1, <1>4, FS_Subset
<1>6. PICK Before : Before = {t[a] : a \in 1 .. q - 1}
  OBVIOUS
<1>7. IsFiniteSet(Before) /\ Cardinality(Before) = q - 1
  <2> DEFINE s == [a \in 1 .. q - 1 |-> t[a]]
  <2>0. q - 1 \in Nat /\ \A a \in 1 .. q - 1 : a \in 1 .. n /\ t[a] \in 1 .. n
    BY <1>t
  <2>1. s \in Seq(1 .. n) /\ Len(s) = q - 1 /\ DOMAIN s = 1 .. q - 1
    BY <2>0
  <2>2. \A a, b \in DOMAIN s : a # b => s[a] # s[b]
    <3> TAKE a, b \in DOMAIN s
    <3>1. a \in 1 .. n /\ b \in 1 .. n /\ s[a] = t[a] /\ s[b] = t[b]
      BY <2>0
    <3> QED
      BY <1>2, <3>1, Zenon
  <2>3. Range(s) = Before
    BY <1>6 DEF Range
  <2> HIDE DEF s
  <2> QED
    BY <2>1, <2>2, <2>3, RangeSize
<1>8. \A d \in 1 .. n : key[d] \in Int /\ (d # c => key[d] # key[c])
  BY <1>3
<1>9. ASSUME c \in P PROVE q <= m
  <2>1. ASSUME NEW x \in Before PROVE x \in P /\ x # c
    <3>1. PICK a \in 1 .. q - 1 : x = t[a]
      BY <1>6
    <3>2. a \in 1 .. n /\ a < q
      OBVIOUS
    <3>3. x \in 1 .. n /\ x # c /\ key[x] <= key[c]
      <4>1. x \in 1 .. n
        BY <1>t, <3>1, <3>2
      <4>2. t[a] # t[q]
        BY <1>2, <3>2
      <4>3. key[t[a]] <= key[t[q]]
        BY <1>2, <3>2, Zenon
      <4> QED
        BY <1>3, <3>1, <4>1, <4>2, <4>3
    <3> QED
      BY <1>4, <1>8, <1>9, <3>3
  <2>2. c \notin Before /\ Before \cup {c} \subseteq P
    BY <1>9, <2>1
  <2>3. IsFiniteSet(Before \cup {c}) /\ Cardinality(Before \cup {c}) = Cardinality(Before) + 1
    BY <1>7, <2>2, FS_AddElement
  <2>4. Cardinality(Before \cup {c}) <= Cardinality(P)
    BY <1>5, <2>2, FS_Subset
  <2> QED
    BY <1>4, <1>7, <2>3, <2>4
<1>10. ASSUME c \notin P PROVE q > m
  <2>1. ASSUME NEW x \in P PROVE x \in Before
    <3>1. x \in 1 .. n /\ x # c /\ key[x] <= key[c]
      BY <1>4, <1>10
    <3>2. key[x] < key[c]
      BY <1>8, <3>1
    <3>3. PICK a \in 1 .. n : t[a] = x
      BY <1>2, <3>1
    <3>4. a # q /\ ~ (q < a)
      <4>1. a # q
        BY <1>3, <3>1, <3>3
      <4>2. q < a => key[c] <= key[x]
        BY <1>2, <1>3, <3>3, Zenon
      <4>3. key[c] \in Int /\ key[x] \in Int
        BY <1>8, <3>1
      <4> QED
        BY <3>2, <4>1, <4>2, <4>3
    <3>5. a \in 1 .. q - 1
      BY <3>4
    <3> QED
      BY <1>6, <3>3, <3>5
  <2>2. Cardinality(P) <= Cardinality(Before)
    BY <1>7, <2>1, FS_Subset
  <2> QED
    BY <1>4, <1>7, <2>2
<1> QED
  BY <1>3, <1>9, <1>10

\* The rank of a position that lies in one cluster is the place of that cluster.
LEMMA RankOfCluster ==
    ASSUME NEW v, NEW c \in 1 .. num_cents, FoundIn(v) = {c}, num_cents \in Nat,
           NEW order \in SortedBy(1 .. num_cents, CentDists)
    PROVE  \E q \in 1 .. num_cents : cluster_rank(v, order) = q /\ order[q] = c
<1>1. IsFiniteSet(1 .. num_cents) /\ Cardinality(1 .. num_cents) = num_cents
  BY FS_Interval
<1>2. /\ order \in Seq(1 .. num_cents) /\ Len(order) = num_cents
      /\ \A a, b \in 1 .. num_cents : a # b => order[a] # order[b]
      /\ \A s \in 1 .. num_cents : \E a \in 1 .. num_cents : order[a] = s
  <2>1. Arranged(order, 1 .. num_cents, CentDists)
    BY <1>1, SortedSeq
  <2>2. PICK l \in Nat : l = num_cents
    OBVIOUS
  <2>3. Arranged(order, 1 .. l, CentDists) /\ Cardinality(1 .. l) = l
    BY <1>1, <2>1, <2>2
  <2>4. /\ order \in Seq(1 .. l) /\ Len(order) = l /\ DOMAIN order = 1 .. l
        /\ \A a, b \in DOMAIN order : a # b => order[a] # order[b]
        /\ \A s \in 1 .. l : \E a \in DOMAIN order : order[a] = s
    <3>1. Len(order) = l /\ order \in Seq(1 .. l)
      BY <2>3 DEF Arranged
    <3> QED
      BY <2>3, <3>1, Zenon DEF Arranged
  <2> QED
    BY <2>2, <2>4, Zenon
<1>3. PICK q \in 1 .. num_cents : order[q] = c
  BY <1>1, <1>2
<1> DEFINE I == {a \in 1 .. Len(order) : order[a] \in FoundIn(v)}
<1>4. I = {q}
  BY <1>1, <1>2, <1>3
<1>5. cluster_rank(v, order) = IF I # {} THEN Min(I) ELSE 0
  BY DEF cluster_rank, SelectInSeq
<1>6. Min({q}) = q
  BY <1>3, MinIs
<1> HIDE DEF I
<1>7. cluster_rank(v, order) = q
  BY <1>4, <1>5, <1>6
<1> QED
  BY <1>3, <1>7

----------------------------------------------------------------------------
(* What is written                                                         *)

\* The index in memory is that of the file it was built from.
LoadedIndex == pc \notin {"start", "refused"} => index = load(data.indexed)

\* Nothing is written while the files are read.
NothingWritten == pc \in {"start", "references", "mismatches"} => written = <<>>

\* What the search found is kept while the brute force runs.
SearchFits == pc \in {"brute", "classify"} => diag \in diagnostic_search

WrittenIsSeq == \E S : written \in Seq(S)

\* What RankTellsProbed and CauseIsRight say of one record.
RankOK(rec) ==
    /\ Aligned => \A n \in DOMAIN rec.ranks :
          \/ rec.ranks[n] <= PROBES <=> ClusterOf(rec, n) \in rec.diag.probed
          \/ \E d \in 1 .. num_cents \ {ClusterOf(rec, n)} : Tied(rec, ClusterOf(rec, n), d)
    /\ \A m \in rec.miss :
          \/ m > PROBES
          \/ \E c, d \in 1 .. num_cents : c # d /\ Tied(rec, c, d)

CauseOK(rec) ==
    /\ rec.class # "vectorize" => (rec.class = "probe_miss" <=> Missed(rec) # {})
    /\ rec.class = "tie_flip" => RescoringFixes(rec)

Judged ==
    /\ LoadedIndex /\ NothingWritten /\ SearchFits /\ WrittenIsSeq
    /\ RankTellsProbed /\ CauseIsRight

\* The clusters of the index in memory.
LEMMA ClustersInMemory ==
    ASSUME FilesOK, index = load(data.indexed)
    PROVE  /\ num_cents \in Nat /\ data.indexed \in Seq(RefLine)
           /\ \A c \in 1 .. num_cents : Members(c) = Positions(data.indexed, c)
<1>1. num_cents \in Nat /\ data.indexed \in Seq(RefLine)
  BY ClassifyAssumption DEF num_cents, FilesOK
<1> QED
  BY <1>1 DEF Members, Positions

\* A position lies in one cluster.
LEMMA OneCluster ==
    ASSUME FilesOK, index = load(data.indexed), NEW v, NEW c \in FoundIn(v)
    PROVE  FoundIn(v) = {c} /\ c \in 1 .. num_cents
<1>1. /\ num_cents \in Nat /\ data.indexed \in Seq(RefLine)
      /\ \A d \in 1 .. num_cents : Members(d) = Positions(data.indexed, d)
  BY ClustersInMemory
<1>2. ASSUME NEW d \in FoundIn(v)
      PROVE  d \in 1 .. num_cents /\ Nearest(Indexed(data.indexed)[v].x, Centroids) = d
  <2>1. d \in 1 .. num_cents /\ v \in Positions(data.indexed, d)
    BY <1>1, <1>2 DEF FoundIn
  <2> QED
    BY <1>1, <2>1, InOwnCluster
<1> QED
  BY <1>2

\* What a search found.
LEMMA SearchIs ==
    ASSUME diag \in diagnostic_search
    PROVE  /\ diag.probed \in NearestOf(1 .. num_cents, PROBES, CentDists)
           /\ diag.scanned = UNION {Members(c) : c \in diag.probed}
<1>1. PICK P \in NearestOf(1 .. num_cents, PROBES, CentDists) :
          \E R, f : diag = [probed |-> P, scanned |-> UNION {Members(c) : c \in P},
                            returned |-> R, frauds |-> f]
  BY DEF diagnostic_search
<1>2. diag.probed = P /\ diag.scanned = UNION {Members(c) : c \in P}
  BY <1>1
<1> QED
  BY <1>2

\* The rank of a cluster says whether it was probed, unless another is as near.
LEMMA RankAndProbes ==
    ASSUME FilesOK, index = load(data.indexed), i <= Len(mismatches),
           NEW P \in NearestOf(1 .. num_cents, PROBES, CentDists),
           NEW order \in SortedBy(1 .. num_cents, CentDists),
           NEW v, NEW c \in FoundIn(v)
    PROVE  \/ cluster_rank(v, order) <= PROBES <=> c \in P
           \/ \E d \in 1 .. num_cents \ {c} :
                 SqDist(query, Centroids[c]) = SqDist(query, Centroids[d])
<1>1. PICK n \in Nat : n = num_cents
  BY ClustersInMemory
<1>2. PICK key : key = CentDists
  OBVIOUS
<1>3. query \in Int
  BY DistancesAreInts
<1>4. key \in [1 .. n -> Int] /\ \A d \in 1 .. n : key[d] = SqDist(query, Centroids[d])
  <2>1. \A d \in 1 .. n : Centroids[d] \in Int
    BY <1>1, ClassifyAssumption DEF num_cents
  <2> QED
    BY <1>1, <1>2, <1>3, <2>1 DEF CentDists, SqDist
<1>5. FoundIn(v) = {c} /\ c \in 1 .. n
  BY <1>1, OneCluster
<1>6. PICK q \in 1 .. n : cluster_rank(v, order) = q /\ order[q] = c
  BY <1>1, <1>5, RankOfCluster
<1>7. CASE \E d \in 1 .. n : d # c /\ key[d] = key[c]
  BY <1>1, <1>4, <1>5, <1>7
<1>8. CASE \A d \in 1 .. n : d # c => key[d] # key[c]
  <2>1. PROBES \in Nat
    BY ClassifyAssumption
  <2>2. order \in SortedBy(1 .. n, key) /\ P \in NearestOf(1 .. n, PROBES, key)
    BY <1>1, <1>2
  <2>3. \A d \in 1 .. n : d # order[q] => key[d] # key[order[q]]
    BY <1>6, <1>8
  <2>4. q <= PROBES <=> order[q] \in P
    BY <1>4, <2>1, <2>2, <2>3, SortFindsNearest
  <2> QED
    BY <1>6, <2>4
<1> QED
  BY <1>7, <1>8

\* What the classification looks at, once the true neighbours are known.
Ready == IInv /\ pc = "classify" /\ index = load(data.indexed) /\ diag \in diagnostic_search

\* The true neighbours are distinct references.
LEMMA TrueNeighbours ==
    ASSUME Ready
    PROVE  /\ FilesOK /\ i <= Len(mismatches) /\ BestAreNearest
           /\ DOMAIN best = 1 .. Len(best) /\ Len(best) \in Nat
           /\ \A n \in DOMAIN best : best[n].vi \in 1 .. Len(refs)
           /\ \A n, o \in DOMAIN best : n # o => best[n].vi # best[o].vi
           /\ DOMAIN true_nn_idxs = DOMAIN best
           /\ \A n \in DOMAIN best : true_nn_idxs[n] = best[n].vi
<1>1. IInv /\ pc = "classify"
  BY DEF Ready
<1>2. FilesOK /\ Kept(Len(refs)) /\ i <= Len(mismatches)
  BY <1>1 DEF IInv, Classified
<1>3. best \in Seq(Candidate(Len(refs)))
  BY <1>2 DEF Kept
<1>4. DOMAIN best = 1 .. Len(best) /\ Len(best) \in Nat
  BY <1>3
<1>5. \A n \in DOMAIN best : best[n].vi \in 1 .. Len(refs)
  <2> TAKE n \in DOMAIN best
  <2>1. best[n] \in Candidate(Len(refs))
    BY <1>3, <1>4
  <2> QED
    BY <2>1 DEF Candidate
<1>6. BestAreNearest
  BY <1>1, InvImpliesNearest
<1>7. \A n, o \in DOMAIN best : n < o => best[n].vi # best[o].vi
  BY <1>1, <1>6 DEF BestAreNearest
<1>8. \A n, o \in DOMAIN best : n # o => best[n].vi # best[o].vi
  <2> TAKE n, o \in DOMAIN best
  <2>1. n = o \/ n < o \/ o < n
    BY <1>4
  <2> QED
    BY <1>7, <2>1
<1> QED
  BY <1>2, <1>4, <1>5, <1>6, <1>8 DEF true_nn_idxs

\* Where file and index agree a position lies in the cluster of its own vector.
LEMMA FoundInOwn ==
    ASSUME Ready, Aligned, NEW v \in 1 .. Len(refs)
    PROVE  Nearest(refs[v].x, Centroids) \in FoundIn(v)
<1>1. FilesOK /\ index = load(data.indexed) /\ refs = Indexed(data.indexed)
  BY TrueNeighbours DEF Ready, Aligned
<1>2. /\ num_cents \in Nat /\ data.indexed \in Seq(RefLine)
      /\ \A c \in 1 .. num_cents : Members(c) = Positions(data.indexed, c)
  BY <1>1, ClustersInMemory
<1>3. PICK c \in 1 .. num_cents : v \in Positions(data.indexed, c)
  BY <1>1, <1>2, InSomeCluster
<1>4. Nearest(refs[v].x, Centroids) = c
  BY <1>1, <1>2, <1>3, InOwnCluster
<1> QED
  BY <1>2, <1>3, <1>4 DEF FoundIn

\* Where file and index agree a position that was not scanned is one whose cluster was
\* not probed.
LEMMA MissMeansUnprobed ==
    ASSUME Ready, Aligned
    PROVE  (~ Range(true_nn_idxs) \subseteq diag.scanned) <=>
              \E n \in DOMAIN best : Nearest(refs[best[n].vi].x, Centroids) \notin diag.probed
<1>1. /\ FilesOK /\ DOMAIN true_nn_idxs = DOMAIN best
      /\ \A n \in DOMAIN best : best[n].vi \in 1 .. Len(refs) /\ true_nn_idxs[n] = best[n].vi
  BY TrueNeighbours
<1>2. index = load(data.indexed) /\ diag \in diagnostic_search
  BY DEF Ready
<1>3. /\ num_cents \in Nat /\ data.indexed \in Seq(RefLine)
      /\ \A c \in 1 .. num_cents : Members(c) = Positions(data.indexed, c)
  BY <1>1, <1>2, ClustersInMemory
<1>4. refs = Indexed(data.indexed)
  BY DEF Aligned
<1>5. diag.scanned = UNION {Members(c) : c \in diag.probed} /\ diag.probed \subseteq 1 .. num_cents
  <2>1. diag.probed \in NearestOf(1 .. num_cents, PROBES, CentDists)
    BY <1>2, SearchIs
  <2> QED
    BY <1>2, <2>1, SearchIs DEF NearestOf, kSubset
<1>6. ASSUME NEW v \in 1 .. Len(refs)
      PROVE  v \in diag.scanned <=> Nearest(refs[v].x, Centroids) \in diag.probed
  <2>1. PICK c \in 1 .. num_cents : v \in Positions(data.indexed, c)
    BY <1>3, <1>4, InSomeCluster
  <2>2. ASSUME NEW d \in 1 .. num_cents, v \in Positions(data.indexed, d)
        PROVE  Nearest(refs[v].x, Centroids) = d
    BY <1>3, <1>4, <2>2, InOwnCluster
  <2>3. v \in diag.scanned <=> \E d \in diag.probed : v \in Positions(data.indexed, d)
    BY <1>3, <1>5
  <2> QED
    BY <1>5, <2>1, <2>2, <2>3
<1>7. (~ Range(true_nn_idxs) \subseteq diag.scanned) <=>
          \E n \in DOMAIN best : best[n].vi \notin diag.scanned
  BY <1>1 DEF Range
<1> QED
  BY <1>1, <1>6, <1>7

\* As many of the true neighbours are frauds as fraud_count_true says.
LEMMA FraudsCounted ==
    ASSUME Ready, NEW T, T = Range(true_nn_idxs)
    PROVE  /\ IsFiniteSet(T) /\ Cardinality(T) = Len(best)
           /\ Cardinality({v \in T : refs[v].is_fraud}) = fraud_count_true
<1>1. /\ DOMAIN best = 1 .. Len(best) /\ Len(best) \in Nat /\ BestAreNearest
      /\ \A n \in DOMAIN best : best[n].vi \in 1 .. Len(refs)
      /\ \A n, o \in DOMAIN best : n # o => best[n].vi # best[o].vi
      /\ DOMAIN true_nn_idxs = DOMAIN best
      /\ \A n \in DOMAIN best : true_nn_idxs[n] = best[n].vi
  BY TrueNeighbours
<1>2. IsFiniteSet(T) /\ Cardinality(T) = Len(best)
  <2>1. true_nn_idxs \in Seq(1 .. Len(refs)) /\ Len(true_nn_idxs) = Len(best)
    BY <1>1 DEF true_nn_idxs
  <2>2. \A a, b \in DOMAIN true_nn_idxs : a # b => true_nn_idxs[a] # true_nn_idxs[b]
    BY <1>1
  <2> QED
    BY <2>1, <2>2, RangeSize
<1>3. \A n \in DOMAIN best : best[n].is_fraud = refs[best[n].vi].is_fraud
  BY <1>1 DEF Ready, BestAreNearest
<1> DEFINE N == {n \in DOMAIN best : best[n].is_fraud}
           F == {v \in T : refs[v].is_fraud}
           f == [n \in N |-> best[n].vi]
<1>4. IsFiniteSet(N)
  <2>1. IsFiniteSet(1 .. Len(best))
    BY <1>1, FS_Interval
  <2> QED
    BY <1>1, <2>1, FS_Subset
<1>5. f \in [N -> F]
  BY <1>1, <1>3 DEF Range
<1>6. \A a, b \in N : f[a] = f[b] => a = b
  BY <1>1
<1>7. \A v \in F : \E n \in N : f[n] = v
  BY <1>1, <1>3 DEF Range
<1>8. fraud_count_true = Cardinality(N)
  BY DEF fraud_count_true
<1> HIDE DEF N, F, f
<1>9. f \in Bijection(N, F)
  BY <1>5, <1>6, <1>7 DEF Bijection, Injection, Surjection, IsInjective
<1>10. ExistsBijection(N, F)
  BY <1>9 DEF ExistsBijection
<1>11. Cardinality(F) = Cardinality(N)
  BY <1>4, <1>10, FS_Bijection
<1> QED
  BY <1>2, <1>8, <1>11 DEF F

\* The true neighbours are a choice of the nearest among what was scanned, if all of
\* them were.
LEMMA NearestAmongScanned ==
    ASSUME Ready, Aligned, Range(true_nn_idxs) \subseteq diag.scanned,
           NEW Exact, Exact = [v \in diag.scanned |-> SqDist(query, refs[v].x)]
    PROVE  Range(true_nn_idxs) \in NearestOf(diag.scanned, K, Exact)
<1>1. PICK T : T = Range(true_nn_idxs)
  OBVIOUS
<1>2. PICK S : S = diag.scanned
  OBVIOUS
<1>3. IsFiniteSet(T) /\ Cardinality(T) = Len(best) /\ T \subseteq S
  BY <1>1, <1>2, FraudsCounted
<1>4. /\ FilesOK /\ DOMAIN best = 1 .. Len(best) /\ Len(best) \in Nat /\ BestAreNearest
      /\ DOMAIN true_nn_idxs = DOMAIN best
      /\ \A n \in DOMAIN best : true_nn_idxs[n] = best[n].vi
      /\ \A n \in DOMAIN best : best[n].vi \in 1 .. Len(refs)
  BY TrueNeighbours
<1>5. Len(refs) \in Nat /\ K \in Nat /\ DOMAIN refs = 1 .. Len(refs)
  BY <1>4, ClassifyAssumption DEF FilesOK
<1>6. S \subseteq 1 .. Len(refs)
  <2>1. index = load(data.indexed) /\ diag \in diagnostic_search
    BY DEF Ready
  <2>2. /\ data.indexed \in Seq(RefLine)
        /\ \A c \in 1 .. num_cents : Members(c) = Positions(data.indexed, c)
    BY <1>4, <2>1, ClustersInMemory
  <2>3. diag.probed \in NearestOf(1 .. num_cents, PROBES, CentDists)
    BY <2>1, SearchIs
  <2>4. diag.probed \subseteq 1 .. num_cents
    BY <2>3 DEF NearestOf, kSubset
  <2>5. ASSUME NEW v \in S PROVE v \in 1 .. Len(refs)
    <3>1. PICK c \in diag.probed : v \in Members(c)
      BY <1>2, <2>1, SearchIs
    <3>2. c \in 1 .. num_cents /\ v \in Positions(data.indexed, c)
      BY <2>2, <2>4, <3>1
    <3>3. v \in 1 .. Len(Indexed(data.indexed))
      BY <2>2, <3>2, InOwnCluster
    <3> QED
      BY <3>3 DEF Aligned
  <2> QED
    BY <2>5
<1>7. IsFiniteSet(S) /\ Cardinality(S) \in Nat /\ Cardinality(S) <= Len(refs)
  <2>l. PICK l \in Nat : l = Len(refs)
    BY <1>5
  <2>0. IsFiniteSet(1 .. l) /\ Cardinality(1 .. l) = l
    BY FS_Interval
  <2>1. IsFiniteSet(1 .. Len(refs)) /\ Cardinality(1 .. Len(refs)) = Len(refs)
    BY <2>l, <2>0
  <2>2. IsFiniteSet(S) /\ Cardinality(S) <= Cardinality(1 .. Len(refs))
    BY <1>6, <2>1, FS_Subset
  <2>3. Cardinality(S) \in Nat
    BY <2>2, FS_CardinalityType
  <2> QED
    BY <2>1, <2>2, <2>3
<1>8. Cardinality(T) <= Cardinality(S)
  BY <1>3, <1>7, FS_Subset
<1>9. Cardinality(T) = Min({K, Cardinality(S)})
  <2>1. Len(best) = IF Len(refs) < K THEN Len(refs) ELSE K
    <3>1. Len(best) = Min({K, Len(refs)})
      BY <1>4 DEF Ready, BestAreNearest
    <3> QED
      BY <1>5, <3>1, MinOfTwo
  <2>2. Min({K, Cardinality(S)}) = IF Cardinality(S) < K THEN Cardinality(S) ELSE K
    BY <1>5, <1>7, MinOfTwo
  <2> QED
    BY <1>3, <1>5, <1>7, <1>8, <2>1, <2>2
<1>10. ASSUME NEW a \in T, NEW b \in S \ T PROVE Exact[a] <= Exact[b]
  <2>1. PICK n \in DOMAIN best : best[n].vi = a
    BY <1>1, <1>4 DEF Range
  <2>2. b \in DOMAIN refs \ Range(true_nn_idxs)
    BY <1>1, <1>5, <1>6
  <2>3. best[n].d = SqDist(query, refs[a].x) /\ best[n].d <= SqDist(query, refs[b].x)
    BY <1>4, <2>1, <2>2 DEF Ready, BestAreNearest
  <2> QED
    BY <1>2, <1>3, <2>3
<1> QED
  BY <1>1, <1>2, <1>3, <1>9, <1>10 DEF NearestOf, kSubset

\* What a record says of the transaction at hand.
Describes(rec, order) ==
    /\ rec.line = mismatches[i] /\ rec.class = classification
    /\ rec.true_nn = best /\ rec.diag = diag
    /\ rec.ranks = [n \in DOMAIN best |-> cluster_rank(best[n].vi, order)]
    /\ rec.miss = IF classification = "probe_miss" THEN {missed_rank(rec.ranks)} ELSE {}

\* The ranks of a record are right.
LEMMA RecordRanks ==
    ASSUME Ready, NEW order \in SortedBy(1 .. num_cents, CentDists),
           \A n \in DOMAIN best : FoundIn(best[n].vi) # {}, NEW rec, Describes(rec, order)
    PROVE  RankOK(rec)
<1>1. PICK ranks : ranks = [n \in DOMAIN best |-> cluster_rank(best[n].vi, order)]
  OBVIOUS
<1>2. /\ rec.line.x = query /\ rec.class = classification /\ rec.true_nn = best
      /\ rec.diag = diag /\ rec.ranks = ranks
      /\ rec.miss = IF classification = "probe_miss" THEN {missed_rank(ranks)} ELSE {}
  BY <1>1 DEF Describes, query
<1>3. /\ FilesOK /\ i <= Len(mismatches) /\ index = load(data.indexed)
      /\ DOMAIN true_nn_idxs = DOMAIN best
      /\ \A n \in DOMAIN best : true_nn_idxs[n] = best[n].vi
  BY TrueNeighbours DEF Ready
<1>4. /\ diag.probed \in NearestOf(1 .. num_cents, PROBES, CentDists)
      /\ diag.scanned = UNION {Members(c) : c \in diag.probed}
  BY SearchIs DEF Ready
<1>5. ASSUME NEW n \in DOMAIN best, NEW c \in FoundIn(best[n].vi)
      PROVE  \/ ranks[n] <= PROBES <=> c \in diag.probed
             \/ \E d \in 1 .. num_cents \ {c} : Tied(rec, c, d)
  <2>1. PICK v : v = best[n].vi
    OBVIOUS
  <2>2. \/ cluster_rank(v, order) <= PROBES <=> c \in diag.probed
        \/ \E d \in 1 .. num_cents \ {c} :
              SqDist(query, Centroids[c]) = SqDist(query, Centroids[d])
    BY <1>3, <1>4, <2>1, RankAndProbes
  <2>3. ranks[n] = cluster_rank(v, order)
    BY <1>1, <2>1
  <2> QED
    BY <1>2, <2>2, <2>3 DEF Tied
<1>6. ASSUME NEW m \in rec.miss
      PROVE  m > PROBES \/ \E c, d \in 1 .. num_cents : c # d /\ Tied(rec, c, d)
  <2>1. classification = "probe_miss" /\ m = missed_rank(ranks)
    BY <1>2, <1>6
  <2>2. PICK n0 \in DOMAIN best : best[n0].vi \notin diag.scanned
    <3>1. ~ Range(true_nn_idxs) \subseteq diag.scanned
      BY <2>1 DEF classification
    <3> QED
      BY <1>3, <3>1 DEF Range
  <2>3. ASSUME NEW n \in DOMAIN best PROVE ranks[n] \in Nat
    <3>1. PICK c : c \in FoundIn(best[n].vi)
      OBVIOUS
    <3>2. PICK v : v = best[n].vi
      OBVIOUS
    <3>3. FoundIn(v) = {c} /\ c \in 1 .. num_cents
      BY <1>3, <3>1, <3>2, OneCluster
    <3>4. num_cents \in Nat
      BY <1>3, ClustersInMemory
    <3>5. \E q \in 1 .. num_cents : cluster_rank(v, order) = q /\ order[q] = c
      BY <3>3, <3>4, RankOfCluster
    <3>6. ranks[n] = cluster_rank(v, order)
      BY <1>1, <3>2
    <3> QED
      BY <3>4, <3>5, <3>6
  <2> DEFINE S == {ranks[n] : n \in {o \in DOMAIN best : best[o].vi \notin diag.scanned}}
  <2>4. m = Min(S) /\ S \in SUBSET Nat /\ S # {}
    BY <2>1, <2>2, <2>3 DEF missed_rank
  <2>5. m \in S
    <3> HIDE DEF S
    <3> QED
      BY <2>4, MinIs
  <2>6. PICK n \in DOMAIN best : best[n].vi \notin diag.scanned /\ m = ranks[n]
    BY <2>5
  <2>7. PICK c : c \in FoundIn(best[n].vi)
    OBVIOUS
  <2>8. c \in 1 .. num_cents /\ c \notin diag.probed
    BY <1>4, <2>6, <2>7 DEF FoundIn
  <2>9. m \in Nat /\ PROBES \in Nat
    BY <2>3, <2>6, ClassifyAssumption
  <2>10. CASE ranks[n] <= PROBES <=> c \in diag.probed
    BY <2>6, <2>8, <2>9, <2>10
  <2>11. CASE \E d \in 1 .. num_cents \ {c} : Tied(rec, c, d)
    BY <2>8, <2>11
  <2> QED
    BY <1>5, <2>7, <2>10, <2>11
<1>7. DOMAIN rec.ranks = DOMAIN best
  BY <1>1, <1>2
<1>8. ASSUME Aligned, NEW n \in DOMAIN best
      PROVE  \/ rec.ranks[n] <= PROBES <=> ClusterOf(rec, n) \in rec.diag.probed
             \/ \E d \in 1 .. num_cents \ {ClusterOf(rec, n)} : Tied(rec, ClusterOf(rec, n), d)
  <2>1. PICK c : c = ClusterOf(rec, n)
    OBVIOUS
  <2>2. c = Nearest(refs[best[n].vi].x, Centroids) /\ best[n].vi \in 1 .. Len(refs)
    BY <1>2, <2>1, TrueNeighbours DEF ClusterOf
  <2>3. c \in FoundIn(best[n].vi)
    BY <1>8, <2>2, FoundInOwn
  <2> QED
    BY <1>2, <1>5, <2>1, <2>3
<1> QED
  BY <1>6, <1>7, <1>8 DEF RankOK

\* The cause of a record is right.
LEMMA RecordCause ==
    ASSUME Ready, Aligned, NEW order, NEW rec, Describes(rec, order)
    PROVE  CauseOK(rec)
<1>1. /\ rec.line = mismatches[i] /\ rec.line.x = query /\ rec.class = classification
      /\ rec.true_nn = best /\ rec.diag = diag
  BY DEF Describes, query
<1>2. (~ Range(true_nn_idxs) \subseteq diag.scanned) <=> Missed(rec) # {}
  <2>1. Missed(rec) = {n \in DOMAIN best : Nearest(refs[best[n].vi].x, Centroids) \notin diag.probed}
    BY <1>1 DEF Missed, ClusterOf
  <2> QED
    BY <2>1, MissMeansUnprobed
<1>3. classification # "vectorize" =>
         (classification = "probe_miss" <=> ~ Range(true_nn_idxs) \subseteq diag.scanned)
  BY DEF classification
<1>4. ASSUME classification = "tie_flip" PROVE RescoringFixes(rec)
  <2>1. true_approved = rec.line.expected_approved /\ Range(true_nn_idxs) \subseteq diag.scanned
    BY <1>1, <1>4 DEF classification
  <2>2. PICK T : T = Range(true_nn_idxs)
    OBVIOUS
  <2>3. PICK Exact : Exact = [v \in diag.scanned |-> SqDist(query, refs[v].x)]
    OBVIOUS
  <2>4. T \in NearestOf(diag.scanned, K, Exact)
    BY <2>1, <2>2, <2>3, NearestAmongScanned
  <2>5. Cardinality({v \in T : refs[v].is_fraud}) = fraud_count_true
    BY <2>2, FraudsCounted
  <2>6. (Cardinality({v \in T : refs[v].is_fraud}) < Threshold) = rec.line.expected_approved
    BY <2>1, <2>5 DEF true_approved
  <2> QED
    BY <1>1, <2>3, <2>4, <2>6, Zenon DEF RescoringFixes
<1> QED
  BY <1>1, <1>2, <1>3, <1>4 DEF CauseOK

\* A written record does not change its meaning.
LEMMA RecordsStay ==
    ASSUME index' = index, refs' = refs, data' = data, NEW rec
    PROVE  (RankOK(rec)' <=> RankOK(rec)) /\ (CauseOK(rec)' <=> CauseOK(rec)) /\ (Aligned' <=> Aligned)
<1>1. \A n : ClusterOf(rec, n)' = ClusterOf(rec, n)
  BY DEF ClusterOf
<1>2. Aligned' <=> Aligned
  BY DEF Aligned
<1>3. RankOK(rec)' <=> RankOK(rec)
  BY <1>1, <1>2 DEF RankOK
<1>4. CauseOK(rec)' <=> CauseOK(rec)
  BY <1>1 DEF CauseOK, Missed, RescoringFixes
<1> QED
  BY <1>2, <1>3, <1>4

\* What the records of the output file say, one by one.
LEMMA RecordByRecord ==
    /\ RankTellsProbed <=> \A rec \in Records : RankOK(rec)
    /\ CauseIsRight <=> (Aligned => \A rec \in Records : CauseOK(rec))
BY DEF RankTellsProbed, CauseIsRight, RankOK, CauseOK

\* Before anything is written there is nothing to be wrong.
LEMMA InitJudged == Init => Judged
<1> SUFFICES ASSUME Init PROVE Judged
  OBVIOUS
<1>1. pc = "start" /\ written = <<>>
  BY DEF Init
<1>2. Records = {}
  BY <1>1 DEF Records, Range
<1>3. WrittenIsSeq
  <2>1. written \in Seq({})
    BY <1>1
  <2> QED
    BY <2>1 DEF WrittenIsSeq
<1> QED
  BY <1>1, <1>2, <1>3, RecordByRecord
     DEF Judged, LoadedIndex, NothingWritten, SearchFits

\* A step that writes no record and leaves index and references alone.
LEMMA QuietStep ==
    ASSUME Judged, written' = written, index' = index, refs' = refs, data' = data,
           pc # "start", pc' # "start", pc \notin {"refused"},
           pc' \in {"references", "mismatches"} => pc \in {"references", "mismatches"},
           SearchFits'
    PROVE  Judged'
<1>1. RankTellsProbed' /\ CauseIsRight'
  <2>1. Records' = Records
    BY DEF Records
  <2>2. \A rec : /\ RankOK(rec)' <=> RankOK(rec)
                 /\ CauseOK(rec)' <=> CauseOK(rec)
                 /\ Aligned' <=> Aligned
    BY RecordsStay
  <2>3. /\ RankTellsProbed' <=> \A rec \in Records' : RankOK(rec)'
        /\ CauseIsRight' <=> (Aligned' => \A rec \in Records' : CauseOK(rec)')
    BY DEF RankTellsProbed, CauseIsRight, RankOK, CauseOK
  <2> QED
    BY <2>1, <2>2, <2>3, RecordByRecord DEF Judged
<1>2. LoadedIndex'
  BY DEF Judged, LoadedIndex
<1>3. NothingWritten'
  BY DEF Judged, NothingWritten
<1> QED
  BY <1>1, <1>2, <1>3 DEF Judged, WrittenIsSeq

\* The record of one transaction.
LEMMA WriteRecordJudged ==
    ASSUME IInv, Judged, WriteRecord
    PROVE  Judged'
<1>1. /\ pc = "classify" /\ pc' = "search" /\ index' = index /\ refs' = refs /\ data' = data
      /\ \A n \in DOMAIN best : FoundIn(best[n].vi) # {}
  BY DEF WriteRecord, files
<1>2. Ready
  BY <1>1 DEF Ready, Judged, LoadedIndex, SearchFits
<1>3. PICK order \in SortedBy(1 .. num_cents, CentDists) : \E rec :
          Describes(rec, order) /\ written' = Append(written, rec)
  <2>1. PICK order \in SortedBy(1 .. num_cents, CentDists) :
          LET ranks == [n \in DOMAIN best |-> cluster_rank(best[n].vi, order)]
              class == classification
              miss == IF class = "probe_miss" THEN {missed_rank(ranks)} ELSE {}
              gap == IF class = "tie_flip" THEN {tie_flip_gap} ELSE {}
          IN  written' = Append(written,
                    [line |-> mismatches[i], class |-> class, true_nn |-> best, diag |-> diag,
                     ranks |-> ranks, miss |-> miss, gap |-> gap])
    BY DEF WriteRecord
  <2>2. PICK ranks, class, miss, gap :
          /\ ranks = [n \in DOMAIN best |-> cluster_rank(best[n].vi, order)]
          /\ class = classification
          /\ miss = IF class = "probe_miss" THEN {missed_rank(ranks)} ELSE {}
          /\ gap = IF class = "tie_flip" THEN {tie_flip_gap} ELSE {}
    OBVIOUS
  <2>3. PICK rec : rec = [line |-> mismatches[i], class |-> class, true_nn |-> best,
                          diag |-> diag, ranks |-> ranks, miss |-> miss, gap |-> gap]
    OBVIOUS
  <2>4. written' = Append(written, rec)
    BY <2>1, <2>2, <2>3
  <2>5. /\ rec.line = mismatches[i] /\ rec.class = class /\ rec.true_nn = best
        /\ rec.diag = diag /\ rec.ranks = ranks /\ rec.miss = miss
    BY <2>3
  <2>6. Describes(rec, order)
    BY <2>2, <2>5 DEF Describes
  <2> QED
    BY <2>4, <2>6
<1>4. PICK rec : Describes(rec, order) /\ written' = Append(written, rec)
  BY <1>3
<1>5. PICK S : written \in Seq(S)
  BY DEF Judged, WrittenIsSeq
<1>6. Records' = Records \cup {rec}
  BY <1>4, <1>5 DEF Records, Range
<1>7. WrittenIsSeq'
  <2>1. written' \in Seq(S \cup {rec})
    BY <1>4, <1>5
  <2> QED
    BY <2>1 DEF WrittenIsSeq
<1>8. RankOK(rec) /\ (Aligned => CauseOK(rec))
  BY <1>1, <1>2, <1>3, <1>4, RecordRanks, RecordCause
<1>9. \A r : /\ RankOK(r)' <=> RankOK(r)
             /\ CauseOK(r)' <=> CauseOK(r)
             /\ Aligned' <=> Aligned
  BY <1>1, RecordsStay
<1>10. /\ RankTellsProbed' <=> \A r \in Records' : RankOK(r)'
       /\ CauseIsRight' <=> (Aligned' => \A r \in Records' : CauseOK(r)')
  BY DEF RankTellsProbed, CauseIsRight, RankOK, CauseOK
<1>11. RankTellsProbed' /\ CauseIsRight'
  BY <1>6, <1>8, <1>9, <1>10, RecordByRecord DEF Judged
<1> QED
  BY <1>1, <1>7, <1>11 DEF Judged, LoadedIndex, NothingWritten, SearchFits

\* Every step keeps what is written right.
LEMMA NextJudged == IInv /\ Judged /\ [Next]_vars => Judged'
<1> SUFFICES ASSUME IInv, Judged, [Next]_vars PROVE Judged'
  OBVIOUS
\* Nothing has been written.
<1>1. ASSUME written' = <<>>, LoadedIndex', SearchFits' PROVE Judged'
  <2>1. Records' = {}
    BY <1>1 DEF Records, Range
  <2>2. WrittenIsSeq'
    <3>1. written' \in Seq({})
      BY <1>1
    <3> QED
      BY <3>1 DEF WrittenIsSeq
  <2>3. RankTellsProbed' /\ CauseIsRight'
    BY <2>1 DEF RankTellsProbed, CauseIsRight
  <2> QED
    BY <1>1, <2>2, <2>3 DEF Judged, NothingWritten
<1>2. pc \in {"start", "references", "mismatches"} => written = <<>>
  BY DEF Judged, NothingWritten
<1>3. pc \notin {"start", "refused"} => index = load(data.indexed)
  BY DEF Judged, LoadedIndex
<1>4. CASE BadInput
  BY <1>1, <1>2, <1>4 DEF BadInput, files, stats, LoadedIndex, SearchFits
<1>5. CASE LoadIndex
  BY <1>1, <1>2, <1>5 DEF LoadIndex, stats, LoadedIndex, SearchFits
<1>6. CASE load_references
  BY <1>1, <1>2, <1>3, <1>6 DEF load_references, stats, LoadedIndex, SearchFits
<1>7. CASE ReferencesLoaded
  BY <1>1, <1>2, <1>3, <1>7 DEF ReferencesLoaded, files, stats, LoadedIndex, SearchFits
<1>8. CASE ReadMismatch
  BY <1>1, <1>2, <1>3, <1>8 DEF ReadMismatch, stats, LoadedIndex, SearchFits
<1>9. CASE MismatchesRead
  BY <1>1, <1>2, <1>3, <1>9 DEF MismatchesRead, files, stats, LoadedIndex, SearchFits
<1>10. CASE BadRequest
  BY <1>10, QuietStep DEF BadRequest, files, stats, SearchFits
<1>11. CASE SearchIndex
  <2>1. /\ pc = "search" /\ pc' = "brute" /\ diag' \in diagnostic_search
        /\ UNCHANGED <<data, lines, mismatches, index, refs, i, written>>
    BY <1>11 DEF SearchIndex, files, stats
  <2>2. diagnostic_search' = diagnostic_search
    BY <2>1 DEF diagnostic_search, Members, CentDists, dist_int8, query
  <2>3. SearchFits'
    BY <2>1, <2>2 DEF SearchFits
  <2> QED
    BY <2>1, <2>3, QuietStep
<1>12. CASE BruteForceStep \/ BruteForceDone
  <2>1. /\ pc = "brute" /\ pc' \in {"brute", "classify"} /\ diag' = diag
        /\ UNCHANGED <<data, lines, mismatches, index, refs, i, written>>
    BY <1>12 DEF BruteForceStep, BruteForceDone, files, stats
  <2>2. diagnostic_search' = diagnostic_search
    BY <2>1 DEF diagnostic_search, Members, CentDists, dist_int8, query
  <2>3. SearchFits'
    BY <2>1, <2>2 DEF SearchFits, Judged
  <2> QED
    BY <2>1, <2>3, QuietStep
<1>13. CASE NotInIndex
  BY <1>13, QuietStep DEF NotInIndex, files, stats, SearchFits
<1>14. CASE WriteRecord
  BY <1>14, WriteRecordJudged
<1>15. CASE Finish
  BY <1>15, QuietStep DEF Finish, files, stats, SearchFits
<1>16. CASE UNCHANGED vars
  <2>1. UNCHANGED <<pc, data, lines, mismatches, index, refs, i, diag, written>>
    BY <1>16 DEF vars, files, stats
  <2>2. diagnostic_search' = diagnostic_search
    BY <2>1 DEF diagnostic_search, Members, CentDists, dist_int8, query
  <2>3. RankTellsProbed' /\ CauseIsRight'
    <3>1. Records' = Records
      BY <2>1 DEF Records
    <3>2. \A rec : /\ RankOK(rec)' <=> RankOK(rec)
                   /\ CauseOK(rec)' <=> CauseOK(rec)
                   /\ Aligned' <=> Aligned
      BY <2>1, RecordsStay
    <3>3. /\ RankTellsProbed' <=> \A rec \in Records' : RankOK(rec)'
          /\ CauseIsRight' <=> (Aligned' => \A rec \in Records' : CauseOK(rec)')
      BY DEF RankTellsProbed, CauseIsRight, RankOK, CauseOK
    <3> QED
      BY <3>1, <3>2, <3>3, RecordByRecord DEF Judged
  <2> QED
    BY <2>1, <2>2, <2>3 DEF Judged, LoadedIndex, NothingWritten, SearchFits, WrittenIsSeq
<1> QED
  BY <1>4, <1>5, <1>6, <1>7, <1>8, <1>9, <1>10, <1>11, <1>12, <1>13, <1>14, <1>15, <1>16
     DEF Next

\* Every record of classify_mismatches is right, in every state.
THEOREM Judgement == Spec => []Judged
BY Invariance, InitJudged, NextJudged, PTL DEF Spec

\* Where the positions of the references and of the index agree, the rank written for a
\* true neighbour is at most PROBES exactly when the search has probed its cluster,
\* whatever order the two sorts leave ties in: only a tie between two centroids can make
\* them differ.  The rank of a probe miss is beyond PROBES, whatever the files, or two
\* centroids are tied.
THEOREM RanksTellProbes == Spec => []RankTellsProbed
<1>1. Judged => RankTellsProbed
  BY DEF Judged
<1> QED
  BY <1>1, Judgement, PTL

\* Where the positions of the references and of the index agree, a probe miss is a true
\* neighbour in a cluster that was not probed, and a tie flip is mended by scoring the
\* scanned vectors again: for every corpus, centroids, K, PROBES and threshold.
THEOREM CausesAreRight == Spec => []CauseIsRight
<1>1. Judged => CauseIsRight
  BY DEF Judged
<1> QED
  BY <1>1, Judgement, PTL
=============================================================================
