---------------------- MODULE JsonArrayUnwrapperProofs ----------------------
(***************************************************************************)
(* Theorems about JsonArrayUnwrapper: for every array of JSON values,      *)
(* every way the inner reader cuts it up, every buffer size and every      *)
(* interruption, the adapter hands out the elements and nothing else.      *)
(***************************************************************************)
EXTENDS JsonArrayUnwrapper, SequenceLemmas

----------------------------------------------------------------------------
(* Nesting                                                                 *)

\* The nesting is 0 at the front and changes by the weight of each symbol.
LEMMA NestingIs ==
    ASSUME NEW T, NEW s \in Seq(T)
    PROVE  /\ Nesting(s) \in [0 .. Len(s) -> Int]
           /\ Nesting(s)[0] = 0
           /\ \A k \in 1 .. Len(s) : Nesting(s)[k] = Nesting(s)[k - 1] + Weight(s[k])
<1>1. PICK l \in Nat : l = Len(s)
  OBVIOUS
<1> DEFINE w == [k \in 1 .. l |-> Weight(s[k])]
<1>2. 0 \in Int /\ \A a, b \in Int : a + b \in Int
  OBVIOUS
<1>3. w \in [1 .. l -> Int] /\ \A k \in 1 .. l : w[k] = Weight(s[k])
  BY DEF Weight
<1>4. Nesting(s) = RunningSum(l, w)
  BY <1>1 DEF Nesting
<1> HIDE DEF w
<1>5. PICK f : f = RunningSum(l, w)
  OBVIOUS
<1>6. f \in [0 .. l -> Int] /\ Running(f, w, l)
  BY <1>2, <1>3, <1>5, SumIsRunning
<1>7. f[0] = 0 /\ \A k \in 1 .. l : f[k] = f[k - 1] + w[k]
  BY <1>6 DEF Running
<1> QED
  BY <1>1, <1>3, <1>4, <1>5, <1>6, <1>7

\* The text t, which stands behind the first a symbols of s, nests there as it does alone.
NestsInside(s, t, a) ==
    \A b \in 0 .. Len(t) : Nesting(s)[a + b] = Nesting(s)[a] + Nesting(t)[b]

\* A text that stands inside another nests as it does alone.
LEMMA NestingInside ==
    ASSUME NEW T, NEW s \in Seq(T), NEW t \in Seq(T), NEW a \in Nat, a + Len(t) <= Len(s),
           \A b \in 1 .. Len(t) : s[a + b] = t[b]
    PROVE  NestsInside(s, t, a)
<1>1. PICK ns : ns = Nesting(s)
  OBVIOUS
<1>2. PICK nt : nt = Nesting(t)
  OBVIOUS
<1>3. /\ ns \in [0 .. Len(s) -> Int]
      /\ \A k \in 1 .. Len(s) : ns[k] = ns[k - 1] + Weight(s[k])
  BY <1>1, NestingIs
<1>4. /\ nt \in [0 .. Len(t) -> Int] /\ nt[0] = 0
      /\ \A k \in 1 .. Len(t) : nt[k] = nt[k - 1] + Weight(t[k])
  BY <1>2, NestingIs
<1>5. PICK ls \in Nat : ls = Len(s)
  OBVIOUS
<1>6. PICK lt \in Nat : lt = Len(t)
  OBVIOUS
<1>7. a + lt <= ls
  BY <1>5, <1>6
<1> DEFINE U == {b \in Nat : b > lt \/ ns[a + b] = ns[a] + nt[b]}
<1>8. 0 \in U
  <2>1. a \in 0 .. ls
    BY <1>7
  <2>2. ns[a] \in Int
    BY <1>3, <1>5, <2>1
  <2> QED
    BY <1>4, <2>2
<1>9. ASSUME NEW b \in U PROVE b + 1 \in U
  <2>1. CASE b + 1 > lt
    BY <2>1
  <2>2. CASE b + 1 <= lt
    <3>1. ns[a + b] = ns[a] + nt[b]
      BY <1>9, <2>2
    <3>2. PICK d \in 1 .. lt : d = b + 1 /\ d - 1 = b
      BY <2>2
    <3>3. PICK g \in 1 .. ls : g = a + d /\ g - 1 = a + b
      BY <1>7, <3>2
    <3>4. s[g] = t[d]
      BY <1>6, <3>2, <3>3
    <3>5. ns[g] = ns[a + b] + Weight(t[d])
      BY <1>3, <1>5, <3>3, <3>4
    <3>6. nt[d] = nt[b] + Weight(t[d])
      BY <1>4, <1>6, <3>2
    <3>7. ns[a] \in Int /\ nt[b] \in Int /\ Weight(t[d]) \in Int
      <4>1. a \in 0 .. ls /\ b \in 0 .. lt
        BY <1>7, <2>2
      <4>2. ns[a] \in Int
        BY <1>3, <1>5, <4>1
      <4>3. nt[b] \in Int
        BY <1>4, <1>6, <4>1
      <4> QED
        BY <4>2, <4>3 DEF Weight
    <3>8. ns[g] = ns[a] + nt[d]
      BY <3>1, <3>5, <3>6, <3>7
    <3> QED
      BY <3>2, <3>3, <3>8
  <2> QED
    BY <2>1, <2>2
<1>10. U = Nat
  <2> HIDE DEF U
  <2>1. U \in SUBSET Nat
    BY DEF U
  <2> QED
    BY <1>8, <1>9, <2>1, InductiveSet
<1>11. \A b \in 0 .. lt : ns[a + b] = ns[a] + nt[b]
  BY <1>10
<1> QED
  BY <1>1, <1>2, <1>6, <1>11 DEF NestsInside

----------------------------------------------------------------------------
(* The elements with a separator between them                              *)

Signs == Symbols \cup {"space"}

\* What Joined concatenates.
Parts(es, sep) == [k \in 1 .. Len(es) |-> IF k = 1 THEN es[k] ELSE <<sep>> \o es[k]]

\* One symbol stands before every element other than the first.
Gap(k) == IF k = 1 THEN 0 ELSE 1

\* at[k] is where the k-th element ends.
Stops(at, es, ne) ==
    /\ at \in [0 .. ne -> Nat] /\ at[0] = 0
    /\ \A k \in 1 .. ne : at[k] = at[k - 1] + Len(es[k]) + Gap(k)

\* joined is the elements with sep between them.
Separated(joined, es, sep, at, ne) ==
    /\ joined \in Seq(Signs) /\ Len(joined) = at[ne]
    /\ \A k \in 1 .. ne :
          /\ at[k] <= at[ne]
          /\ k # 1 => joined[at[k - 1] + 1] = sep
          /\ \A b \in 1 .. Len(es[k]) : joined[at[k] - Len(es[k]) + b] = es[k][b]

\* What the parts are.
PartsOf(seqs, es, sep, ne) ==
    /\ seqs \in [1 .. ne -> Seq(Signs)]
    /\ \A k \in 1 .. ne :
          /\ Len(es[k]) \in Nat
          /\ Len(seqs[k]) = Len(es[k]) + Gap(k)
          /\ k = 1 => seqs[k] = es[k]
          /\ k # 1 => /\ seqs[k][1] = sep
                      /\ \A b \in 1 .. Len(es[k]) : seqs[k][b + 1] = es[k][b]

\* The parts are texts: the first element, and the others behind a separator.
LEMMA PartsAre ==
    ASSUME NEW ne \in Nat, NEW es \in [1 .. ne -> Seq(Signs)], NEW sep \in Signs
    PROVE  PartsOf(Parts(es, sep), es, sep, ne)
<1>1. Len(es) = ne
  OBVIOUS
<1>2. ASSUME NEW k \in 1 .. ne
      PROVE  /\ Len(es[k]) \in Nat /\ <<sep>> \o es[k] \in Seq(Signs)
             /\ Len(<<sep>> \o es[k]) = Len(es[k]) + 1
             /\ (<<sep>> \o es[k])[1] = sep
             /\ \A b \in 1 .. Len(es[k]) : (<<sep>> \o es[k])[b + 1] = es[k][b]
  <2>1. PICK t \in Seq(Signs) : t = es[k]
    OBVIOUS
  <2>0. <<sep>> \in Seq(Signs) /\ Len(<<sep>>) = 1 /\ <<sep>>[1] = sep
    OBVIOUS
  <2>2. PICK s \in Seq(Signs) : s = <<sep>> /\ Len(s) = 1 /\ s[1] = sep
    BY <2>0
  <2>3. /\ s \o t \in Seq(Signs)
        /\ Len(s) \in Nat /\ Len(t) \in Nat /\ Len(s \o t) = Len(s) + Len(t)
        /\ \A j \in 1 .. Len(s) : (s \o t)[j] = s[j]
        /\ \A j \in 1 .. Len(t) : (s \o t)[Len(s) + j] = t[j]
    BY Concat
  <2>4. 1 \in 1 .. Len(s) /\ \A b \in 1 .. Len(t) : Len(s) + b = b + 1
    BY <2>2, <2>3
  <2>5. /\ Len(s \o t) = Len(t) + 1 /\ (s \o t)[1] = sep
        /\ \A b \in 1 .. Len(t) : (s \o t)[b + 1] = t[b]
    BY <2>2, <2>3, <2>4
  <2> QED
    BY <2>1, <2>2, <2>3, <2>5
<1>3. \A k \in 1 .. ne : Parts(es, sep)[k] = IF k = 1 THEN es[k] ELSE <<sep>> \o es[k]
  BY <1>1 DEF Parts
<1>4. \A k \in 1 .. ne : Parts(es, sep)[k] \in Seq(Signs)
  BY <1>2, <1>3
<1>5. Parts(es, sep) \in [1 .. ne -> Seq(Signs)]
  <2>1. Parts(es, sep) = [k \in 1 .. ne |-> Parts(es, sep)[k]]
    BY <1>1 DEF Parts
  <2> QED
    BY <1>4, <2>1
<1>6. ASSUME NEW k \in 1 .. ne
      PROVE  /\ Len(es[k]) \in Nat
             /\ Len(Parts(es, sep)[k]) = Len(es[k]) + Gap(k)
             /\ k = 1 => Parts(es, sep)[k] = es[k]
             /\ k # 1 => /\ Parts(es, sep)[k][1] = sep
                         /\ \A b \in 1 .. Len(es[k]) : Parts(es, sep)[k][b + 1] = es[k][b]
  <2>1. CASE k = 1
    <3>1. Parts(es, sep)[k] = es[k] /\ Len(es[k]) \in Nat
      BY <1>2, <1>3, <2>1
    <3> QED
      BY <2>1, <3>1 DEF Gap
  <2>2. CASE k # 1
    <3>1. Parts(es, sep)[k] = <<sep>> \o es[k] /\ Gap(k) = 1
      BY <1>3, <2>2 DEF Gap
    <3> QED
      BY <1>2, <2>2, <3>1, Zenon
  <2> QED
    BY <2>1, <2>2
<1> QED
  BY <1>5, <1>6, Zenon DEF PartsOf

\* Where the elements end does not depend on the separator.
LEMMA StopsExist ==
    ASSUME NEW ne \in Nat, NEW es \in [1 .. ne -> Seq(Signs)]
    PROVE  \E at : Stops(at, es, ne)
<1>1. "x" \in Signs
  BY DEF Signs, Symbols
<1>2. PICK seqs : seqs = Parts(es, "x")
  OBVIOUS
<1>3. PartsOf(seqs, es, "x", ne)
  BY <1>1, <1>2, PartsAre
<1>4. PICK at : EndsAt(at, seqs, ne)
  <2>1. seqs \in [1 .. ne -> Seq(Signs)]
    BY <1>3 DEF PartsOf
  <2> QED
    BY <2>1, EndsExist
<1>5. ASSUME NEW k \in 1 .. ne PROVE at[k] = at[k - 1] + Len(es[k]) + Gap(k)
  <2>1. PICK a \in Nat, l \in Nat, g \in Nat : a = at[k - 1] /\ l = Len(es[k]) /\ g = Gap(k)
    <3>1. at[k - 1] \in Nat
      BY <1>4 DEF EndsAt
    <3>2. Len(es[k]) \in Nat
      BY <1>3 DEF PartsOf
    <3>3. Gap(k) \in Nat
      BY DEF Gap
    <3> QED
      BY <3>1, <3>2, <3>3, Zenon
  <2>2. at[k] = a + Len(seqs[k])
    BY <1>4, <2>1 DEF EndsAt
  <2>3. Len(seqs[k]) = l + g
    BY <1>3, <2>1 DEF PartsOf
  <2> QED
    BY <2>1, <2>2, <2>3
<1>6. Stops(at, es, ne)
  BY <1>4, <1>5 DEF EndsAt, Stops
<1> QED
  BY <1>6

\* Joined puts the elements one after the other, with the separator between them.
LEMMA JoinedSeparates ==
    ASSUME NEW ne \in Nat, NEW es \in [1 .. ne -> Seq(Signs)], NEW sep \in Signs,
           NEW at, Stops(at, es, ne)
    PROVE  Separated(Joined(es, sep), es, sep, at, ne)
<1>1. PICK seqs : seqs = Parts(es, sep)
  OBVIOUS
<1>p. PartsOf(seqs, es, sep, ne)
  BY <1>1, PartsAre
<1>2. /\ seqs \in [1 .. ne -> Seq(Signs)]
      /\ \A k \in 1 .. ne :
           /\ Len(es[k]) \in Nat
           /\ Len(seqs[k]) = Len(es[k]) + Gap(k)
           /\ k = 1 => seqs[k] = es[k]
           /\ k # 1 => /\ seqs[k][1] = sep
                       /\ \A b \in 1 .. Len(es[k]) : seqs[k][b + 1] = es[k][b]
  BY <1>p DEF PartsOf
<1>3. EndsAt(at, seqs, ne)
  <2>1. ASSUME NEW k \in 1 .. ne PROVE at[k] = at[k - 1] + Len(seqs[k])
    <3>0. PICK a \in Nat, l \in Nat, g \in Nat : a = at[k - 1] /\ l = Len(es[k]) /\ g = Gap(k)
      <4>1. at[k - 1] \in Nat
        BY DEF Stops
      <4>2. Len(es[k]) \in Nat
        BY <1>2
      <4>3. Gap(k) \in Nat
        BY DEF Gap
      <4> QED
        BY <4>1, <4>2, <4>3
    <3>1. at[k] = a + l + g
      BY <3>0 DEF Stops
    <3>2. Len(seqs[k]) = l + g
      BY <1>2, <3>0
    <3> QED
      BY <3>0, <3>1, <3>2
  <2> QED
    BY <2>1 DEF EndsAt, Stops
<1>4. PICK joined : joined = FlattenSeq(seqs) /\ joined = Joined(es, sep)
  <2>1. Joined(es, sep) = FlattenSeq(Parts(es, sep))
    BY DEF Joined, Parts
  <2> QED
    BY <1>1, <2>1
<1>5. joined \in Seq(Signs) /\ HoldsFirst(joined, seqs, at, ne)
  BY <1>2, <1>3, <1>4, Flattened
<1>6. Len(joined) = at[ne]
  BY <1>5 DEF HoldsFirst
<1>7. ASSUME NEW k \in 1 .. ne
      PROVE  /\ at[k] <= at[ne]
             /\ k # 1 => joined[at[k - 1] + 1] = sep
             /\ \A b \in 1 .. Len(es[k]) : joined[at[k] - Len(es[k]) + b] = es[k][b]
  <2>1. at[k] <= at[ne] /\ \A b \in 1 .. Len(seqs[k]) : joined[at[k - 1] + b] = seqs[k][b]
    BY <1>5 DEF HoldsFirst
  <2>2. PICK l \in Nat : l = Len(es[k])
    BY <1>2
  <2>3. PICK a \in Nat : a = at[k - 1]
    BY DEF Stops
  <2>4. at[k] = a + l + Gap(k)
    BY <2>2, <2>3 DEF Stops
  <2>5. CASE k = 1
    <3>1. seqs[k] = es[k] /\ at[k] - l = a
      BY <1>2, <2>4, <2>5 DEF Gap
    <3> QED
      BY <2>1, <2>2, <2>3, <2>5, <3>1
  <2>6. CASE k # 1
    <3>1. Len(seqs[k]) = l + 1 /\ at[k] - l = a + 1
      BY <1>2, <2>2, <2>4, <2>6 DEF Gap
    <3>2. joined[a + 1] = seqs[k][1] /\ seqs[k][1] = sep
      <4>1. seqs[k][1] = sep
        BY <1>2, <2>6
      <4>2. 1 \in 1 .. Len(seqs[k])
        BY <3>1
      <4>3. joined[at[k - 1] + 1] = seqs[k][1]
        BY <2>1, <4>2, Zenon
      <4> QED
        BY <2>3, <4>1, <4>3, Zenon
    <3>3. ASSUME NEW b \in 1 .. l PROVE joined[(a + 1) + b] = es[k][b]
      <4>1. b + 1 \in 1 .. Len(seqs[k]) /\ a + (b + 1) = (a + 1) + b
        BY <3>1
      <4>2. joined[a + (b + 1)] = seqs[k][b + 1]
        BY <2>1, <2>3, <4>1
      <4>3. seqs[k][b + 1] = es[k][b]
        BY <1>2, <2>2, <2>6
      <4> QED
        BY <4>1, <4>2, <4>3
    <3> QED
      BY <2>1, <2>2, <2>3, <3>1, <3>2, <3>3
  <2> QED
    BY <2>5, <2>6
<1> QED
  BY <1>4, <1>5, <1>6, <1>7 DEF Separated

\* Every place lies between two stops.
LEMMA BetweenStops ==
    ASSUME NEW ne \in Nat, NEW at \in [0 .. ne -> Nat], at[0] = 0, NEW v \in 1 .. at[ne]
    PROVE  \E k \in 1 .. ne : at[k - 1] < v /\ v <= at[k]
<1> DEFINE S == {k \in 0 .. ne : v <= at[k]}
<1>1. S \in SUBSET Nat /\ ne \in S
  OBVIOUS
<1>2. PICK k \in S : \A e \in S : k <= e
  <2> HIDE DEF S
  <2> QED
    BY <1>1, LeastNat
<1>3. k \in 1 .. ne /\ k - 1 \in 0 .. ne /\ k - 1 \notin S
  BY <1>2
<1>4. at[k - 1] \in Nat /\ v \in Nat
  BY <1>3
<1> QED
  BY <1>2, <1>3, <1>4

\* meant is what joined means: its outermost commas are spaces.
Rewritten(joined, meant) ==
    /\ joined \in Seq(Signs) /\ meant \in Seq(Signs) /\ Len(meant) = Len(joined)
    /\ Nesting(joined)[Len(joined)] = 0
    /\ \A v \in 1 .. Len(joined) :
          /\ Nesting(joined)[v] >= 0
          /\ meant[v] = IF joined[v] = "comma" /\ Nesting(joined)[v - 1] = 0 THEN "space" ELSE joined[v]

\* The commas between the elements are the ones outside all brackets.
LEMMA JoinedRewritten ==
    ASSUME NEW ne \in Nat, NEW es \in [1 .. ne -> Elements]
    PROVE  Rewritten(Joined(es, "comma"), Joined(es, "space"))
<1>1. es \in [1 .. ne -> Seq(Signs)] /\ \A k \in 1 .. ne : Balanced(es[k])
  <2>1. Elements \subseteq Seq(Symbols) /\ \A x \in Elements : Balanced(x)
    BY InputAssumption
  <2>2. Seq(Symbols) \subseteq Seq(Signs)
    BY DEF Signs
  <2>3. \A k \in 1 .. ne : es[k] \in Seq(Signs) /\ Balanced(es[k])
    <3> TAKE k \in 1 .. ne
    <3>1. es[k] \in Elements
      OBVIOUS
    <3> QED
      BY <2>1, <2>2, <3>1
  <2>4. es = [k \in 1 .. ne |-> es[k]]
    OBVIOUS
  <2> QED
    BY <2>3, <2>4
<1>2. PICK at : Stops(at, es, ne)
  BY <1>1, StopsExist
<1>3. PICK joined : joined = Joined(es, "comma") /\ Separated(joined, es, "comma", at, ne)
  <2>1. "comma" \in Signs
    BY DEF Signs, Symbols
  <2> QED
    BY <1>1, <1>2, <2>1, JoinedSeparates
<1>4. PICK meant : meant = Joined(es, "space") /\ Separated(meant, es, "space", at, ne)
  <2>1. "space" \in Signs
    BY DEF Signs
  <2> QED
    BY <1>1, <1>2, <2>1, JoinedSeparates
<1>5. PICK nest : nest = Nesting(joined)
  OBVIOUS
<1>6. PICK len \in Nat : len = at[ne]
  BY <1>2 DEF Stops
<1>7. joined \in Seq(Signs) /\ meant \in Seq(Signs) /\ Len(joined) = len /\ Len(meant) = len
  BY <1>3, <1>4, <1>6 DEF Separated
<1>8. /\ nest \in [0 .. len -> Int] /\ nest[0] = 0
      /\ \A v \in 1 .. len : nest[v] = nest[v - 1] + Weight(joined[v])
  BY <1>5, <1>7, NestingIs
<1>9. Weight("comma") = 0
  BY DEF Weight, IsCloser
\* Element k begins behind a and a separator of g symbols and has l symbols.
<1> DEFINE Element(k, a, l, g) ==
      /\ a = at[k - 1] /\ l = Len(es[k]) /\ at[k] = a + g + l /\ a + g + l <= len
      /\ g = 1 => joined[a + 1] = "comma" /\ meant[a + 1] = "space"
      /\ \A b \in 1 .. l : joined[a + g + b] = es[k][b] /\ meant[a + g + b] = es[k][b]
    Levels(k, a, l, g) ==
      nest[a + g] = 0 /\ \A b \in 0 .. l : nest[a + g + b] = Nesting(es[k])[b]
<1>10. ASSUME NEW k \in 1 .. ne PROVE \E a \in Nat, l \in Nat, g \in 0 .. 1 : Element(k, a, l, g)
  <2>1. PICK a \in Nat : a = at[k - 1]
    BY <1>2 DEF Stops
  <2>2. PICK l \in Nat : l = Len(es[k])
    <3>1. es[k] \in Seq(Signs)
      BY <1>1
    <3> QED
      BY <3>1
  <2>3. PICK g \in 0 .. 1 : g = Gap(k)
    BY DEF Gap
  <2>4. at[k] = a + l + g
    BY <1>2, <2>1, <2>2, <2>3 DEF Stops
  <2>5. at[k] = a + g + l /\ at[k] - l = a + g
    BY <2>4
  <2>6. g = 1 => k # 1
    BY <2>3 DEF Gap
  <2>7. /\ at[k] <= len
        /\ k # 1 => joined[a + 1] = "comma"
        /\ \A b \in 1 .. l : joined[a + g + b] = es[k][b]
    <3>1. /\ at[k] <= at[ne]
          /\ k # 1 => joined[at[k - 1] + 1] = "comma"
          /\ \A b \in 1 .. Len(es[k]) : joined[at[k] - Len(es[k]) + b] = es[k][b]
      BY <1>3 DEF Separated
    <3> QED
      BY <1>6, <2>1, <2>2, <2>5, <3>1
  <2>8. /\ k # 1 => meant[a + 1] = "space"
        /\ \A b \in 1 .. l : meant[a + g + b] = es[k][b]
    <3>1. /\ k # 1 => meant[at[k - 1] + 1] = "space"
          /\ \A b \in 1 .. Len(es[k]) : meant[at[k] - Len(es[k]) + b] = es[k][b]
      BY <1>4 DEF Separated
    <3> QED
      BY <2>1, <2>2, <2>5, <3>1
  <2>9. a + g + l <= len
    BY <2>5, <2>7
  <2>10. Element(k, a, l, g)
    BY <2>1, <2>2, <2>5, <2>6, <2>7, <2>8, <2>9, Zenon
  <2> HIDE DEF Element
  <2> QED
    BY <2>10
\* Inside an element that begins at level 0 the levels are its own.
<1>11. ASSUME NEW k \in 1 .. ne, NEW a \in Nat, NEW l \in Nat, NEW g \in 0 .. 1,
              Element(k, a, l, g), nest[a] = 0
       PROVE  Levels(k, a, l, g)
  <2>0. /\ l = Len(es[k]) /\ a + g + l <= len /\ (g = 1 => joined[a + 1] = "comma")
        /\ \A b \in 1 .. l : joined[a + g + b] = es[k][b]
    BY <1>11
  <2> HIDE DEF Element
  <2>1. nest[a + g] = 0
    <3>1. CASE g = 0
      <4>1. a + g = a
        BY <3>1
      <4> QED
        BY <1>11, <4>1
    <3>2. CASE g = 1
      <4>1. a + 1 \in 1 .. len /\ (a + 1) - 1 = a
        BY <2>0, <3>2
      <4>2. nest[a + 1] = nest[a] + Weight(joined[a + 1])
        BY <1>8, <4>1
      <4>3. joined[a + 1] = "comma"
        BY <2>0, <3>2
      <4>4. nest[a + 1] = 0
        BY <1>9, <1>11, <4>2, <4>3
      <4> QED
        BY <3>2, <4>4
    <3> QED
      BY <3>1, <3>2
  <2>2. PICK t \in Seq(Signs) : t = es[k]
    BY <1>1
  <2>3. PICK f \in Nat : f = a + g
    OBVIOUS
  <2>4. f + Len(t) <= Len(joined) /\ \A b \in 1 .. Len(t) : joined[f + b] = t[b]
    BY <1>7, <2>0, <2>2, <2>3
  <2>5. \A b \in 0 .. Len(t) : Nesting(joined)[f + b] = Nesting(joined)[f] + Nesting(t)[b]
    <3>1. NestsInside(joined, t, f)
      BY <1>7, <2>4, NestingInside
    <3> QED
      BY <3>1 DEF NestsInside
  <2>6. PICK nt : nt = Nesting(t)
    OBVIOUS
  <2>7. nt \in [0 .. l -> Int]
    BY <2>0, <2>2, <2>6, NestingIs
  <2>8. \A b \in 0 .. l : nest[f + b] = 0 + nt[b]
    BY <1>5, <2>0, <2>1, <2>2, <2>3, <2>5, <2>6
  <2>9. \A b \in 0 .. l : nest[f + b] = nt[b]
    BY <2>7, <2>8
  <2> QED
    BY <2>1, <2>2, <2>3, <2>6, <2>9 DEF Levels
<1> HIDE DEF Element, Levels
\* Between the elements the level is 0.
<1> DEFINE U == {k \in Nat : k > ne \/ nest[at[k]] = 0}
<1>13. 0 \in U
  <2>1. at[0] = 0
    BY <1>2 DEF Stops
  <2> QED
    BY <1>8, <2>1
<1>14. ASSUME NEW m \in U PROVE m + 1 \in U
  <2>1. CASE m + 1 > ne
    BY <2>1
  <2>2. CASE m + 1 <= ne
    <3>1. PICK k \in 1 .. ne : k = m + 1 /\ k - 1 = m
      BY <2>2
    <3>2. nest[at[m]] = 0
      BY <1>14, <2>2
    <3>3. PICK a \in Nat, l \in Nat, g \in 0 .. 1 : Element(k, a, l, g)
      BY <1>10
    <3>4. a = at[k - 1] /\ l = Len(es[k]) /\ at[k] = a + g + l
      BY <3>3 DEF Element
    <3>5. nest[a] = 0
      BY <3>1, <3>2, <3>4
    <3>6. nest[a + g + l] = Nesting(es[k])[l]
      <4>0. Levels(k, a, l, g)
        BY <1>11, <3>3, <3>5
      <4>1. \A b \in 0 .. l : nest[a + g + b] = Nesting(es[k])[b]
        BY <4>0 DEF Levels
      <4>2. l \in 0 .. l
        OBVIOUS
      <4> QED
        BY <4>1, <4>2, Zenon
    <3>7. Nesting(es[k])[l] = 0
      BY <1>1, <3>4 DEF Balanced
    <3>8. nest[at[k]] = 0
      BY <3>4, <3>6, <3>7
    <3> QED
      BY <3>1, <3>8
  <2> QED
    BY <2>1, <2>2
<1>15. \A k \in 0 .. ne : nest[at[k]] = 0
  <2>1. U = Nat
    <3> HIDE DEF U
    <3>1. U \in SUBSET Nat
      BY DEF U
    <3> QED
      BY <1>13, <1>14, <3>1, InductiveSet
  <2> QED
    BY <2>1
<1>16. ASSUME NEW v \in 1 .. len
       PROVE  /\ nest[v] >= 0
              /\ meant[v] = IF joined[v] = "comma" /\ nest[v - 1] = 0 THEN "space" ELSE joined[v]
  <2>1. PICK k \in 1 .. ne : at[k - 1] < v /\ v <= at[k]
    <3>1. at \in [0 .. ne -> Nat] /\ at[0] = 0 /\ v \in 1 .. at[ne]
      BY <1>2, <1>6 DEF Stops
    <3> QED
      BY <3>1, BetweenStops
  <2>2. PICK a \in Nat, l \in Nat, g \in 0 .. 1 : Element(k, a, l, g)
    BY <1>10
  <2>3. /\ a = at[k - 1] /\ l = Len(es[k]) /\ at[k] = a + g + l
        /\ g = 1 => joined[a + 1] = "comma" /\ meant[a + 1] = "space"
        /\ \A b \in 1 .. l : joined[a + g + b] = es[k][b] /\ meant[a + g + b] = es[k][b]
    BY <2>2 DEF Element
  <2>4. nest[a] = 0
    BY <1>15, <2>3
  <2>5. nest[a + g] = 0 /\ \A b \in 0 .. l : nest[a + g + b] = Nesting(es[k])[b]
    <3>1. Levels(k, a, l, g)
      BY <1>11, <2>2, <2>4
    <3> QED
      BY <3>1 DEF Levels
  <2>6. v \in Nat /\ a < v /\ v <= a + g + l
    BY <2>1, <2>3
  <2>7. CASE v <= a + g
    <3>1. g = 1 /\ v = a + 1 /\ v - 1 = a
      BY <2>6, <2>7
    <3>2. joined[a + 1] = "comma" /\ meant[a + 1] = "space"
      BY <2>3, <3>1
    <3>3. nest[a + 1] = 0
      BY <2>5, <3>1
    <3> QED
      BY <2>4, <3>1, <3>2, <3>3
  <2>8. CASE v > a + g
    <3>1. PICK b \in 1 .. l : v = a + g + b
      <4>1. v - (a + g) \in 1 .. l /\ v = a + g + (v - (a + g))
        BY <2>6, <2>8
      <4> QED
        BY <4>1
    <3>2. joined[v] = es[k][b] /\ meant[v] = es[k][b]
      BY <2>3, <3>1
    <3>3. nest[v] = Nesting(es[k])[b]
      <4>1. b \in 0 .. l
        OBVIOUS
      <4>2. nest[a + g + b] = Nesting(es[k])[b]
        BY <2>5, <4>1
      <4> QED
        BY <3>1, <4>2
    <3>4. Nesting(es[k])[b] >= 0 /\ (es[k][b] = "comma" => Nesting(es[k])[b] > 0)
      BY <1>1, <2>3 DEF Balanced
    <3>5. nest[v] = nest[v - 1] + Weight(joined[v])
      BY <1>8
    <3>6. nest[v - 1] \in Int
      BY <1>8
    <3>7. joined[v] = "comma" => nest[v - 1] # 0
      <4> SUFFICES ASSUME joined[v] = "comma" PROVE nest[v - 1] # 0
        OBVIOUS
      <4>1. nest[v] = nest[v - 1] + 0
        BY <1>9, <3>5
      <4>2. nest[v] > 0
        BY <3>2, <3>3, <3>4
      <4> QED
        BY <3>6, <4>1, <4>2
    <3> QED
      BY <3>2, <3>3, <3>4, <3>7
  <2> QED
    BY <2>6, <2>7, <2>8
<1>17. nest[Len(joined)] = 0
  <2>1. ne \in 0 .. ne
    OBVIOUS
  <2> QED
    BY <1>6, <1>7, <1>15, <2>1
<1>18. Rewritten(joined, meant)
  BY <1>5, <1>7, <1>16, <1>17 DEF Rewritten
<1> QED
  BY <1>3, <1>4, <1>18

----------------------------------------------------------------------------
(* The invariant                                                           *)

\* The array's own text, between its brackets.
Array == Joined(elems, "comma")

\* The text is b other symbols, the array and its brackets, and what is behind it, cut
\* off somewhere.
Shaped(b) ==
    \A k \in 1 .. Len(text) :
        /\ k <= b => text[k] = "x"
        /\ k = b + 1 => text[k] = "lbracket"
        /\ k > b + 1 /\ k <= b + 1 + Len(Array) => text[k] = Array[k - b - 1]
        /\ k = b + 2 + Len(Array) => text[k] = "rbracket"

\* How many symbols of the text the adapter has looked at.
Seen == IF pc = "filter" THEN consumed - n + i ELSE consumed

\* How many symbols are ready in the buffer.
Buffered == IF pc = "filter" THEN out_pos ELSE 0

\* The first l symbols of meant are given and the first q of ready.
Handed(given, q, ready, meant, l) ==
    /\ Len(given) + q = l /\ l <= Len(meant)
    /\ \A k \in 1 .. Len(given) : given[k] = meant[k]
    /\ \A k \in 1 .. q : ready[k] = meant[Len(given) + k]

\* The first l symbols of the elements have been handed out or are ready.
HandedOut(l) == Handed(out, Buffered, buf, Meaning, l)

Progress(b) ==
    /\ ~ started => Seen <= b /\ depth = 0 /\ HandedOut(0)
    /\ started /\ ~ done => /\ Seen >= b + 1 /\ Seen <= b + 1 + Len(Array)
                            /\ depth = Nesting(Array)[Seen - b - 1]
                            /\ HandedOut(Seen - b - 1)
    /\ done => HandedOut(Held)

\* The symbols not yet looked at are in their places.
Unread == pc = "filter" => \A k \in 1 .. n : k > i => buf[k] = text[consumed - n + k]

Basics ==
    /\ elems \in Seq(Elements) /\ text \in Seq(Signs)
    /\ TypeOK
    /\ pc = "filter" => n <= consumed
    /\ eof => done /\ pc = "idle"
    /\ pc # "idle" /\ done => started

IInv == Basics /\ Unread /\ \E b \in Nat : Shaped(b) /\ Progress(b)

\* What the text means.
LEMMA MeaningIs ==
    ASSUME elems \in Seq(Elements)
    PROVE  Rewritten(Array, Meaning) /\ Len(Array) \in Nat
<1>1. PICK ne \in Nat : elems \in [1 .. ne -> Elements]
  <2>1. Len(elems) \in Nat /\ elems \in [1 .. Len(elems) -> Elements]
    OBVIOUS
  <2> QED
    BY <2>1
<1>2. Rewritten(Array, Meaning)
  BY <1>1, JoinedRewritten DEF Array, Meaning
<1>3. Array \in Seq(Signs)
  BY <1>2 DEF Rewritten
<1> QED
  BY <1>2, <1>3

\* How much a text of this shape holds.
LEMMA HeldIs ==
    ASSUME Basics, NEW b \in Nat, Shaped(b)
    PROVE  /\ Len(text) <= b => Held = 0
           /\ Len(text) > b =>
                 Held = IF Len(text) - b - 1 < Len(Array) THEN Len(text) - b - 1 ELSE Len(Array)
<1>1. text \in Seq(Signs) /\ elems \in Seq(Elements)
  BY DEF Basics
<1>2. PICK lt \in Nat : lt = Len(text)
  BY <1>1
<1>3. PICK la \in Nat : la = Len(Array) /\ la = Len(Meaning)
  BY <1>1, MeaningIs DEF Rewritten
<1> DEFINE opened == {k \in 1 .. lt : text[k] = "lbracket"}
<1>4. \A k \in 1 .. lt : (k <= b => text[k] = "x") /\ (k = b + 1 => text[k] = "lbracket")
  BY <1>2 DEF Shaped
<1>5. \A k \in opened : k > b
  BY <1>4
<1>6. Held = IF opened = {} THEN 0 ELSE Min({la, lt - Min(opened)})
  BY <1>2, <1>3 DEF Held
<1>7. CASE lt <= b
  <2>1. opened = {}
    BY <1>5, <1>7
  <2> QED
    BY <1>2, <1>6, <1>7, <2>1
<1>8. CASE lt > b
  <2>1. b + 1 \in opened
    BY <1>4, <1>8
  <2>2. opened \in SUBSET Nat
    OBVIOUS
  <2> HIDE DEF opened
  <2>3. Min(opened) \in opened /\ \A y \in opened : Min(opened) <= y
    BY <2>1, <2>2, MinIs
  <2>4. PICK m \in Nat : m = Min(opened) /\ m > b /\ m <= b + 1
    BY <1>5, <2>1, <2>2, <2>3
  <2>5. m = b + 1 /\ lt - m \in Nat /\ lt - m = lt - b - 1
    BY <1>8, <2>4
  <2>6. Min({la, lt - m}) = IF lt - m < la THEN lt - m ELSE la
    BY <2>5, MinOfTwo
  <2>7. Held = Min({la, lt - m})
    BY <1>6, <2>1, <2>4
  <2>8. Held = IF lt - b - 1 < la THEN lt - b - 1 ELSE la
    BY <2>5, <2>6, <2>7
  <2> QED
    BY <1>2, <1>3, <1>8, <2>8
<1> QED
  BY <1>2, <1>7, <1>8

\* Only the text and the elements say what is to be handed out.
LEMMA TextStays ==
    ASSUME elems' = elems, text' = text
    PROVE  /\ Array' = Array /\ Meaning' = Meaning /\ Held' = Held
           /\ \A b : Shaped(b)' <=> Shaped(b)
<1>1. Array' = Array /\ Meaning' = Meaning
  BY DEF Array, Meaning
<1>2. Held' = Held
  BY <1>1 DEF Held
<1> QED
  BY <1>1, <1>2 DEF Shaped

\* One symbol more is ready.
LEMMA EmitHands ==
    ASSUME NEW given \in Seq(Signs), NEW q \in Nat, NEW ready \in Seq(Signs), q + 1 <= Len(ready),
           NEW meant \in Seq(Signs), NEW l \in Nat, Handed(given, q, ready, meant, l),
           l + 1 <= Len(meant)
    PROVE  Handed(given, q + 1, [ready EXCEPT ![q + 1] = meant[l + 1]], meant, l + 1)
<1>1. PICK lg \in Nat : lg = Len(given)
  OBVIOUS
<1>2. PICK lm \in Nat : lm = Len(meant) /\ l + 1 <= lm
  OBVIOUS
<1>3. /\ lg + q = l
      /\ \A k \in 1 .. lg : given[k] = meant[k]
      /\ \A k \in 1 .. q : ready[k] = meant[lg + k]
  BY <1>1 DEF Handed
<1>4. PICK new : new = [ready EXCEPT ![q + 1] = meant[l + 1]]
  OBVIOUS
<1>5. q + 1 \in DOMAIN ready
  OBVIOUS
<1>6. new[q + 1] = meant[l + 1] /\ \A k \in 1 .. q : new[k] = ready[k]
  <2>1. \A k \in 1 .. q : k \in DOMAIN ready /\ k # q + 1
    OBVIOUS
  <2> QED
    BY <1>4, <1>5, <2>1
<1>7. lg + (q + 1) = l + 1
  BY <1>3
<1>8. ASSUME NEW k \in 1 .. q + 1 PROVE new[k] = meant[lg + k]
  <2>1. CASE k = q + 1
    BY <1>6, <1>7, <2>1
  <2>2. CASE k \in 1 .. q
    BY <1>3, <1>6, <2>2
  <2> QED
    BY <2>1, <2>2
<1>9. Handed(given, q + 1, new, meant, l + 1)
  BY <1>1, <1>2, <1>3, <1>7, <1>8 DEF Handed
<1> QED
  BY <1>4, <1>9

\* u is t behind s.
Behind(u, s, ls, t, lt) ==
    /\ u \in Seq(Signs) /\ Len(u) = ls + lt
    /\ \A k \in 1 .. ls : u[k] = s[k]
    /\ \A k \in 1 .. lt : u[ls + k] = t[k]

\* A concatenation is one text behind another.
LEMMA ConcatBehind ==
    ASSUME NEW s \in Seq(Signs), NEW ls \in Nat, Len(s) = ls,
           NEW t \in Seq(Signs), NEW lt \in Nat, Len(t) = lt
    PROVE  Behind(s \o t, s, ls, t, lt)
<1>1. s \o t \in Seq(Signs) /\ Len(s \o t) = ls + lt
  OBVIOUS
<1>2. \A k \in 1 .. ls : (s \o t)[k] = s[k]
  OBVIOUS
<1>3. \A k \in 1 .. lt : (s \o t)[ls + k] = t[k]
  OBVIOUS
<1> QED
  BY <1>1, <1>2, <1>3, Zenon DEF Behind

\* The whole text, uncut, has the shape.
LEMMA WholeText ==
    ASSUME NEW es \in Seq(Elements), NEW before \in Outside, NEW after \in Outside
    PROVE  /\ ArrayText(before, es, after) \in Seq(Signs)
           /\ \A k \in 1 .. Len(ArrayText(before, es, after)) :
                 /\ k <= Len(before) => ArrayText(before, es, after)[k] = "x"
                 /\ k = Len(before) + 1 => ArrayText(before, es, after)[k] = "lbracket"
                 /\ k > Len(before) + 1 /\ k <= Len(before) + 1 + Len(Joined(es, "comma")) =>
                       ArrayText(before, es, after)[k] = Joined(es, "comma")[k - Len(before) - 1]
                 /\ k = Len(before) + 2 + Len(Joined(es, "comma")) =>
                       ArrayText(before, es, after)[k] = "rbracket"
<1>1. before \in Seq({"x"}) /\ after \in Seq({"x"})
  BY InputAssumption
<1>2. before \in Seq(Signs) /\ after \in Seq(Signs) /\ \A k \in 1 .. Len(before) : before[k] = "x"
  BY <1>1 DEF Signs, Symbols
<1>3. PICK J : J = Joined(es, "comma") /\ J \in Seq(Signs)
  <2>1. PICK ne \in Nat : es \in [1 .. ne -> Elements]
    <3>1. Len(es) \in Nat /\ es \in [1 .. Len(es) -> Elements]
      OBVIOUS
    <3> QED
      BY <3>1
  <2> QED
    BY <2>1, JoinedRewritten DEF Rewritten
<1>4. PICK open : open = <<"lbracket">>
  OBVIOUS
<1>5. open \in Seq(Signs) /\ Len(open) = 1 /\ open[1] = "lbracket"
  BY <1>4 DEF Signs, Symbols
<1>6. PICK close : close = <<"rbracket">>
  OBVIOUS
<1>7. close \in Seq(Signs) /\ Len(close) = 1 /\ close[1] = "rbracket"
  BY <1>6 DEF Signs, Symbols
<1>8. ArrayText(before, es, after) = before \o open \o J \o close \o after
  BY <1>3, <1>4, <1>6 DEF ArrayText
<1>9. PICK lb \in Nat : lb = Len(before)
  BY <1>2
<1>10. PICK lj \in Nat : lj = Len(J)
  BY <1>3
<1>11. PICK s1 : s1 = before \o open
  OBVIOUS
<1>12. /\ s1 \in Seq(Signs) /\ Len(s1) = lb + 1 /\ s1[lb + 1] = "lbracket"
       /\ \A k \in 1 .. lb : s1[k] = "x"
  <2>1. Behind(s1, before, lb, open, 1)
    BY <1>2, <1>5, <1>9, <1>11, ConcatBehind
  <2>2. 1 \in 1 .. 1
    OBVIOUS
  <2> QED
    BY <1>2, <1>5, <1>9, <2>1, <2>2 DEF Behind
<1>13. PICK s2 : s2 = s1 \o J
  OBVIOUS
<1>14. /\ s2 \in Seq(Signs) /\ Len(s2) = lb + 1 + lj
       /\ \A k \in 1 .. lb + 1 : s2[k] = s1[k]
       /\ \A k \in 1 .. lj : s2[lb + 1 + k] = J[k]
  <2>1. lb + 1 \in Nat
    OBVIOUS
  <2>2. Behind(s2, s1, lb + 1, J, lj)
    BY <1>3, <1>10, <1>12, <1>13, <2>1, ConcatBehind
  <2> QED
    BY <2>2 DEF Behind
<1>15. PICK s3 : s3 = s2 \o close
  OBVIOUS
<1>16. /\ s3 \in Seq(Signs) /\ Len(s3) = lb + 2 + lj
       /\ \A k \in 1 .. lb + 1 + lj : s3[k] = s2[k]
       /\ s3[lb + 2 + lj] = "rbracket"
  <2>1. /\ s3 \in Seq(Signs) /\ Len(s3) = lb + 1 + lj + 1
        /\ \A k \in 1 .. lb + 1 + lj : s3[k] = s2[k]
        /\ \A k \in 1 .. 1 : s3[lb + 1 + lj + k] = close[k]
    <3>1. lb + 1 + lj \in Nat
      OBVIOUS
    <3>2. Behind(s3, s2, lb + 1 + lj, close, 1)
      BY <1>7, <1>14, <1>15, <3>1, ConcatBehind
    <3> QED
      BY <3>2 DEF Behind
  <2>2. 1 \in 1 .. 1 /\ lb + 1 + lj + 1 = lb + 2 + lj
    OBVIOUS
  <2> QED
    BY <1>7, <2>1, <2>2
<1>17. PICK s4 : s4 = s3 \o after
  OBVIOUS
<1>18. s4 \in Seq(Signs) /\ \A k \in 1 .. lb + 2 + lj : s4[k] = s3[k]
  BY <1>2, <1>16, <1>17, Concat
<1>19. s4 = ArrayText(before, es, after)
  BY <1>8, <1>11, <1>13, <1>15, <1>17
<1>20. ASSUME NEW k \in Nat, k >= 1
       PROVE  /\ k <= lb => s4[k] = "x"
              /\ k = lb + 1 => s4[k] = "lbracket"
              /\ k > lb + 1 /\ k <= lb + 1 + lj => s4[k] = J[k - lb - 1]
              /\ k = lb + 2 + lj => s4[k] = "rbracket"
  <2>1. k <= lb => k \in 1 .. lb
    BY <1>20
  <2>2. k <= lb + 1 => k \in 1 .. lb + 1
    BY <1>20
  <2>3. k <= lb + 1 + lj => k \in 1 .. lb + 1 + lj
    BY <1>20
  <2>4. k <= lb + 2 + lj => k \in 1 .. lb + 2 + lj
    BY <1>20
  <2>5. ASSUME k > lb + 1, k <= lb + 1 + lj PROVE s4[k] = J[k - lb - 1]
    <3>1. k - lb - 1 \in 1 .. lj /\ lb + 1 + (k - lb - 1) = k
      BY <2>5
    <3>2. s2[k] = J[k - lb - 1]
      BY <1>14, <3>1
    <3> QED
      BY <1>16, <1>18, <2>3, <2>4, <2>5, <3>2
  <2>6. k <= lb => s4[k] = "x"
    BY <1>12, <1>14, <1>16, <1>18, <2>1, <2>2, <2>3, <2>4
  <2>7. k = lb + 1 => s4[k] = "lbracket"
    BY <1>12, <1>14, <1>16, <1>18, <2>2, <2>3, <2>4
  <2> QED
    BY <1>16, <1>18, <2>4, <2>5, <2>6, <2>7
<1>21. \A k \in 1 .. Len(s4) : k \in Nat /\ k >= 1
  BY <1>18
<1> QED
  BY <1>3, <1>9, <1>10, <1>18, <1>19, <1>20, <1>21

\* The invariant holds at the start.
LEMMA InitInv ==
    ASSUME Init
    PROVE  IInv
<1>1. elems \in Seq(Elements)
  <2>1. elems \in SeqOf(Elements, MaxElements) /\ MaxElements \in Nat
    BY InputAssumption DEF Init
  <2>2. PICK m \in 0 .. MaxElements : elems \in [1 .. m -> Elements]
    BY <2>1 DEF SeqOf
  <2> QED
    BY <2>1, <2>2
<1>2. PICK before \in Outside, after \in Outside :
         \E cut \in 0 .. Len(ArrayText(before, elems, after)) :
             text = SubSeq(ArrayText(before, elems, after), 1, cut)
  BY DEF Init
<1>3. PICK whole : whole = ArrayText(before, elems, after)
  OBVIOUS
<1>4. whole \in Seq(Signs)
  BY <1>1, <1>3, WholeText
<1>5. PICK lw \in Nat : lw = Len(whole)
  BY <1>4
<1>6. PICK cut \in 0 .. lw : text = SubSeq(whole, 1, cut)
  BY <1>2, <1>3, <1>5
<1>7. text \in Seq(Signs) /\ Len(text) = cut /\ \A k \in 1 .. cut : text[k] = whole[k]
  BY <1>4, <1>5, <1>6
<1>8. PICK b \in Nat : b = Len(before)
  BY InputAssumption
<1>9. Shaped(b)
  <2>1. \A k \in 1 .. lw :
           /\ k <= b => whole[k] = "x"
           /\ k = b + 1 => whole[k] = "lbracket"
           /\ k > b + 1 /\ k <= b + 1 + Len(Array) => whole[k] = Array[k - b - 1]
           /\ k = b + 2 + Len(Array) => whole[k] = "rbracket"
    BY <1>1, <1>3, <1>5, <1>8, WholeText DEF Array
  <2>2. \A k \in 1 .. cut : k \in 1 .. lw
    OBVIOUS
  <2> QED
    BY <1>7, <2>1, <2>2 DEF Shaped
<1>10. /\ consumed = 0 /\ started = FALSE /\ depth = 0 /\ done = FALSE /\ pc = "idle"
       /\ buf = <<>> /\ n = 0 /\ i = 0 /\ out_pos = 0 /\ out = <<>> /\ eof = FALSE
  BY DEF Init
<1>11. Basics
  <2>1. buf \in Seq(Symbols \cup {"space"}) /\ out \in Seq(Symbols \cup {"space"})
    BY <1>10
  <2>2. consumed \in 0 .. Len(text)
    BY <1>7, <1>10
  <2>3. TypeOK
    <3>0. started \in BOOLEAN /\ done \in BOOLEAN /\ eof \in BOOLEAN
      BY <1>10, Zenon
    <3>1. /\ depth \in Nat /\ pc \in {"idle", "fill", "filter"}
          /\ n \in Nat /\ i \in 0 .. n /\ out_pos \in 0 .. i /\ pc # "filter"
      BY <1>10
    <3> QED
      BY <2>1, <2>2, <3>0, <3>1, Zenon DEF TypeOK
  <2> QED
    BY <1>1, <1>7, <1>10, <2>3 DEF Basics
<1>12. Unread
  BY <1>10 DEF Unread
<1>13. HandedOut(0)
  <2>1. Len(Meaning) \in Nat
    BY <1>1, MeaningIs DEF Rewritten
  <2>2. Len(out) = 0 /\ Buffered = 0
    BY <1>10 DEF Buffered
  <2> QED
    BY <2>1, <2>2 DEF HandedOut, Handed
<1>14. Progress(b)
  BY <1>10, <1>13 DEF Progress, Seen
<1> QED
  BY <1>9, <1>11, <1>12, <1>14 DEF IInv

----------------------------------------------------------------------------
(* The steps                                                               *)

\* The texts stay, so the same shape serves.
LEMMA Kept ==
    ASSUME elems' = elems, text' = text, NEW b \in Nat, Shaped(b),
           Basics', Unread', Progress(b)'
    PROVE  IInv'
<1>1. Shaped(b)'
  BY TextStays
<1> QED
  BY <1>1 DEF IInv

\* What stays handed out: as much as before, if no symbol was looked at.
LEMMA ProgressStays ==
    ASSUME elems' = elems, text' = text, started' = started, depth' = depth, done' = done,
           NEW b \in Nat, Progress(b), Seen' = Seen \/ (done /\ started),
           \A l : HandedOut(l) => HandedOut(l)'
    PROVE  Progress(b)'
<1>1. Array' = Array /\ Held' = Held
  BY TextStays
<1>2. HandedOut(0) => HandedOut(0)'
  OBVIOUS
<1>3. PICK l : l = Seen - b - 1
  OBVIOUS
<1>4. PICK h : h = Held
  OBVIOUS
<1>5. ASSUME ~ started' PROVE Seen' <= b /\ depth' = 0 /\ HandedOut(0)'
  BY <1>2, <1>5 DEF Progress
<1>6. ASSUME started', ~ done'
      PROVE  /\ Seen' >= b + 1 /\ Seen' <= b + 1 + Len(Array)'
             /\ depth' = Nesting(Array)'[Seen' - b - 1]
             /\ HandedOut(Seen - b - 1)'
  <2>0. HandedOut(l) => HandedOut(l)'
    OBVIOUS
  <2>1. /\ Seen >= b + 1 /\ Seen <= b + 1 + Len(Array)
        /\ depth = Nesting(Array)[Seen - b - 1] /\ HandedOut(Seen - b - 1)
    BY <1>6 DEF Progress
  <2>2. Seen' = Seen
    BY <1>6
  <2>3. Nesting(Array)' = Nesting(Array) /\ Len(Array)' = Len(Array)
    BY <1>1
  <2>4. HandedOut(l)' /\ l = Seen' - b - 1
    BY <1>3, <2>0, <2>1, <2>2
  <2> QED
    BY <2>1, <2>2, <2>3, <2>4
<1>7. ASSUME done' PROVE HandedOut(Held)'
  <2>1. HandedOut(h) => HandedOut(h)'
    OBVIOUS
  <2>2. HandedOut(h)
    BY <1>4, <1>7 DEF Progress
  <2>3. h = Held'
    BY <1>1, <1>4
  <2> QED
    BY <2>1, <2>2, <2>3
<1> QED
  BY <1>5, <1>6, <1>7 DEF Progress

\* Nothing of the buffer counts when nothing in it is ready.
LEMMA NothingReady ==
    ASSUME elems' = elems, text' = text, out' = out, Buffered = 0, Buffered' = 0
    PROVE  \A l : HandedOut(l) => HandedOut(l)'
<1>1. Meaning' = Meaning
  BY TextStays
<1>2. \A l : Handed(out, 0, buf, Meaning, l) => Handed(out, 0, buf', Meaning, l)
  BY DEF Handed
<1>3. \A l : HandedOut(l)' <=> Handed(out, 0, buf', Meaning, l)
  BY <1>1 DEF HandedOut
<1>4. \A l : HandedOut(l) <=> Handed(out, 0, buf, Meaning, l)
  BY DEF HandedOut
<1> QED
  BY <1>2, <1>3, <1>4

\* A buffer of any size holds symbols.
LEMMA FreshBuffer ==
    ASSUME NEW size \in BufSizes
    PROVE  [k \in 1 .. size |-> "x"] \in Seq(Symbols \cup {"space"})
<1>1. size \in Nat
  BY InputAssumption
<1> QED
  BY <1>1 DEF Symbols

\* Starting a read hands nothing out.
LEMMA ReadStep ==
    ASSUME IInv, Read
    PROVE  IInv'
<1>1. PICK b \in Nat : Shaped(b) /\ Progress(b)
  BY DEF IInv
<1>2. Basics /\ TypeOK
  BY DEF IInv, Basics
<1>3. /\ pc = "idle" /\ ~ eof /\ ~ done /\ pc' = "fill"
      /\ elems' = elems /\ text' = text /\ consumed' = consumed
      /\ started' = started /\ depth' = depth /\ done' = done
      /\ n' = n /\ i' = i /\ out_pos' = out_pos /\ out' = out /\ eof' = eof
  BY DEF Read, adapter
<1>4. buf' \in Seq(Symbols \cup {"space"})
  BY FreshBuffer DEF Read
<1>5. TypeOK'
  <2>1. pc' \in {"idle", "fill", "filter"} /\ pc' # "filter"
    BY <1>3
  <2> QED
    BY <1>2, <1>3, <1>4, <2>1, Zenon DEF TypeOK
<1>6. Basics'
  BY <1>2, <1>3, <1>5 DEF Basics
<1>7. Unread'
  BY <1>3 DEF Unread
<1>8. Buffered = 0 /\ Buffered' = 0 /\ Seen' = Seen
  BY <1>3 DEF Buffered, Seen
<1>9. \A l : HandedOut(l) => HandedOut(l)'
  BY <1>3, <1>8, NothingReady
<1>10. Progress(b)'
  BY <1>1, <1>3, <1>8, <1>9, ProgressStays
<1> QED
  BY <1>1, <1>3, <1>6, <1>7, <1>10, Kept

\* A read of a finished adapter hands nothing out.
LEMMA ReadWhenDoneStep ==
    ASSUME IInv, ReadWhenDone
    PROVE  IInv'
<1>1. PICK b \in Nat : Shaped(b) /\ Progress(b)
  BY DEF IInv
<1>2. Basics /\ TypeOK
  BY DEF IInv, Basics
<1>3. /\ pc = "idle" /\ done /\ eof' = TRUE /\ pc' = pc
      /\ elems' = elems /\ text' = text /\ consumed' = consumed
      /\ started' = started /\ depth' = depth /\ done' = done /\ buf' = buf
      /\ n' = n /\ i' = i /\ out_pos' = out_pos /\ out' = out
  BY DEF ReadWhenDone, adapter
<1>5. TypeOK'
  BY <1>2, <1>3, Zenon DEF TypeOK
<1>6. Basics'
  BY <1>2, <1>3, <1>5 DEF Basics
<1>7. Unread'
  BY <1>3 DEF Unread
<1>8. Buffered = 0 /\ Buffered' = 0 /\ Seen' = Seen
  BY <1>3 DEF Buffered, Seen
<1>9. \A l : HandedOut(l) => HandedOut(l)'
  BY <1>3, <1>8, NothingReady
<1>10. Progress(b)'
  BY <1>1, <1>3, <1>8, <1>9, ProgressStays
<1> QED
  BY <1>1, <1>3, <1>6, <1>7, <1>10, Kept

\* Nor does an interrupted read.
LEMMA InterruptedStep ==
    ASSUME IInv, Interrupted
    PROVE  IInv'
<1>1. PICK b \in Nat : Shaped(b) /\ Progress(b)
  BY DEF IInv
<1>2. Basics /\ TypeOK
  BY DEF IInv, Basics
<1>3. /\ pc = "fill" /\ pc' = "idle"
      /\ elems' = elems /\ text' = text /\ consumed' = consumed
      /\ started' = started /\ depth' = depth /\ done' = done /\ buf' = buf
      /\ n' = n /\ i' = i /\ out_pos' = out_pos /\ out' = out /\ eof' = eof
  BY DEF Interrupted, adapter
<1>5. TypeOK'
  <2>1. pc' \in {"idle", "fill", "filter"} /\ pc' # "filter"
    BY <1>3
  <2> QED
    BY <1>2, <1>3, <2>1, Zenon DEF TypeOK
<1>6. Basics'
  BY <1>2, <1>3, <1>5 DEF Basics
<1>7. Unread'
  BY <1>3 DEF Unread
<1>8. Buffered = 0 /\ Buffered' = 0 /\ Seen' = Seen
  BY <1>3 DEF Buffered, Seen
<1>9. \A l : HandedOut(l) => HandedOut(l)'
  BY <1>3, <1>8, NothingReady
<1>10. Progress(b)'
  BY <1>1, <1>3, <1>8, <1>9, ProgressStays
<1> QED
  BY <1>1, <1>3, <1>6, <1>7, <1>10, Kept

\* The end of the inner reader: what the text holds has been handed out.
LEMMA FillAtEndStep ==
    ASSUME IInv, FillAtEnd
    PROVE  IInv'
<1>1. PICK b \in Nat : Shaped(b) /\ Progress(b)
  BY DEF IInv
<1>2. Basics /\ TypeOK
  BY DEF IInv, Basics
<1>3. /\ pc = "fill" /\ pc' = "idle" /\ consumed = Len(text) /\ done' = TRUE /\ eof' = TRUE
      /\ elems' = elems /\ text' = text /\ consumed' = consumed
      /\ started' = started /\ depth' = depth /\ buf' = buf
      /\ n' = n /\ i' = i /\ out_pos' = out_pos /\ out' = out
  BY DEF FillAtEnd
<1>5. TypeOK'
  <2>1. pc' \in {"idle", "fill", "filter"} /\ pc' # "filter"
    BY <1>3
  <2> QED
    BY <1>2, <1>3, <2>1, Zenon DEF TypeOK
<1>6. Basics'
  BY <1>2, <1>3, <1>5 DEF Basics
<1>7. Unread'
  BY <1>3 DEF Unread
<1>8. Buffered = 0 /\ Buffered' = 0 /\ Seen = consumed /\ Seen' = consumed
  BY <1>3 DEF Buffered, Seen
<1>9. \A l : HandedOut(l) => HandedOut(l)'
  BY <1>3, <1>8, NothingReady
<1>10. PICK lt \in Nat : lt = Len(text)
  BY <1>2 DEF Basics
<1>11. PICK la \in Nat : la = Len(Array)
  BY <1>2, MeaningIs DEF Basics
<1>12. PICK h : h = Held
  OBVIOUS
<1>13. /\ lt <= b => h = 0
       /\ lt > b => h = IF lt - b - 1 < la THEN lt - b - 1 ELSE la
  BY <1>1, <1>2, <1>10, <1>11, <1>12, HeldIs
<1>14. HandedOut(h)
  <2>1. CASE ~ started
    BY <1>1, <1>3, <1>8, <1>10, <1>13, <2>1 DEF Progress
  <2>2. CASE started /\ ~ done
    <3>1. lt >= b + 1 /\ lt <= b + 1 + la /\ HandedOut(lt - b - 1)
      BY <1>1, <1>3, <1>8, <1>10, <1>11, <2>2 DEF Progress
    <3>2. h = lt - b - 1
      BY <1>13, <3>1
    <3> QED
      BY <3>1, <3>2
  <2>3. CASE done
    BY <1>1, <1>12, <2>3 DEF Progress
  <2> QED
    BY <2>1, <2>2, <2>3
<1>15. HandedOut(Held)'
  <2>1. HandedOut(h)'
    BY <1>9, <1>14
  <2>2. h = Held'
    BY <1>3, <1>12, TextStays
  <2> QED
    BY <2>1, <2>2
<1>16. Progress(b)'
  <2>1. ASSUME ~ started' PROVE Seen' <= b /\ depth' = 0 /\ HandedOut(0)'
    <3>1. Seen <= b /\ depth = 0 /\ HandedOut(0)
      BY <1>1, <1>3, <2>1 DEF Progress
    <3> QED
      BY <1>3, <1>8, <1>9, <3>1
  <2> QED
    BY <1>3, <1>15, <2>1 DEF Progress
<1> QED
  BY <1>1, <1>3, <1>6, <1>7, <1>16, Kept


\* A chunk is delivered: its symbols are the next of the text, none looked at yet.
LEMMA FillStep ==
    ASSUME IInv, Fill
    PROVE  IInv'
<1>1. PICK b \in Nat : Shaped(b) /\ Progress(b)
  BY DEF IInv
<1>2. Basics /\ TypeOK /\ text \in Seq(Signs) /\ buf \in Seq(Signs)
  BY DEF IInv, Basics, TypeOK, Signs
<1>3. /\ pc = "fill" /\ pc' = "filter" /\ consumed < Len(text) /\ i' = 0 /\ out_pos' = 0
      /\ elems' = elems /\ text' = text
      /\ started' = started /\ depth' = depth /\ done' = done
      /\ out' = out /\ eof' = eof
  BY DEF Fill, adapter
<1>4. PICK lt \in Nat : lt = Len(text)
  BY <1>2
<1>5. PICK lb \in Nat : lb = Len(buf)
  BY <1>2
<1>6. PICK c \in Nat : c = consumed /\ c < lt
  BY <1>2, <1>3, <1>4 DEF TypeOK
<1>7. PICK got \in 1 .. lb :
         /\ c + got <= lt
         /\ n' = got
         /\ buf' = [k \in 1 .. lb |-> IF k <= got THEN text[c + k] ELSE buf[k]]
         /\ consumed' = c + got
  BY <1>4, <1>5, <1>6 DEF Fill
<1>8. \A k \in 1 .. got : buf'[k] = text[c + k]
  BY <1>7
<1>9. buf' \in Seq(Symbols \cup {"space"}) /\ Len(buf') = lb
  <2>1. ASSUME NEW k \in 1 .. lb PROVE (IF k <= got THEN text[c + k] ELSE buf[k]) \in Signs
    <3>1. CASE k <= got
      <4>1. c + k \in 1 .. lt
        BY <1>7, <3>1
      <4>2. text[c + k] \in Signs
        BY <1>2, <1>4, <4>1
      <4> QED
        BY <3>1, <4>2
    <3>2. CASE ~ (k <= got)
      <4>1. buf[k] \in Signs
        BY <1>2, <1>5
      <4> QED
        BY <3>2, <4>1
    <3> QED
      BY <3>1, <3>2
  <2>2. buf' \in [1 .. lb -> Signs]
    BY <1>7, <2>1
  <2> QED
    BY <2>2 DEF Signs
<1>10. TypeOK'
  <2>1. pc' \in {"idle", "fill", "filter"}
    BY <1>3
  <2>2. /\ n' \in Nat /\ i' \in 0 .. n' /\ out_pos' \in 0 .. i' /\ n' <= Len(buf')
        /\ consumed' \in 0 .. Len(text')
    BY <1>3, <1>4, <1>7, <1>9
  <2> QED
    BY <1>2, <1>3, <1>9, <2>1, <2>2, Zenon DEF TypeOK
<1>11. Basics'
  <2>1. n' <= consumed'
    BY <1>7
  <2> QED
    BY <1>2, <1>3, <1>10, <2>1 DEF Basics
<1>12. Unread'
  <2>1. consumed' - n' = c
    BY <1>7
  <2> QED
    BY <1>3, <1>7, <1>8, <2>1 DEF Unread
<1>13. Buffered = 0 /\ Buffered' = 0 /\ Seen' = Seen
  <2>1. Seen = c /\ Seen' = c + got - got + 0
    BY <1>3, <1>6, <1>7 DEF Seen
  <2> QED
    BY <1>3, <2>1 DEF Buffered
<1>14. \A l : HandedOut(l) => HandedOut(l)'
  BY <1>3, <1>13, NothingReady
<1>15. Progress(b)'
  BY <1>1, <1>3, <1>13, <1>14, ProgressStays
<1> QED
  BY <1>1, <1>3, <1>11, <1>12, <1>15, Kept

\* What was ready is given.
LEMMA ReturnHands ==
    ASSUME NEW given \in Seq(Signs), NEW ready \in Seq(Signs), NEW q \in Nat, q <= Len(ready),
           NEW meant, NEW l, Handed(given, q, ready, meant, l)
    PROVE  Handed(given \o SubSeq(ready, 1, q), 0, ready, meant, l)
<1>1. PICK lg \in Nat : lg = Len(given)
  OBVIOUS
<1>2. /\ lg + q = l /\ l <= Len(meant)
      /\ \A k \in 1 .. lg : given[k] = meant[k]
      /\ \A k \in 1 .. q : ready[k] = meant[lg + k]
  BY <1>1 DEF Handed
<1>3. PICK tail : tail = SubSeq(ready, 1, q)
  OBVIOUS
<1>4. tail \in Seq(Signs) /\ Len(tail) = q /\ \A k \in 1 .. q : tail[k] = ready[k]
  BY <1>3
<1>5. PICK all : all = given \o tail
  OBVIOUS
<1>6. Behind(all, given, lg, tail, q)
  BY <1>1, <1>4, <1>5, ConcatBehind
<1>7. /\ Len(all) = lg + q
      /\ \A k \in 1 .. lg : all[k] = given[k]
      /\ \A k \in 1 .. q : all[lg + k] = tail[k]
  BY <1>6 DEF Behind
<1>8. ASSUME NEW k \in 1 .. lg + q PROVE all[k] = meant[k]
  <2>1. CASE k <= lg
    BY <1>2, <1>7, <2>1
  <2>2. CASE k > lg
    <3>1. PICK j \in 1 .. q : k = lg + j
      <4>1. k - lg \in 1 .. q /\ k = lg + (k - lg)
        BY <2>2
      <4> QED
        BY <4>1
    <3> QED
      BY <1>2, <1>4, <1>7, <3>1
  <2> QED
    BY <2>1, <2>2
<1>9. Handed(all, 0, ready, meant, l)
  BY <1>2, <1>7, <1>8 DEF Handed
<1> QED
  BY <1>3, <1>5, <1>9

\* The end of a chunk: what is ready is given, or nothing is and the loop goes on.
LEMMA ReturnStep ==
    ASSUME IInv, Return
    PROVE  IInv'
<1>1. PICK b \in Nat : Shaped(b) /\ Progress(b)
  BY DEF IInv
<1>2. Basics /\ TypeOK /\ out \in Seq(Signs) /\ buf \in Seq(Signs)
  BY DEF IInv, Basics, TypeOK, Signs
<1>3. /\ pc = "filter" /\ (i = n \/ done)
      /\ elems' = elems /\ text' = text /\ consumed' = consumed
      /\ started' = started /\ depth' = depth /\ done' = done
      /\ buf' = buf /\ n' = n /\ i' = i /\ out_pos' = out_pos
  BY DEF Return, adapter
<1>4. PICK q \in Nat : q = out_pos /\ q <= Len(buf)
  BY <1>2, <1>3 DEF TypeOK
<1>5. PICK c \in Nat : c = consumed
  BY <1>2 DEF TypeOK, Basics
<1>6. n \in Nat /\ started \in BOOLEAN /\ done \in BOOLEAN
  BY <1>2 DEF TypeOK
<1>7. done => started
  BY <1>2, <1>3 DEF Basics
<1>8. i = n => Seen = c
  BY <1>3, <1>5, <1>6 DEF Seen
<1>9. CASE Returns
  <2>1. out' = out \o SubSeq(buf, 1, q) /\ eof' = (q = 0) /\ pc' = "idle"
    BY <1>4, <1>9 DEF Return
  <2>2. out' \in Seq(Symbols \cup {"space"})
    <3>1. SubSeq(buf, 1, q) \in Seq(Signs)
      BY <1>2, <1>4
    <3>2. PICK tail \in Seq(Signs) : tail = SubSeq(buf, 1, q)
      BY <3>1
    <3>3. out \o tail \in Seq(Signs)
      BY <1>2, <3>2
    <3> QED
      BY <2>1, <3>2, <3>3 DEF Signs
  <2>3. TypeOK'
    <3>1. pc' \in {"idle", "fill", "filter"} /\ pc' # "filter" /\ eof' \in BOOLEAN
      BY <2>1
    <3> QED
      BY <1>2, <1>3, <2>2, <3>1, Zenon DEF TypeOK
  <2>4. Basics'
    <3>0. q = 0 => done
      BY <1>4, <1>9 DEF Returns
    <3>1. eof' => done'
      BY <1>3, <2>1, <3>0, Zenon
    <3> QED
      BY <1>2, <1>3, <2>1, <2>3, <3>1 DEF Basics
  <2>5. Unread'
    BY <2>1 DEF Unread
  <2>6. \A l : HandedOut(l) => HandedOut(l)'
    <3>1. SUFFICES ASSUME NEW l, HandedOut(l) PROVE HandedOut(l)'
      OBVIOUS
    <3>2. Handed(out, q, buf, Meaning, l)
      BY <1>3, <1>4, <3>1 DEF HandedOut, Buffered
    <3>3. Handed(out \o SubSeq(buf, 1, q), 0, buf, Meaning, l)
      BY <1>2, <1>4, <3>2, ReturnHands
    <3>4. Meaning' = Meaning
      BY <1>3, TextStays
    <3>5. Buffered' = 0
      BY <2>1 DEF Buffered
    <3> QED
      BY <1>3, <2>1, <3>3, <3>4, <3>5 DEF HandedOut
  <2>7. Seen' = c
    BY <1>3, <1>5, <2>1 DEF Seen
  <2>8. Seen' = Seen \/ (done /\ started)
    BY <1>3, <1>7, <1>8, <2>7
  <2>9. Progress(b)'
    BY <1>1, <1>3, <2>6, <2>8, ProgressStays
  <2> QED
    BY <1>1, <1>3, <2>4, <2>5, <2>9, Kept
<1>10. CASE ~ Returns
  <2>1. out' = out /\ eof' = eof /\ pc' = "fill"
    BY <1>10 DEF Return
  <2>2. out_pos = 0 /\ ~ done /\ i = n
    BY <1>3, <1>4, <1>10 DEF Returns
  <2>3. TypeOK'
    <3>1. pc' \in {"idle", "fill", "filter"} /\ pc' # "filter"
      BY <2>1
    <3> QED
      BY <1>2, <1>3, <2>1, <3>1, Zenon DEF TypeOK
  <2>4. Basics'
    <3>1. ~ eof
      BY <1>2, <2>2 DEF Basics
    <3> QED
      BY <1>2, <1>3, <2>1, <2>2, <2>3, <3>1 DEF Basics
  <2>5. Unread'
    BY <2>1 DEF Unread
  <2>6. Buffered = 0 /\ Buffered' = 0
    BY <2>1, <2>2 DEF Buffered
  <2>7. \A l : HandedOut(l) => HandedOut(l)'
    BY <1>3, <2>1, <2>6, NothingReady
  <2>8. Seen' = Seen
    BY <1>3, <1>5, <1>8, <2>1, <2>2 DEF Seen
  <2>9. Progress(b)'
    BY <1>1, <1>3, <2>7, <2>8, ProgressStays
  <2> QED
    BY <1>1, <1>3, <2>4, <2>5, <2>9, Kept
<1> QED
  BY <1>9, <1>10


\* The byte the loop looks at is the next of the text.
LEMMA NextByte ==
    ASSUME IInv, pc = "filter", i < n
    PROVE  /\ Seen \in Nat /\ Seen + 1 \in 1 .. Len(text) /\ Seen = consumed - n + i
           /\ buf[i + 1] = text[Seen + 1]
<1>1. /\ n \in Nat /\ i \in Nat /\ consumed \in Nat /\ consumed <= Len(text) /\ n <= consumed
      /\ text \in Seq(Signs)
  BY DEF IInv, Basics, TypeOK
<1>2. Seen = consumed - n + i
  BY DEF Seen
<1>3. i + 1 \in 1 .. n /\ i + 1 > i /\ consumed - n + (i + 1) = Seen + 1
  BY <1>1, <1>2
<1>4. buf[i + 1] = text[consumed - n + (i + 1)]
  BY <1>3 DEF IInv, Unread
<1>5. PICK lt \in Nat : lt = Len(text)
  BY <1>1
<1> QED
  BY <1>1, <1>2, <1>3, <1>4, <1>5

\* What the byte y behind the first l symbols of the array is: the bracket that ends it,
\* or one more symbol of the elements.
Ends(y, l) == l = Len(Array) /\ y = "rbracket" /\ depth = 0

Continues(y, l) ==
    /\ l < Len(Array)
    /\ depth + Weight(y) >= 0 /\ depth + Weight(y) = Nesting(Array)[l + 1]
    /\ Meaning[l + 1] = IF y = "comma" /\ depth = 0 THEN "space" ELSE y

\* In the array the next byte ends it or continues it.
LEMMA InTheArray ==
    ASSUME Basics, NEW b \in Nat, Shaped(b), Progress(b), started, ~ done,
           Seen \in Nat, Seen + 1 \in 1 .. Len(text)
    PROVE  \E l \in Nat :
              /\ Seen = b + 1 + l /\ l <= Len(Array) /\ HandedOut(l)
              /\ Ends(text[Seen + 1], l) \/ Continues(text[Seen + 1], l)
<1>1. elems \in Seq(Elements)
  BY DEF Basics
<1>2. PICK la \in Nat : la = Len(Array)
  BY <1>1, MeaningIs
<1>3. PICK c \in Nat : c = Seen
  OBVIOUS
<1>4. PICK nest : nest = Nesting(Array)
  OBVIOUS
<1>5. c >= b + 1 /\ c <= b + 1 + la /\ depth = nest[c - b - 1] /\ HandedOut(c - b - 1)
  BY <1>2, <1>3, <1>4 DEF Progress
<1>6. PICK l \in Nat : l = c - b - 1 /\ c = b + 1 + l /\ l <= la
  BY <1>5
<1>7. /\ c + 1 > b + 1 /\ c + 1 <= b + 1 + la => text[c + 1] = Array[c + 1 - b - 1]
      /\ c + 1 = b + 2 + la => text[c + 1] = "rbracket"
  BY <1>2, <1>3 DEF Shaped
<1>8. /\ Array \in Seq(Signs) /\ nest[la] = 0
      /\ \A v \in 1 .. la :
            /\ nest[v] >= 0
            /\ Meaning[v] = IF Array[v] = "comma" /\ nest[v - 1] = 0 THEN "space" ELSE Array[v]
  BY <1>1, <1>2, <1>4, MeaningIs DEF Rewritten
<1>9. \A v \in 1 .. la : nest[v] = nest[v - 1] + Weight(Array[v])
  BY <1>2, <1>4, <1>8, NestingIs
<1>10. CASE l = la
  <2>1. text[c + 1] = "rbracket" /\ depth = 0
    BY <1>5, <1>6, <1>7, <1>8, <1>10
  <2>2. Ends(text[c + 1], l)
    BY <1>2, <1>10, <2>1 DEF Ends
  <2> QED
    BY <1>2, <1>3, <1>5, <1>6, <2>2
<1>11. CASE l < la
  <2>1. l + 1 \in 1 .. la /\ (l + 1) - 1 = l /\ c + 1 - b - 1 = l + 1
    BY <1>6, <1>11
  <2>2. text[c + 1] = Array[l + 1]
    BY <1>6, <1>7, <1>11, <2>1
  <2>3. nest[l + 1] >= 0 /\ nest[l + 1] = depth + Weight(Array[l + 1])
    BY <1>5, <1>6, <1>8, <1>9, <2>1
  <2>4. Meaning[l + 1] = IF Array[l + 1] = "comma" /\ depth = 0 THEN "space" ELSE Array[l + 1]
    BY <1>5, <1>6, <1>8, <2>1
  <2>5. Continues(text[c + 1], l)
    BY <1>2, <1>4, <1>11, <2>2, <2>3, <2>4 DEF Continues
  <2> QED
    BY <1>2, <1>3, <1>5, <1>6, <2>5
<1> QED
  BY <1>6, <1>10, <1>11

\* What every turn of the loop leaves alone.
Turn ==
    /\ pc = "filter" /\ i < n /\ ~ done /\ i' = i + 1
    /\ elems' = elems /\ text' = text /\ consumed' = consumed
    /\ pc' = pc /\ n' = n /\ out' = out /\ eof' = eof

\* A turn that writes at most the place it has looked at leaves the rest as it was.
LEMMA TurnKeeps ==
    ASSUME IInv, Turn, NEW q \in Nat, q <= i + 1,
           buf' \in Seq(Signs), Len(buf') = Len(buf),
           \A k \in 1 .. Len(buf) : k # q => buf'[k] = buf[k],
           out_pos' \in 0 .. i + 1, depth' \in Nat,
           started' \in BOOLEAN, done' \in BOOLEAN, done' => started'
    PROVE  Basics' /\ Unread' /\ Seen' = Seen + 1
<1>1. Basics /\ TypeOK /\ Unread
  BY DEF IInv, Basics
<1>2. /\ pc = "filter" /\ i < n /\ i' = i + 1
      /\ elems' = elems /\ text' = text /\ consumed' = consumed
      /\ pc' = pc /\ n' = n /\ out' = out /\ eof' = eof
  BY DEF Turn
<1>3. n \in Nat /\ i \in Nat /\ consumed \in Nat /\ n <= consumed /\ n <= Len(buf)
  BY <1>1, <1>2 DEF Basics, TypeOK
<1>4. TypeOK'
  <2>1. i' \in 0 .. n' /\ out_pos' \in 0 .. i' /\ n' <= Len(buf')
    BY <1>2, <1>3
  <2>2. buf' \in Seq(Symbols \cup {"space"})
    BY DEF Signs
  <2> QED
    BY <1>1, <1>2, <2>1, <2>2, Zenon DEF TypeOK
<1>5. ~ eof
  <2>1. pc # "idle"
    BY <1>2
  <2> QED
    BY <1>1, <2>1 DEF Basics
<1>6. Basics'
  BY <1>1, <1>2, <1>3, <1>4, <1>5 DEF Basics
<1>7. Unread'
  <2>1. ASSUME NEW k \in 1 .. n, k > i + 1 PROVE buf'[k] = text[consumed - n + k]
    <3>1. k > i /\ k # q
      BY <1>3, <2>1
    <3>2. k \in 1 .. Len(buf)
      <4>1. PICK lb \in Nat : lb = Len(buf) /\ n <= lb
        BY <1>1, <1>3 DEF TypeOK
      <4> QED
        BY <1>3, <4>1
    <3>3. buf[k] = text[consumed - n + k]
      BY <1>1, <1>2, <3>1 DEF Unread
    <3> QED
      BY <3>1, <3>2, <3>3
  <2> QED
    BY <1>2, <2>1 DEF Unread
<1>8. Seen = consumed - n + i /\ Seen' = consumed - n + (i + 1)
  BY <1>2 DEF Seen
<1> QED
  BY <1>3, <1>6, <1>7, <1>8

\* Before the array nothing is handed out; its opening bracket starts it.
LEMMA SkipTurn ==
    ASSUME IInv, Turn, SkipByte
    PROVE  IInv'
<1>1. PICK b \in Nat : Shaped(b) /\ Progress(b)
  BY DEF IInv
<1>2. /\ Basics /\ TypeOK /\ buf \in Seq(Signs) /\ i \in Nat /\ out_pos \in 0 .. i
      /\ depth \in Nat /\ elems \in Seq(Elements)
  BY DEF IInv, Basics, TypeOK, Signs
<1>3. pc = "filter" /\ pc' = pc /\ i < n /\ ~ done /\ elems' = elems /\ text' = text /\ out' = out
  BY DEF Turn
<1>4. /\ ~ started /\ (started' <=> buf[i + 1] = "lbracket") /\ started' \in BOOLEAN
      /\ depth' = depth /\ done' = done /\ buf' = buf /\ out_pos' = out_pos
  BY DEF SkipByte
<1>5. PICK c \in Nat : c = Seen
  BY <1>3, NextByte
<1>6. c + 1 \in 1 .. Len(text) /\ buf[i + 1] = text[c + 1]
  BY <1>3, <1>5, NextByte
<1>7. Basics' /\ Unread' /\ Seen' = c + 1
  <2>1. done' \in BOOLEAN /\ ~ done'
    BY <1>2, <1>3, <1>4, Zenon DEF TypeOK
  <2>2. out_pos' \in 0 .. i + 1 /\ 0 \in Nat /\ 0 <= i + 1
    BY <1>2, <1>4
  <2>3. /\ buf' \in Seq(Signs) /\ Len(buf') = Len(buf)
        /\ \A k \in 1 .. Len(buf) : k # 0 => buf'[k] = buf[k]
    BY <1>2, <1>4
  <2> QED
    BY <1>2, <1>4, <1>5, <2>1, <2>2, <2>3, TurnKeeps
<1>8. c <= b /\ depth = 0 /\ HandedOut(0)
  BY <1>1, <1>4, <1>5 DEF Progress
<1>9. /\ c + 1 <= b => text[c + 1] = "x"
      /\ c + 1 = b + 1 => text[c + 1] = "lbracket"
  BY <1>1, <1>6 DEF Shaped
<1>10. started' <=> c = b
  BY <1>4, <1>6, <1>8, <1>9
<1>11. HandedOut(0)'
  <2>1. Meaning' = Meaning /\ Buffered' = Buffered
    BY <1>3, <1>4, TextStays DEF Buffered
  <2> QED
    BY <1>3, <1>4, <1>8, <2>1 DEF HandedOut
<1>12. Progress(b)'
  <2>1. ~ started' => Seen' <= b /\ depth' = 0
    BY <1>4, <1>7, <1>8, <1>10
  <2>2. ASSUME started' PROVE /\ Seen' >= b + 1 /\ Seen' <= b + 1 + Len(Array)'
                              /\ Seen' - b - 1 = 0
                              /\ depth' = Nesting(Array)'[0]
    <3>1. Seen' = b + 1
      BY <1>7, <1>10, <2>2
    <3>2. Array' = Array /\ Array \in Seq(Signs)
      BY <1>2, <1>3, TextStays, MeaningIs DEF Rewritten
    <3>3. Nesting(Array)[0] = 0
      BY <3>2, NestingIs
    <3>4. PICK la \in Nat : la = Len(Array)
      BY <3>2
    <3>5. Nesting(Array)' = Nesting(Array) /\ Len(Array)' = la
      BY <3>2, <3>4
    <3> QED
      BY <1>4, <1>8, <3>1, <3>3, <3>5
  <2> QED
    BY <1>3, <1>4, <1>11, <2>1, <2>2 DEF Progress
<1> QED
  BY <1>1, <1>3, <1>7, <1>12, Kept

\* The bracket that ends the array: all its elements have been handed out.
LEMMA EndTurn ==
    ASSUME IInv, Turn, EndOfArray
    PROVE  IInv'
<1>1. PICK b \in Nat : Shaped(b) /\ Progress(b)
  BY DEF IInv
<1>2. /\ Basics /\ TypeOK /\ buf \in Seq(Signs) /\ i \in Nat /\ out_pos \in 0 .. i
      /\ depth \in Nat /\ elems \in Seq(Elements) /\ text \in Seq(Signs)
  BY DEF IInv, Basics, TypeOK, Signs
<1>3. pc = "filter" /\ pc' = pc /\ i < n /\ ~ done /\ elems' = elems /\ text' = text /\ out' = out
  BY DEF Turn
<1>4. /\ started /\ buf[i + 1] = "rbracket" /\ depth = 0 /\ done' = TRUE
      /\ started' = started /\ depth' = depth /\ buf' = buf /\ out_pos' = out_pos
  BY DEF EndOfArray
<1>5. PICK c \in Nat : c = Seen
  BY <1>3, NextByte
<1>6. c + 1 \in 1 .. Len(text) /\ buf[i + 1] = text[c + 1]
  BY <1>3, <1>5, NextByte
<1>7. Basics' /\ Unread'
  <2>1. done' \in BOOLEAN /\ started' \in BOOLEAN /\ started'
    BY <1>2, <1>4, Zenon DEF TypeOK
  <2>2. out_pos' \in 0 .. i + 1 /\ 0 \in Nat /\ 0 <= i + 1
    BY <1>2, <1>4
  <2>3. /\ buf' \in Seq(Signs) /\ Len(buf') = Len(buf)
        /\ \A k \in 1 .. Len(buf) : k # 0 => buf'[k] = buf[k]
    BY <1>2, <1>4
  <2> QED
    BY <1>2, <1>4, <2>1, <2>2, <2>3, TurnKeeps
<1>8. PICK l \in Nat : /\ c = b + 1 + l /\ l <= Len(Array) /\ HandedOut(l)
                       /\ Ends(text[c + 1], l) \/ Continues(text[c + 1], l)
  BY <1>1, <1>2, <1>3, <1>4, <1>5, <1>6, InTheArray
<1>9. ~ Continues(text[c + 1], l)
  <2>1. Weight("rbracket") = -1
    BY DEF Weight, IsCloser
  <2> QED
    BY <1>4, <1>6, <2>1 DEF Continues
<1>10. l = Len(Array)
  BY <1>8, <1>9 DEF Ends
<1>11. Held = l
  <2>1. PICK lt \in Nat : lt = Len(text)
    BY <1>2
  <2>2. lt > b /\ ~ (lt - b - 1 < l)
    BY <1>6, <1>8, <2>1
  <2> QED
    BY <1>1, <1>2, <1>10, <2>1, <2>2, HeldIs
<1>12. HandedOut(Held)'
  <2>1. Meaning' = Meaning /\ Buffered' = Buffered /\ Held' = l
    BY <1>3, <1>4, <1>11, TextStays DEF Buffered
  <2> QED
    BY <1>3, <1>4, <1>8, <2>1 DEF HandedOut
<1>13. Progress(b)'
  BY <1>4, <1>12 DEF Progress
<1> QED
  BY <1>1, <1>3, <1>7, <1>13, Kept

\* A symbol of the array that is written where it belongs.
LEMMA EmitTurn ==
    ASSUME IInv, Turn, started, NEW b \in Nat, Shaped(b), NEW l \in Nat, Seen = b + 1 + l,
           l < Len(Array), HandedOut(l), Emit(Meaning[l + 1]),
           depth' \in Nat, depth' = Nesting(Array)[l + 1], started' = started, done' = done
    PROVE  IInv'
<1>2. /\ Basics /\ TypeOK /\ buf \in Seq(Signs) /\ i \in Nat /\ out_pos \in 0 .. i
      /\ elems \in Seq(Elements) /\ out \in Seq(Signs) /\ n \in Nat
  BY DEF IInv, Basics, TypeOK, Signs
<1>3. pc = "filter" /\ pc' = pc /\ i < n /\ ~ done /\ elems' = elems /\ text' = text /\ out' = out
  BY DEF Turn
<1>4. PICK q \in Nat : q = out_pos /\ q <= i
  BY <1>2
<1>5. PICK la \in Nat : la = Len(Array) /\ la = Len(Meaning) /\ l < la
  BY <1>2, MeaningIs DEF Rewritten
<1>6. Meaning \in Seq(Signs) /\ Meaning[l + 1] \in Signs
  <2>1. Meaning \in Seq(Signs)
    BY <1>2, MeaningIs DEF Rewritten
  <2>2. l + 1 \in 1 .. la
    BY <1>5
  <2> QED
    BY <1>5, <2>1, <2>2
<1>7. PICK new : new = [buf EXCEPT ![q + 1] = Meaning[l + 1]]
  OBVIOUS
<1>8. buf' = new /\ out_pos' = q + 1
  BY <1>4, <1>7 DEF Emit
<1>9. PICK lb \in Nat : lb = Len(buf) /\ n <= lb
  BY <1>2, <1>3 DEF TypeOK
<1>10. q + 1 <= lb
  BY <1>2, <1>3, <1>4, <1>9
<1>11. /\ new \in Seq(Signs) /\ Len(new) = lb
       /\ \A k \in 1 .. lb : k # q + 1 => new[k] = buf[k]
  <2>1. buf \in [1 .. lb -> Signs]
    BY <1>2, <1>9
  <2>2. PICK y \in Signs : new = [buf EXCEPT ![q + 1] = y]
    BY <1>6, <1>7
  <2>3. new \in [1 .. lb -> Signs] /\ \A k \in 1 .. lb : k # q + 1 => new[k] = buf[k]
    BY <2>1, <2>2
  <2> QED
    BY <2>3
<1>12. Basics' /\ Unread' /\ Seen' = b + 1 + (l + 1)
  <2>1. done' \in BOOLEAN /\ ~ done' /\ started' \in BOOLEAN
    BY <1>2, <1>3, Zenon DEF TypeOK
  <2>2. out_pos' \in 0 .. i + 1 /\ q + 1 \in Nat /\ q + 1 <= i + 1
    BY <1>2, <1>4, <1>8
  <2>3. /\ buf' \in Seq(Signs) /\ Len(buf') = Len(buf)
        /\ \A k \in 1 .. Len(buf) : k # q + 1 => buf'[k] = buf[k]
    BY <1>8, <1>9, <1>11
  <2>4. Basics' /\ Unread' /\ Seen' = Seen + 1
    BY <2>1, <2>2, <2>3, TurnKeeps
  <2> QED
    BY <2>4
<1>13. HandedOut(l + 1)'
  <2>1. Handed(out, q, buf, Meaning, l)
    BY <1>3, <1>4 DEF HandedOut, Buffered
  <2>2. Handed(out, q + 1, new, Meaning, l + 1)
    <3>1. q + 1 <= Len(buf) /\ l + 1 <= Len(Meaning)
      BY <1>5, <1>9, <1>10
    <3>2. Handed(out, q + 1, [buf EXCEPT ![q + 1] = Meaning[l + 1]], Meaning, l + 1)
      BY <1>2, <1>6, <2>1, <3>1, EmitHands
    <3> QED
      BY <1>7, <3>2
  <2>3. Meaning' = Meaning /\ Buffered' = q + 1
    BY <1>3, <1>8, TextStays DEF Buffered
  <2> QED
    BY <1>3, <1>8, <2>2, <2>3 DEF HandedOut
<1>14. Progress(b)'
  <2>1. Array' = Array
    BY <1>3, TextStays
  <2>2. Nesting(Array)' = Nesting(Array) /\ Len(Array)' = la
    BY <1>5, <2>1
  <2>3. Seen' - b - 1 = l + 1 /\ Seen' >= b + 1 /\ Seen' <= b + 1 + la
    BY <1>5, <1>12
  <2> QED
    BY <1>3, <1>13, <2>2, <2>3 DEF Progress
<1> QED
  BY <1>3, <1>12, <1>14, Kept

\* Every turn of the loop keeps the invariant.
LEMMA FilterStep ==
    ASSUME IInv, Filter
    PROVE  IInv'
<1>1. Turn
  BY DEF Filter, Turn
<1>2. CASE SkipByte
  BY <1>1, <1>2, SkipTurn
<1>3. CASE EndOfArray
  BY <1>1, <1>3, EndTurn
<1>4. CASE started /\ (OpenByte \/ CloseByte \/ SeparatorByte \/ OtherByte)
  <2>1. PICK b \in Nat : Shaped(b) /\ Progress(b)
    BY DEF IInv
  <2>2. Basics /\ depth \in Nat
    BY DEF IInv, Basics, TypeOK
  <2>3. pc = "filter" /\ i < n /\ ~ done
    BY <1>1 DEF Turn
  <2>4. PICK y : y = buf[i + 1]
    OBVIOUS
  <2>5. Seen \in Nat /\ Seen + 1 \in 1 .. Len(text) /\ y = text[Seen + 1]
    BY <2>3, <2>4, NextByte
  <2>6. PICK l \in Nat : /\ Seen = b + 1 + l /\ l <= Len(Array) /\ HandedOut(l)
                         /\ Ends(y, l) \/ Continues(y, l)
    BY <1>4, <2>1, <2>2, <2>3, <2>5, InTheArray
  <2>7. ~ Ends(y, l)
    <3> SUFFICES ASSUME y = "rbracket", depth = 0 PROVE FALSE
      BY DEF Ends
    <3>1. ~ OpenByte /\ ~ OtherByte
      BY <2>4 DEF OpenByte, OtherByte
    <3>2. ~ CloseByte /\ ~ SeparatorByte
      BY <2>4 DEF CloseByte, SeparatorByte, IsSeparator
    <3> QED
      BY <1>4, <3>1, <3>2
  <2>8. /\ l < Len(Array)
        /\ depth + Weight(y) >= 0 /\ depth + Weight(y) = Nesting(Array)[l + 1]
        /\ Meaning[l + 1] = IF y = "comma" /\ depth = 0 THEN "space" ELSE y
    BY <2>6, <2>7 DEF Continues
  <2>9. /\ Emit(Meaning[l + 1]) /\ started' = started /\ done' = done
        /\ depth' = depth + Weight(y)
    <3>1. CASE OpenByte
      <4>1. /\ y \in {"lbrace", "lbracket"} /\ depth' = depth + 1 /\ Emit(y)
            /\ started' = started /\ done' = done
        BY <2>4, <3>1 DEF OpenByte
      <4>2. Weight(y) = 1 /\ y # "comma"
        BY <4>1 DEF Weight
      <4> QED
        BY <2>8, <4>1, <4>2
    <3>2. CASE CloseByte
      <4>1. /\ IsCloser(y) /\ depth' = depth - 1 /\ Emit(y)
            /\ started' = started /\ done' = done
        BY <2>4, <3>2 DEF CloseByte
      <4>2. Weight(y) = -1 /\ y # "comma"
        BY <4>1 DEF Weight, IsCloser
      <4> QED
        BY <2>2, <2>8, <4>1, <4>2
    <3>3. CASE SeparatorByte
      <4>1. /\ y = "comma" /\ depth = 0 /\ Emit("space")
            /\ started' = started /\ done' = done /\ depth' = depth
        BY <2>4, <3>3 DEF SeparatorByte, IsSeparator
      <4>2. Weight("comma") = 0
        BY DEF Weight, IsCloser
      <4> QED
        BY <2>2, <2>8, <4>1, <4>2
    <3>4. CASE OtherByte
      <4>1. /\ y \notin {"lbrace", "lbracket"} /\ ~ (IsCloser(y) /\ depth > 0)
            /\ y # "rbracket" /\ ~ (y = "comma" /\ depth = 0) /\ Emit(y)
            /\ started' = started /\ done' = done /\ depth' = depth
        BY <2>4, <3>4 DEF OtherByte, IsSeparator
      <4>2. ~ IsCloser(y)
        <5> SUFFICES ASSUME IsCloser(y) PROVE FALSE
          OBVIOUS
        <5>1. Weight(y) = -1 /\ depth = 0
          BY <2>2, <4>1 DEF Weight
        <5> QED
          BY <2>8, <5>1
      <4>3. Weight(y) = 0
        BY <4>1, <4>2 DEF Weight
      <4> QED
        BY <2>2, <2>8, <4>1, <4>3
    <3> QED
      BY <1>4, <3>1, <3>2, <3>3, <3>4
  <2>10. depth' \in Nat /\ depth' = Nesting(Array)[l + 1]
    <3>1. Weight(y) \in Int
      BY DEF Weight
    <3> QED
      BY <2>2, <2>8, <2>9, <3>1
  <2> QED
    BY <1>1, <1>4, <2>1, <2>6, <2>8, <2>9, <2>10, EmitTurn
<1> QED
  BY <1>2, <1>3, <1>4 DEF Filter, OpenByte, CloseByte, SeparatorByte, OtherByte

----------------------------------------------------------------------------
(* The theorems                                                            *)

\* The invariant holds in every reachable state.
THEOREM Invariance == Spec => []IInv
<1>1. Init => IInv
  BY InitInv
<1>2. IInv /\ [Next]_vars => IInv'
  <2> SUFFICES ASSUME IInv, [Next]_vars PROVE IInv'
    OBVIOUS
  <2>1. CASE UNCHANGED vars
    <3>1. /\ elems' = elems /\ text' = text /\ consumed' = consumed
          /\ started' = started /\ depth' = depth /\ done' = done
          /\ pc' = pc /\ buf' = buf /\ n' = n /\ i' = i /\ out_pos' = out_pos
          /\ out' = out /\ eof' = eof
      BY <2>1 DEF vars, adapter
    <3>2. PICK b \in Nat : Shaped(b) /\ Progress(b)
      BY DEF IInv
    <3>3. Basics /\ Unread
      BY DEF IInv
    <3>4. Basics'
      <4>1. TypeOK'
        BY <3>1, <3>3 DEF Basics, TypeOK
      <4> QED
        BY <3>1, <3>3, <4>1 DEF Basics
    <3>5. Unread'
      BY <3>1, <3>3 DEF Unread
    <3>6. Seen' = Seen /\ Buffered' = Buffered /\ Meaning' = Meaning
      BY <3>1, TextStays DEF Seen, Buffered
    <3>7. \A l : HandedOut(l) => HandedOut(l)'
      BY <3>1, <3>6 DEF HandedOut
    <3>8. Progress(b)'
      BY <3>1, <3>2, <3>6, <3>7, ProgressStays
    <3> QED
      BY <3>1, <3>2, <3>4, <3>5, <3>8, Kept
  <2>2. CASE Next
    BY <2>2, ReadStep, ReadWhenDoneStep, FillStep, FillAtEndStep, InterruptedStep,
       FilterStep, ReturnStep DEF Next
  <2> QED
    BY <2>1, <2>2
<1> QED
  BY <1>1, <1>2, PTL DEF Spec

\* Two texts that agree on a stretch have it in common.
LEMMA SameStretch ==
    ASSUME NEW s \in Seq(Signs), NEW t \in Seq(Signs), NEW a \in Nat, NEW m \in Nat, NEW c \in Nat,
           a <= m, m <= Len(s), c + m <= Len(t),
           \A k \in 1 .. m : k > a => s[k] = t[c + k]
    PROVE  SubSeq(s, a + 1, m) = SubSeq(t, c + a + 1, c + m)
<1>1. PICK d \in Nat : m = a + d
  <2>1. m - a \in Nat /\ m = a + (m - a)
    OBVIOUS
  <2> QED
    BY <2>1
<1>2. SubSeq(s, a + 1, m) = [k \in 1 .. d |-> s[a + k]]
  BY <1>1
<1>3. SubSeq(t, c + a + 1, c + m) = [k \in 1 .. d |-> t[c + a + k]]
  BY <1>1
<1>4. ASSUME NEW k \in 1 .. d PROVE s[a + k] = t[c + a + k]
  <2>1. a + k \in 1 .. m /\ a + k > a /\ c + (a + k) = c + a + k
    BY <1>1
  <2>2. s[a + k] = t[c + (a + k)]
    BY <2>1
  <2> QED
    BY <2>1, <2>2
<1> QED
  BY <1>2, <1>3, <1>4

\* While a chunk is rewritten in place, the bytes not yet looked at are those the inner
\* reader delivered: no write overtakes the loop, for any buffer size.
THEOREM NothingOverwritten == Spec => []UnreadIntact
<1>1. IInv => UnreadIntact
  <2> SUFFICES ASSUME IInv, pc = "filter"
               PROVE  SubSeq(buf, i + 1, n) = SubSeq(text, consumed - n + i + 1, consumed)
    BY DEF UnreadIntact
  <2>1. /\ text \in Seq(Signs) /\ buf \in Seq(Signs) /\ n \in Nat /\ i \in Nat /\ i <= n
        /\ n <= Len(buf) /\ consumed \in Nat /\ n <= consumed /\ consumed <= Len(text)
    BY DEF IInv, Basics, TypeOK, Signs
  <2>2. PICK c \in Nat : consumed = c + n /\ consumed - n = c
    <3>1. consumed - n \in Nat /\ consumed = (consumed - n) + n
      BY <2>1
    <3> QED
      BY <3>1
  <2>3. \A k \in 1 .. n : k > i => buf[k] = text[c + k]
    BY <2>2 DEF IInv, Unread
  <2>4. c + n <= Len(text)
    BY <2>1, <2>2
  <2>5. SubSeq(buf, i + 1, n) = SubSeq(text, c + i + 1, c + n)
    BY <2>1, <2>3, <2>4, SameStretch
  <2> QED
    BY <2>2, <2>5
<1> QED
  BY <1>1, Invariance, PTL

\* What is handed out is a prefix of what is meant.
LEMMA HandedIsPrefix ==
    ASSUME NEW given \in Seq(Signs), NEW meant \in Seq(Signs), NEW ready, NEW l,
           Handed(given, 0, ready, meant, l)
    PROVE  IsPrefix(given, meant)
<1>1. PICK lg \in Nat : lg = Len(given)
  OBVIOUS
<1>2. PICK lm \in Nat : lm = Len(meant)
  OBVIOUS
<1>3. lg <= lm /\ \A k \in 1 .. lg : given[k] = meant[k]
  BY <1>1, <1>2 DEF Handed
<1>4. 0 \in Nat /\ 0 <= lg /\ 0 + lg <= Len(meant) /\ lg <= Len(given)
  BY <1>1, <1>2, <1>3
<1>5. \A k \in 1 .. lg : k > 0 => given[k] = meant[0 + k]
  BY <1>3
<1>6. SubSeq(given, 0 + 1, lg) = SubSeq(meant, 0 + 0 + 1, 0 + lg)
  BY <1>4, <1>5, SameStretch
<1>7. SubSeq(given, 1, lg) = SubSeq(meant, 1, lg)
  BY <1>6
<1> QED
  BY <1>1, <1>2, <1>3, <1>7 DEF IsPrefix

\* Whatever the buffer sizes, the inner reads and the interruptions, what has been handed
\* out and what is ready is a prefix of the elements: nothing lost, doubled or invented.
THEOREM OutputAlwaysElements == Spec => []OutputIsElements
<1>1. IInv => OutputIsElements
  <2> SUFFICES ASSUME IInv PROVE OutputIsElements
    OBVIOUS
  <2>1. PICK b \in Nat : Shaped(b) /\ Progress(b)
    BY DEF IInv
  <2>2. /\ buf \in Seq(Signs) /\ out \in Seq(Signs) /\ elems \in Seq(Elements)
        /\ started \in BOOLEAN /\ done \in BOOLEAN
    BY DEF IInv, Basics, TypeOK, Signs
  <2>3. PICK l : HandedOut(l)
    BY <2>1, <2>2 DEF Progress
  <2>4. Meaning \in Seq(Signs)
    BY <2>2, MeaningIs DEF Rewritten
  <2>5. CASE pc = "filter"
    <3>1. PICK q \in Nat : q = out_pos /\ q <= Len(buf)
      BY <2>5 DEF IInv, Basics, TypeOK
    <3>2. Handed(out, q, buf, Meaning, l)
      BY <2>3, <2>5, <3>1 DEF HandedOut, Buffered
    <3>3. PICK all : all = out \o SubSeq(buf, 1, q)
      OBVIOUS
    <3>4. Handed(all, 0, buf, Meaning, l)
      BY <2>2, <3>1, <3>2, <3>3, ReturnHands
    <3>5. all \in Seq(Signs)
      <4>0. SubSeq(buf, 1, q) \in Seq(Signs)
        BY <2>2, <3>1
      <4>1. PICK tail \in Seq(Signs) : tail = SubSeq(buf, 1, q)
        BY <4>0
      <4>2. out \o tail \in Seq(Signs)
        BY <2>2
      <4> QED
        BY <3>3, <4>1, <4>2
    <3>6. IsPrefix(all, Meaning)
      BY <2>4, <3>4, <3>5, HandedIsPrefix
    <3> QED
      BY <2>5, <3>1, <3>3, <3>6 DEF OutputIsElements
  <2>6. CASE pc # "filter"
    <3>1. Handed(out, 0, buf, Meaning, l)
      BY <2>3, <2>6 DEF HandedOut, Buffered
    <3>2. IsPrefix(out, Meaning)
      BY <2>2, <2>4, <3>1, HandedIsPrefix
    <3> QED
      BY <2>6, <3>2 DEF OutputIsElements
  <2> QED
    BY <2>5, <2>6
<1> QED
  BY <1>1, Invariance, PTL

\* Ok(0) means the end: the caller never sees it while the text holds more of the elements.
THEOREM EofIsAlwaysTheEnd == Spec => []EofIsTheEnd
<1>1. IInv => EofIsTheEnd
  <2> SUFFICES ASSUME IInv, eof PROVE Len(out) = Held
    BY DEF EofIsTheEnd
  <2>1. PICK b \in Nat : Shaped(b) /\ Progress(b)
    BY DEF IInv
  <2>2. done /\ pc = "idle" /\ Len(out) \in Nat
    BY DEF IInv, Basics, TypeOK
  <2>3. HandedOut(Held) /\ Buffered = 0
    BY <2>1, <2>2 DEF Progress, Buffered
  <2>4. Len(out) + 0 = Held
    BY <2>3 DEF HandedOut, Handed
  <2> QED
    BY <2>2, <2>4
<1> QED
  BY <1>1, Invariance, PTL


=============================================================================
