---------------------------- MODULE EndToEndProofs ----------------------------
(***************************************************************************)
(* Proofs about EndToEnd and the SearchApi it asks: the pages of a search  *)
(* divide what matches among them, for any limits on page and size; what   *)
(* a verdict is worth, for any workers, files, buffer and percentages.     *)
(***************************************************************************)
EXTENDS EndToEnd, SequenceTheorems, FiniteSetTheorems, WellFoundedInduction, TLAPS

-----------------------------------------------------------------------------
(* Bounds *)

\* A finite set of numbers has a least and a greatest element: a smallest subset without
\* one would have one more element than a subset that has it.
LEMMA FiniteHasBounds ==
    ASSUME NEW S \in SUBSET Int, IsFiniteSet(S), S # {}
    PROVE  /\ Min(S) \in S /\ \A x \in S : Min(S) <= x
           /\ Max(S) \in S /\ \A x \in S : x <= Max(S)
<1> DEFINE Bounded(U) == (\E b \in U : \A x \in U : b <= x) /\ \E b \in U : \A x \in U : x <= b
           Bad == {U \in FiniteSubsetsOf(S) : U # {} /\ ~Bounded(U)}
<1>1. Bounded(S)
  <2> SUFFICES ASSUME ~Bounded(S) PROVE FALSE
    OBVIOUS
  <2>1. S \in Bad
    BY DEF FiniteSubsetsOf
  <2>2. PICK T \in Bad : \A U \in Bad : ~(<<U, T>> \in StrictSubsetOrdering(S))
    <3>1. Bad \subseteq FiniteSubsetsOf(S) /\ Bad # {}
      BY <2>1
    <3>2. IsWellFoundedOn(StrictSubsetOrdering(S), FiniteSubsetsOf(S))
      BY FS_StrictSubsetOrderingWellFounded
    <3> HIDE DEF Bad
    <3> QED
      BY <3>1, <3>2, WFMin
  <2>3. PICK a \in T : TRUE
    OBVIOUS
  <2>4. T \in SUBSET S /\ IsFiniteSet(T) /\ a \in Int
    BY DEF FiniteSubsetsOf
  <2> DEFINE U == T \ {a}
  <2>5. U = {} \/ Bounded(U)
    <3>1. IsFiniteSet(U)
      BY <2>4, FS_RemoveElement
    <3>2. <<U, T>> \in StrictSubsetOrdering(S)
      BY <2>3, <2>4 DEF StrictSubsetOrdering
    <3>3. U \notin Bad
      BY <2>2, <3>2
    <3>4. U \in FiniteSubsetsOf(S)
      BY <2>4, <3>1 DEF FiniteSubsetsOf
    <3> QED
      BY <3>3, <3>4
  <2>6. CASE U = {}
    <3>1. T = {a}
      BY <2>6, <2>3
    <3> QED
      BY <2>4, <3>1
  <2>7. CASE Bounded(U)
    <3>1. PICK lo \in U : \A x \in U : lo <= x
      BY <2>7
    <3>2. PICK hi \in U : \A x \in U : x <= hi
      BY <2>7
    <3>3. lo \in Int /\ hi \in Int /\ \A x \in T : x \in Int
      BY <2>4
    <3>4. \E b \in T : \A x \in T : b <= x
      <4>1. CASE a <= lo
        BY <2>3, <2>4, <3>1, <3>3, <4>1
      <4>2. CASE ~(a <= lo)
        BY <2>3, <2>4, <3>1, <3>3, <4>2
      <4> QED
        BY <4>1, <4>2
    <3>5. \E b \in T : \A x \in T : x <= b
      <4>1. CASE hi <= a
        BY <2>3, <2>4, <3>2, <3>3, <4>1
      <4>2. CASE ~(hi <= a)
        BY <2>3, <2>4, <3>2, <3>3, <4>2
      <4> QED
        BY <4>1, <4>2
    <3> QED
      BY <3>4, <3>5
  <2> QED
    BY <2>5, <2>6, <2>7
<1>2. \E b \in S : \A x \in S : b <= x
  BY <1>1
<1>3. \E b \in S : \A x \in S : x <= b
  BY <1>1
<1> QED
  BY <1>2, <1>3 DEF Min, Max

\* Sets of positions are finite.
LEMMA FewPositions ==
    ASSUME NEW n \in Nat, NEW S \in SUBSET (1 .. n)
    PROVE  IsFiniteSet(S) /\ Cardinality(S) \in Nat /\ Cardinality(S) <= n
<1>1. IsFiniteSet(1 .. n) /\ Cardinality(1 .. n) = n
  BY FS_Interval
<1> QED
  BY <1>1, FS_Subset, FS_CardinalityType

LEMMA QuotientType ==
    ASSUME NEW a \in Nat, NEW b \in Nat \ {0}
    PROVE  a \div b \in Nat
<1> DEFINE q == a \div b
           m == a % b
<1>1. q \in Int /\ m \in 0 .. b - 1 /\ a = b * q + m
  OBVIOUS
<1> HIDE DEF q, m
<1>2. ASSUME q <= -1 PROVE FALSE
  <2>1. b * q <= -b
    BY <1>1, <1>2
  <2> QED
    BY <1>1, <2>1
<1> QED
  BY <1>1, <1>2 DEF q

-----------------------------------------------------------------------------
(* Pages *)

\* The position of a hit among those that match, and the page that shows it.
OnPage(k, page, size) == /\ Offset(page, size) < k
                         /\ k <= Offset(page, size) + SizeOf(size)

LEMMA SizeType == \A size \in Int : SizeOf(size) \in 1 .. MaxSize
BY SearchAssumption DEF SizeOf

LEMMA OffsetType ==
    ASSUME NEW page \in Int, NEW size \in Int
    PROVE  Offset(page, size) \in Nat
<1>1. PageOf(page) - 1 \in Nat /\ SizeOf(size) \in Nat
  BY SizeType, SearchAssumption DEF PageOf
<1> QED
  BY <1>1 DEF Offset

\* A page holds the hits at the positions that are on it, in order, and no others.
LEMMA HitsAreOnPage ==
    ASSUME NEW D, NEW matching \in Seq(D), NEW page \in Int, NEW size \in Int
    PROVE  LET hits == Hits(matching, page, size)
               from == Offset(page, size)
           IN  /\ hits \in Seq(D) /\ Len(hits) <= SizeOf(size)
               /\ \A j \in 1 .. Len(hits) :
                    /\ from + j \in 1 .. Len(matching) /\ OnPage(from + j, page, size)
                    /\ hits[j] = matching[from + j]
               /\ \A k \in 1 .. Len(matching) :
                    OnPage(k, page, size) => k - from \in 1 .. Len(hits)
<1> DEFINE from == Offset(page, size)
           n    == SizeOf(size)
           last == Clamp(from + n, 0, Len(matching))
           hits == Hits(matching, page, size)
<1>1. from \in Nat /\ n \in Nat \ {0} /\ Len(matching) \in Nat
  <2>1. SizeOf(size) \in 1 .. MaxSize /\ MaxSize \in Nat
    BY SizeType, SearchAssumption
  <2>2. Offset(page, size) \in Nat
    BY OffsetType
  <2>3. Len(matching) \in Nat
    OBVIOUS
  <2> QED
    BY <2>1, <2>2, <2>3
<1> HIDE DEF from, n
<1>2. last \in 0 .. Len(matching) /\ last <= from + n
  BY <1>1 DEF Clamp
<1>3. from + n <= Len(matching) => last = from + n
  BY <1>1 DEF Clamp
<1>4. from + n > Len(matching) => last = Len(matching)
  BY <1>1 DEF Clamp
<1>5. hits = SubSeq(matching, from + 1, last)
  BY DEF Hits, from, n
<1> HIDE DEF last, hits
<1>6. /\ hits \in Seq(D)
      /\ Len(hits) = IF from + 1 <= last THEN last - from ELSE 0
      /\ \A j \in 1 .. Len(hits) : hits[j] = matching[from + j]
  <2>1. \A i \in from + 1 .. last : matching[i] \in D
    BY <1>1, <1>2
  <2>2. /\ hits \in Seq(D)
        /\ Len(hits) = IF from + 1 <= last THEN last - (from + 1) + 1 ELSE 0
        /\ \A i \in 1 .. last - (from + 1) + 1 : hits[i] = matching[(from + 1) + i - 1]
    <3>1. from + 1 \in Int /\ last \in Int
      BY <1>1, <1>2
    <3> QED
      BY <1>5, <2>1, <3>1, SubSeqProperties
  <2>3. Len(hits) = IF from + 1 <= last THEN last - from ELSE 0
    BY <1>1, <1>2, <2>2
  <2>4. ASSUME NEW j \in 1 .. Len(hits) PROVE hits[j] = matching[from + j]
    <3>1. j \in 1 .. last - (from + 1) + 1 /\ (from + 1) + j - 1 = from + j
      BY <1>1, <1>2, <2>3
    <3> QED
      BY <2>2, <3>1
  <2> QED
    BY <2>2, <2>3, <2>4
<1>7. Len(hits) <= n
  BY <1>1, <1>2, <1>6
<1>8. \A j \in 1 .. Len(hits) : /\ from + j \in 1 .. Len(matching)
                                /\ from < from + j /\ from + j <= from + n
  BY <1>1, <1>2, <1>6
<1>9. \A k \in 1 .. Len(matching) :
        from < k /\ k <= from + n => k - from \in 1 .. Len(hits)
  BY <1>1, <1>2, <1>3, <1>4, <1>6
<1> QED
  BY <1>6, <1>7, <1>8, <1>9 DEF OnPage, from, n, hits

\* Whatever the size asked for, every position is on one page and on one only, which a
\* reader that asks for one page more than the total fills has seen.
THEOREM EveryPositionOnOnePage ==
    ASSUME NEW total \in Nat, NEW size \in Int, NEW k \in 1 .. total
    PROVE  \E page \in 1 .. 1 + (total \div SizeOf(size)) :
             /\ OnPage(k, page, size)
             /\ \A other \in Nat \ {0} : OnPage(k, other, size) => other = page
<1> DEFINE n    == SizeOf(size)
           q    == (k - 1) \div n
           m    == (k - 1) % n
           full == total \div n
           rest == total % n
<1>1. n \in Nat \ {0}
  BY SizeType, SearchAssumption
<1>2. \A page \in Nat \ {0} : Offset(page, size) = (page - 1) * n
  BY DEF Offset, PageOf
<1>3. OnPage(k, q + 1, size) /\ q \in Nat
  <2> HIDE DEF n
  <2>1. q \in Int /\ m \in 0 .. n - 1 /\ k - 1 = n * q + m
    BY <1>1
  <2> HIDE DEF q, m
  <2>2. q >= 0
    <3> SUFFICES ASSUME q <= -1 PROVE FALSE
      BY <2>1
    <3>1. n * q <= -n
      BY <1>1, <2>1
    <3> QED
      BY <1>1, <2>1, <3>1
  <2>3. Offset(q + 1, size) = n * q
    BY <1>1, <1>2, <2>1, <2>2
  <2> QED
    BY <1>1, <2>1, <2>2, <2>3 DEF OnPage, n
<1>4. q + 1 \in 1 .. 1 + full
  <2> HIDE DEF n
  <2>1. full \in Int /\ rest \in 0 .. n - 1 /\ total = n * full + rest
    BY <1>1
  <2>2. q \in Int /\ m \in 0 .. n - 1 /\ k - 1 = n * q + m
    BY <1>1
  <2> HIDE DEF q, m, full, rest
  <2>3. q <= full
    <3> SUFFICES ASSUME q >= full + 1 PROVE FALSE
      BY <2>1, <2>2
    <3>1. n * q >= n * (full + 1)
      BY <1>1, <2>1, <2>2
    <3>2. n * (full + 1) = n * full + n
      BY <1>1, <2>1
    <3> QED
      BY <1>1, <2>1, <2>2, <3>1, <3>2
  <2> QED
    BY <1>3, <2>1, <2>3
<1>5. ASSUME NEW p1 \in Nat \ {0}, NEW p2 \in Nat \ {0}, p1 < p2,
             OnPage(k, p1, size), OnPage(k, p2, size)
      PROVE  FALSE
  <2> HIDE DEF n
  <2>1. Offset(p1, size) = (p1 - 1) * n /\ Offset(p2, size) = (p2 - 1) * n
    BY <1>2
  <2>2. (p2 - 1) * n >= p1 * n /\ p1 * n = (p1 - 1) * n + n
    BY <1>1, <1>5
  <2> QED
    BY <1>1, <1>5, <2>1, <2>2 DEF OnPage, n
<1> HIDE DEF n, q, full
<1>6. \A other \in Nat \ {0} : OnPage(k, other, size) => other = q + 1
  BY <1>3, <1>5
<1> QED
  BY <1>3, <1>4, <1>6 DEF n, full

\* What a handler has clamped the indexer leaves as it is: both see the same page.
THEOREM ClampedOnce ==
    ASSUME NEW r, r.page \in Int \cup {Absent}, r.size \in Int \cup {Absent}
    PROVE  /\ PageParam(r) \in 1 .. MaxPage /\ PageOf(PageParam(r)) = PageParam(r)
           /\ SizeParam(r) \in 1 .. MaxSize /\ SizeOf(SizeParam(r)) = SizeParam(r)
<1>1. ASSUME NEW raw \in Int \cup {Absent}, NEW max \in Nat \ {0}, NEW def \in 1 .. max
      PROVE  parseIntParam(raw, def, 1, max) \in 1 .. max
  <2>1. CASE raw = Absent
    <3>1. parseIntParam(raw, def, 1, max) = def
      BY <2>1, SearchAssumption DEF parseIntParam
    <3> QED
      BY <3>1
  <2>2. CASE raw # Absent
    <3>1. raw \in Int /\ raw # Malformed
      BY <2>2, SearchAssumption
    <3>2. parseIntParam(raw, def, 1, max) = Clamp(raw, 1, max)
      BY <2>2, <3>1 DEF parseIntParam
    <3> QED
      BY <3>1, <3>2 DEF Clamp
  <2> QED
    BY <2>1, <2>2
<1>2. PageParam(r) \in 1 .. MaxPage
  <2>1. MaxPage \in Nat \ {0} /\ 1 \in 1 .. MaxPage
    BY SearchAssumption
  <2> QED
    BY <1>1, <2>1 DEF PageParam
<1>3. SizeParam(r) \in 1 .. MaxSize
  BY <1>1, SearchAssumption DEF SizeParam
<1> QED
  BY <1>2, <1>3, SearchAssumption DEF PageOf, SizeOf

\* Read one after the other, from the first on, so many pages that they have room for all
\* give what matches: everything once and in order, for any size asked for.
THEOREM PagesJoinUp ==
    ASSUME NEW D, NEW matching \in Seq(D), NEW size \in Int,
           NEW pages \in Nat, pages >= 1 + (Len(matching) \div SizeOf(size))
    PROVE  FlattenSeq([p \in 1 .. pages |-> Hits(matching, p, size)]) = matching
<1> DEFINE n == SizeOf(size)
           L == Len(matching)
           Upto(i) == Clamp(i * n, 0, L)
           page == [p \in 1 .. pages |-> Hits(matching, p, size)]
           G == [i \in 1 .. pages |-> SubSeq(matching, 1, Upto(i))]
           Joins(F) == F = [i \in 1 .. pages |->
                              IF i = 1 THEN page[i] ELSE F[i - 1] \o page[i]]
           flatten == CHOOSE F : Joins(F)
<1>1. n \in Nat \ {0} /\ L \in Nat
  <2>1. SizeOf(size) \in 1 .. MaxSize /\ MaxSize \in Nat
    BY SizeType, SearchAssumption
  <2>2. Len(matching) \in Nat
    BY LenProperties
  <2> QED
    BY <2>1, <2>2
<1>2. pages \in Nat \ {0} /\ pages * n >= L
  <2> DEFINE full == L \div n
             rest == L % n
  <2>1. pages >= 1 + full
    OBVIOUS
  <2> HIDE DEF n, L
  <2>2. full \in Nat
    BY <1>1, QuotientType
  <2>3. rest \in 0 .. n - 1 /\ L = n * full + rest
    BY <1>1, <2>2
  <2> HIDE DEF full, rest
  <2>4. pages * n >= (1 + full) * n /\ (1 + full) * n = n + n * full
    BY <1>1, <2>1, <2>2
  <2> QED
    BY <1>1, <2>1, <2>2, <2>3, <2>4
<1>3. \A p \in Nat \ {0} : Offset(p, size) = (p - 1) * n /\ (p - 1) * n \in Nat
  BY <1>1 DEF Offset, PageOf
<1> HIDE DEF n, L
<1>4. \A i \in Nat : Upto(i) \in 0 .. L /\ (i * n <= L => Upto(i) = i * n)
                     /\ (i * n >= L => Upto(i) = L)
  <2> TAKE i \in Nat
  <2>1. i * n \in Nat
    BY <1>1
  <2> QED
    BY <1>1, <2>1 DEF Clamp
<1>5. \A p \in 1 .. pages : page[p] = SubSeq(matching, (p - 1) * n + 1, Upto(p))
  <2> TAKE p \in 1 .. pages
  <2>1. p \in Nat \ {0} /\ (p - 1) * n + n = p * n
    BY <1>1, <1>2
  <2>2. Hits(matching, p, size) = SubSeq(matching, Offset(p, size) + 1,
                                         Clamp(Offset(p, size) + n, 0, L))
    BY DEF Hits, n, L
  <2> QED
    BY <1>3, <2>1, <2>2
<1> HIDE DEF Upto, page
<1>6. \A i \in 2 .. pages :
        SubSeq(matching, 1, Upto(i)) = SubSeq(matching, 1, Upto(i - 1)) \o page[i]
  <2> TAKE i \in 2 .. pages
  <2> DEFINE k == (i - 1) * n
  <2>1. /\ i \in Nat /\ i - 1 \in Nat /\ i \in 1 .. pages /\ k \in Nat /\ i * n = k + n
        /\ page[i] = SubSeq(matching, k + 1, Upto(i))
    BY <1>1, <1>2, <1>5
  <2>2. Upto(i) \in 0 .. L /\ Upto(i - 1) \in 0 .. L
    BY <1>4, <2>1
  <2>3. CASE k <= L
    <3>1. Upto(i - 1) = k
      BY <1>4, <2>1, <2>3
    <3>2. k <= Upto(i)
      <4>1. Upto(i) = k + n \/ Upto(i) = L
        BY <1>1, <1>4, <2>1
      <4> HIDE DEF k
      <4> QED
        BY <1>1, <2>1, <2>3, <4>1
    <3> HIDE DEF k
    <3>3. 1 \in 1 .. L + 1 /\ k \in 1 - 1 .. L /\ Upto(i) \in k .. L
      BY <1>1, <2>1, <2>2, <2>3, <3>2
    <3>4. SubSeq(matching, 1, k) \o SubSeq(matching, k + 1, Upto(i))
            = SubSeq(matching, 1, Upto(i))
      BY <3>3, ConcatAdjacentSubSeq DEF L
    <3> QED
      BY <2>1, <3>1, <3>4
  <2>4. CASE k > L
    <3>1. Upto(i - 1) = L /\ Upto(i) = L
      BY <1>1, <1>4, <2>1, <2>4
    <3>2. page[i] = <<>>
      <4> HIDE DEF k
      <4>1. k + 1 \in Int /\ L \in Int /\ L < k + 1
        BY <1>1, <2>1, <2>4
      <4> QED
        BY <2>1, <3>1, <4>1, SubSeqEmpty
    <3>3. SubSeq(matching, 1, L) = matching /\ matching \o <<>> = matching
      BY SubSeqFull, ConcatEmptySeq DEF L
    <3> QED
      BY <3>1, <3>2, <3>3
  <2>5. k <= L \/ k > L
    <3> HIDE DEF k
    <3> QED
      BY <1>1, <2>1
  <2> QED
    BY <2>3, <2>4, <2>5
<1>7. Joins(G)
  <2>1. page[1] = SubSeq(matching, 1, Upto(1))
    <3>1. 1 \in 1 .. pages /\ (1 - 1) * n + 1 = 1
      BY <1>1, <1>2
    <3> QED
      BY <1>5, <3>1
  <2>2. ASSUME NEW i \in 1 .. pages
        PROVE  G[i] = IF i = 1 THEN page[i] ELSE G[i - 1] \o page[i]
    <3>1. CASE i = 1
      BY <2>1, <3>1
    <3>2. CASE i # 1
      <4>1. i \in 2 .. pages /\ i - 1 \in 1 .. pages
        BY <1>2, <3>2
      <4> QED
        BY <1>6, <3>2, <4>1
    <3> QED
      BY <3>1, <3>2
  <2>3. G = [i \in 1 .. pages |-> G[i]]
    OBVIOUS
  <2> HIDE DEF G
  <2> QED
    BY <2>2, <2>3
<1>8. Joins(flatten)
  <2> HIDE DEF G, Joins
  <2> QED
    BY <1>7
<1>9. flatten[pages] = G[pages]
  <2> DEFINE Bad == {i \in 1 .. pages : flatten[i] # G[i]}
  <2> HIDE DEF flatten, G
  <2>1. ASSUME Bad # {} PROVE FALSE
    <3>1. Bad \in SUBSET Int /\ IsFiniteSet(Bad)
      <4>1. Bad \in SUBSET (1 .. pages)
        OBVIOUS
      <4> QED
        BY <4>1, FewPositions
    <3> DEFINE i == Min(Bad)
    <3>2. i \in Bad /\ \A j \in Bad : i <= j
      BY <2>1, <3>1, FiniteHasBounds
    <3> HIDE DEF i
    <3>3. i \in 1 .. pages /\ i - 1 \notin Bad
      BY <3>2
    <3>4. /\ flatten[i] = IF i = 1 THEN page[i] ELSE flatten[i - 1] \o page[i]
          /\ G[i] = IF i = 1 THEN page[i] ELSE G[i - 1] \o page[i]
      BY <1>7, <1>8, <3>3
    <3>5. i = 1 \/ i - 1 \in 1 .. pages
      BY <1>2, <3>3
    <3> QED
      BY <3>2, <3>3, <3>4, <3>5
  <2> QED
    BY <1>2, <2>1
<1>10. FlattenSeq(page) = flatten[pages]
  <2>1. Len(page) = pages
    BY <1>2 DEF page
  <2> QED
    BY <1>2, <2>1 DEF FlattenSeq
<1>11. G[pages] = matching
  <2>1. Upto(pages) = L /\ pages \in 1 .. pages
    BY <1>2, <1>4
  <2> QED
    BY <2>1, SubSeqFull DEF L
<1> QED
  BY <1>9, <1>10, <1>11 DEF page

-----------------------------------------------------------------------------
(* What matches, in order *)

\* Of n positions there is a k-th, for k up to n: the first that has k or more up to it,
\* for the one before it has fewer.
LEMMA NthIs ==
    ASSUME NEW P \in SUBSET Int, IsFiniteSet(P), NEW k \in 1 .. Cardinality(P)
    PROVE  Nth(P, k) \in P /\ Cardinality({j \in P : j <= Nth(P, k)}) = k
<1> DEFINE Upto(i) == {j \in P : j <= i}
           Below(i) == {j \in P : j < i}
           Late == {i \in P : Cardinality(Upto(i)) >= k}
<1>1. Cardinality(P) \in Nat /\ k \in Nat /\ 1 <= k /\ k <= Cardinality(P)
  BY FS_CardinalityType
<1>2. \A i : /\ IsFiniteSet(Upto(i)) /\ Cardinality(Upto(i)) \in Nat
             /\ IsFiniteSet(Below(i)) /\ Cardinality(Below(i)) \in Nat
  <2> TAKE i
  <2>1. Upto(i) \in SUBSET P /\ Below(i) \in SUBSET P
    OBVIOUS
  <2> HIDE DEF Upto, Below
  <2> QED
    BY <2>1, FS_Subset, FS_CardinalityType
<1>3. Late # {}
  <2>1. P # {}
    BY <1>1, FS_EmptySet
  <2>2. Max(P) \in P /\ Upto(Max(P)) = P
    BY <2>1, FiniteHasBounds
  <2> HIDE DEF Upto
  <2> QED
    BY <1>1, <2>2
<1>4. PICK i \in Late : \A j \in Late : i <= j
  <2>1. Late \in SUBSET Int /\ IsFiniteSet(Late)
    <3>1. Late \in SUBSET P
      OBVIOUS
    <3> HIDE DEF Late
    <3> QED
      BY <3>1, FS_Subset
  <2> HIDE DEF Late
  <2> QED
    BY <1>3, <2>1, FiniteHasBounds
<1>5. i \in P /\ i \in Int /\ Cardinality(Upto(i)) >= k
  OBVIOUS
<1>6. Cardinality(Upto(i)) = Cardinality(Below(i)) + 1
  <2>1. \A j \in P : j <= i <=> j < i \/ j = i
    BY <1>5
  <2>2. Upto(i) = Below(i) \cup {i} /\ i \notin Below(i)
    <3>1. ~(i < i)
      BY <1>5
    <3> HIDE DEF Late
    <3> QED
      BY <1>5, <2>1, <3>1, Zenon
  <2> HIDE DEF Upto, Below
  <2> QED
    BY <1>2, <2>2, FS_AddElement
<1>7. Cardinality(Below(i)) < k
  <2>1. CASE Below(i) = {}
    BY <1>1, <2>1, FS_EmptySet
  <2>2. CASE Below(i) # {}
    <3> DEFINE m == Max(Below(i))
    <3>1. Below(i) \in SUBSET Int
      OBVIOUS
    <3>2. m \in Below(i) /\ \A x \in Below(i) : x <= m
      <4> HIDE DEF Below
      <4> QED
        BY <1>2, <2>2, <3>1, FiniteHasBounds
    <3> HIDE DEF m
    <3>3. m \in P /\ m \in Int /\ m < i
      BY <3>2
    <3>4. Upto(m) = Below(i)
      <4>1. \A j \in P : j <= m => j < i
        BY <1>5, <3>3
      <4>2. \A j \in P : j < i => j <= m
        BY <3>2
      <4> QED
        BY <4>1, <4>2
    <3>5. ~(Cardinality(Upto(m)) >= k)
      BY <1>4, <1>5, <3>3
    <3> HIDE DEF Upto, Below
    <3> QED
      BY <1>1, <1>2, <3>4, <3>5
  <2> QED
    BY <2>1, <2>2
<1>8. Cardinality(Upto(i)) = k
  <2> HIDE DEF Upto, Below, Late
  <2> QED
    BY <1>1, <1>2, <1>5, <1>6, <1>7
<1> QED
  BY <1>5, <1>8 DEF Nth

\* What matches is selected once each and in order, whatever the positions.
LEMMA SelectionIsInOrder ==
    ASSUME NEW D, NEW docs \in Seq(D), NEW P \in SUBSET DOMAIN docs
    PROVE  /\ IsFiniteSet(P) /\ At(docs, P) \in Seq(D) /\ Len(At(docs, P)) = Cardinality(P)
           /\ \A k \in 1 .. Cardinality(P) :
                /\ Nth(P, k) \in P /\ At(docs, P)[k] = docs[Nth(P, k)]
                /\ \A l \in 1 .. Cardinality(P) : k < l => Nth(P, k) < Nth(P, l)
           /\ \A i \in P : \E k \in 1 .. Cardinality(P) : Nth(P, k) = i
<1> DEFINE n == Cardinality(P)
           Upto(i) == {j \in P : j <= i}
<1>1. DOMAIN docs = 1 .. Len(docs) /\ Len(docs) \in Nat /\ \A i \in DOMAIN docs : docs[i] \in D
  BY LenProperties, ElementOfSeq
<1>2. IsFiniteSet(P) /\ n \in Nat /\ P \in SUBSET Int
  BY <1>1, FewPositions
<1>3. \A k \in 1 .. n : Nth(P, k) \in P /\ Cardinality(Upto(Nth(P, k))) = k
  BY <1>2, NthIs
<1>4. \A i : IsFiniteSet(Upto(i)) /\ Cardinality(Upto(i)) \in Nat /\ Cardinality(Upto(i)) <= n
  <2> TAKE i
  <2>1. Upto(i) \in SUBSET P
    OBVIOUS
  <2> HIDE DEF Upto
  <2> QED
    BY <1>2, <2>1, FS_Subset, FS_CardinalityType
<1>5. \A i, j \in P : i <= j => Cardinality(Upto(i)) <= Cardinality(Upto(j))
  <2> TAKE i, j \in P
  <2> HAVE i <= j
  <2>1. Upto(i) \in SUBSET Upto(j)
    BY <1>2
  <2> HIDE DEF Upto
  <2> QED
    BY <1>4, <2>1, FS_Subset
<1>6. At(docs, P) \in [1 .. n -> D]
  <2>1. \A k \in 1 .. n : docs[Nth(P, k)] \in D
    BY <1>1, <1>3
  <2> QED
    BY <2>1 DEF At
<1>7. At(docs, P) \in Seq(D) /\ Len(At(docs, P)) = n
  <2>1. At(docs, P) \in Seq(D)
    BY <1>2, <1>6, SeqDef
  <2>2. DOMAIN At(docs, P) = 1 .. Len(At(docs, P)) /\ Len(At(docs, P)) \in Nat
    BY <2>1, LenProperties
  <2>3. DOMAIN At(docs, P) = 1 .. n
    BY <1>6
  <2>4. ASSUME NEW a \in Nat, NEW b \in Nat, 1 .. a = 1 .. b
        PROVE  a = b
    <3>1. a = Cardinality(1 .. a) /\ b = Cardinality(1 .. b)
      BY FS_Interval
    <3> QED
      BY <2>4, <3>1
  <2> HIDE DEF n
  <2> QED
    BY <1>2, <2>1, <2>2, <2>3, <2>4
<1>8. \A k \in 1 .. n : At(docs, P)[k] = docs[Nth(P, k)]
  BY DEF At
<1>9. ASSUME NEW k \in 1 .. n, NEW l \in 1 .. n, k < l
      PROVE  Nth(P, k) < Nth(P, l)
  <2>1. /\ Nth(P, k) \in P /\ Nth(P, l) \in P
        /\ Cardinality(Upto(Nth(P, k))) = k /\ Cardinality(Upto(Nth(P, l))) = l
    BY <1>3
  <2>2. Nth(P, l) <= Nth(P, k) => l <= k
    BY <1>5, <2>1
  <2> HIDE DEF Upto, n
  <2> QED
    BY <1>2, <1>9, <2>1, <2>2
<1>10. ASSUME NEW i \in P
       PROVE  \E k \in 1 .. n : Nth(P, k) = i
  <2> DEFINE k == Cardinality(Upto(i))
  <2>1. k \in 1 .. n
    <3>1. i \in Upto(i)
      BY <1>2
    <3> HIDE DEF Upto
    <3>2. Upto(i) # {}
      BY <3>1
    <3>3. k # 0
      BY <1>4, <3>2, FS_EmptySet
    <3> QED
      BY <1>2, <1>4, <3>3
  <2>2. Nth(P, k) \in P /\ Cardinality(Upto(Nth(P, k))) = k
    BY <1>3, <2>1
  <2>3. ASSUME NEW x \in P, NEW y \in P, x < y
        PROVE  Cardinality(Upto(x)) < Cardinality(Upto(y))
    <3>1. Upto(x) \in SUBSET Upto(y) /\ y \in Upto(y) /\ y \notin Upto(x)
      BY <1>2, <2>3
    <3> HIDE DEF Upto
    <3>2. Upto(x) # Upto(y)
      BY <3>1
    <3> QED
      BY <1>4, <3>1, <3>2, FS_Subset
  <2>4. ~(Nth(P, k) < i) /\ ~(i < Nth(P, k))
    <3>1. k = Cardinality(Upto(i)) /\ k \in Nat
      BY <1>4
    <3> HIDE DEF k, Upto
    <3>2. Nth(P, k) < i => k < k
      BY <2>2, <2>3, <3>1
    <3>3. i < Nth(P, k) => k < k
      BY <2>2, <2>3, <3>1
    <3> QED
      BY <3>1, <3>2, <3>3
  <2>5. Nth(P, k) \in Int /\ i \in Int
    BY <1>2, <2>2
  <2> HIDE DEF k
  <2>6. Nth(P, k) = i
    BY <2>4, <2>5
  <2> QED
    BY <2>1, <2>6
<1> QED
  BY <1>2, <1>3, <1>7, <1>8, <1>9, <1>10 DEF n

-----------------------------------------------------------------------------
(* A reader's walk *)

\* Within the limits of the API and of Elasticsearch a page of a search is answered, and
\* tells the total.
LEMMA PageAnswered ==
    ASSUME NEW D, NEW docs \in Seq(D), NEW P \in SUBSET DOMAIN docs,
           NEW size \in 1 .. MaxSize, NEW p \in Nat \ {0},
           p * size <= ResultWindow
    PROVE  Search(At(docs, P), p, size) =
             [status |-> 200, data |-> Hits(At(docs, P), p, size),
              total |-> Cardinality(P)]
<1>1. MaxSize \in Nat \ {0} /\ ResultWindow \in Nat \ {0} /\ size \in Nat \ {0}
  BY SearchAssumption
<1>2. SizeOf(size) = size
  BY <1>1 DEF SizeOf
<1>3. Len(At(docs, P)) = Cardinality(P)
  BY SelectionIsInOrder
<1>4. Offset(p, size) = (p - 1) * size
  BY <1>2 DEF Offset, PageOf
<1>5. (p - 1) * size + size = p * size /\ (p - 1) * size \in Int /\ p * size \in Int
  BY <1>1
<1>6. ~Refused(p, size)
  BY <1>1, <1>2, <1>4, <1>5 DEF Refused
<1> QED
  BY <1>3, <1>6 DEF Search

\* The pages there are room for join up to what was selected.
LEMMA PagesAnswered ==
    ASSUME NEW D, NEW docs \in Seq(D), NEW P \in SUBSET DOMAIN docs,
           NEW size \in 1 .. MaxSize, NEW pages \in Nat \ {0},
           pages * size <= ResultWindow, pages = 1 + (Cardinality(P) \div size)
    PROVE  FlattenSeq([p \in 1 .. pages |-> Search(At(docs, P), p, size).data])
             = At(docs, P)
<1>1. MaxSize \in Nat \ {0} /\ ResultWindow \in Nat \ {0} /\ size \in Nat \ {0}
  BY SearchAssumption
<1>2. SizeOf(size) = size
  BY <1>1 DEF SizeOf
<1>3. At(docs, P) \in Seq(D) /\ Len(At(docs, P)) = Cardinality(P)
  BY SelectionIsInOrder
<1>4. ASSUME NEW p \in 1 .. pages
      PROVE  Search(At(docs, P), p, size).data = Hits(At(docs, P), p, size)
  <2>1. p \in Nat \ {0} /\ p <= pages
    OBVIOUS
  <2>2. p * size <= pages * size /\ p * size \in Int /\ pages * size \in Int
    BY <1>1, <2>1
  <2>3. p * size <= ResultWindow
    BY <1>1, <2>2
  <2>4. Search(At(docs, P), p, size) =
          [status |-> 200, data |-> Hits(At(docs, P), p, size), total |-> Cardinality(P)]
    BY <2>1, <2>3, PageAnswered
  <2> QED
    BY <2>4
<1>5. [p \in 1 .. pages |-> Search(At(docs, P), p, size).data]
        = [p \in 1 .. pages |-> Hits(At(docs, P), p, size)]
  BY <1>4
<1>6. pages \in Nat /\ pages >= 1 + (Len(At(docs, P)) \div SizeOf(size)) /\ size \in Int
  BY <1>1, <1>2, <1>3
<1>7. FlattenSeq([p \in 1 .. pages |-> Hits(At(docs, P), p, size)]) = At(docs, P)
  BY <1>3, <1>6, PagesJoinUp
<1> QED
  BY <1>5, <1>7

\* A look-up by the id of a document finds one.
ById(docs, id) == At(docs, {j \in DOMAIN docs : docs[j].id = id})

LEMMA FoundById ==
    ASSUME NEW D, NEW docs \in Seq(D), NEW i \in DOMAIN docs
    PROVE  ById(docs, docs[i].id) # <<>>
<1> DEFINE P == {j \in DOMAIN docs : docs[j].id = docs[i].id}
<1>1. i \in P
  OBVIOUS
<1>2. P \in SUBSET DOMAIN docs
  OBVIOUS
<1> HIDE DEF P
<1>3. \E k \in 1 .. Cardinality(P) : Nth(P, k) = i
  <2>1. \A j \in P : \E k \in 1 .. Cardinality(P) : Nth(P, k) = j
    BY <1>2, SelectionIsInOrder
  <2> QED
    BY <1>1, <2>1
<1>4. Len(At(docs, P)) = Cardinality(P) /\ Cardinality(P) # 0
  <2>1. IsFiniteSet(P) /\ Len(At(docs, P)) = Cardinality(P)
    BY <1>2, SelectionIsInOrder
  <2>2. Cardinality(P) # 0
    BY <1>1, <2>1, FS_EmptySet
  <2> QED
    BY <2>1, <2>2
<1>5. Len(<<>>) = 0
  BY EmptySeq
<1> QED
  BY <1>4, <1>5 DEF P, ById

\* Every document a selection shows is one of those selected.
LEMMA SelectedFrom ==
    ASSUME NEW D, NEW docs \in Seq(D), NEW P \in SUBSET DOMAIN docs,
           NEW d \in Range(At(docs, P))
    PROVE  \E i \in P : d = docs[i]
<1>1. PICK k \in DOMAIN At(docs, P) : d = At(docs, P)[k]
  BY DEF Range
<1>2. k \in 1 .. Cardinality(P)
  BY DEF At
<1> QED
  BY <1>1, <1>2, SelectionIsInOrder

\* What a query asks for beside the page does not depend on the page, which is asked for
\* as it is up to MaxPage.
LEMMA QueryOfPage ==
    ASSUME start \in Int, NEW p \in 1 .. MaxPage
    PROVE  /\ \A r \in LogQueries :
                /\ PageParam([r EXCEPT !.page = p]) = p
                /\ SizeParam([r EXCEPT !.page = p]) = SizeParam(r)
                /\ SizeParam(r) \in 1 .. MaxSize
                /\ ~BadRequest([r EXCEPT !.page = p])
                /\ \A d : LogMatches(d, [r EXCEPT !.page = p]) <=> LogMatches(d, r)
           /\ \A r \in AnomalyQueries :
                /\ PageParam([r EXCEPT !.page = p]) = p
                /\ SizeParam([r EXCEPT !.page = p]) = SizeParam(r)
                /\ SizeParam(r) \in 1 .. MaxSize
                /\ ~BadRequest([r EXCEPT !.page = p])
                /\ \A d : AnomalyMatches(d, [r EXCEPT !.page = p]) <=> AnomalyMatches(d, r)
<1>1. /\ MaxPage \in Nat \ {0} /\ MaxSize \in Nat \ {0} /\ p \in Int
      /\ Malformed \notin Int /\ Absent # Malformed /\ Absent \notin Int
  BY SearchAssumption
<1>2. Sizes \subseteq Int \cup {Absent} /\ Times \subseteq Int \cup {Absent}
  BY <1>1 DEF Sizes, Times
<1>3. parseIntParam(p, 1, 1, MaxPage) = p
  <2>1. parseIntParam(p, 1, 1, MaxPage) = Clamp(p, 1, MaxPage)
    BY <1>1 DEF parseIntParam
  <2> QED
    BY <1>1, <2>1 DEF Clamp
<1>4. ASSUME NEW r \in LogQueries
      PROVE  /\ PageParam([r EXCEPT !.page = p]) = p
             /\ SizeParam([r EXCEPT !.page = p]) = SizeParam(r)
             /\ SizeParam(r) \in 1 .. MaxSize
             /\ ~BadRequest([r EXCEPT !.page = p])
             /\ \A d : LogMatches(d, [r EXCEPT !.page = p]) <=> LogMatches(d, r)
  <2> DEFINE rp == [r EXCEPT !.page = p]
  <2>1. /\ rp.page = p /\ rp.size = r.size /\ rp.from = r.from /\ rp.to = r.to
        /\ rp.service = r.service /\ rp.level = r.level
        /\ r.page \in Int /\ r.size \in Int \cup {Absent}
        /\ r.from \in Int \cup {Absent} /\ r.to \in Int \cup {Absent}
    BY <1>2 DEF LogQueries
  <2> HIDE DEF rp
  <2>2. PageParam(rp) = p /\ SizeParam(rp) = SizeParam(r)
    BY <1>3, <2>1 DEF PageParam, SizeParam
  <2>3. SizeParam(r) \in 1 .. MaxSize
    BY <2>1, ClampedOnce
  <2>4. ~BadRequest(rp)
    BY <1>1, <2>1, <2>2, <2>3 DEF BadRequest
  <2>5. \A d : LogMatches(d, rp) <=> LogMatches(d, r)
    BY <2>1 DEF LogMatches, InRange
  <2> QED
    BY <2>2, <2>3, <2>4, <2>5 DEF rp
<1>5. ASSUME NEW r \in AnomalyQueries
      PROVE  /\ PageParam([r EXCEPT !.page = p]) = p
             /\ SizeParam([r EXCEPT !.page = p]) = SizeParam(r)
             /\ SizeParam(r) \in 1 .. MaxSize
             /\ ~BadRequest([r EXCEPT !.page = p])
             /\ \A d : AnomalyMatches(d, [r EXCEPT !.page = p]) <=> AnomalyMatches(d, r)
  <2> DEFINE rp == [r EXCEPT !.page = p]
  <2>1. /\ rp.page = p /\ rp.size = r.size /\ rp.from = r.from /\ rp.to = r.to
        /\ rp.type = r.type /\ rp.service = r.service /\ rp.severity = r.severity
        /\ r.page \in Int /\ r.size \in Int \cup {Absent}
        /\ r.from \in Int \cup {Absent} /\ r.to \in Int \cup {Absent}
    BY <1>2 DEF AnomalyQueries
  <2> HIDE DEF rp
  <2>2. PageParam(rp) = p /\ SizeParam(rp) = SizeParam(r)
    BY <1>3, <2>1 DEF PageParam, SizeParam
  <2>3. SizeParam(r) \in 1 .. MaxSize
    BY <2>1, ClampedOnce
  <2>4. ~BadRequest(rp)
    BY <1>1, <2>1, <2>2, <2>3 DEF BadRequest
  <2>5. \A d : AnomalyMatches(d, rp) <=> AnomalyMatches(d, r)
    BY <2>1 DEF AnomalyMatches, InRange
  <2> QED
    BY <2>2, <2>3, <2>4, <2>5 DEF rp
<1> QED
  BY <1>4, <1>5

\* A reader's walk: the first answer tells how many pages to ask for, these join up, and
\* what they show is found by its id.
LEMMA Walked ==
    ASSUME NEW D, NEW docs \in Seq(D), NEW P \in SUBSET DOMAIN docs,
           NEW size \in 1 .. MaxSize, NEW pages,
           docs # <<>> => pages = 1 + (Search(At(docs, P), 1, size).total \div size),
           pages <= MaxPage, pages * size <= ResultWindow
    PROVE  /\ docs # <<>> =>
                /\ \A p \in 1 .. pages : p \in 1 .. MaxPage
                /\ FlattenSeq([p \in 1 .. pages |-> Search(At(docs, P), p, size).data])
                     = At(docs, P)
           /\ \A d \in Range(At(docs, P)) :
                FirstOf(ById(docs, d.id)).status = 200
<1>1. /\ MaxPage \in Nat \ {0} /\ MaxSize \in Nat \ {0} /\ size \in Nat \ {0}
      /\ ResultWindow \in Nat \ {0}
  BY SearchAssumption
<1>2. IsFiniteSet(P) /\ Cardinality(P) \in Nat /\ Len(At(docs, P)) = Cardinality(P)
  BY SelectionIsInOrder, FS_CardinalityType
<1>3. ASSUME docs # <<>>
      PROVE  /\ \A p \in 1 .. pages : p \in 1 .. MaxPage
             /\ FlattenSeq([p \in 1 .. pages |-> Search(At(docs, P), p, size).data])
                  = At(docs, P)
  <2> DEFINE total == Search(At(docs, P), 1, size).total
  <2>1. total \in Nat
    BY <1>2 DEF Search, writeError
  <2>2. pages = 1 + (total \div size)
    BY <1>3
  <2> HIDE DEF total
  <2>3. pages \in Nat \ {0}
    <3>1. total \div size \in Nat
      BY <1>1, <2>1, QuotientType
    <3> QED
      BY <2>2, <3>1
  <2>4. \A p \in 1 .. pages : p \in 1 .. MaxPage
    BY <1>1, <2>3
  <2>5. 1 * size <= ResultWindow /\ 1 \in Nat \ {0}
    <3>1. 1 * size = size /\ size <= pages * size /\ pages * size \in Int
      BY <1>1, <2>3
    <3> QED
      BY <1>1, <3>1
  <2>6. total = Cardinality(P)
    <3>1. Search(At(docs, P), 1, size) =
            [status |-> 200, data |-> Hits(At(docs, P), 1, size), total |-> Cardinality(P)]
      BY <2>5, PageAnswered
    <3> QED
      BY <3>1 DEF total
  <2>7. FlattenSeq([p \in 1 .. pages |-> Search(At(docs, P), p, size).data]) = At(docs, P)
    BY <2>2, <2>3, <2>6, PagesAnswered
  <2> QED
    BY <2>4, <2>7
<1>4. ASSUME NEW d \in Range(At(docs, P))
      PROVE  FirstOf(ById(docs, d.id)).status = 200
  <2>1. PICK i \in P : d = docs[i]
    BY SelectedFrom
  <2>2. ById(docs, docs[i].id) # <<>>
    BY FoundById
  <2> QED
    BY <2>1, <2>2 DEF FirstOf
<1> QED
  BY <1>3, <1>4

-----------------------------------------------------------------------------
(* Times *)

\* Cutting to the second never goes forward, keeps the order and changes nothing twice.
LEMMA SecondOf ==
    ASSUME NEW t \in Int
    PROVE  /\ Second(t) \in Int /\ Second(t) <= t /\ Second(Second(t)) = Second(t)
           /\ \A s \in Int : t <= s => Second(t) <= Second(s)
<1> DEFINE q(x) == x \div Unit
           m(x) == x % Unit
<1>1. Unit \in Nat \ {0}
  BY SearchAssumption
<1>2. \A x \in Int : q(x) \in Int /\ m(x) \in 0 .. Unit - 1 /\ x = Unit * q(x) + m(x)
  BY <1>1
<1>3. \A x \in Int : Second(x) = x - m(x)
  BY DEF Second
<1> HIDE DEF q, m
<1>4. \A x \in Int : Second(x) \in Int /\ Second(x) = Unit * q(x) /\ Second(x) <= x
  <2> TAKE x \in Int
  <2>1. q(x) \in Int /\ m(x) \in Int /\ m(x) >= 0 /\ x = Unit * q(x) + m(x)
    BY <1>1, <1>2
  <2>2. Unit * q(x) \in Int
    BY <1>1, <2>1
  <2> QED
    BY <1>3, <2>1, <2>2
<1>5. ASSUME NEW s \in Int, NEW r \in Int, s <= r
      PROVE  Second(s) <= Second(r)
  <2>1. q(s) \in Int /\ q(r) \in Int /\ m(r) \in Int /\ m(r) < Unit
        /\ r = Unit * q(r) + m(r)
    BY <1>1, <1>2
  <2>2. CASE q(s) <= q(r)
    <3>1. Unit * q(s) <= Unit * q(r)
      BY <1>1, <2>1, <2>2
    <3> QED
      BY <1>4, <3>1
  <2>3. CASE q(r) + 1 <= q(s)
    <3>1. Unit * (q(r) + 1) <= Unit * q(s) /\ Unit * (q(r) + 1) = Unit * q(r) + Unit
      BY <1>1, <2>1, <2>3
    <3>2. Unit * q(r) \in Int /\ Unit * q(s) \in Int /\ Unit \in Int
      BY <1>1, <2>1
    <3>3. Unit * q(s) <= s
      BY <1>4
    <3> QED
      BY <1>5, <2>1, <3>1, <3>2, <3>3
  <2> QED
    BY <2>1, <2>2, <2>3
<1>6. Second(Second(t)) = Second(t)
  <2>1. q(t) \in Int /\ Second(t) = Unit * q(t) /\ Second(t) \in Int
    BY <1>2, <1>4
  <2>2. (Unit * q(t)) % Unit = 0
    <3> DEFINE y == Unit * q(t)
    <3>1. y \in Int /\ y = Unit * q(y) + m(y) /\ q(y) \in Int /\ m(y) \in 0 .. Unit - 1
      BY <1>1, <1>2, <2>1
    <3>2. y = Unit * q(t)
      OBVIOUS
    <3> HIDE DEF y
    <3>3. q(y) = q(t)
      <4>1. CASE q(y) + 1 <= q(t)
        <5>1. Unit * (q(y) + 1) <= Unit * q(t) /\ Unit * (q(y) + 1) = Unit * q(y) + Unit
          BY <1>1, <2>1, <3>1, <4>1
        <5> QED
          BY <1>1, <3>1, <3>2, <5>1
      <4>2. CASE q(t) + 1 <= q(y)
        <5>1. Unit * (q(t) + 1) <= Unit * q(y) /\ Unit * (q(t) + 1) = Unit * q(t) + Unit
          BY <1>1, <2>1, <3>1, <4>2
        <5> QED
          BY <1>1, <3>1, <3>2, <5>1
      <4> QED
        BY <2>1, <3>1, <4>1, <4>2
    <3>4. m(y) = 0
      BY <3>1, <3>2, <3>3
    <3> QED
      BY <3>4 DEF m, y
  <2> QED
    BY <2>1, <2>2 DEF Second
<1> QED
  BY <1>4, <1>5, <1>6

\* A replayed line keeps no stamp, or gets one that is not before the second of the start.
LEMMA RebasedAfterStart ==
    ASSUME file \in Seq(Int \cup {Absent}), start \in Int, NEW k \in 1 .. Len(file)
    PROVE  LET stamp == rebaseTimestamp(file[k])
           IN  stamp = Absent \/ (stamp \in Int /\ stamp >= Second(start))
<1>1. CASE file[k] = Absent
  BY <1>1 DEF rebaseTimestamp
<1>2. CASE file[k] # Absent
  <2> DEFINE span == maxTS - minTS
             far  == Len(file) * Unit * (file[k] - minTS)
             ahead == IF span > 0 THEN far \div span ELSE 0
  <2>1. file \in [1 .. Len(file) -> Int \cup {Absent}] /\ Len(file) \in Nat
        /\ DOMAIN file = 1 .. Len(file)
    BY LenProperties
  <2>2. Stamps \in SUBSET Int /\ file[k] \in Stamps
    BY <1>2, <2>1 DEF Stamps, Range
  <2>3. IsFiniteSet(Stamps)
    <3>1. file \in Surjection(1 .. Len(file), Range(file))
      BY <2>1 DEF Surjection, Range
    <3>2. IsFiniteSet(1 .. Len(file))
      BY <2>1, FS_Interval
    <3>3. IsFiniteSet(Range(file))
      BY <3>1, <3>2, FS_Surjection
    <3> QED
      BY <3>3, FS_Difference DEF Stamps
  <2>4. minTS \in Int /\ maxTS \in Int /\ minTS <= file[k]
    BY <2>2, <2>3, FiniteHasBounds DEF minTS, maxTS
  <2>5. ahead \in Nat
    <3>1. span \in Int /\ far \in Nat
      <4>1. Unit \in Nat /\ file[k] \in Int /\ file[k] - minTS \in Nat
        BY <1>2, <2>1, <2>4, SearchAssumption
      <4>2. Len(file) * Unit \in Nat
        BY <2>1, <4>1
      <4> QED
        BY <2>4, <4>1, <4>2
    <3> HIDE DEF span, far
    <3>2. \A a \in Nat, b \in Nat \ {0} : a \div b \in Nat
      BY QuotientType
    <3>3. CASE span > 0
      BY <3>1, <3>2, <3>3
    <3>4. CASE ~(span > 0)
      BY <3>4
    <3> QED
      BY <3>3, <3>4
  <2>6. rebaseTimestamp(file[k]) = Second(start + ahead)
    BY <1>2 DEF rebaseTimestamp
  <2> HIDE DEF ahead
  <2>7. start + ahead \in Int /\ start <= start + ahead
    BY <2>5
  <2> QED
    BY <2>6, <2>7, SecondOf
<1> QED
  BY <1>1, <1>2

-----------------------------------------------------------------------------
(* The invariant *)

Fates   == {"buffered", "acked", "failed"}
Kinds   == {normalLog, errorLog}
Records == [payload : [kind : Kinds, stamp : Int \cup {Absent}],
            fate : Fates, written : BOOLEAN]
Services == {"order-service", "payment-service"}
Levels  == {"info", "error"}
Docs    == [id : Nat, time : Int, service : Services, level : Levels]
Settling == {"flush", "totals", "drain", "report", "done"}

Shape ==
    /\ pc \in Settling \cup {"health", "baseline", "produce", "exit"}
    /\ file \in Files \cup {Absent}
    /\ start \in Int /\ elapsed \in 0 .. Duration
    /\ worker \in [Workers -> {"idle", "sending", "over"}]
    /\ sampler \in {"sampling", "over"}
    /\ records \in Seq(Records) /\ logs \in Seq(Docs)
    /\ interrupted \in BOOLEAN /\ flushed \in BOOLEAN
    /\ totalSent \in Nat /\ prevCount \in Int /\ stableRuns \in 0 .. 3 /\ finalLogs \in Int
    /\ verdict \in {"none", "PASS", "WARN", "FAIL"}
    /\ lastPoll \in {"none", "failed", "partial", "complete"}

\* No record of this run, and so no document of it, is dated before the second it began in.
Dated ==
    /\ \A i \in DOMAIN records :
         LET stamp == records[i].payload.stamp IN stamp # Absent => stamp >= Second(start)
    /\ \A j \in DOMAIN logs : logs[j].id # 0 => logs[j].time >= Second(start)

\* A document is of a record, or of an earlier run, and no record has two.
Once ==
    /\ \A j \in DOMAIN logs : logs[j].id # 0 => logs[j].id \in DOMAIN records
    /\ \A j, k \in DOMAIN logs : logs[j].id = logs[k].id => j = k

\* The client's buffer, and the counters: what is sent can only grow from Totals on, and
\* not at all once the client has flushed.
Sent ==
    /\ Cardinality(Fated("buffered")) <= MaxBuffered
    /\ pc \in Settling => \A w \in Workers : worker[w] = "over"
    /\ flushed => pc \in Settling \cup {"exit"} /\ Fated("buffered") = {}
    /\ totalSent <= Cardinality(Fated("acked"))
    /\ flushed /\ pc \in {"drain", "report", "done"} => totalSent = Cardinality(Fated("acked"))

\* What a poll counts, and what the verdict rests on.
Counted == {j \in DOMAIN logs : logs[j].time >= Second(start)}
Judged ==
    /\ prevCount \in -1 .. Cardinality(Counted) /\ finalLogs \in -1 .. Cardinality(Counted)
    /\ lastPoll = "complete" => pc \in {"report", "done"} /\ finalLogs >= totalSent
    /\ verdict # "none" => pc = "done" /\ verdict = Verdict(finalLogs)

IInv == Shape /\ Dated /\ Once /\ Sent /\ Judged

-----------------------------------------------------------------------------
(* Sequences and the sets of their positions *)

LEMMA Positioned ==
    ASSUME Shape
    PROVE  /\ DOMAIN records = 1 .. Len(records) /\ Len(records) \in Nat
           /\ DOMAIN logs = 1 .. Len(logs) /\ Len(logs) \in Nat
           /\ \A i \in DOMAIN records : records[i] \in Records
           /\ \A j \in DOMAIN logs : logs[j] \in Docs
BY LenProperties, ElementOfSeq DEF Shape

LEMMA SetsAreFinite ==
    ASSUME Shape
    PROVE  /\ \A f : /\ IsFiniteSet(Fated(f)) /\ Cardinality(Fated(f)) \in Nat
                     /\ Cardinality(Fated(f)) <= Len(records)
           /\ IsFiniteSet(Counted) /\ Cardinality(Counted) \in Nat
           /\ Cardinality(Counted) <= Len(logs)
<1>1. /\ DOMAIN records = 1 .. Len(records) /\ Len(records) \in Nat
      /\ DOMAIN logs = 1 .. Len(logs) /\ Len(logs) \in Nat
  BY Positioned
<1>2. Counted \in SUBSET (1 .. Len(logs))
  BY <1>1 DEF Counted
<1>3. \A f : Fated(f) \in SUBSET (1 .. Len(records))
  BY <1>1 DEF Fated
<1> QED
  BY <1>1, <1>2, <1>3, FewPositions

\* The same of the next state.
LEMMA SetsStayFinite ==
    ASSUME Shape'
    PROVE  /\ \A f : IsFiniteSet(Fated(f)') /\ Cardinality(Fated(f)') \in Nat
           /\ IsFiniteSet(Counted') /\ Cardinality(Counted') \in Nat
<1>1. /\ DOMAIN records' = 1 .. Len(records') /\ Len(records') \in Nat
      /\ DOMAIN logs' = 1 .. Len(logs') /\ Len(logs') \in Nat
  BY LenProperties DEF Shape
<1>2. Counted' \in SUBSET (1 .. Len(logs'))
  BY <1>1 DEF Counted
<1>3. \A f : Fated(f)' \in SUBSET (1 .. Len(records'))
  BY <1>1 DEF Fated
<1> QED
  BY <1>1, <1>2, <1>3, FewPositions

\* Appending changes no earlier element.
LEMMA Appended ==
    ASSUME NEW S, NEW s \in Seq(S), NEW e \in S
    PROVE  /\ Append(s, e) \in Seq(S) /\ Len(Append(s, e)) = Len(s) + 1
           /\ DOMAIN Append(s, e) = DOMAIN s \cup {Len(s) + 1} /\ Len(s) + 1 \notin DOMAIN s
           /\ \A k \in DOMAIN s : Append(s, e)[k] = s[k]
           /\ Append(s, e)[Len(s) + 1] = e
<1>1. /\ Append(s, e) \in Seq(S) /\ Len(Append(s, e)) = Len(s) + 1
      /\ \A k \in 1 .. Len(s) : Append(s, e)[k] = s[k]
      /\ Append(s, e)[Len(s) + 1] = e
  BY AppendProperties
<1>2. DOMAIN s = 1 .. Len(s) /\ Len(s) \in Nat /\ DOMAIN Append(s, e) = 1 .. Len(s) + 1
  BY <1>1, LenProperties
<1> QED
  BY <1>1, <1>2

-----------------------------------------------------------------------------
(* What a poll counts *)

LEMMA LogCountIs == Shape => logCount = Cardinality(Counted)
<1> SUFFICES ASSUME Shape PROVE logCount = Cardinality(Counted)
  OBVIOUS
<1> DEFINE r == [service |-> Absent, level |-> Absent, page |-> Absent,
                 size |-> 1, from |-> Second(start), to |-> Absent]
<1>1. start \in Int /\ \A j \in DOMAIN logs : logs[j].time \in Int
  BY Positioned DEF Shape, Docs
<1>2. Second(start) \in Int /\ Second(Second(start)) = Second(start)
  BY <1>1, SecondOf
<1>3. PageParam(r) = 1 /\ SizeParam(r) = 1
  <2>1. r.page = Absent /\ r.size = 1 /\ 1 # Absent /\ 1 # Malformed
    BY SearchAssumption
  <2>2. parseIntParam(1, DefaultSize, 1, MaxSize) = Clamp(1, 1, MaxSize)
    BY <2>1 DEF parseIntParam
  <2>3. Clamp(1, 1, MaxSize) = 1
    BY SearchAssumption DEF Clamp
  <2>4. parseIntParam(Absent, 1, 1, MaxPage) = 1
    BY SearchAssumption DEF parseIntParam
  <2> HIDE DEF r
  <2> QED
    BY <2>1, <2>2, <2>3, <2>4 DEF PageParam, SizeParam
<1>4. ~BadRequest(r)
  BY <1>2, <1>3, SearchAssumption DEF BadRequest
<1>5. ~Refused(1, 1)
  BY SearchAssumption DEF Refused, Offset, PageOf, SizeOf
<1>6. \A j \in DOMAIN logs : LogMatches(logs[j], r) <=> logs[j].time >= Second(start)
  BY <1>1, <1>2, SearchAssumption DEF LogMatches, Asked, InRange
<1>7. logCount = SearchLogs(logs, r).total
  BY <1>4 DEF logCount, handleListLogs
<1> HIDE DEF r
<1>8. SearchLogs(logs, r).total = Cardinality({j \in DOMAIN logs : LogMatches(logs[j], r)})
  <2> DEFINE P == {j \in DOMAIN logs : LogMatches(logs[j], r)}
  <2>1. Len(At(logs, P)) = Cardinality(P)
    <3>1. logs \in Seq(Docs) /\ P \in SUBSET DOMAIN logs
      BY DEF Shape
    <3> HIDE DEF P
    <3> QED
      BY <3>1, SelectionIsInOrder
  <2> QED
    BY <1>3, <1>5, <2>1 DEF SearchLogs, Search
<1> QED
  BY <1>6, <1>7, <1>8 DEF Counted

\* What is counted is documents of this run, or of its first second: the positions of the
\* first have an id each, those of the others are documents themselves.
LEMMA CountedIsKnown ==
    ASSUME Shape, Once
    PROVE  /\ IsFiniteSet(Indexed) /\ Cardinality(Indexed) \in Nat
           /\ IsFiniteSet(OfThatSecond) /\ Cardinality(OfThatSecond) \in Nat
           /\ Cardinality(Counted) <= Cardinality(Indexed) + Cardinality(OfThatSecond)
<1> DEFINE A == {j \in Counted : logs[j].id # 0}
           B == {j \in Counted : logs[j].id = 0}
           f == [j \in A |-> logs[j].id]
           g == [j \in B |-> logs[j]]
<1>1. IsFiniteSet(Counted) /\ A \in SUBSET Counted /\ B \in SUBSET Counted
  BY SetsAreFinite
<1>2. /\ IsFiniteSet(A) /\ Cardinality(A) \in Nat
      /\ IsFiniteSet(B) /\ Cardinality(B) \in Nat
  BY <1>1, FS_Subset, FS_CardinalityType
<1>3. Cardinality(Counted) = Cardinality(A) + Cardinality(B)
  <2>1. A \cup B = Counted /\ A \cap B = {}
    OBVIOUS
  <2>2. Cardinality(A \cup B) = Cardinality(A) + Cardinality(B) - Cardinality(A \cap B)
    BY <1>2, FS_Union
  <2>3. Cardinality(A \cap B) = 0
    BY <2>1, FS_EmptySet
  <2> HIDE DEF A, B
  <2> QED
    BY <1>2, <2>1, <2>2, <2>3
<1>4. IsFiniteSet(Indexed) /\ Cardinality(Indexed) \in Nat
  <2>1. Indexed \in SUBSET (1 .. Len(records)) /\ Len(records) \in Nat
    BY Positioned DEF Once, Indexed, Range
  <2> QED
    BY <2>1, FewPositions
<1>5. Cardinality(A) <= Cardinality(Indexed)
  <2>1. f \in [A -> Indexed]
    BY DEF Counted, Indexed, Range
  <2>2. \A j, k \in A : f[j] = f[k] => j = k
    BY DEF Counted, Once
  <2>3. f \in Injection(A, Indexed)
    BY <2>1, <2>2 DEF Injection, IsInjective
  <2> QED
    BY <1>4, <2>3, FS_Injection
<1>6. /\ IsFiniteSet(OfThatSecond) /\ Cardinality(OfThatSecond) \in Nat
      /\ Cardinality(B) <= Cardinality(OfThatSecond)
  <2>1. g \in [B -> OfThatSecond]
    BY DEF Counted, OfThatSecond, Range
  <2>2. \A j, k \in B : g[j] = g[k] => j = k
    BY DEF Counted, Once
  <2>3. \A d \in OfThatSecond : \E j \in B : g[j] = d
    BY DEF Counted, OfThatSecond, Range
  <2>4. g \in Surjection(B, OfThatSecond)
    BY <2>1, <2>3 DEF Surjection
  <2>5. g \in Injection(B, OfThatSecond)
    BY <2>1, <2>2 DEF Injection, IsInjective
  <2>6. IsFiniteSet(OfThatSecond)
    BY <1>2, <2>4, FS_Surjection
  <2> QED
    BY <2>5, <2>6, FS_Injection, FS_CardinalityType
<1> HIDE DEF A, B
<1> QED
  BY <1>2, <1>3, <1>4, <1>5, <1>6

\* Once every acknowledged record is a document, a poll counts at least that many.
LEMMA AckedAreCounted ==
    ASSUME Shape, Dated, Once, Fated("acked") \subseteq Indexed
    PROVE  Cardinality(Fated("acked")) <= Cardinality(Counted)
<1> DEFINE F == Fated("acked")
           h == [i \in F |-> CHOOSE j \in DOMAIN logs : logs[j].id = i]
<1>1. \A i \in F : h[i] \in DOMAIN logs /\ logs[h[i]].id = i
  <2> TAKE i \in F
  <2>1. \E j \in DOMAIN logs : logs[j].id = i
    BY DEF Indexed, Range
  <2> QED
    BY <2>1
<1>2. \A i \in F : i # 0
  BY DEF Indexed
<1>3. \A i \in F : h[i] \in Counted
  BY <1>1, <1>2 DEF Dated, Counted
<1>4. \A i, k \in F : h[i] = h[k] => i = k
  BY <1>1
<1>5. h \in [F -> Counted]
  BY <1>3
<1>6. h \in Injection(F, Counted)
  BY <1>4, <1>5 DEF Injection, IsInjective
<1> QED
  BY <1>6, SetsAreFinite, FS_Injection

-----------------------------------------------------------------------------
(* What the steps do to records and documents *)

LEMMA ProduceEffect ==
    ASSUME Shape, NEW w \in Workers, Produce(w)
    PROVE  \E e \in Records :
             /\ records' = Append(records, e)
             /\ e.payload.stamp # Absent => e.payload.stamp >= Second(start)
             /\ e.fate = "buffered" => Room
             /\ e.fate \in {"buffered", "failed"}
<1> DEFINE record(p, fate) == [payload |-> p, fate |-> fate, written |-> FALSE]
<1>1. PICK p \in (IF FileMode THEN Replayed ELSE Generated) :
        \/ Room /\ records' = Append(records, record(p, "buffered"))
        \/ records' = Append(records, record(p, "failed"))
  BY DEF Produce
<1>2. /\ p \in [kind : Kinds, stamp : Int \cup {Absent}]
      /\ p.stamp # Absent => p.stamp >= Second(start)
  <2>1. CASE FileMode
    <3>1. file \in Seq(Int \cup {Absent}) /\ Len(file) \in Nat
      <4>1. file \in Seq(Int \cup {Absent})
        BY <2>1, EndToEndAssumption DEF Shape, FileMode
      <4> QED
        BY <4>1, LenProperties
    <3>2. Len(records) + 1 \in 1 .. Len(file)
      BY <2>1, <3>1, Positioned DEF Produce
    <3>3. p = [kind |-> normalLog, stamp |-> rebaseTimestamp(file[Len(records) + 1])]
      BY <1>1, <2>1 DEF Replayed
    <3>4. LET stamp == rebaseTimestamp(file[Len(records) + 1])
          IN  stamp = Absent \/ (stamp \in Int /\ stamp >= Second(start))
      BY <3>1, <3>2, RebasedAfterStart DEF Shape
    <3> QED
      BY <3>3, <3>4 DEF Kinds
  <2>2. CASE ~FileMode
    <3>1. PICK k \in Kinds : p = [kind |-> k, stamp |-> Second(start + elapsed)]
      BY <1>1, <2>2 DEF Generated, Kinds
    <3>2. start \in Int /\ start + elapsed \in Int /\ start <= start + elapsed
      BY EndToEndAssumption DEF Shape
    <3>3. Second(start + elapsed) \in Int /\ Second(start + elapsed) >= Second(start)
      BY <3>2, SecondOf
    <3> QED
      BY <3>1, <3>3
  <2> QED
    BY <2>1, <2>2
<1>3. CASE Room /\ records' = Append(records, record(p, "buffered"))
  <2>1. record(p, "buffered") \in Records
    BY <1>2 DEF Records, Fates
  <2> QED
    BY <1>2, <1>3, <2>1
<1>4. CASE records' = Append(records, record(p, "failed"))
  <2>1. record(p, "failed") \in Records
    BY <1>2 DEF Records, Fates
  <2> QED
    BY <1>2, <1>4, <2>1
<1> QED
  BY <1>1, <1>3, <1>4

LEMMA SettleEffect ==
    ASSUME Shape, NEW i \in DOMAIN records, Settle(i)
    PROVE  /\ records' \in Seq(Records) /\ Len(records') = Len(records)
           /\ DOMAIN records' = DOMAIN records
           /\ \A k \in DOMAIN records : records'[k].payload = records[k].payload
           /\ \A k \in DOMAIN records : k # i => records'[k].fate = records[k].fate
           /\ records[i].fate = "buffered" /\ records'[i].fate \in {"acked", "failed"}
<1>1. PICK fate \in {"acked", "failed"}, written \in BOOLEAN :
        records' = [records EXCEPT ![i].fate = fate, ![i].written = written]
  BY DEF Settle
<1> DEFINE e == [payload |-> records[i].payload, fate |-> fate, written |-> written]
<1>2. i \in 1 .. Len(records) /\ records[i] \in Records /\ records \in Seq(Records)
  BY Positioned DEF Shape
<1>3. e \in Records
  BY <1>2 DEF Records, Fates
<1>4. records' = [records EXCEPT ![i] = e]
  <2> DEFINE r == records[i]
  <2>1. r \in Records
    BY <1>2
  <2>2. records' = [records EXCEPT ![i] = [[r EXCEPT !.fate = fate] EXCEPT !.written = written]]
    BY <1>1, <1>2
  <2>3. e = [payload |-> r.payload, fate |-> fate, written |-> written]
    OBVIOUS
  <2> HIDE DEF r, e
  <2> DEFINE q == [r EXCEPT !.fate = fate]
  <2>4. q = [payload |-> r.payload, fate |-> fate, written |-> r.written]
    BY <2>1 DEF Records
  <2>5. [q EXCEPT !.written = written] = e
    <3> HIDE DEF q
    <3>1. \A x : [q EXCEPT !.written = x]
                   = [payload |-> r.payload, fate |-> fate, written |-> x]
      BY <2>4
    <3> QED
      BY <2>3, <3>1
  <2> QED
    BY <2>2, <2>5
<1>5. /\ records' \in Seq(Records) /\ Len(records') = Len(records)
      /\ \A j \in 1 .. Len(records) : records'[j] = IF j = i THEN e ELSE records[j]
  BY <1>2, <1>3, <1>4, ExceptSeq
<1>6. DOMAIN records' = DOMAIN records /\ DOMAIN records = 1 .. Len(records)
  BY <1>4, Positioned
<1> QED
  BY <1>5, <1>6 DEF Settle

LEMMA IndexEffect ==
    ASSUME Shape, Dated, NEW i \in DOMAIN records, Index(i)
    PROVE  \E d \in Docs : /\ logs' = Append(logs, d)
                           /\ d.id = i /\ i # 0 /\ i \notin Indexed
                           /\ d.time >= Second(start)
<1> DEFINE p == records[i].payload
           d == [id |-> i, service |-> p.kind.service, level |-> p.kind.level,
                 time |-> IF p.stamp = Absent THEN start ELSE p.stamp]
<1>1. i \in Nat \ {0} /\ records[i] \in Records /\ start \in Int
  BY Positioned DEF Shape
<1>2. p.kind \in Kinds /\ p.stamp \in Int \cup {Absent}
  BY <1>1 DEF Records
<1>3. p.kind.service \in Services /\ p.kind.level \in Levels
  <2>1. p.kind = normalLog \/ p.kind = errorLog
    BY <1>2 DEF Kinds
  <2>2. normalLog.service = "order-service" /\ normalLog.level = "info"
    BY DEF normalLog
  <2>3. errorLog.service = "payment-service" /\ errorLog.level = "error"
    BY DEF errorLog
  <2> HIDE DEF p, d
  <2> QED
    BY <2>1, <2>2, <2>3 DEF Services, Levels
<1>4. d.time \in Int /\ d.time >= Second(start)
  <2>1. Second(start) <= start /\ Second(start) \in Int
    BY <1>1, SecondOf
  <2>2. CASE p.stamp = Absent
    BY <1>1, <2>1, <2>2
  <2>3. CASE p.stamp # Absent
    BY <1>2, <2>3 DEF Dated
  <2> QED
    BY <2>2, <2>3
<1>5. d \in Docs
  BY <1>1, <1>3, <1>4 DEF Docs
<1>6. logs' = Append(logs, d) /\ i \notin Indexed
  BY DEF Index
<1>7. d.id = i
  OBVIOUS
<1> HIDE DEF d
<1> QED
  BY <1>1, <1>4, <1>5, <1>6, <1>7

-----------------------------------------------------------------------------
(* Initial states *)

LEMMA InitIInv == Init => IInv
<1> SUFFICES ASSUME Init PROVE IInv
  OBVIOUS
<1>1. records = <<>> /\ records \in Seq(Records) /\ DOMAIN records = {}
  BY DEF Init
<1>2. /\ logs \in Seq(Docs)
      /\ \A j \in DOMAIN logs : logs[j].id = 0
      /\ \A j, k \in DOMAIN logs : j = k
  <2>1. CASE logs = <<>>
    BY <2>1
  <2>2. CASE logs # <<>>
    <3> DEFINE d == [id |-> 0, time |-> start - 1, service |-> "order-service",
                     level |-> "info"]
    <3>1. logs = <<d>>
      BY <2>2 DEF Init, OldLogs
    <3>2. d \in Docs /\ d.id = 0
      BY SearchAssumption DEF Init, Docs, Services, Levels
    <3> HIDE DEF d
    <3>3. DOMAIN <<d>> = {1} /\ <<d>>[1] = d /\ <<d>> \in Seq(Docs)
      BY <3>2
    <3> QED
      BY <3>1, <3>2, <3>3
  <2> QED
    BY <2>1, <2>2
<1>3. Shape
  <2>1. start \in Int /\ 0 \in 0 .. Duration
    BY SearchAssumption, EndToEndAssumption DEF Init
  <2>2. worker \in [Workers -> {"idle", "sending", "over"}]
    BY DEF Init
  <2>3. /\ pc = "health" /\ sampler = "sampling" /\ verdict = "none" /\ lastPoll = "none"
        /\ file \in Files \cup {Absent}
    BY DEF Init
  <2>4. interrupted \in BOOLEAN /\ flushed \in BOOLEAN
    BY DEF Init
  <2>5. /\ elapsed = 0 /\ totalSent = 0 /\ prevCount = -1 /\ stableRuns = 0
        /\ finalLogs = 0
    BY DEF Init
  <2>6. /\ elapsed \in 0 .. Duration /\ totalSent \in Nat /\ prevCount \in Int
        /\ stableRuns \in 0 .. 3 /\ finalLogs \in Int
    BY <2>1, <2>5
  <2> QED
    BY <1>1, <1>2, <2>1, <2>2, <2>3, <2>4, <2>6 DEF Shape
<1>4. \A f : Cardinality(Fated(f)) = 0 /\ Fated(f) = {}
  <2>1. \A f : Fated(f) = {}
    BY <1>1 DEF Fated
  <2> QED
    BY <2>1, FS_EmptySet
<1>5. Dated /\ Once
  BY <1>1, <1>2 DEF Dated, Once
<1>6. Sent
  BY <1>4, EndToEndAssumption DEF Init, Sent, Settling
<1>7. Judged
  BY <1>3, SetsAreFinite DEF Init, Judged
<1> QED
  BY <1>3, <1>5, <1>6, <1>7 DEF IInv

-----------------------------------------------------------------------------
(* Steps *)

LEMMA NextShape == Shape /\ Dated /\ [Next]_vars => Shape'
<1> SUFFICES ASSUME Shape, Dated, [Next]_vars PROVE Shape'
  OBVIOUS
<1> USE DEF drain, Settling
<1>1. CASE healthCheck \/ Baseline \/ BeginFlush
  BY <1>1 DEF healthCheck, Baseline, BeginFlush, Shape
<1>2. CASE Flush \/ PollFails \/ DrainInterrupted
  BY <1>2 DEF Flush, PollFails, DrainInterrupted, Shape
<1>3. CASE Totals
  <2>1. Cardinality(Fated("acked")) \in Nat
    BY SetsAreFinite
  <2> QED
    BY <1>3, <2>1 DEF Totals, Shape
<1>4. ASSUME NEW answer \in {"ok", "error"}, Poll(answer) PROVE Shape'
  <2>1. apiTotal(answer) \in Int
    BY LogCountIs, SetsAreFinite DEF apiTotal, writeError
  <2>2. stableRuns' \in 0 .. 3
    <3>1. stableRuns + 1 \in 1 .. 4
      BY DEF Shape
    <3>2. Clamp(stableRuns + 1, 0, 3) \in 0 .. 3
      BY <3>1 DEF Clamp
    <3> QED
      BY <1>4, <3>2 DEF Poll
  <2>3. finalLogs' \in Int /\ prevCount' \in Int /\ pc' \in {"drain", "report"}
    BY <1>4, <2>1 DEF Poll, Shape
  <2>4. lastPoll' \in {"failed", "partial", "complete"}
    BY <1>4 DEF Poll
  <2>5. UNCHANGED <<file, start, elapsed, worker, sampler, records, logs, interrupted,
                    totalSent, verdict, flushed>>
    BY <1>4 DEF Poll
  <2> QED
    BY <2>2, <2>3, <2>4, <2>5 DEF Shape
<1>5. CASE DrainTimeout
  BY <1>5 DEF DrainTimeout, Shape
<1>6. CASE Report
  BY <1>6 DEF Report, Verdict, Shape
<1>7. ASSUME NEW w \in Workers, WorkerTick(w) \/ WorkerStop(w) \/ BatchEnd(w) PROVE Shape'
  BY <1>7 DEF WorkerTick, WorkerStop, BatchEnd, Shape
<1>8. ASSUME NEW w \in Workers, Produce(w) PROVE Shape'
  <2>1. PICK e \in Records : records' = Append(records, e)
    BY <1>8, ProduceEffect
  <2>2. records' \in Seq(Records)
    BY <2>1, Appended DEF Shape
  <2>3. worker' \in [Workers -> {"idle", "sending", "over"}]
    BY <1>8 DEF Produce, Shape
  <2> QED
    BY <1>8, <2>2, <2>3 DEF Produce, Shape
<1>9. ASSUME NEW i \in DOMAIN records, Settle(i) PROVE Shape'
  <2>1. records' \in Seq(Records)
    BY <1>9, SettleEffect
  <2> QED
    BY <1>9, <2>1 DEF Settle, Shape
<1>10. ASSUME NEW i \in DOMAIN records, Index(i) PROVE Shape'
  <2>1. PICK d \in Docs : logs' = Append(logs, d)
    BY <1>10, IndexEffect
  <2>2. logs' \in Seq(Docs)
    BY <2>1, Appended DEF Shape
  <2>3. UNCHANGED <<pc, file, start, elapsed, worker, sampler, records, interrupted, drain>>
    BY <1>10 DEF Index
  <2> QED
    BY <2>2, <2>3 DEF Shape
<1>11. CASE SamplerDone \/ Elapse \/ Interrupt
  <2>1. CASE Elapse
    <3>1. elapsed' \in 0 .. Duration
      BY <2>1, EndToEndAssumption DEF Elapse, Generating, Shape
    <3> QED
      BY <2>1, <3>1 DEF Elapse, Shape
  <2>2. CASE SamplerDone \/ Interrupt
    BY <2>2 DEF SamplerDone, Interrupt, Shape
  <2> QED
    BY <1>11, <2>1, <2>2
<1>12. CASE UNCHANGED vars
  BY <1>12 DEF vars, Shape
<1> QED
  BY <1>1, <1>2, <1>3, <1>4, <1>5, <1>6, <1>7, <1>8, <1>9, <1>10, <1>11, <1>12
  DEF Next, Main, Worker

\* Only three kinds of step change records or documents, and none the start.
LEMMA WhoMoves ==
    ASSUME [Next]_vars
    PROVE  /\ UNCHANGED <<file, start>>
           /\ \/ \E w \in Workers : Produce(w)
              \/ \E i \in DOMAIN records : Settle(i)
              \/ \E i \in DOMAIN records : Index(i)
              \/ UNCHANGED <<records, logs>>
<1> USE DEF drain
<1>1. CASE \E w \in Workers : Produce(w)
  BY <1>1 DEF Produce
<1>2. CASE \E i \in DOMAIN records : Settle(i)
  BY <1>2 DEF Settle
<1>3. CASE \E i \in DOMAIN records : Index(i)
  BY <1>3 DEF Index
<1>4. CASE Main
  BY <1>4 DEF Main, healthCheck, Baseline, BeginFlush, Flush, Totals, Poll, PollFails,
              DrainTimeout, DrainInterrupted, Report
<1>5. CASE \E w \in Workers : WorkerTick(w) \/ WorkerStop(w) \/ BatchEnd(w)
  BY <1>5 DEF WorkerTick, WorkerStop, BatchEnd
<1>6. CASE SamplerDone \/ Elapse \/ Interrupt
  BY <1>6 DEF SamplerDone, Elapse, Interrupt
<1>7. CASE UNCHANGED vars
  BY <1>7 DEF vars
<1> QED
  BY <1>1, <1>2, <1>3, <1>4, <1>5, <1>6, <1>7 DEF Next, Worker

LEMMA NextDated == Shape /\ Dated /\ [Next]_vars => Dated'
<1> SUFFICES ASSUME Shape, Dated, [Next]_vars PROVE Dated'
  OBVIOUS
<1>1. Second(start)' = Second(start)
  BY WhoMoves DEF Second
<1>2. ASSUME NEW w \in Workers, Produce(w) PROVE Dated'
  <2>1. PICK e \in Records : /\ records' = Append(records, e)
                             /\ e.payload.stamp # Absent => e.payload.stamp >= Second(start)
    BY <1>2, ProduceEffect
  <2>2. logs' = logs
    BY <1>2 DEF Produce
  <2>3. records \in Seq(Records)
    BY DEF Shape
  <2>4. DOMAIN records' = DOMAIN records \cup {Len(records) + 1}
        /\ records'[Len(records) + 1] = e /\ \A k \in DOMAIN records : records'[k] = records[k]
    BY <2>1, <2>3, Appended
  <2> QED
    BY <1>1, <2>1, <2>2, <2>4 DEF Dated
<1>3. ASSUME NEW i \in DOMAIN records, Settle(i) PROVE Dated'
  <2>1. DOMAIN records' = DOMAIN records
        /\ \A k \in DOMAIN records : records'[k].payload = records[k].payload
    BY <1>3, SettleEffect
  <2>2. logs' = logs
    BY <1>3 DEF Settle
  <2> QED
    BY <1>1, <2>1, <2>2 DEF Dated
<1>4. ASSUME NEW i \in DOMAIN records, Index(i) PROVE Dated'
  <2>1. PICK d \in Docs : logs' = Append(logs, d) /\ d.time >= Second(start)
    BY <1>4, IndexEffect
  <2>2. records' = records
    BY <1>4 DEF Index
  <2>3. logs \in Seq(Docs)
    BY DEF Shape
  <2>4. DOMAIN logs' = DOMAIN logs \cup {Len(logs) + 1}
        /\ logs'[Len(logs) + 1] = d /\ \A k \in DOMAIN logs : logs'[k] = logs[k]
    BY <2>1, <2>3, Appended
  <2> QED
    BY <1>1, <2>1, <2>2, <2>4 DEF Dated
<1>5. CASE UNCHANGED <<records, logs>>
  BY <1>1, <1>5 DEF Dated
<1> QED
  BY <1>2, <1>3, <1>4, <1>5, WhoMoves

LEMMA NextOnce == Shape /\ Dated /\ Once /\ [Next]_vars => Once'
<1> SUFFICES ASSUME Shape, Dated, Once, [Next]_vars PROVE Once'
  OBVIOUS
<1>1. ASSUME NEW w \in Workers, Produce(w) PROVE Once'
  <2>1. PICK e \in Records : records' = Append(records, e)
    BY <1>1, ProduceEffect
  <2>2. logs' = logs
    BY <1>1 DEF Produce
  <2>3. records \in Seq(Records)
    BY DEF Shape
  <2>4. DOMAIN records \subseteq DOMAIN records'
    BY <2>1, <2>3, Appended
  <2> QED
    BY <2>2, <2>4 DEF Once
<1>2. ASSUME NEW i \in DOMAIN records, Settle(i) PROVE Once'
  <2>1. DOMAIN records' = DOMAIN records
    BY <1>2, SettleEffect
  <2>2. logs' = logs
    BY <1>2 DEF Settle
  <2> QED
    BY <2>1, <2>2 DEF Once
<1>3. ASSUME NEW i \in DOMAIN records, Index(i) PROVE Once'
  <2>1. PICK d \in Docs : logs' = Append(logs, d) /\ d.id = i /\ i # 0 /\ i \notin Indexed
    BY <1>3, IndexEffect
  <2>2. records' = records
    BY <1>3 DEF Index
  <2>3. logs \in Seq(Docs)
    BY DEF Shape
  <2>4. DOMAIN logs' = DOMAIN logs \cup {Len(logs) + 1}
        /\ logs'[Len(logs) + 1] = d /\ \A k \in DOMAIN logs : logs'[k] = logs[k]
    BY <2>1, <2>3, Appended
  <2>5. \A k \in DOMAIN logs : logs[k].id # i
    BY <2>1 DEF Indexed, Range
  <2> QED
    BY <2>1, <2>2, <2>4, <2>5 DEF Once
<1>4. CASE UNCHANGED <<records, logs>>
  BY <1>4 DEF Once
<1> QED
  BY <1>1, <1>2, <1>3, <1>4, WhoMoves

\* A new record adds to the buffer, and only where there is room; a settled one leaves it.
LEMMA ProducedFates ==
    ASSUME Shape, NEW e \in Records, records' = Append(records, e)
    PROVE  \A f : Fated(f)' = Fated(f) \cup (IF e.fate = f THEN {Len(records) + 1} ELSE {})
<1>1. DOMAIN records' = DOMAIN records \cup {Len(records) + 1}
      /\ Len(records) + 1 \notin DOMAIN records
      /\ records'[Len(records) + 1] = e /\ \A k \in DOMAIN records : records'[k] = records[k]
  BY Appended DEF Shape
<1> QED
  BY <1>1 DEF Fated

LEMMA SettledFates ==
    ASSUME Shape, NEW i \in DOMAIN records, Settle(i)
    PROVE  /\ i \in Fated("buffered") /\ Fated("buffered")' = Fated("buffered") \ {i}
           /\ Fated("acked") \subseteq Fated("acked")'
BY SettleEffect DEF Fated

LEMMA NextSent == Shape /\ Dated /\ Sent /\ [Next]_vars => Sent'
<1> SUFFICES ASSUME Shape, Dated, Sent, [Next]_vars PROVE Sent'
  OBVIOUS
<1> USE DEF drain, Settling
<1>1. /\ \A f : IsFiniteSet(Fated(f)) /\ Cardinality(Fated(f)) \in Nat
      /\ Shape'
      /\ \A f : IsFiniteSet(Fated(f)') /\ Cardinality(Fated(f)') \in Nat
      /\ totalSent \in Nat /\ MaxBuffered \in Nat
  <2>1. Shape'
    BY NextShape
  <2>2. \A f : IsFiniteSet(Fated(f)') /\ Cardinality(Fated(f)') \in Nat
    BY <2>1, SetsStayFinite
  <2> QED
    BY <2>1, <2>2, SetsAreFinite, EndToEndAssumption DEF Shape
<1>2. ASSUME NEW w \in Workers, Produce(w) PROVE Sent'
  <2>1. /\ pc \notin Settling \cup {"exit"} /\ ~flushed
        /\ UNCHANGED <<pc, flushed, totalSent>>
    BY <1>2 DEF Produce, Running, Sent, Shape
  <2>2. PICK e \in Records : /\ records' = Append(records, e)
                             /\ e.fate = "buffered" => Room
                             /\ e.fate \in {"buffered", "failed"}
    BY <1>2, ProduceEffect
  <2>3. \A f : Fated(f)' = Fated(f) \cup (IF e.fate = f THEN {Len(records) + 1} ELSE {})
    BY <2>2, ProducedFates
  <2>4. Fated("acked")' = Fated("acked")
    BY <2>2, <2>3
  <2>5. Cardinality(Fated("buffered"))' <= MaxBuffered
    <3>1. CASE e.fate = "buffered"
      <4>1. Fated("buffered")' = Fated("buffered") \cup {Len(records) + 1}
        BY <2>3, <3>1
      <4>2. Cardinality(Fated("buffered")') <= Cardinality(Fated("buffered")) + 1
        BY <1>1, <4>1, FS_AddElement
      <4>3. Cardinality(Fated("buffered")) < MaxBuffered
        BY <2>2, <3>1 DEF Room
      <4> QED
        BY <1>1, <4>2, <4>3
    <3>2. CASE e.fate # "buffered"
      <4>1. Fated("buffered")' = Fated("buffered")
        BY <2>3, <3>2
      <4> QED
        BY <4>1 DEF Sent
    <3> QED
      BY <3>1, <3>2
  <2> QED
    BY <2>1, <2>4, <2>5 DEF Sent
<1>3. ASSUME NEW i \in DOMAIN records, Settle(i) PROVE Sent'
  <2>1. /\ i \in Fated("buffered") /\ Fated("buffered")' = Fated("buffered") \ {i}
        /\ Fated("acked") \subseteq Fated("acked")'
    BY <1>3, SettledFates
  <2>2. ~flushed /\ UNCHANGED <<pc, worker, flushed, totalSent>>
    BY <1>3, <2>1 DEF Settle, Sent, Shape
  <2>3. Cardinality(Fated("buffered")') <= Cardinality(Fated("buffered"))
    BY <1>1, <2>1, FS_Subset
  <2>4. Cardinality(Fated("acked")) <= Cardinality(Fated("acked")')
    BY <1>1, <2>1, FS_Subset
  <2> QED
    BY <1>1, <2>2, <2>3, <2>4 DEF Sent
<1>4. ASSUME NEW i \in DOMAIN records, Index(i) PROVE Sent'
  BY <1>4 DEF Index, Sent, Fated
<1>5. CASE healthCheck \/ Baseline
  <2>1. /\ pc \in {"health", "baseline"} /\ pc' \in {"baseline", "produce", "exit"}
        /\ UNCHANGED <<records, flushed, totalSent>>
    BY <1>5 DEF healthCheck, Baseline
  <2>2. \A f : Fated(f)' = Fated(f)
    BY <2>1 DEF Fated
  <2> QED
    BY <2>1, <2>2 DEF Sent
<1>6. CASE BeginFlush
  BY <1>6 DEF BeginFlush, Sent, Fated
<1>7. CASE Flush
  BY <1>7 DEF Flush, Sent, Fated
<1>8. CASE Totals
  <2>1. Fated("acked")' = Fated("acked") /\ Fated("buffered")' = Fated("buffered")
    BY <1>8 DEF Totals, Fated
  <2> QED
    BY <1>1, <1>8, <2>1 DEF Totals, Sent
<1>9. CASE \/ PollFails \/ DrainTimeout \/ DrainInterrupted \/ Report
           \/ \E answer \in {"ok", "error"} : Poll(answer)
  <2>1. /\ pc \in {"drain", "report"} /\ pc' \in {"drain", "report", "done"}
        /\ UNCHANGED <<worker, records, flushed, totalSent>>
    BY <1>9 DEF PollFails, DrainTimeout, DrainInterrupted, Report, Poll
  <2>2. \A f : Fated(f)' = Fated(f)
    BY <2>1 DEF Fated
  <2> QED
    BY <2>1, <2>2 DEF Sent
<1>10. ASSUME NEW w \in Workers, WorkerTick(w) \/ WorkerStop(w) \/ BatchEnd(w) PROVE Sent'
  <2>1. pc \notin Settling /\ UNCHANGED <<pc, records, flushed, totalSent>>
    BY <1>10 DEF WorkerTick, WorkerStop, BatchEnd, Running, Sent
  <2>2. \A f : Fated(f)' = Fated(f)
    BY <2>1 DEF Fated
  <2> QED
    BY <2>1, <2>2 DEF Sent
<1>11. CASE SamplerDone \/ Elapse \/ Interrupt
  <2>1. UNCHANGED <<pc, worker, records, flushed, totalSent>>
    BY <1>11 DEF SamplerDone, Elapse, Interrupt
  <2>2. \A f : Fated(f)' = Fated(f)
    BY <2>1 DEF Fated
  <2> QED
    BY <2>1, <2>2 DEF Sent
<1>12. CASE UNCHANGED vars
  BY <1>12 DEF vars, Sent, Fated
<1> QED
  BY <1>2, <1>3, <1>4, <1>5, <1>6, <1>7, <1>8, <1>9, <1>10, <1>11, <1>12
  DEF Next, Main, Worker

\* Documents do not go away, so what was counted once still counts.
LEMMA CountedGrows ==
    ASSUME Shape, Dated, [Next]_vars
    PROVE  /\ Cardinality(Counted)' \in Nat /\ Cardinality(Counted) \in Nat
           /\ Cardinality(Counted) <= Cardinality(Counted)'
<1>1. Shape' /\ Second(start)' = Second(start)
  BY NextShape, WhoMoves DEF Second
<1>2. IsFiniteSet(Counted)' /\ Cardinality(Counted)' \in Nat /\ Cardinality(Counted) \in Nat
  BY <1>1, SetsAreFinite, SetsStayFinite
<1>3. Counted \subseteq Counted'
  <2>1. ASSUME NEW i \in DOMAIN records, Index(i) PROVE Counted \subseteq Counted'
    <3>1. PICK d \in Docs : logs' = Append(logs, d)
      BY <2>1, IndexEffect
    <3>2. logs \in Seq(Docs)
      BY DEF Shape
    <3>3. DOMAIN logs \subseteq DOMAIN logs' /\ \A k \in DOMAIN logs : logs'[k] = logs[k]
      BY <3>1, <3>2, Appended
    <3> QED
      BY <1>1, <3>3 DEF Counted
  <2>2. CASE logs' = logs
    BY <1>1, <2>2 DEF Counted
  <2> QED
    BY <2>1, <2>2, WhoMoves DEF Produce, Settle
<1> QED
  BY <1>2, <1>3, FS_Subset

LEMMA NextJudged == IInv /\ [Next]_vars => Judged'
<1> SUFFICES ASSUME IInv, [Next]_vars PROVE Judged'
  OBVIOUS
<1> USE DEF IInv, drain
<1> DEFINE c == Cardinality(Counted)
<1>1. /\ c' \in Nat /\ c \in Nat /\ c <= c'
      /\ prevCount \in -1 .. c /\ finalLogs \in -1 .. c /\ totalSent \in Nat
  BY CountedGrows DEF Judged, Shape
<1> HIDE DEF c
<1>2. -1 .. c \subseteq -1 .. c'
  BY <1>1
<1>3. ASSUME UNCHANGED <<prevCount, finalLogs, lastPoll, verdict, totalSent>>,
             UNCHANGED pc \/ pc \notin {"report", "done"}
      PROVE  Judged'
  <2>1. \A n : Verdict(n)' = Verdict(n)
    BY <1>3 DEF Verdict
  <2>2. prevCount' \in -1 .. c' /\ finalLogs' \in -1 .. c'
    BY <1>1, <1>2, <1>3
  <2>3. lastPoll' = "complete" => pc' \in {"report", "done"} /\ finalLogs' >= totalSent'
    BY <1>3 DEF Judged
  <2>4. verdict' # "none" => pc' = "done" /\ verdict' = Verdict(finalLogs)'
    BY <1>3, <2>1 DEF Judged, Verdict
  <2> QED
    BY <2>2, <2>3, <2>4 DEF Judged, c
<1>4. CASE healthCheck \/ Baseline \/ BeginFlush \/ Flush
  BY <1>3, <1>4 DEF healthCheck, Baseline, BeginFlush, Flush
<1>5. CASE Totals
  <2>1. lastPoll # "complete" /\ verdict = "none"
        /\ UNCHANGED <<prevCount, finalLogs, lastPoll, verdict>>
    BY <1>5 DEF Totals, Judged
  <2> QED
    BY <1>1, <1>2, <2>1 DEF Judged, c
<1>6. ASSUME NEW answer \in {"ok", "error"}, Poll(answer) PROVE Judged'
  <2> DEFINE cur == apiTotal(answer)
  <2>1. cur = (IF answer = "error" THEN 0 ELSE c)
    BY LogCountIs DEF apiTotal, writeError, c
  <2>2. cur \in -1 .. c
    BY <1>1, <2>1
  <2>3. /\ prevCount' = cur /\ verdict = "none" /\ UNCHANGED <<verdict, totalSent>>
        /\ lastPoll' = IF answer = "error" THEN "failed"
                       ELSE IF Fated("acked") \subseteq Indexed THEN "complete" ELSE "partial"
        /\ IF Enough(cur, stableRuns')
             THEN finalLogs' = cur /\ pc' = "report" ELSE UNCHANGED <<finalLogs, pc>>
    BY <1>6 DEF Poll, Judged
  <2> HIDE DEF cur
  <2>4. prevCount' \in -1 .. c' /\ finalLogs' \in -1 .. c'
    BY <1>1, <1>2, <2>2, <2>3
  <2>5. ASSUME lastPoll' = "complete"
        PROVE  pc' \in {"report", "done"} /\ finalLogs' >= totalSent'
    <3>1. answer # "error" /\ Fated("acked") \subseteq Indexed
      BY <2>3, <2>5
    <3>2. cur = c /\ c >= Cardinality(Fated("acked"))
      BY <2>1, <3>1, AckedAreCounted, SetsAreFinite DEF c
    <3>3. totalSent <= Cardinality(Fated("acked")) /\ Cardinality(Fated("acked")) \in Nat
      BY SetsAreFinite DEF Sent
    <3>4. cur >= totalSent
      BY <1>1, <3>2, <3>3
    <3> QED
      BY <2>3, <3>4 DEF Enough
  <2> QED
    BY <2>3, <2>4, <2>5 DEF Judged, c
<1>7. CASE PollFails
  <2>1. /\ lastPoll' = "failed" /\ verdict = "none"
        /\ UNCHANGED <<prevCount, finalLogs, verdict>>
    BY <1>7 DEF PollFails, Judged
  <2> QED
    BY <1>1, <1>2, <2>1 DEF Judged, c
<1>8. CASE DrainTimeout
  <2>1. /\ lastPoll # "complete" /\ verdict = "none" /\ finalLogs' = prevCount
        /\ UNCHANGED <<prevCount, lastPoll, verdict>>
    BY <1>8 DEF DrainTimeout, Judged
  <2> QED
    BY <1>1, <1>2, <2>1 DEF Judged, c
<1>9. CASE DrainInterrupted
  <2>1. /\ lastPoll' = "failed" /\ verdict = "none"
        /\ UNCHANGED <<prevCount, finalLogs, verdict>>
    BY <1>9 DEF DrainInterrupted, Judged
  <2> QED
    BY <1>1, <1>2, <2>1 DEF Judged, c
<1>10. CASE Report
  <2>1. /\ verdict' = Verdict(finalLogs) /\ pc' = "done"
        /\ UNCHANGED <<prevCount, finalLogs, lastPoll, totalSent>>
    BY <1>10 DEF Report
  <2>2. verdict' = Verdict(finalLogs)'
    BY <2>1 DEF Verdict
  <2>3. prevCount' \in -1 .. c' /\ finalLogs' \in -1 .. c'
    BY <1>1, <1>2, <2>1
  <2>4. lastPoll' = "complete" => finalLogs' >= totalSent'
    BY <2>1 DEF Judged
  <2> QED
    BY <2>1, <2>2, <2>3, <2>4 DEF Judged, c
<1>11. ASSUME NEW w \in Workers, Worker(w) PROVE Judged'
  BY <1>3, <1>11 DEF Worker, WorkerTick, WorkerStop, Produce, BatchEnd
<1>12. ASSUME NEW i \in DOMAIN records, Settle(i) \/ Index(i) PROVE Judged'
  BY <1>3, <1>12 DEF Settle, Index
<1>13. CASE SamplerDone \/ Elapse \/ Interrupt
  BY <1>3, <1>13 DEF SamplerDone, Elapse, Interrupt
<1>14. CASE UNCHANGED vars
  BY <1>3, <1>14 DEF vars
<1> QED
  BY <1>4, <1>5, <1>6, <1>7, <1>8, <1>9, <1>10, <1>11, <1>12, <1>13, <1>14 DEF Next, Main

LEMMA Inductive == Spec => []IInv
<1>1. IInv /\ [Next]_vars => IInv'
  BY NextShape, NextDated, NextOnce, NextSent, NextJudged DEF IInv
<1> QED
  BY <1>1, InitIInv, PTL DEF Spec

\* The client never buffers more than it may, whatever workers produce and the broker
\* settles; no poll counts a document that is not there.
THEOREM TypeCorrect == Spec => []TypeOK
<1>1. IInv => TypeOK
  <2> SUFFICES ASSUME IInv PROVE TypeOK
    OBVIOUS
  <2> USE DEF IInv
  <2>1. /\ Cardinality(Counted) \in Nat /\ Cardinality(Counted) <= Len(logs)
        /\ Cardinality(Fated("acked")) \in Nat
        /\ Cardinality(Fated("acked")) <= Len(records)
        /\ Len(logs) \in Nat /\ Len(records) \in Nat
    BY SetsAreFinite, Positioned
  <2>2. totalSent \in 0 .. Len(records)
    BY <2>1 DEF Sent, Shape
  <2>3. prevCount \in -1 .. Len(logs) /\ finalLogs \in -1 .. Len(logs)
    BY <2>1 DEF Judged
  <2>4. \A i \in DOMAIN records : records[i].fate \in Fates
    BY Positioned DEF Records
  <2>5. Indexed \subseteq DOMAIN records
    BY DEF Once, Indexed, Range
  <2>6. Cardinality(Fated("buffered")) <= MaxBuffered
    BY DEF Sent
  <2> QED
    BY <2>2, <2>3, <2>4, <2>5, <2>6 DEF Shape, TypeOK, Settling, Fates
<1> QED
  BY Inductive, <1>1, PTL

\* What PASS is worth, and that a run whose records have all arrived passes, for any
\* number of workers, any percentages and any files.
THEOREM VerdictHolds == Spec => []VerdictRight
<1>1. IInv => VerdictRight
  <2> SUFFICES ASSUME IInv PROVE VerdictRight
    OBVIOUS
  <2> USE DEF IInv
  <2> DEFINE known == Cardinality(Indexed) + Cardinality(OfThatSecond)
             acked == Cardinality(Fated("acked"))
  <2>1. PassPercent \in Nat /\ PassPercent <= 100
    BY EndToEndAssumption
  <2>2. /\ Cardinality(Counted) \in Nat /\ known \in Nat /\ Cardinality(Counted) <= known
    BY CountedIsKnown, SetsAreFinite
  <2>3. finalLogs \in Int /\ finalLogs <= Cardinality(Counted) /\ totalSent \in Nat
    BY <2>2 DEF Judged, Shape
  <2> HIDE DEF known, acked
  <2>4. ASSUME verdict = "PASS", flushed PROVE 100 * known >= PassPercent * acked
    <3>1. pc = "done" /\ verdict = Verdict(finalLogs)
      BY <2>4 DEF Judged
    <3>2. 100 * finalLogs >= PassPercent * totalSent
      BY <2>4, <3>1 DEF Verdict
    <3>3. totalSent = acked
      BY <2>4, <3>1 DEF Sent, acked
    <3>4. PassPercent * totalSent \in Int
      BY <2>1, <2>3
    <3> QED
      BY <2>2, <2>3, <3>2, <3>3, <3>4
  <2>5. ASSUME verdict # "none", lastPoll = "complete" PROVE verdict = "PASS"
    <3>1. verdict = Verdict(finalLogs) /\ finalLogs >= totalSent
      BY <2>5 DEF Judged
    <3>2. 100 * finalLogs >= PassPercent * totalSent
      <4>1. 100 * finalLogs >= 100 * totalSent
        BY <2>3, <3>1
      <4>2. 100 * totalSent >= PassPercent * totalSent /\ PassPercent * totalSent \in Int
        BY <2>1, <2>3
      <4> QED
        BY <2>3, <4>1, <4>2
    <3> QED
      BY <3>1, <3>2 DEF Verdict
  <2> QED
    BY <2>4, <2>5 DEF VerdictRight, known, acked
<1> QED
  BY Inductive, <1>1, PTL

\* A reader gets every document that matches, once and in order, and finds each by its id:
\* of logs and of anomalies, for any index, limits, sizes and times.
THEOREM PagesHold == Spec => []PagesPartition
<1>1. Shape => PagesPartition
  <2> SUFFICES ASSUME Shape PROVE PagesPartition
    OBVIOUS
  <2>1. logs \in Seq(Docs) /\ start \in Int
    BY DEF Shape
  <2>2. ASSUME NEW r \in LogQueries
        PROVE  WalkedOnce(handleListLogs, handleGetLog, logs, LogMatches, r)
    <3> DEFINE docs == logs
               P == {i \in DOMAIN docs : LogMatches(docs[i], r)}
               size == SizeParam(r)
               answer(p) == handleListLogs(docs, [r EXCEPT !.page = p])
               pages == 1 + (answer(1).total \div size)
    <3>1. 1 \in 1 .. MaxPage
      BY SearchAssumption
    <3>2. size \in 1 .. MaxSize
      BY <2>1, <3>1, QueryOfPage
    <3>3. docs \in Seq(Docs)
      BY <2>1
    <3>4. \A p \in 1 .. MaxPage : answer(p) = Search(At(docs, P), p, size)
      <4> TAKE p \in 1 .. MaxPage
      <4> DEFINE rp == [r EXCEPT !.page = p]
      <4>1. /\ PageParam(rp) = p /\ SizeParam(rp) = size /\ ~BadRequest(rp)
            /\ \A d : LogMatches(d, rp) <=> LogMatches(d, r)
        BY <2>1, QueryOfPage
      <4> HIDE DEF rp
      <4>2. {i \in DOMAIN docs : LogMatches(docs[i], rp)} = P
        BY <4>1
      <4>3. handleListLogs(docs, rp) = Search(At(docs, P), p, size)
        BY <4>1, <4>2 DEF handleListLogs, SearchLogs
      <4> QED
        BY <4>3 DEF rp
    <3> HIDE DEF size, answer, docs
    <3>5. ASSUME pages <= MaxPage, pages * size <= ResultWindow
          PROVE  /\ docs # <<>> =>
                       FlattenSeq([p \in 1 .. pages |-> answer(p).data]) = At(docs, P)
                 /\ \A d \in Range(At(docs, P)) : handleGetLog(docs, d.id).status = 200
      <4>1. /\ P \in SUBSET DOMAIN docs
            /\ docs # <<>> => pages = 1 + (Search(At(docs, P), 1, size).total \div size)
        BY <3>1, <3>4
      <4> HIDE DEF P, pages
      <4>2. /\ docs # <<>> =>
                /\ \A p \in 1 .. pages : p \in 1 .. MaxPage
                /\ FlattenSeq([p \in 1 .. pages |-> Search(At(docs, P), p, size).data])
                     = At(docs, P)
            /\ \A d \in Range(At(docs, P)) :
                 FirstOf(ById(docs, d.id)).status = 200
        BY <3>2, <3>3, <3>5, <4>1, Walked
      <4>3. ASSUME docs # <<>>
            PROVE  [p \in 1 .. pages |-> answer(p).data]
                     = [p \in 1 .. pages |-> Search(At(docs, P), p, size).data]
        BY <3>4, <4>2, <4>3
      <4> QED
        BY <4>2, <4>3 DEF handleGetLog, GetLog, ById
    <3> QED
      BY <3>5 DEF WalkedOnce, answer, size, docs
  <2>3. ASSUME NEW r \in AnomalyQueries
        PROVE  WalkedOnce(handleListAnomalies, handleGetAnomaly, Anomalies, AnomalyMatches, r)
    <3> DEFINE P == {i \in DOMAIN Anomalies : AnomalyMatches(Anomalies[i], r)}
               size == SizeParam(r)
               answer(p) == handleListAnomalies(Anomalies, [r EXCEPT !.page = p])
               pages == 1 + (answer(1).total \div size)
               Alarms == {Anomalies[i] : i \in DOMAIN Anomalies}
    <3>1. 1 \in 1 .. MaxPage
      BY SearchAssumption
    <3>2. size \in 1 .. MaxSize
      BY <2>1, <3>1, QueryOfPage
    <3>3. Anomalies \in Seq(Alarms)
      <4>1. DOMAIN Anomalies = 1 .. Len(logs) /\ Len(logs) \in Nat
        BY Positioned DEF Anomalies
      <4>2. Anomalies = [i \in DOMAIN Anomalies |-> Anomalies[i]]
        BY DEF Anomalies
      <4>3. Anomalies \in [1 .. Len(logs) -> Alarms]
        BY <4>1, <4>2
      <4> QED
        BY <4>1, <4>3, SeqDef
    <3> HIDE DEF Alarms
    <3>4. ASSUME Anomalies # <<>>
          PROVE  \A p \in 1 .. MaxPage : answer(p) = Search(At(Anomalies, P), p, size)
      <4> TAKE p \in 1 .. MaxPage
      <4> DEFINE rp == [r EXCEPT !.page = p]
      <4>1. /\ PageParam(rp) = p /\ SizeParam(rp) = size /\ ~BadRequest(rp)
            /\ \A d : AnomalyMatches(d, rp) <=> AnomalyMatches(d, r)
        BY <2>1, QueryOfPage
      <4> HIDE DEF rp
      <4>2. {i \in DOMAIN Anomalies : AnomalyMatches(Anomalies[i], rp)} = P
        BY <4>1
      <4>3. handleListAnomalies(Anomalies, rp) = Search(At(Anomalies, P), p, size)
        BY <3>4, <4>1, <4>2 DEF handleListAnomalies, SearchAnomalies
      <4> QED
        BY <4>3 DEF rp
    <3> HIDE DEF size, answer
    <3>5. ASSUME pages <= MaxPage, pages * size <= ResultWindow
          PROVE  /\ Anomalies # <<>> =>
                       FlattenSeq([p \in 1 .. pages |-> answer(p).data]) = At(Anomalies, P)
                 /\ \A d \in Range(At(Anomalies, P)) :
                       handleGetAnomaly(Anomalies, d.id).status = 200
      <4>1. /\ P \in SUBSET DOMAIN Anomalies
            /\ Anomalies # <<>> =>
                 pages = 1 + (Search(At(Anomalies, P), 1, size).total \div size)
        BY <3>1, <3>4
      <4> HIDE DEF P, pages
      <4>2. /\ Anomalies # <<>> =>
                /\ \A p \in 1 .. pages : p \in 1 .. MaxPage
                /\ FlattenSeq([p \in 1 .. pages |-> Search(At(Anomalies, P), p, size).data])
                     = At(Anomalies, P)
            /\ \A d \in Range(At(Anomalies, P)) :
                 FirstOf(ById(Anomalies, d.id)).status = 200
        BY <3>2, <3>3, <3>5, <4>1, Walked
      <4>3. ASSUME Anomalies # <<>>
            PROVE  [p \in 1 .. pages |-> answer(p).data]
                     = [p \in 1 .. pages |-> Search(At(Anomalies, P), p, size).data]
        BY <3>4, <4>2, <4>3
      <4> QED
        BY <4>2, <4>3 DEF handleGetAnomaly, GetAnomaly, ById
    <3> QED
      BY <3>5 DEF WalkedOnce, answer, size
  <2> QED
    BY <2>2, <2>3 DEF PagesPartition
<1> QED
  BY Inductive, <1>1, PTL DEF IInv
=============================================================================
