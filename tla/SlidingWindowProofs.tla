-------------------------- MODULE SlidingWindowProofs --------------------------
(***************************************************************************)
(* Proofs about SlidingWindow, for a buffer of any capacity and a window   *)
(* of any length.                                                          *)
(***************************************************************************)
EXTENDS SlidingWindow, FiniteSetTheorems, SequenceTheorems, TLAPS

IInv == TypeOK /\ Indices

\* A remainder by Cap is a slot of the array.
LEMMA SlotInArray ==
    ASSUME NEW n \in Int
    PROVE  n % Cap \in 0 .. (Cap - 1)
BY WindowAssumption

LEMMA InitIInv == Init => IInv
BY WindowAssumption DEF Init, IInv, TypeOK, Indices, Times, Min2

LEMMA NextIInv == IInv /\ [Next]_vars => IInv'
<1> SUFFICES ASSUME IInv, [Next]_vars PROVE IInv'
  OBVIOUS
<1> USE WindowAssumption DEF IInv, Indices, Min2, Times
<1>1. ASSUME NEW t \in Times, Add(t) PROVE IInv'
  <2>1. head % Cap \in 0 .. (Cap - 1)
    <3>1. head \in Int
      BY DEF TypeOK
    <3> QED
      BY <3>1, SlotInArray
  <2>2. timestamps' \in [0 .. (Cap - 1) -> Times]
    BY <1>1, <2>1 DEF Add, TypeOK
  <2>3. head' \in 0 .. MaxHead /\ count' \in 0 .. Cap /\ count' = Min2(head', Cap)
    BY <1>1 DEF Add, TypeOK
  <2> QED
    BY <1>1, <2>2, <2>3 DEF Add, TypeOK
<1>2. CASE BeginEvict
  BY <1>2 DEF BeginEvict, TypeOK
<1>3. CASE EvictEntry
  <2>1. Slot(i) \in 0 .. (Cap - 1)
    <3>1. head - count + i + Cap \in Int
      BY DEF TypeOK
    <3> QED
      BY <3>1, SlotInArray DEF Slot
  <2>2. kept \in 0 .. (Cap - 1) /\ i + 1 <= count
    BY <1>3 DEF EvictEntry, TypeOK
  <2>3. timestamps' \in [0 .. (Cap - 1) -> Times]
    BY <1>3, <2>1, <2>2 DEF EvictEntry, TypeOK
  <2>4. i' \in 0 .. Cap /\ kept' \in 0 .. Cap /\ kept' <= i' /\ i' <= count
    BY <1>3, <2>2 DEF EvictEntry, TypeOK
  <2>5. UNCHANGED <<head, count, now, pc, cutoff>>
    BY <1>3 DEF EvictEntry
  <2> QED
    BY <2>3, <2>4, <2>5 DEF TypeOK
<1>4. CASE EndEvict
  BY <1>4 DEF EndEvict, TypeOK
<1>5. CASE Tick
  BY <1>5 DEF Tick, TypeOK
<1>6. CASE UNCHANGED vars
  BY <1>6 DEF vars, TypeOK
<1> QED
  BY <1>1, <1>2, <1>3, <1>4, <1>5, <1>6 DEF Next

\* No operation of window.go indexes outside its array.
THEOREM TypeCorrect == Spec => []TypeOK
<1>1. IInv => TypeOK
  BY DEF IInv
<1> QED
  BY <1>1, InitIInv, NextIInv, PTL DEF Spec

\* head and count always describe one run of slots, also inside Evict.
THEOREM IndicesHold == Spec => []Indices
<1>1. IInv => Indices
  BY DEF IInv
<1> QED
  BY <1>1, InitIInv, NextIInv, PTL DEF Spec

-----------------------------------------------------------------------------
(* Remainders *)

\* Quotient and remainder are unique.
LEMMA RemainderIs ==
    ASSUME NEW a \in Int, NEW q \in Int, NEW r \in 0 .. (Cap - 1), a = Cap * q + r
    PROVE  a % Cap = r
<1>0. Cap \in Nat \ {0}
  BY WindowAssumption
<1> DEFINE p == a \div Cap
           m == a % Cap
<1>1. p \in Int /\ m \in 0 .. (Cap - 1) /\ a = Cap * p + m
  BY <1>0
<1> HIDE DEF p, m
<1>2. Cap * (q - p) = m - r
  BY <1>0, <1>1
<1>3. q - p = 0
  <2>1. q - p >= 1 => Cap * (q - p) >= Cap
    BY <1>0, <1>1
  <2>2. q - p <= -1 => Cap * (q - p) <= -Cap
    BY <1>0, <1>1
  <2> QED
    BY <1>0, <1>1, <1>2, <2>1, <2>2
<1>4. m = r
  BY <1>0, <1>1, <1>2, <1>3
<1> QED
  BY <1>4 DEF m

\* Adding less than a whole turn reaches another slot, a whole turn the same.
LEMMA Turn ==
    ASSUME NEW n \in Int
    PROVE  /\ (n + Cap) % Cap = n % Cap
           /\ \A k \in 1 .. (Cap - 1) : (n + k) % Cap # n % Cap
           /\ n \in 0 .. (Cap - 1) => n % Cap = n
<1>0. Cap \in Nat \ {0}
  BY WindowAssumption
<1> DEFINE q == n \div Cap
           r == n % Cap
<1>2. q \in Int /\ r \in 0 .. (Cap - 1) /\ n = Cap * q + r
  BY <1>0
<1> HIDE DEF q, r
<1>3. (n + Cap) % Cap = r
  <2>1. n + Cap = Cap * (q + 1) + r
    BY <1>0, <1>2
  <2> QED
    BY <1>0, <1>2, RemainderIs, <2>1
<1>4. ASSUME NEW k \in 1 .. (Cap - 1) PROVE (n + k) % Cap # r
  <2>1. CASE r + k < Cap
    <3>1. n + k = Cap * q + (r + k) /\ r + k \in 0 .. (Cap - 1)
      BY <1>0, <1>2, <2>1
    <3>2. (n + k) % Cap = r + k
      BY <1>0, <1>2, RemainderIs, <3>1
    <3> QED
      BY <1>2, <3>2
  <2>2. CASE r + k >= Cap
    <3>1. /\ n + k = Cap * (q + 1) + (r + k - Cap)
          /\ r + k - Cap \in 0 .. (Cap - 1) /\ q + 1 \in Int /\ n + k \in Int
      BY <1>0, <1>2, <2>2
    <3>2. (n + k) % Cap = r + k - Cap
      BY <1>0, <1>2, RemainderIs, <3>1
    <3> QED
      BY <1>0, <1>2, <3>2
  <2> QED
    BY <1>0, <1>2, <2>1, <2>2
<1>5. n \in 0 .. (Cap - 1) => n % Cap = n
  <2>1. n = Cap * 0 + n
    BY <1>0
  <2> QED
    BY <1>0, <2>1, RemainderIs
<1> QED
  BY <1>3, <1>4, <1>5 DEF r

-----------------------------------------------------------------------------
(* Counting *)

\* Two ways of counting the same run of slots, from either end.
LEMMA CountedFromEitherEnd ==
    ASSUME NEW n \in Nat,
           NEW A \in SUBSET (0 .. (n - 1)), NEW B \in SUBSET (1 .. n),
           \A k \in 1 .. n : k \in B <=> n - k \in A
    PROVE  Cardinality(A) = Cardinality(B)
<1> DEFINE f == [k \in B |-> n - k]
<1>1. f \in [B -> A]
  OBVIOUS
<1>2. \A k, l \in B : f[k] = f[l] => k = l
  OBVIOUS
<1>3. \A j \in A : \E k \in B : f[k] = j
  <2> SUFFICES ASSUME NEW j \in A PROVE \E k \in B : f[k] = j
    OBVIOUS
  <2>1. j \in 0 .. (n - 1)
    OBVIOUS
  <2>2. n - j \in 1 .. n /\ n - (n - j) = j
    BY <2>1
  <2>3. n - j \in B
    BY <2>2
  <2> WITNESS n - j \in B
  <2> QED
    BY <2>2, <2>3
<1>4. f \in Bijection(B, A)
  BY <1>1, <1>2, <1>3 DEF Bijection, Injection, IsInjective, Surjection
<1>5. IsFiniteSet(B)
  <2>1. IsFiniteSet(1 .. n)
    BY FS_Interval
  <2> QED
    BY <2>1, FS_Subset
<1> QED
  BY <1>4, <1>5, FS_Bijection DEF ExistsBijection

\* The slot CountWithin visits as its j-th is the one Evict visits count - j before.
LEMMA IndicesCount == IInv => CountScansContents
<1> SUFFICES ASSUME IInv, pc = "rest"
             PROVE  CountWithin = Cardinality({k \in DOMAIN Contents :
                                                 Contents[k] > now - Window})
  BY DEF CountScansContents
<1> DEFINE A == {j \in 0 .. (count - 1) : timestamps[(head - 1 - j + Cap) % Cap] > now - Window}
           B == {k \in DOMAIN Contents : Contents[k] > now - Window}
<1>1. count \in Nat /\ head \in Nat /\ Cap \in Nat
  BY WindowAssumption DEF IInv, TypeOK
<1>2. /\ DOMAIN Contents = 1 .. count
      /\ \A k \in 1 .. count : Contents[k] = timestamps[Slot(k - 1)]
  BY DEF Contents
<1>3. \A k \in 1 .. count : /\ count - k \in 0 .. (count - 1)
                            /\ head - 1 - (count - k) + Cap = head - count + (k - 1) + Cap
  BY <1>1
<1>4. \A k \in 1 .. count : k \in B <=> count - k \in A
  BY <1>2, <1>3 DEF Slot
<1>5. A \in SUBSET (0 .. (count - 1)) /\ B \in SUBSET (1 .. count)
  BY <1>2
<1> HIDE DEF A, B
<1>6. Cardinality(A) = Cardinality(B)
  BY <1>1, <1>4, <1>5, CountedFromEitherEnd
<1> QED
  BY <1>6 DEF A, B, CountWithin

\* A rule's count, which scans from the newest entry, and Evict's loop, which starts at
\* the oldest, are about the same entries.
THEOREM CountHolds == Spec => []CountScansContents
BY InitIInv, NextIInv, IndicesCount, PTL DEF Spec

-----------------------------------------------------------------------------
(* Refinement *)

\* How many entries the buffer holds, and in which slot the k-th oldest of them is.
Held == IF pc = "rest" THEN count ELSE kept + count - i
Place(k) == IF pc = "rest" THEN Slot(k - 1)
            ELSE IF k <= kept THEN k - 1 ELSE Slot(i + k - kept - 1)

ContentsOK == /\ Contents \in Seq(Times) /\ Len(Contents) = Held /\ Held \in 0 .. Cap
              /\ \A k \in 1 .. Held : /\ Place(k) \in 0 .. (Cap - 1)
                                      /\ Contents[k] = timestamps[Place(k)]

LEMMA ContentsAre == IInv => ContentsOK
<1> SUFFICES ASSUME IInv PROVE ContentsOK
  OBVIOUS
<1>1. /\ count \in 0 .. Cap /\ head \in Nat /\ i \in Nat /\ kept \in 0 .. Cap
      /\ Cap \in Nat \ {0} /\ (pc = "evict" => kept <= i /\ i <= count)
      /\ pc \in {"rest", "evict"} /\ timestamps \in [0 .. (Cap - 1) -> Times]
  BY WindowAssumption DEF IInv, TypeOK, Indices
<1>2. Held \in 0 .. Cap
  BY <1>1 DEF Held
<1>3. \A j \in Int : Slot(j) \in 0 .. (Cap - 1)
  <2> SUFFICES ASSUME NEW j \in Int PROVE Slot(j) \in 0 .. (Cap - 1)
    OBVIOUS
  <2>1. head - count + j + Cap \in Int
    BY <1>1
  <2> QED
    BY <2>1, SlotInArray DEF Slot
<1>4. ASSUME NEW k \in 1 .. Held PROVE Place(k) \in 0 .. (Cap - 1)
  <2>1. k - 1 \in Int /\ i + k - kept - 1 \in Int /\ (k <= kept => k - 1 \in 0 .. (Cap - 1))
    BY <1>1, <1>2
  <2> QED
    BY <1>3, <2>1 DEF Place
<1>5. Contents = [k \in 1 .. Held |-> timestamps[Place(k)]]
  <2>1. CASE pc = "rest"
    BY <2>1 DEF Contents, Held, Place
  <2>2. CASE pc # "rest"
    BY <2>2 DEF Contents, Held, Place
  <2> QED
    BY <2>1, <2>2
<1>6. \A k \in 1 .. Held : timestamps[Place(k)] \in Times
  BY <1>1, <1>4
<1> QED
  BY <1>2, <1>4, <1>5, <1>6 DEF ContentsOK

\* Two buffers with as many entries, each the same, have the same contents.
LEMMA SameContents ==
    ASSUME ContentsOK, ContentsOK', Held' = Held,
           \A k \in 1 .. Held : timestamps'[Place(k)'] = timestamps[Place(k)]
    PROVE  Contents' = Contents
<1>1. Len(Contents') = Len(Contents) /\ \A k \in 1 .. Len(Contents) : Contents'[k] = Contents[k]
  BY DEF ContentsOK
<1>2. Contents \in Seq(Times) /\ Contents' \in Seq(Times)
  BY DEF ContentsOK, Times
<1> QED
  BY <1>1, <1>2, SeqEqual

LEMMA BeginEvictRefines == IInv /\ IInv' /\ BeginEvict => Contents' = Contents
<1> SUFFICES ASSUME IInv, IInv', BeginEvict PROVE Contents' = Contents
  OBVIOUS
<1>1. ContentsOK /\ ContentsOK'
  BY ContentsAre, PTL
<1>2. count \in Nat /\ head \in Nat /\ Cap \in Nat
  BY WindowAssumption DEF IInv, TypeOK
<1>3. /\ pc = "rest" /\ pc' = "evict" /\ i' = 0 /\ kept' = 0
      /\ UNCHANGED <<timestamps, head, count>>
  BY DEF BeginEvict
<1>4. Held' = Held
  BY <1>2, <1>3 DEF Held
<1>5. ASSUME NEW k \in 1 .. Held PROVE Place(k)' = Place(k)
  <2>1. k \in Nat \ {0}
    BY <1>2, <1>3 DEF Held
  <2>2. i' + k - kept' - 1 = k - 1 /\ ~(k <= kept')
    BY <1>3, <2>1
  <2> QED
    BY <1>3, <2>2 DEF Place, Slot
<1> QED
  BY <1>1, <1>3, <1>4, <1>5, SameContents

LEMMA EndEvictRefines == IInv /\ IInv' /\ EndEvict => Contents' = Contents
<1> SUFFICES ASSUME IInv, IInv', EndEvict PROVE Contents' = Contents
  OBVIOUS
<1>1. ContentsOK /\ ContentsOK'
  BY ContentsAre, PTL
<1>2. /\ count \in Nat /\ Cap \in Nat \ {0} /\ kept \in 0 .. Cap /\ i \in Nat
  BY WindowAssumption DEF IInv, TypeOK
<1>3. /\ pc = "evict" /\ pc' = "rest" /\ i = count /\ count' = kept /\ head' = kept
      /\ UNCHANGED timestamps
  BY DEF EndEvict
<1>4. Held' = Held /\ Held = kept
  BY <1>2, <1>3 DEF Held
<1>5. ASSUME NEW k \in 1 .. Held PROVE Place(k)' = Place(k)
  <2>1. k \in 1 .. kept
    BY <1>4
  <2>2. /\ Place(k) = k - 1
        /\ Place(k)' = (kept - kept + (k - 1) + Cap) % Cap
    BY <1>3, <2>1 DEF Place, Slot
  <2>3. k - 1 \in 0 .. (Cap - 1) /\ kept - kept + (k - 1) + Cap = (k - 1) + Cap
    BY <1>2, <2>1
  <2>4. ((k - 1) + Cap) % Cap = k - 1
    BY <2>3, Turn
  <2> QED
    BY <2>2, <2>3, <2>4
<1> QED
  BY <1>1, <1>3, <1>4, <1>5, SameContents

\* In a buffer that has not wrapped around the j-th oldest entry is in slot j.
LEMMA UnwrappedSlot ==
    ASSUME IInv, ~Wrapped, NEW j \in 0 .. (Cap - 1)
    PROVE  Slot(j) = j
<1>1. /\ count = Min2(head, Cap) /\ head \in Nat /\ Cap \in Nat \ {0}
  BY WindowAssumption DEF IInv, TypeOK, Indices
<1>2. CASE head < Cap
  <2>1. head - count + j + Cap = j + Cap
    BY <1>1, <1>2 DEF Min2
  <2> QED
    BY <2>1, Turn DEF Slot
<1>3. CASE head >= Cap
  <2>1. count = Cap /\ head % Cap = 0
    BY <1>1, <1>3 DEF Min2, Wrapped
  <2>2. head - count + j + Cap = head + j
    BY <1>1, <2>1
  <2>3. head = Cap * (head \div Cap) /\ head \div Cap \in Int
    BY <1>1, <2>1
  <2>4. head + j = Cap * (head \div Cap) + j
    BY <1>1, <2>3
  <2> QED
    BY <1>1, <2>2, <2>3, <2>4, RemainderIs DEF Slot
<1> QED
  BY <1>1, <1>2, <1>3

\* One turn of Evict's loop keeps the contents, or forgets an entry that has left the
\* window.
LEMMA EvictEntryRefines ==
    IInv /\ IInv' /\ EvictEntry /\ ~Wrapped =>
      Contents' = Contents \/ \E k \in DOMAIN Contents : Abstract!Forget(k)
<1> SUFFICES ASSUME IInv, IInv', EvictEntry, ~Wrapped
             PROVE  Contents' = Contents \/ \E k \in DOMAIN Contents : Abstract!Forget(k)
  OBVIOUS
<1>1. ContentsOK /\ ContentsOK'
  BY ContentsAre, PTL
<1>2. /\ count \in 0 .. Cap /\ Cap \in Nat \ {0} /\ kept \in Nat /\ i \in Nat
      /\ kept <= i /\ i < count /\ cutoff <= now - Window /\ cutoff \in Int /\ now \in Int
      /\ timestamps \in [0 .. (Cap - 1) -> Times] /\ Window \in Int
  BY WindowAssumption DEF IInv, TypeOK, Indices, EvictEntry, Times
<1>3. /\ pc = "evict" /\ pc' = "evict" /\ i' = i + 1 /\ UNCHANGED <<head, count, now, cutoff>>
  BY DEF EvictEntry
<1>4. Held = kept + count - i /\ Held' = kept' + count - (i + 1)
  BY <1>3 DEF Held
<1>5. ~Wrapped'
  BY <1>3 DEF Wrapped
<1>6. \A k \in 1 .. Held : Place(k) = IF k <= kept THEN k - 1 ELSE i + k - kept - 1
  <2> SUFFICES ASSUME NEW k \in 1 .. Held
               PROVE  Place(k) = IF k <= kept THEN k - 1 ELSE i + k - kept - 1
    OBVIOUS
  <2>1. k > kept => i + k - kept - 1 \in 0 .. (Cap - 1)
    BY <1>2, <1>4
  <2> QED
    BY <1>2, <1>3, <2>1, UnwrappedSlot DEF Place
<1>7. \A k \in 1 .. Held' : Place(k)' = IF k <= kept' THEN k - 1 ELSE i + k - kept'
  <2> SUFFICES ASSUME NEW k \in 1 .. Held'
               PROVE  Place(k)' = IF k <= kept' THEN k - 1 ELSE i + k - kept'
    OBVIOUS
  <2>1. kept' \in Nat /\ k \in Nat \ {0} /\ k <= kept' + count - (i + 1)
    <3>1. kept' = kept \/ kept' = kept + 1
      BY DEF EvictEntry
    <3>2. kept' \in Nat
      BY <1>2, <3>1
    <3>3. k \in 1 .. (kept' + count - (i + 1))
      BY <1>4
    <3>4. kept' + count - (i + 1) \in Int
      BY <1>2, <3>2
    <3> QED
      BY <3>2, <3>3, <3>4
  <2>2. CASE k <= kept'
    BY <1>3, <2>2 DEF Place
  <2>3. CASE k > kept'
    <3>1. i + k - kept' \in 0 .. (Cap - 1) /\ i' + k - kept' - 1 = i + k - kept'
      <4>1. \A a, b \in Nat : b <= a + count - (i + 1) /\ b > a =>
              i + b - a \in 0 .. (Cap - 1) /\ (i + 1) + b - a - 1 = i + b - a
        BY <1>2
      <4> QED
        BY <1>3, <2>1, <2>3, <4>1
    <3>2. Slot(i + k - kept') = i + k - kept'
      BY <3>1, UnwrappedSlot
    <3>3. Place(k)' = (head' - count' + (i' + k - kept' - 1) + Cap) % Cap
      BY <1>3, <2>1, <2>3 DEF Place, Slot
    <3>4. Place(k)' = Slot(i + k - kept')
      BY <1>3, <3>1, <3>3 DEF Slot
    <3> QED
      BY <2>1, <2>3, <3>2, <3>4
  <2> QED
    BY <1>2, <2>1, <2>2, <2>3
<1>8. Slot(i) = i
  BY <1>2, UnwrappedSlot
<1>9. CASE timestamps[i] > cutoff
  <2>1. timestamps' = [timestamps EXCEPT ![kept] = timestamps[i]] /\ kept' = kept + 1
    BY <1>8, <1>9 DEF EvictEntry
  <2>2. Held' = Held
    BY <1>2, <1>4, <2>1
  <2>3. ASSUME NEW k \in 1 .. Held PROVE timestamps'[Place(k)'] = timestamps[Place(k)]
    <3>1. kept \in 0 .. (Cap - 1)
      BY <1>2
    <3>2. \A j \in 0 .. (Cap - 1) :
            timestamps'[j] = IF j = kept THEN timestamps[i] ELSE timestamps[j]
      BY <1>2, <2>1, <3>1
    <3>3. CASE k <= kept
      <4>1. Place(k) = k - 1 /\ Place(k)' = k - 1 /\ k - 1 \in 0 .. (Cap - 1) /\ k - 1 # kept
        BY <1>2, <1>6, <1>7, <2>1, <2>2, <3>3
      <4> QED
        BY <3>2, <4>1
    <3>4. CASE k = kept + 1
      <4>1. Place(k) = i /\ Place(k)' = kept
        BY <1>2, <1>6, <1>7, <2>1, <2>2, <3>4
      <4> QED
        BY <3>1, <3>2, <4>1
    <3>5. CASE k > kept + 1
      <4>1. /\ Place(k) = i + k - kept - 1 /\ Place(k)' = i + k - kept - 1
            /\ i + k - kept - 1 \in 0 .. (Cap - 1) /\ i + k - kept - 1 # kept
        BY <1>2, <1>4, <1>6, <1>7, <2>1, <2>2, <3>5
      <4> QED
        BY <3>2, <4>1
    <3> QED
      BY <1>2, <3>3, <3>4, <3>5
  <2>4. Contents' = Contents
    BY <1>1, <2>2, <2>3, SameContents
  <2> QED
    BY <2>4
<1>10. CASE ~(timestamps[i] > cutoff)
  <2>1. UNCHANGED <<timestamps, kept>>
    BY <1>8, <1>10 DEF EvictEntry
  <2>2. Held' = Held - 1 /\ kept + 1 \in 1 .. Held
    BY <1>2, <1>4, <2>1
  <2>3. DOMAIN Contents = 1 .. Held /\ Len(Contents) = Held /\ Contents \in Seq(Times)
    BY <1>1 DEF ContentsOK
  <2>4. Contents[kept + 1] = timestamps[i]
    <3>1. Place(kept + 1) = i
      BY <1>2, <1>6, <2>2
    <3> QED
      BY <1>1, <2>2, <3>1 DEF ContentsOK
  <2>5. ~(Contents[kept + 1] > now - Window)
    <3>1. timestamps[i] \in Int
      BY <1>2 DEF Times
    <3> QED
      BY <1>2, <1>10, <2>4, <3>1
  <2> DEFINE Rest == [j \in 1 .. (Len(Contents) - 1) |->
                        IF j < kept + 1 THEN Contents[j] ELSE Contents[j + 1]]
  <2>6. \A k \in 1 .. (Held - 1) :
          Contents'[k] = IF k < kept + 1 THEN Contents[k] ELSE Contents[k + 1]
    <3> SUFFICES ASSUME NEW k \in 1 .. (Held - 1)
                 PROVE  Contents'[k] = IF k < kept + 1 THEN Contents[k] ELSE Contents[k + 1]
      OBVIOUS
    <3>1. Contents'[k] = timestamps[Place(k)']
      BY <1>1, <2>1, <2>2 DEF ContentsOK
    <3>2. k \in 1 .. Held /\ k + 1 \in 1 .. Held
      BY <1>2, <1>4
    <3>3. Contents[k] = timestamps[Place(k)] /\ Contents[k + 1] = timestamps[Place(k + 1)]
      BY <1>1, <3>2 DEF ContentsOK
    <3>4. k < kept + 1 => Place(k)' = Place(k)
      BY <1>2, <1>6, <1>7, <2>1, <2>2, <3>2
    <3>5. ~(k < kept + 1) => Place(k)' = Place(k + 1)
      BY <1>2, <1>6, <1>7, <2>1, <2>2, <3>2
    <3> QED
      BY <3>1, <3>3, <3>4, <3>5
  <2>7. Contents' = Rest
    <3>1. Contents' \in Seq(Times) /\ Len(Contents') = Held - 1
      BY <1>1, <2>2 DEF ContentsOK, Times
    <3>2. Rest \in Seq(Times) /\ Len(Rest) = Held - 1 /\ Held - 1 \in Nat
      <4>1. Held - 1 \in Nat
        BY <1>2, <1>4
      <4>2. \A j \in 1 .. (Held - 1) : Contents[j] \in Times /\ Contents[j + 1] \in Times
        BY <1>2, <1>4, <2>3
      <4> QED
        BY <2>3, <4>1, <4>2
    <3>3. \A k \in 1 .. (Held - 1) : Contents'[k] = Rest[k]
      BY <2>3, <2>6
    <3> QED
      BY <3>1, <3>2, <3>3, SeqEqual
  <2>8. Abstract!Forget(kept + 1)
    BY <1>3, <2>5, <2>7 DEF Abstract!Forget, Abstract!Recent, Abstract!Without
  <2> QED
    BY <2>2, <2>3, <2>8
<1> QED
  BY <1>9, <1>10

\* An Add that finds the buffer full overwrites the oldest entry.
LEMMA AddRefines ==
    ASSUME IInv, IInv', NEW t \in Times, Add(t)
    PROVE  Abstract!Record(t)
<1>1. ContentsOK /\ ContentsOK'
  BY ContentsAre, PTL
<1>2. /\ count = Min2(head, Cap) /\ head \in Nat /\ Cap \in Nat \ {0}
      /\ timestamps \in [0 .. (Cap - 1) -> Times]
  BY WindowAssumption DEF IInv, TypeOK, Indices
<1>3. /\ pc = "rest" /\ pc' = "rest" /\ head' = head + 1 /\ UNCHANGED now
      /\ timestamps' = [timestamps EXCEPT ![head % Cap] = t]
      /\ count' = IF count < Cap THEN count + 1 ELSE count
  BY DEF Add, IInv, TypeOK
<1>4. head % Cap \in 0 .. (Cap - 1)
  BY <1>2, SlotInArray
<1>5. \A j \in 0 .. (Cap - 1) : timestamps'[j] = IF j = head % Cap THEN t ELSE timestamps[j]
  BY <1>2, <1>3, <1>4
<1>6. /\ Contents \in Seq(Times) /\ Len(Contents) = count
      /\ \A k \in 1 .. count : /\ Contents[k] = timestamps[Slot(k - 1)]
                               /\ Slot(k - 1) \in 0 .. (Cap - 1)
  BY <1>1, <1>3 DEF ContentsOK, Held, Place
<1>7. /\ Contents' \in Seq(Times) /\ Len(Contents') = count'
      /\ \A k \in 1 .. count' : /\ Contents'[k] = timestamps'[Slot(k - 1)']
                                /\ Slot(k - 1)' \in 0 .. (Cap - 1)
  BY <1>1, <1>3 DEF ContentsOK, Held, Place, Times
<1>8. CASE count < Cap
  <2>1. count = head /\ head < Cap /\ count' = count + 1
    BY <1>2, <1>3, <1>8 DEF Min2
  <2>2. \A k \in 1 .. count + 1 : Slot(k - 1)' = k - 1
    <3> SUFFICES ASSUME NEW k \in 1 .. count + 1 PROVE Slot(k - 1)' = k - 1
      OBVIOUS
    <3>1. Slot(k - 1)' = (head' - count' + (k - 1) + Cap) % Cap
      BY DEF Slot
    <3>2. head' - count' + (k - 1) + Cap = (k - 1) + Cap /\ k - 1 \in 0 .. (Cap - 1)
      BY <1>2, <1>3, <2>1
    <3> QED
      BY <3>1, <3>2, Turn
  <2>3. \A k \in 1 .. count : Slot(k - 1) = k - 1
    <3> SUFFICES ASSUME NEW k \in 1 .. count PROVE Slot(k - 1) = k - 1
      OBVIOUS
    <3>1. head - count + (k - 1) + Cap = (k - 1) + Cap /\ k - 1 \in 0 .. (Cap - 1)
      BY <1>2, <2>1
    <3> QED
      BY <3>1, Turn DEF Slot
  <2>4. head % Cap = count
    <3>1. head \in Int /\ head \in 0 .. (Cap - 1)
      BY <1>2, <2>1
    <3> QED
      BY <2>1, <3>1, Turn
  <2>5. ASSUME NEW k \in 1 .. count + 1 PROVE Contents'[k] = Append(Contents, t)[k]
    <3>1. Contents'[k] = IF k - 1 = count THEN t ELSE timestamps[k - 1]
      BY <1>2, <1>5, <1>7, <2>1, <2>2, <2>4
    <3>2. k - 1 # count => k \in 1 .. count /\ Contents[k] = timestamps[k - 1]
      BY <1>2, <1>6, <2>1, <2>3
    <3> QED
      BY <1>6, <3>1, <3>2, AppendProperties
  <2>6. Append(Contents, t) \in Seq(Times) /\ Len(Append(Contents, t)) = count + 1
    BY <1>6, AppendProperties
  <2>7. Contents' = Append(Contents, t)
    BY <1>7, <2>1, <2>5, <2>6, SeqEqual
  <2> QED
    BY <1>3, <1>6, <1>8, <2>7 DEF Abstract!Record
<1>9. CASE count = Cap
  <2>1. count' = Cap /\ head >= Cap
    BY <1>2, <1>3, <1>9 DEF Min2
  <2>2. \A k \in 1 .. Cap : Slot(k - 1)' = (head + k) % Cap
    <3> SUFFICES ASSUME NEW k \in 1 .. Cap PROVE Slot(k - 1)' = (head + k) % Cap
      OBVIOUS
    <3>1. Slot(k - 1)' = (head' - count' + (k - 1) + Cap) % Cap
      BY DEF Slot
    <3>2. head' - count' + (k - 1) + Cap = head + k
      BY <1>2, <1>3, <2>1
    <3> QED
      BY <3>1, <3>2
  <2>3. \A k \in 1 .. (Cap - 1) : Contents[k + 1] = timestamps[(head + k) % Cap]
    <3> SUFFICES ASSUME NEW k \in 1 .. (Cap - 1)
                 PROVE  Contents[k + 1] = timestamps[(head + k) % Cap]
      OBVIOUS
    <3>1. k + 1 \in 1 .. count /\ head - count + ((k + 1) - 1) + Cap = head + k
      BY <1>2, <1>9
    <3> QED
      BY <1>6, <3>1 DEF Slot
  <2>4. Contents # <<>>
    BY <1>2, <1>6, <1>9
  <2>5. /\ Tail(Contents) \in Seq(Times) /\ Len(Tail(Contents)) = Cap - 1
        /\ \A k \in 1 .. (Cap - 1) : Tail(Contents)[k] = Contents[k + 1]
    BY <1>6, <1>9, <2>4, HeadTailProperties
  <2>6. ASSUME NEW k \in 1 .. Cap PROVE Contents'[k] = Append(Tail(Contents), t)[k]
    <3>1. CASE k = Cap
      <4>1. Slot(k - 1)' = head % Cap
        BY <1>2, <2>2, <3>1, Turn
      <4>2. Contents'[k] = t
        BY <1>4, <1>5, <1>7, <2>1, <4>1
      <4> QED
        BY <1>2, <2>5, <3>1, <4>2, AppendProperties
    <3>2. CASE k # Cap
      <4>1. k \in 1 .. (Cap - 1)
        BY <1>2, <3>2
      <4>2. (head + k) % Cap # head % Cap /\ (head + k) % Cap \in 0 .. (Cap - 1)
        <5>1. head \in Int /\ head + k \in Int
          BY <1>2
        <5> QED
          BY <4>1, <5>1, Turn, SlotInArray
      <4>3. Contents'[k] = timestamps[(head + k) % Cap]
        BY <1>5, <1>7, <2>1, <2>2, <4>2
      <4> QED
        BY <2>3, <2>5, <4>1, <4>3, AppendProperties
    <3> QED
      BY <3>1, <3>2
  <2>7. Append(Tail(Contents), t) \in Seq(Times) /\ Len(Append(Tail(Contents), t)) = Cap
    BY <1>2, <2>5, AppendProperties
  <2>8. Contents' = Append(Tail(Contents), t)
    BY <1>7, <2>1, <2>6, <2>7, SeqEqual
  <2> QED
    BY <1>3, <1>6, <1>9, <2>8 DEF Abstract!Record
<1> QED
  BY <1>2, <1>8, <1>9 DEF Min2

LEMMA StepRefines ==
    IInv /\ IInv' /\ [Next]_vars /\ ~(pc = "evict" /\ Wrapped)
      => [Abstract!Next]_<<Contents, now>>
<1> SUFFICES ASSUME IInv, IInv', [Next]_vars, ~(pc = "evict" /\ Wrapped)
             PROVE  [Abstract!Next]_<<Contents, now>>
  OBVIOUS
<1>1. ASSUME NEW t \in Times, Add(t) PROVE Abstract!Next
  BY <1>1, AddRefines DEF Abstract!Next, Abstract!Times, Times
<1>2. CASE BeginEvict
  BY <1>2, BeginEvictRefines DEF BeginEvict
<1>3. CASE EvictEntry
  <2>1. ~Wrapped /\ now' = now
    BY <1>3 DEF EvictEntry
  <2> QED
    BY <1>3, <2>1, EvictEntryRefines DEF Abstract!Next
<1>4. CASE EndEvict
  BY <1>4, EndEvictRefines DEF EndEvict
<1>5. CASE Tick
  <2>1. Contents' = Contents
    BY <1>5 DEF Tick, Contents, Slot
  <2> QED
    BY <1>5, <2>1 DEF Tick, Abstract!Next, Abstract!Tick
<1>6. CASE UNCHANGED vars
  BY <1>6 DEF vars, Contents, Slot
<1> QED
  BY <1>1, <1>2, <1>3, <1>4, <1>5, <1>6 DEF Next

\* The buffer does what RecentEvents promises but for an Evict on a buffer that has
\* wrapped around, for any capacity: it takes that to lose or repeat an entry.
THEOREM RefinementHolds == Spec => RefinesUnlessWrapped
<1>1. IInv /\ IInv' /\ [Next]_vars
        => (~(pc = "evict" /\ Wrapped) => [Abstract!Next]_<<Contents, now>>)
  BY StepRefines
<1> QED
  BY <1>1, InitIInv, NextIInv, PTL DEF Spec, RefinesUnlessWrapped

LEMMA InitRefines == Init => Abstract!Init
BY DEF Init, Abstract!Init, Abstract!Times, Times, Contents

\* As long as the buffer has not wrapped around whenever Evict runs, it implements
\* RecentEvents.
THEOREM UnwrappedImplements ==
    Spec /\ [](pc = "evict" => ~Wrapped) => Abstract!Spec
BY StepRefines, InitIInv, NextIInv, InitRefines, PTL DEF Spec, Abstract!Spec
=============================================================================
