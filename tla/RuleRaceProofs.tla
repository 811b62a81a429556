---------------------------- MODULE RuleRaceProofs ----------------------------
(***************************************************************************)
(* Proofs about RuleRace, for any number of workers, events and resets and *)
(* any capacity: races invent no event, few answers come from a window     *)
(* that is gone, and the key's window settles.                             *)
(***************************************************************************)
EXTENDS RuleRace, FiniteSetTheorems, TLAPS

\* Where a worker can be, and where evictLoop.
Holding       == {"head", "head++", "full?", "count", "count++", "scan"}
WorkerLabels  == {"idle", "create", "assign"} \cup Holding
EvictorLabels == {"idle", "evict", "evicted", "empty?", "delete"}

\* The types, but for the upper bounds, which follow from the budgets below.
Shape ==
    /\ windows \in Windows \cup {NoWindow}
    /\ head \in [Windows -> Nat] /\ count \in [Windows -> Nat] /\ added \in [Windows -> Nat]
    /\ rule \in {"error_rate", "repeated_failure"}
    /\ created \in Nat /\ orphaned \in Nat /\ deletions \in Nat
    /\ window \in [Threads -> Windows \cup {NoWindow}]
    /\ loaded \in [Threads -> Nat]
    /\ pc \in [Threads -> WorkerLabels \cup EvictorLabels]
    /\ writing \subseteq Threads
    /\ events \in 0 .. MaxEvents /\ resets \in 0 .. MaxResets
    /\ fault \in {"none", "map race", "index"}

\* A thread inside a window has one; evictLoop is inside one only during a tick, and only
\* one rule deletes.
Control ==
    /\ \A w \in Workers : /\ pc[w] \in WorkerLabels
                          /\ pc[w] \in Holding \cup {"assign"} => window[w] \in Windows
    /\ pc[Evictor] \in EvictorLabels
    /\ pc[Evictor] # "idle" => window[Evictor] \in Windows /\ deletions < resets
    /\ pc[Evictor] \in {"empty?", "delete"} => rule = "repeated_failure"
    /\ deletions <= resets

\* Every entry creates at most one window, is added once and answered once.
At(labels) == {w \in Workers : pc[w] \in labels}
Creating == At({"create"})
Before   == At({"create", "assign", "head", "head++"})
Busy     == At(WorkerLabels \ {"idle"})
Budget ==
    /\ created + Cardinality(Creating) <= events
    /\ orphaned + Cardinality(Busy) <= events
    /\ \A x \in Windows : added[x] + Cardinality(Before) <= events

\* A worker that has moved head on is yet to count its event, with what it has loaded or
\* with what it will find: there is room for all who are.
Adding(x) == {w \in At({"full?", "count", "count++"}) : window[w] = x}
InWindow(x) ==
    /\ head[x] <= added[x]
    /\ count[x] + Cardinality(Adding(x)) <= added[x]
InHand(w, x) ==
    /\ pc[w] = "head++" => loaded[w] <= added[x]
    /\ pc[w] = "count++" => loaded[w] + Cardinality(Adding(x)) <= added[x]
    /\ pc[w] = "scan" /\ resets = 0 => count[x] >= 1
Fields == \A x \in Windows :
            InWindow(x) /\ (\A w \in Workers : window[w] = x => InHand(w, x))

\* The workers that still have a window to put into the map, and those that hold one that
\* is not in the map.  Twice the answers that are or will be lost: a deletion makes at most
\* every worker lose one, an assignment only those that have none of their own to make.
Pending == At({"create", "assign"})
Stale   == {w \in At(Holding) : window[w] # windows}
N == Cardinality(Workers)
Lost == 2 * (orphaned + Cardinality(Stale))
Potential ==
    /\ windows = NoWindow => Lost <= deletions * (N * (N + 1))
    /\ windows # NoWindow =>
         Lost + Cardinality(Pending) * (2 * N - Cardinality(Pending) - 1)
           <= deletions * (N * (N + 1)) + N * (N - 1)

IInv == Shape /\ Control /\ Budget /\ Fields /\ Potential

-----------------------------------------------------------------------------
(* How the sets of workers change *)

\* No worker but w moves, or takes up another window.
OthersStay(w) == \A v \in Workers \ {w} : pc'[v] = pc[v] /\ window'[v] = window[v]

LEMMA CountOf ==
    ASSUME NEW S \in SUBSET Workers
    PROVE  IsFiniteSet(S) /\ Cardinality(S) \in Nat /\ Cardinality(S) <= N /\ N \in Nat
BY RaceAssumption, FS_Subset, FS_CardinalityType DEF N

\* Sets that differ at most in w differ in size by that.
LEMMA DifferIn ==
    ASSUME NEW w \in Workers, NEW S \in SUBSET Workers, NEW T \in SUBSET Workers,
           S \ {w} = T \ {w}
    PROVE  /\ (w \in S <=> w \in T) => Cardinality(T) = Cardinality(S)
           /\ w \in S /\ w \notin T => Cardinality(T) = Cardinality(S) - 1
           /\ w \notin S /\ w \in T => Cardinality(T) = Cardinality(S) + 1
<1>1. /\ IsFiniteSet(S) /\ Cardinality(S) \in Nat
      /\ IsFiniteSet(T) /\ Cardinality(T) \in Nat
  BY CountOf
<1>2. ASSUME w \in S <=> w \in T PROVE Cardinality(T) = Cardinality(S)
  <2>1. S = T
    BY <1>2
  <2> QED
    BY <2>1
<1>3. ASSUME w \in S, w \notin T PROVE Cardinality(T) = Cardinality(S) - 1
  <2>1. T = S \ {w}
    BY <1>3
  <2> QED
    BY <1>1, <1>3, <2>1, FS_RemoveElement
<1>4. ASSUME w \notin S, w \in T PROVE Cardinality(T) = Cardinality(S) + 1
  <2>1. S = T \ {w}
    BY <1>4
  <2>2. Cardinality(S) = Cardinality(T) - 1
    BY <1>1, <1>4, <2>1, FS_RemoveElement
  <2> QED
    BY <1>1, <2>2
<1> QED
  BY <1>2, <1>3, <1>4

\* The numbers of the state.
LEMMA Numbers ==
    Shape => /\ created \in Nat /\ orphaned \in Nat /\ deletions \in Nat
             /\ events \in Nat /\ events <= MaxEvents /\ MaxEvents \in Nat
             /\ resets \in Nat /\ resets <= MaxResets
             /\ \A x \in Windows : head[x] \in Nat /\ count[x] \in Nat /\ added[x] \in Nat
             /\ \A w \in Workers : loaded[w] \in Nat
<1> SUFFICES ASSUME Shape
             PROVE  /\ created \in Nat /\ orphaned \in Nat /\ deletions \in Nat
                    /\ events \in Nat /\ events <= MaxEvents /\ MaxEvents \in Nat
                    /\ resets \in Nat /\ resets <= MaxResets
                    /\ \A x \in Windows : head[x] \in Nat /\ count[x] \in Nat
                                            /\ added[x] \in Nat
                    /\ \A w \in Workers : loaded[w] \in Nat
  OBVIOUS
<1>1. MaxEvents \in Nat /\ MaxResets \in Nat
  BY RaceAssumption
<1>2. events \in 0 .. MaxEvents /\ resets \in 0 .. MaxResets
  BY DEF Shape
<1>3. /\ created \in Nat /\ orphaned \in Nat /\ deletions \in Nat
      /\ \A x \in Windows : head[x] \in Nat /\ count[x] \in Nat /\ added[x] \in Nat
      /\ \A w \in Workers : loaded[w] \in Nat
  BY DEF Shape, Threads
<1> QED
  BY <1>1, <1>2, <1>3

LEMMA GotoIs ==
    ASSUME Shape, NEW t \in Threads, NEW label \in WorkerLabels \cup EvictorLabels,
           Goto(t, label)
    PROVE  /\ pc' \in [Threads -> WorkerLabels \cup EvictorLabels]
           /\ pc'[t] = label
           /\ \A u \in Threads \ {t} : pc'[u] = pc[u]
BY DEF Shape, Goto

\* What a worker's step does to the number of workers at given places.
LEMMA MoveCounts ==
    ASSUME Shape, NEW w \in Workers, NEW label, Goto(w, label), NEW L
    PROVE  /\ Cardinality(At(L)) \in Nat /\ Cardinality(At(L)') \in Nat
           /\ (label \in L <=> pc[w] \in L) => Cardinality(At(L)') = Cardinality(At(L))
           /\ label \in L /\ pc[w] \notin L => Cardinality(At(L)') = Cardinality(At(L)) + 1
           /\ label \notin L /\ pc[w] \in L => Cardinality(At(L)') = Cardinality(At(L)) - 1
<1>1. At(L) \in SUBSET Workers /\ At(L)' \in SUBSET Workers
  BY DEF At
<1>2. /\ At(L) \ {w} = At(L)' \ {w}
      /\ w \in At(L) <=> pc[w] \in L
      /\ w \in At(L)' <=> label \in L
  BY DEF At, Goto, Shape, Threads
<1> QED
  BY <1>1, <1>2, CountOf, DifferIn

\* ... to those that are adding to a window.
LEMMA AddingMoves ==
    ASSUME Shape, NEW w \in Workers, OthersStay(w), NEW x
    PROVE  /\ Cardinality(Adding(x)) \in Nat /\ Cardinality(Adding(x)') \in Nat
           /\ (w \in Adding(x)' <=> w \in Adding(x))
                => Cardinality(Adding(x)') = Cardinality(Adding(x))
           /\ w \in Adding(x)' /\ w \notin Adding(x)
                => Cardinality(Adding(x)') = Cardinality(Adding(x)) + 1
           /\ w \notin Adding(x)' /\ w \in Adding(x)
                => Cardinality(Adding(x)') = Cardinality(Adding(x)) - 1
<1>1. Adding(x) \in SUBSET Workers /\ Adding(x)' \in SUBSET Workers
  BY DEF Adding, At
<1>2. Adding(x) \ {w} = Adding(x)' \ {w}
  BY DEF Adding, At, OthersStay
<1> QED
  BY <1>1, <1>2, CountOf, DifferIn

\* ... and, if the map's entry stays, to those whose window is not in the map.
LEMMA StaleMoves ==
    ASSUME Shape, NEW w \in Workers, OthersStay(w), windows' = windows
    PROVE  /\ Cardinality(Stale) \in Nat /\ Cardinality(Stale') \in Nat
           /\ (w \in Stale' <=> w \in Stale) => Cardinality(Stale') = Cardinality(Stale)
           /\ w \in Stale' /\ w \notin Stale => Cardinality(Stale') = Cardinality(Stale) + 1
           /\ w \notin Stale' /\ w \in Stale => Cardinality(Stale') = Cardinality(Stale) - 1
<1>1. Stale \in SUBSET Workers /\ Stale' \in SUBSET Workers
  BY DEF Stale, At
<1>2. Stale \ {w} = Stale' \ {w}
  BY DEF Stale, At, OthersStay
<1> QED
  BY <1>1, <1>2, CountOf, DifferIn

\* A step of evictLoop leaves the workers where they are.
LEMMA EvictorApart ==
    ASSUME Shape, NEW label, Goto(Evictor, label),
           UNCHANGED window \/ \E x : window' = [window EXCEPT ![Evictor] = x]
    PROVE  /\ \A w \in Workers : pc'[w] = pc[w] /\ window'[w] = window[w]
           /\ pc'[Evictor] = label
           /\ \A L : At(L)' = At(L)
           /\ \A x : Adding(x)' = Adding(x)
           /\ windows' = windows => Stale' = Stale
<1>1. \A w \in Workers : w # Evictor /\ w \in Threads
  BY RaceAssumption DEF Threads
<1>2. \A w \in Workers : pc'[w] = pc[w] /\ window'[w] = window[w]
  BY <1>1 DEF Goto, Shape
<1>3. pc'[Evictor] = label
  BY DEF Goto, Shape, Threads
<1> QED
  BY <1>2, <1>3 DEF At, Adding, Stale

-----------------------------------------------------------------------------
(* The invariant is inductive *)

LEMMA InitIInv == Init => IInv
<1> SUFFICES ASSUME Init PROVE IInv
  OBVIOUS
<1> USE RaceAssumption
<1>1. Shape /\ Control
  <2>1. Shape
    BY DEF Init, Shape, WorkerLabels
  <2>2. Control
    BY DEF Init, Control, WorkerLabels, EvictorLabels, Threads, Holding
  <2> QED
    BY <2>1, <2>2
<1>2. \A w \in Workers : pc[w] = "idle"
  BY DEF Init, Threads
<1>3. /\ Creating = {} /\ Before = {} /\ Busy = {} /\ Stale = {}
      /\ \A x : Adding(x) = {}
  BY <1>2 DEF Creating, Before, Busy, Stale, Adding, At, Holding, WorkerLabels
<1>4. Cardinality({}) = 0
  BY FS_EmptySet
<1>5. N \in Nat
  BY FS_CardinalityType DEF N
<1>6. Budget
  BY <1>3, <1>4 DEF Init, Budget
<1>7. Fields
  BY <1>2, <1>3, <1>4 DEF Init, Fields, InWindow, InHand
<1>8. Potential
  <2>1. Lost = 0
    BY <1>3, <1>4 DEF Lost, Init
  <2>2. 0 * (N * (N + 1)) = 0
    <3>1. N * (N + 1) \in Nat
      BY <1>5
    <3> QED
      BY <3>1
  <2> QED
    BY <2>1, <2>2 DEF Init, Potential
<1> QED
  BY <1>1, <1>6, <1>7, <1>8 DEF IInv

\* A worker's step keeps Control if it leaves the worker with a window where it needs one.
LEMMA WorkerControl ==
    ASSUME Shape, Control, NEW w \in Workers, NEW label \in WorkerLabels, Goto(w, label),
           window' = window \/ \E x : window' = [window EXCEPT ![w] = x],
           label \in Holding \cup {"assign"} => window'[w] \in Windows,
           UNCHANGED <<deletions, resets, rule>>
    PROVE  Control' /\ pc' \in [Threads -> WorkerLabels \cup EvictorLabels]
<1>0. /\ Evictor \in Threads /\ Evictor # w
      /\ \A v \in Workers : v \in Threads
  BY RaceAssumption DEF Threads
<1>1. /\ pc' \in [Threads -> WorkerLabels \cup EvictorLabels] /\ pc'[w] = label
      /\ \A u \in Threads \ {w} : pc'[u] = pc[u]
  BY <1>0, GotoIs
<1>2. \A u \in Threads \ {w} : window'[u] = window[u]
  BY DEF Shape
<1>3. ASSUME NEW v \in Workers
      PROVE  /\ pc'[v] \in WorkerLabels
             /\ pc'[v] \in Holding \cup {"assign"} => window'[v] \in Windows
  BY <1>0, <1>1, <1>2 DEF Control
<1>4. pc'[Evictor] = pc[Evictor] /\ window'[Evictor] = window[Evictor]
  BY <1>0, <1>1, <1>2
<1> QED
  BY <1>1, <1>3, <1>4 DEF Control

\* So does a step of evictLoop inside a window, if it stays within the budget of deletions
\* and goes on to delete under one rule only.
LEMMA EvictorControl ==
    ASSUME Shape, Control, NEW label \in EvictorLabels, Goto(Evictor, label),
           window' = window \/ \E x : window' = [window EXCEPT ![Evictor] = x],
           label # "idle" => window'[Evictor] \in Windows /\ deletions' < resets',
           label \in {"empty?", "delete"} => rule = "repeated_failure",
           deletions' <= resets', UNCHANGED rule
    PROVE  Control' /\ pc' \in [Threads -> WorkerLabels \cup EvictorLabels]
<1>1. pc' \in [Threads -> WorkerLabels \cup EvictorLabels]
  <2>1. Evictor \in Threads
    BY DEF Threads
  <2> QED
    BY <2>1, GotoIs
<1>2. /\ \A w \in Workers : pc'[w] = pc[w] /\ window'[w] = window[w]
      /\ pc'[Evictor] = label
  BY EvictorApart
<1> QED
  BY <1>1, <1>2 DEF Control

LEMMA NextShape == IInv /\ [Next]_vars => Shape' /\ Control'
<1> SUFFICES ASSUME IInv, [Next]_vars PROVE Shape' /\ Control'
  OBVIOUS
<1> USE DEF IInv, steps, shared, MapAccess
<1> DEFINE Typed == pc' \in [Threads -> WorkerLabels \cup EvictorLabels]
           Faults == {"none", "map race", "index"}
<1>0. /\ Evictor \in Threads /\ \A w \in Workers : w \in Threads
      /\ MaxEvents \in Nat /\ MaxResets \in Nat
  BY RaceAssumption DEF Threads
<1>i. /\ created \in Nat /\ orphaned \in Nat /\ deletions \in Nat
      /\ events \in 0 .. MaxEvents /\ resets \in 0 .. MaxResets
  BY DEF Shape
<1>t. /\ fault \in Faults /\ windows \in Windows \cup {NoWindow}
      /\ window \in [Threads -> Windows \cup {NoWindow}]
  BY DEF Shape
<1>f. /\ head \in [Windows -> Nat] /\ count \in [Windows -> Nat]
      /\ added \in [Windows -> Nat] /\ loaded \in [Threads -> Nat]
  BY DEF Shape
<1>1. ASSUME NEW w \in Workers, Lookup(w) PROVE Shape' /\ Control'
  <2> DEFINE label == IF windows = NoWindow THEN "create" ELSE "head"
  <2>1. /\ label \in WorkerLabels /\ Goto(w, label)
        /\ label \in Holding \cup {"assign"} => windows \in Windows
    BY <1>1, <1>t DEF Lookup, WorkerLabels, Holding
  <2>2. /\ window' = [window EXCEPT ![w] = windows] /\ window'[w] = windows
        /\ window' \in [Threads -> Windows \cup {NoWindow}]
    BY <1>0, <1>1, <1>t DEF Lookup
  <2>3. Control' /\ Typed
    <3>1. UNCHANGED <<deletions, resets, rule>>
      BY <1>1 DEF Lookup
    <3> HIDE DEF label
    <3> QED
      BY <2>1, <2>2, <3>1, WorkerControl
  <2>4. events' \in 0 .. MaxEvents
    <3>1. events < MaxEvents /\ events' = events + 1
      BY <1>1 DEF Lookup
    <3> QED
      BY <1>0, <1>i, <3>1
  <2>5. fault' \in Faults
    BY <1>1, <1>t DEF Lookup
  <2> QED
    BY <1>1, <2>2, <2>3, <2>4, <2>5 DEF Lookup, Shape
<1>2. ASSUME NEW w \in Workers, BeginCreate(w) PROVE Shape' /\ Control'
  <2>1. created + 1 \in Windows
    <3>1. w \in Creating /\ Creating \in SUBSET Workers
      BY <1>2 DEF BeginCreate, Creating, At
    <3>2. Cardinality(Creating) \in Nat /\ Cardinality(Creating) # 0
      BY <3>1, CountOf, FS_EmptySet
    <3>3. created + Cardinality(Creating) <= events
      BY DEF Budget
    <3> QED
      BY <1>0, <1>i, <3>2, <3>3 DEF Windows
  <2>2. /\ window' = [window EXCEPT ![w] = created + 1] /\ window'[w] = created + 1
        /\ window' \in [Threads -> Windows \cup {NoWindow}]
    BY <1>0, <1>2, <1>t, <2>1 DEF BeginCreate
  <2>3. Control' /\ Typed
    <3>1. "assign" \in WorkerLabels /\ Goto(w, "assign")
      BY <1>2 DEF BeginCreate, WorkerLabels
    <3>2. UNCHANGED <<deletions, resets, rule>>
      BY <1>2 DEF BeginCreate
    <3> QED
      BY <2>1, <2>2, <3>1, <3>2, WorkerControl
  <2>4. created' \in Nat /\ writing' \subseteq Threads
    <3>1. created' = created + 1 /\ writing' = writing \cup {w} /\ writing \subseteq Threads
      BY <1>2 DEF BeginCreate, Shape
    <3> QED
      BY <1>0, <1>i, <3>1
  <2>5. fault' \in Faults
    BY <1>2, <1>t DEF BeginCreate
  <2> QED
    BY <1>2, <2>2, <2>3, <2>4, <2>5 DEF BeginCreate, Shape
<1>3. ASSUME NEW w \in Workers,
             \/ EndCreate(w) \/ LoadHead(w) \/ StoreHead(w)
             \/ TestFull(w) \/ LoadCount(w) \/ StoreCount(w) \/ Scan(w)
      PROVE  Shape' /\ Control'
  <2> USE DEF EndCreate, LoadHead, StoreHead, TestFull, LoadCount, StoreCount, Scan
  <2>1. window[w] \in Windows
    BY <1>3 DEF Control, Holding
  <2>2. Control' /\ Typed
    <3>1. \E label \in WorkerLabels : Goto(w, label)
      BY <1>3 DEF WorkerLabels, Holding
    <3>2. window' = window /\ UNCHANGED <<deletions, resets, rule>>
      BY <1>3
    <3> QED
      BY <2>1, <3>1, <3>2, WorkerControl
  <2>3. /\ windows' \in Windows \cup {NoWindow}
        /\ writing' \subseteq Threads
    BY <1>3, <1>t, <2>1 DEF Shape
  <2>4. head' \in [Windows -> Nat] /\ count' \in [Windows -> Nat]
    <3>1. /\ head' = head \/ head' = [head EXCEPT ![window[w]] = loaded[w] + 1]
          /\ count' = count \/ count' = [count EXCEPT ![window[w]] = loaded[w] + 1]
      BY <1>3
    <3>2. loaded[w] \in Nat
      BY <1>0, <1>f
    <3>3. loaded[w] + 1 \in Nat
      BY <3>2
    <3> QED
      BY <1>f, <3>1, <3>3
  <2>5. added' \in [Windows -> Nat]
    <3>1. added' = added \/ added' = [added EXCEPT ![window[w]] = added[window[w]] + 1]
      BY <1>3
    <3>2. added[window[w]] \in Nat
      BY <1>f, <2>1
    <3>3. added[window[w]] + 1 \in Nat
      BY <3>2
    <3> QED
      BY <1>f, <3>1, <3>3
  <2>6. loaded' \in [Threads -> Nat]
    <3>1. \/ loaded' = loaded \/ loaded' = [loaded EXCEPT ![w] = head[window[w]]]
          \/ loaded' = [loaded EXCEPT ![w] = count[window[w]]]
      BY <1>3
    <3> QED
      BY <1>f, <2>1, <3>1
  <2>7. orphaned' \in Nat
    <3>1. orphaned' \in {orphaned, orphaned + 1}
      BY <1>3
    <3> QED
      BY <1>i, <3>1
  <2>8. fault' \in Faults
    BY <1>3, <1>t
  <2>9. UNCHANGED <<rule, created, window, deletions, events, resets>>
    BY <1>3
  <2> QED
    BY <2>2, <2>3, <2>4, <2>5, <2>6, <2>7, <2>8, <2>9 DEF Shape
<1>4. CASE BeginReset
  <2>1. /\ window' = [window EXCEPT ![Evictor] = windows] /\ window'[Evictor] \in Windows
        /\ window' \in [Threads -> Windows \cup {NoWindow}]
    BY <1>0, <1>4, <1>t DEF BeginReset
  <2>2. resets' \in 0 .. MaxResets /\ deletions' < resets' /\ deletions' <= resets'
    <3>1. resets < MaxResets /\ resets' = resets + 1 /\ deletions' = deletions
      BY <1>4 DEF BeginReset
    <3>2. deletions <= resets
      BY DEF Control
    <3> QED
      BY <1>0, <1>i, <3>1, <3>2
  <2>3. Control' /\ Typed
    <3>1. "evict" \in EvictorLabels /\ Goto(Evictor, "evict") /\ UNCHANGED rule
      BY <1>4 DEF BeginReset, EvictorLabels
    <3> QED
      BY <2>1, <2>2, <3>1, EvictorControl
  <2>4. fault' \in Faults
    BY <1>4, <1>t DEF BeginReset
  <2> QED
    BY <1>4, <2>1, <2>2, <2>3, <2>4 DEF BeginReset, Shape
<1>5. CASE EvictCount \/ EvictHead \/ BeginDelete
  <2> USE DEF EvictCount, EvictHead, BeginDelete
  <2>1. window[Evictor] \in Windows /\ deletions < resets /\ deletions <= resets
    BY <1>5 DEF Control
  <2>2. Control' /\ Typed
    <3>1. \E label \in EvictorLabels :
             /\ Goto(Evictor, label)
             /\ label \in {"empty?", "delete"} => rule = "repeated_failure"
      BY <1>5 DEF EvictorLabels, Control, Shape
    <3>2. window' = window /\ UNCHANGED <<deletions, resets, rule>>
      BY <1>5
    <3> QED
      BY <2>1, <3>1, <3>2, EvictorControl
  <2>3. /\ head' = head \/ head' = [head EXCEPT ![window[Evictor]] = count[window[Evictor]]]
        /\ count' = count \/ \E k \in 0 .. count[window[Evictor]] :
                                  count' = [count EXCEPT ![window[Evictor]] = k]
    BY <1>5
  <2>4. head' \in [Windows -> Nat] /\ count' \in [Windows -> Nat]
    <3>1. count[window[Evictor]] \in Nat
      BY <1>f, <2>1
    <3>2. 0 .. count[window[Evictor]] \subseteq Nat
      BY <3>1
    <3> QED
      BY <1>f, <2>3, <3>1, <3>2
  <2>5. fault' \in Faults /\ writing' \subseteq Threads
    BY <1>0, <1>5, <1>t DEF Shape
  <2>6. UNCHANGED <<windows, rule, created, window, deletions, events, resets,
                    added, loaded, orphaned>>
    BY <1>5
  <2> QED
    BY <2>2, <2>4, <2>5, <2>6 DEF Shape
<1>6. CASE EndDelete
  <2>1. /\ deletions < resets /\ deletions' = deletions + 1 /\ UNCHANGED <<resets, rule>>
    BY <1>6 DEF EndDelete, Control
  <2>2. deletions' \in Nat /\ deletions' <= resets'
    BY <1>0, <1>i, <2>1
  <2>3. Control' /\ Typed
    <3>1. "idle" \in EvictorLabels /\ Goto(Evictor, "idle") /\ window' = window
      BY <1>6 DEF EndDelete, EvictorLabels
    <3> QED
      BY <2>1, <2>2, <3>1, EvictorControl
  <2> QED
    BY <1>6, <2>2, <2>3 DEF EndDelete, Shape
<1>7. CASE UNCHANGED vars
  BY <1>7 DEF vars, Shape, Control
<1> QED
  BY <1>1, <1>2, <1>3, <1>4, <1>5, <1>6, <1>7 DEF Next, Evaluate, Reset

LEMMA NextBudget == IInv /\ [Next]_vars => Budget'
<1> SUFFICES ASSUME IInv, [Next]_vars PROVE Budget'
  OBVIOUS
<1> USE DEF IInv, steps, shared
<1>0. /\ created \in Nat /\ orphaned \in Nat /\ events \in Nat
      /\ \A x \in Windows : added[x] \in Nat
  BY Numbers
<1>1. ASSUME NEW w \in Workers, Lookup(w) PROVE Budget'
  <2>1. pc[w] = "idle" /\ Goto(w, IF windows = NoWindow THEN "create" ELSE "head")
    BY <1>1 DEF Lookup
  <2>2. /\ Cardinality(Creating') \in Nat /\ Cardinality(Creating) \in Nat
        /\ Cardinality(Creating') <= Cardinality(Creating) + 1
    BY <2>1, MoveCounts DEF Creating
  <2>3. Cardinality(Before') = Cardinality(Before) + 1 /\ Cardinality(Before) \in Nat
    BY <2>1, MoveCounts DEF Before
  <2>4. Cardinality(Busy') = Cardinality(Busy) + 1 /\ Cardinality(Busy) \in Nat
    BY <2>1, MoveCounts DEF Busy, WorkerLabels, Holding
  <2>5. created' = created /\ orphaned' = orphaned /\ added' = added /\ events' = events + 1
    BY <1>1 DEF Lookup
  <2> QED
    BY <1>0, <2>2, <2>3, <2>4, <2>5 DEF Budget
<1>2. ASSUME NEW w \in Workers, BeginCreate(w) PROVE Budget'
  <2>1. pc[w] = "create" /\ Goto(w, "assign")
    BY <1>2 DEF BeginCreate
  <2>2. Cardinality(Creating') = Cardinality(Creating) - 1 /\ Cardinality(Creating) \in Nat
    BY <2>1, MoveCounts DEF Creating
  <2>3. Cardinality(Before') = Cardinality(Before) /\ Cardinality(Before) \in Nat
    BY <2>1, MoveCounts DEF Before
  <2>4. Cardinality(Busy') = Cardinality(Busy) /\ Cardinality(Busy) \in Nat
    BY <2>1, MoveCounts DEF Busy, WorkerLabels, Holding
  <2>5. created' = created + 1 /\ orphaned' = orphaned /\ added' = added /\ events' = events
    BY <1>2 DEF BeginCreate
  <2> QED
    BY <1>0, <2>2, <2>3, <2>4, <2>5 DEF Budget
<1>3. ASSUME NEW w \in Workers, EndCreate(w) \/ LoadHead(w) PROVE Budget'
  <2>1. /\ pc[w] \in {"assign", "head"}
        /\ \E label \in {"head", "head++"} : Goto(w, label)
    BY <1>3 DEF EndCreate, LoadHead
  <2>2. /\ Cardinality(Creating') = Cardinality(Creating)
        /\ Cardinality(Before') = Cardinality(Before)
    BY <2>1, MoveCounts DEF Creating, Before
  <2>3. Cardinality(Busy') = Cardinality(Busy)
    BY <2>1, MoveCounts DEF Busy, WorkerLabels, Holding
  <2>4. created' = created /\ orphaned' = orphaned /\ added' = added /\ events' = events
    BY <1>3 DEF EndCreate, LoadHead
  <2> QED
    BY <2>2, <2>3, <2>4 DEF Budget
<1>4. ASSUME NEW w \in Workers, StoreHead(w) PROVE Budget'
  <2>1. pc[w] = "head++" /\ Goto(w, "full?")
    BY <1>4 DEF StoreHead
  <2>2. Cardinality(Creating') = Cardinality(Creating) /\ Cardinality(Creating) \in Nat
    BY <2>1, MoveCounts DEF Creating
  <2>3. Cardinality(Before') = Cardinality(Before) - 1 /\ Cardinality(Before) \in Nat
    BY <2>1, MoveCounts DEF Before
  <2>4. Cardinality(Busy') = Cardinality(Busy) /\ Cardinality(Busy) \in Nat
    BY <2>1, MoveCounts DEF Busy, WorkerLabels, Holding
  <2>5. /\ created' = created /\ orphaned' = orphaned /\ events' = events
        /\ added' = [added EXCEPT ![window[w]] = added[window[w]] + 1]
    BY <1>4 DEF StoreHead
  <2>6. \A x \in Windows : added'[x] \in {added[x], added[x] + 1}
    BY <2>5 DEF Shape
  <2> QED
    BY <1>0, <2>2, <2>3, <2>4, <2>5, <2>6 DEF Budget
<1>5. ASSUME NEW w \in Workers, TestFull(w) \/ LoadCount(w) \/ StoreCount(w)
      PROVE  Budget'
  <2>1. /\ pc[w] \in {"full?", "count", "count++"}
        /\ \E label \in {"count", "count++", "scan"} : Goto(w, label)
    BY <1>5 DEF TestFull, LoadCount, StoreCount
  <2>2. /\ Cardinality(Creating') = Cardinality(Creating)
        /\ Cardinality(Before') = Cardinality(Before)
    BY <2>1, MoveCounts DEF Creating, Before
  <2>3. Cardinality(Busy') = Cardinality(Busy)
    BY <2>1, MoveCounts DEF Busy, WorkerLabels, Holding
  <2>4. created' = created /\ orphaned' = orphaned /\ added' = added /\ events' = events
    BY <1>5 DEF TestFull, LoadCount, StoreCount
  <2> QED
    BY <2>2, <2>3, <2>4 DEF Budget
<1>6. ASSUME NEW w \in Workers, Scan(w) PROVE Budget'
  <2>1. pc[w] = "scan" /\ Goto(w, "idle")
    BY <1>6 DEF Scan
  <2>2. Cardinality(Creating') = Cardinality(Creating) /\ Cardinality(Creating) \in Nat
    BY <2>1, MoveCounts DEF Creating
  <2>3. Cardinality(Before') = Cardinality(Before) /\ Cardinality(Before) \in Nat
    BY <2>1, MoveCounts DEF Before
  <2>4. Cardinality(Busy') = Cardinality(Busy) - 1 /\ Cardinality(Busy) \in Nat
    BY <2>1, MoveCounts DEF Busy, WorkerLabels, Holding
  <2>5. /\ created' = created /\ added' = added /\ events' = events
        /\ orphaned' \in {orphaned, orphaned + 1}
    BY <1>6 DEF Scan
  <2> QED
    BY <1>0, <2>2, <2>3, <2>4, <2>5 DEF Budget
<1>7. CASE Reset
  <2>1. /\ \E label : Goto(Evictor, label)
        /\ UNCHANGED window \/ \E x : window' = [window EXCEPT ![Evictor] = x]
    BY <1>7 DEF Reset, BeginReset, EvictCount, EvictHead, BeginDelete, EndDelete
  <2>2. Creating' = Creating /\ Before' = Before /\ Busy' = Busy
    BY <2>1, EvictorApart DEF Creating, Before, Busy
  <2>3. created' = created /\ orphaned' = orphaned /\ added' = added /\ events' = events
    BY <1>7 DEF Reset, BeginReset, EvictCount, EvictHead, BeginDelete, EndDelete
  <2> QED
    BY <2>2, <2>3 DEF Budget
<1>8. CASE UNCHANGED vars
  BY <1>8 DEF vars, Budget, Creating, Before, Busy, At
<1> QED
  BY <1>1, <1>2, <1>3, <1>4, <1>5, <1>6, <1>7, <1>8 DEF Next, Evaluate

LEMMA NextFields == IInv /\ [Next]_vars => Fields'
<1> SUFFICES ASSUME IInv, [Next]_vars PROVE Fields'
  OBVIOUS
<1> USE DEF IInv, steps, shared
<1> DEFINE A(x) == Cardinality(Adding(x))
           HandOf(w) == \A x \in Windows : window[w] = x => InHand(w, x)
<1>0. /\ resets \in Nat /\ deletions \in Nat
      /\ \A x \in Windows : head[x] \in Nat /\ count[x] \in Nat /\ added[x] \in Nat
      /\ \A w \in Workers : loaded[w] \in Nat /\ w \in Threads /\ w # Evictor
  BY Numbers, RaceAssumption DEF Threads
<1>a. \A x \in Windows : /\ head[x] <= added[x] /\ count[x] + A(x) <= added[x]
                         /\ A(x) \in Nat
  <2>1. \A x : Adding(x) \in SUBSET Workers
    BY DEF Adding, At
  <2> QED
    BY <2>1, CountOf DEF Fields, InWindow
<1>1. ASSUME NEW w \in Workers, Lookup(w) \/ BeginCreate(w) \/ EndCreate(w) \/ Scan(w)
      PROVE  Fields'
  <2>1. /\ pc[w] \notin {"full?", "count", "count++"}
        /\ pc'[w] \in {"create", "assign", "head", "idle"}
    BY <1>0, <1>1 DEF Lookup, BeginCreate, EndCreate, Scan, Goto, Shape
  <2>2. \A v \in Workers \ {w} : /\ pc'[v] = pc[v] /\ window'[v] = window[v]
                                 /\ loaded'[v] = loaded[v]
    BY <1>0, <1>1 DEF Lookup, BeginCreate, EndCreate, Scan, Goto, Shape
  <2>3. head' = head /\ count' = count /\ added' = added
    BY <1>1 DEF Lookup, BeginCreate, EndCreate, Scan
  <2>4. resets' = resets
    BY <1>1 DEF Lookup, BeginCreate, EndCreate, Scan
  <2>5. ASSUME NEW x \in Windows PROVE A(x)' = A(x)
    <3>1. OthersStay(w)
      BY <2>2 DEF OthersStay
    <3>2. w \in Adding(x)' <=> w \in Adding(x)
      BY <2>1 DEF Adding, At
    <3> QED
      BY <1>a, <3>1, <3>2, AddingMoves
  <2>6. ASSUME NEW x \in Windows PROVE InWindow(x)'
    BY <1>0, <1>a, <2>3, <2>5 DEF InWindow, InHand
  <2>7. ASSUME NEW v \in Workers, v # w PROVE HandOf(v)'
    <3>1. HandOf(v)
      BY DEF Fields
    <3> QED
      BY <1>0, <1>a, <2>2, <2>4, <2>7, <3>1, <2>3, <2>5 DEF InHand
  <2>8. HandOf(w)'
    BY <1>0, <1>a, <2>1, <2>4, <2>3, <2>5 DEF InHand
  <2> QED
    BY <2>6, <2>7, <2>8 DEF Fields
<1>2. ASSUME NEW w \in Workers, LoadHead(w) PROVE Fields'
  <2>1. pc[w] = "head" /\ pc'[w] = "head++"
    BY <1>0, <1>2 DEF LoadHead, Goto, Shape
  <2>2. \A v \in Workers \ {w} : /\ pc'[v] = pc[v] /\ window'[v] = window[v]
                                 /\ loaded'[v] = loaded[v]
    BY <1>0, <1>2 DEF LoadHead, Goto, Shape
  <2>3. head' = head /\ count' = count /\ added' = added
    BY <1>2 DEF LoadHead
  <2>4. resets' = resets
    BY <1>2 DEF LoadHead
  <2>5. window[w] \in Windows /\ window'[w] = window[w] /\ HandOf(w)
    BY <1>2, <2>1 DEF LoadHead, Control, Holding, Fields
  <2>6. loaded'[w] = head[window[w]]
    BY <1>0, <1>2 DEF LoadHead, Shape
  <2>7. ASSUME NEW x \in Windows PROVE A(x)' = A(x)
    <3>1. OthersStay(w)
      BY <2>2 DEF OthersStay
    <3>2. w \in Adding(x)' <=> w \in Adding(x)
      BY <2>1, <2>5 DEF Adding, At
    <3> QED
      BY <1>a, <3>1, <3>2, AddingMoves
  <2>8. ASSUME NEW x \in Windows PROVE InWindow(x)'
    BY <1>0, <1>a, <2>3, <2>7, <2>5, <2>1 DEF InWindow, InHand
  <2>9. ASSUME NEW v \in Workers, v # w PROVE HandOf(v)'
    <3>1. HandOf(v)
      BY DEF Fields
    <3> QED
      BY <1>0, <1>a, <2>2, <2>4, <2>9, <3>1, <2>3, <2>7 DEF InHand
  <2>10. HandOf(w)'
    BY <1>0, <1>a, <2>1, <2>4, <2>3, <2>7, <2>5, <2>6 DEF InHand
  <2> QED
    BY <2>8, <2>9, <2>10 DEF Fields
<1>3. ASSUME NEW w \in Workers, StoreHead(w) PROVE Fields'
  <2>1. pc[w] = "head++" /\ pc'[w] = "full?"
    BY <1>0, <1>3 DEF StoreHead, Goto, Shape
  <2>2. \A v \in Workers \ {w} : /\ pc'[v] = pc[v] /\ window'[v] = window[v]
                                 /\ loaded'[v] = loaded[v]
    BY <1>0, <1>3 DEF StoreHead, Goto, Shape
  <2>3. /\ head' = [head EXCEPT ![window[w]] = loaded[w] + 1]
        /\ added' = [added EXCEPT ![window[w]] = added[window[w]] + 1]
        /\ count' = count
    BY <1>3 DEF StoreHead
  <2>4. resets' = resets
    BY <1>3 DEF StoreHead
  <2>5. window[w] \in Windows /\ window'[w] = window[w] /\ HandOf(w)
    BY <1>3, <2>1 DEF StoreHead, Control, Holding, Fields
  <2>6. loaded'[w] = loaded[w]
    BY <1>0, <1>3 DEF StoreHead, Shape
  <2>7. \A x \in Windows :
          /\ head'[x] = IF x = window[w] THEN loaded[w] + 1 ELSE head[x]
          /\ added'[x] = IF x = window[w] THEN added[x] + 1 ELSE added[x]
          /\ count'[x] = count[x]
    BY <2>3, <2>5 DEF Shape
  <2>8. ASSUME NEW x \in Windows PROVE A(x)' = IF x = window[w] THEN A(x) + 1 ELSE A(x)
    <3>1. OthersStay(w)
      BY <2>2 DEF OthersStay
    <3>2. w \notin Adding(x) /\ (w \in Adding(x)' <=> x = window[w])
      BY <2>1, <2>5 DEF Adding, At
    <3> QED
      BY <1>a, <3>1, <3>2, AddingMoves
  <2>9. ASSUME NEW x \in Windows PROVE InWindow(x)'
    BY <1>0, <1>a, <2>7, <2>8, <2>5, <2>1 DEF InWindow, InHand
  <2>10. ASSUME NEW v \in Workers, v # w PROVE HandOf(v)'
    <3>1. HandOf(v)
      BY DEF Fields
    <3> QED
      BY <1>0, <1>a, <2>2, <2>4, <2>10, <3>1, <2>7, <2>8 DEF InHand
  <2>11. HandOf(w)'
    BY <1>0, <1>a, <2>1, <2>4, <2>7, <2>8, <2>5, <2>6 DEF InHand
  <2> QED
    BY <2>9, <2>10, <2>11 DEF Fields
<1>4. ASSUME NEW w \in Workers, TestFull(w) PROVE Fields'
  <2>1. pc[w] = "full?" /\ pc'[w] = IF count[window[w]] < Cap THEN "count" ELSE "scan"
    BY <1>0, <1>4 DEF TestFull, Goto, Shape
  <2>2. \A v \in Workers \ {w} : /\ pc'[v] = pc[v] /\ window'[v] = window[v]
                                 /\ loaded'[v] = loaded[v]
    BY <1>0, <1>4 DEF TestFull, Goto, Shape
  <2>3. head' = head /\ count' = count /\ added' = added
    BY <1>4 DEF TestFull
  <2>4. resets' = resets
    BY <1>4 DEF TestFull
  <2>5. window[w] \in Windows /\ window'[w] = window[w] /\ HandOf(w)
    BY <1>4, <2>1 DEF TestFull, Control, Holding, Fields
  <2>6. loaded'[w] = loaded[w]
    BY <1>0, <1>4 DEF TestFull, Shape
  <2>7. ASSUME NEW x \in Windows PROVE A(x)' \in Nat /\ A(x)' <= A(x)
    <3>1. OthersStay(w)
      BY <2>2 DEF OthersStay
    <3>2. w \in Adding(x)' => w \in Adding(x)
      BY <2>1, <2>5 DEF Adding, At
    <3> QED
      BY <1>a, <3>1, <3>2, AddingMoves
  <2>8. ASSUME NEW x \in Windows PROVE InWindow(x)'
    BY <1>0, <1>a, <2>3, <2>7, <2>5, <2>1 DEF InWindow, InHand
  <2>9. ASSUME NEW v \in Workers, v # w PROVE HandOf(v)'
    <3>1. HandOf(v)
      BY DEF Fields
    <3> QED
      BY <1>0, <1>a, <2>2, <2>4, <2>9, <3>1, <2>3, <2>7 DEF InHand
  <2>10. HandOf(w)'
    BY <1>0, <1>a, <2>1, <2>4, <2>3, <2>7, <2>5, <2>6, RaceAssumption DEF InHand
  <2> QED
    BY <2>8, <2>9, <2>10 DEF Fields
<1>5. ASSUME NEW w \in Workers, LoadCount(w) PROVE Fields'
  <2>1. pc[w] = "count" /\ pc'[w] = "count++"
    BY <1>0, <1>5 DEF LoadCount, Goto, Shape
  <2>2. \A v \in Workers \ {w} : /\ pc'[v] = pc[v] /\ window'[v] = window[v]
                                 /\ loaded'[v] = loaded[v]
    BY <1>0, <1>5 DEF LoadCount, Goto, Shape
  <2>3. head' = head /\ count' = count /\ added' = added
    BY <1>5 DEF LoadCount
  <2>4. resets' = resets
    BY <1>5 DEF LoadCount
  <2>5. window[w] \in Windows /\ window'[w] = window[w] /\ HandOf(w)
    BY <1>5, <2>1 DEF LoadCount, Control, Holding, Fields
  <2>6. loaded'[w] = count[window[w]]
    BY <1>0, <1>5 DEF LoadCount, Shape
  <2>7. ASSUME NEW x \in Windows PROVE A(x)' = A(x)
    <3>1. OthersStay(w)
      BY <2>2 DEF OthersStay
    <3>2. w \in Adding(x)' <=> w \in Adding(x)
      BY <2>1, <2>5 DEF Adding, At
    <3> QED
      BY <1>a, <3>1, <3>2, AddingMoves
  <2>8. ASSUME NEW x \in Windows PROVE InWindow(x)'
    BY <1>0, <1>a, <2>3, <2>7, <2>5, <2>1 DEF InWindow, InHand
  <2>9. ASSUME NEW v \in Workers, v # w PROVE HandOf(v)'
    <3>1. HandOf(v)
      BY DEF Fields
    <3> QED
      BY <1>0, <1>a, <2>2, <2>4, <2>9, <3>1, <2>3, <2>7 DEF InHand
  <2>10. HandOf(w)'
    BY <1>0, <1>a, <2>1, <2>4, <2>3, <2>7, <2>5, <2>6 DEF InHand
  <2> QED
    BY <2>8, <2>9, <2>10 DEF Fields
<1>6. ASSUME NEW w \in Workers, StoreCount(w) PROVE Fields'
  <2>1. pc[w] = "count++" /\ pc'[w] = "scan"
    BY <1>0, <1>6 DEF StoreCount, Goto, Shape
  <2>2. \A v \in Workers \ {w} : /\ pc'[v] = pc[v] /\ window'[v] = window[v]
                                 /\ loaded'[v] = loaded[v]
    BY <1>0, <1>6 DEF StoreCount, Goto, Shape
  <2>3. /\ count' = [count EXCEPT ![window[w]] = loaded[w] + 1]
        /\ head' = head /\ added' = added
    BY <1>6 DEF StoreCount
  <2>4. resets' = resets
    BY <1>6 DEF StoreCount
  <2>5. window[w] \in Windows /\ window'[w] = window[w] /\ HandOf(w)
    BY <1>6, <2>1 DEF StoreCount, Control, Holding, Fields
  <2>6. loaded'[w] = loaded[w]
    BY <1>0, <1>6 DEF StoreCount, Shape
  <2>7. \A x \in Windows :
          /\ count'[x] = IF x = window[w] THEN loaded[w] + 1 ELSE count[x]
          /\ head'[x] = head[x] /\ added'[x] = added[x]
    BY <2>3, <2>5 DEF Shape
  <2>8. ASSUME NEW x \in Windows PROVE A(x)' = IF x = window[w] THEN A(x) - 1 ELSE A(x)
    <3>1. OthersStay(w)
      BY <2>2 DEF OthersStay
    <3>2. w \notin Adding(x)' /\ (w \in Adding(x) <=> x = window[w])
      BY <2>1, <2>5 DEF Adding, At
    <3> QED
      BY <1>a, <3>1, <3>2, AddingMoves
  <2>9. ASSUME NEW x \in Windows PROVE InWindow(x)'
    BY <1>0, <1>a, <2>7, <2>8, <2>5, <2>1 DEF InWindow, InHand
  <2>10. ASSUME NEW v \in Workers, v # w PROVE HandOf(v)'
    <3>1. HandOf(v)
      BY DEF Fields
    <3> QED
      BY <1>0, <1>a, <2>2, <2>4, <2>10, <3>1, <2>7, <2>8 DEF InHand
  <2>11. HandOf(w)'
    BY <1>0, <1>a, <2>1, <2>4, <2>7, <2>8, <2>5, <2>6 DEF InHand
  <2> QED
    BY <2>9, <2>10, <2>11 DEF Fields
<1>7. CASE BeginReset
  <2>1. Goto(Evictor, "evict") /\ \E x : window' = [window EXCEPT ![Evictor] = x]
    BY <1>7 DEF BeginReset
  <2>2. /\ \A w \in Workers : pc'[w] = pc[w] /\ window'[w] = window[w]
        /\ \A x : Adding(x)' = Adding(x)
    BY <2>1, EvictorApart
  <2>3. resets' # 0
    BY <1>0, <1>7 DEF BeginReset
  <2> QED
    BY <1>7, <2>2, <2>3 DEF BeginReset, Fields, InWindow, InHand
<1>8. CASE EvictCount
  <2>1. Goto(Evictor, "evicted") /\ UNCHANGED window
    BY <1>8 DEF EvictCount
  <2>2. /\ \A w \in Workers : pc'[w] = pc[w] /\ window'[w] = window[w]
        /\ \A x : Adding(x)' = Adding(x)
    BY <2>1, EvictorApart
  <2>3. window[Evictor] \in Windows /\ resets # 0
    BY <1>0, <1>8 DEF EvictCount, Control
  <2>4. \A x \in Windows : /\ head'[x] = head[x] /\ added'[x] = added[x]
                              /\ count'[x] \in 0 .. count[x]
    <3>1. PICK k \in 0 .. count[window[Evictor]] :
            count' = [count EXCEPT ![window[Evictor]] = k]
      BY <1>8 DEF EvictCount
    <3>2. \A x \in Windows : count'[x] = IF x = window[Evictor] THEN k ELSE count[x]
      BY <3>1 DEF Shape
    <3>3. head' = head /\ added' = added
      BY <1>8 DEF EvictCount
    <3> QED
      BY <1>0, <2>3, <3>2, <3>3
  <2>5. ASSUME NEW x \in Windows PROVE InWindow(x)'
    BY <1>0, <1>a, <2>2, <2>4 DEF InWindow
  <2>6. ASSUME NEW w \in Workers PROVE HandOf(w)'
    <3>1. HandOf(w)
      BY DEF Fields
    <3>2. added' = added /\ loaded' = loaded /\ resets' = resets
      BY <1>8 DEF EvictCount
    <3> QED
      BY <2>2, <2>3, <3>1, <3>2 DEF InHand
  <2> QED
    BY <2>5, <2>6 DEF Fields
<1>9. CASE EvictHead
  <2>1. Goto(Evictor, IF rule = "error_rate" THEN "idle" ELSE "empty?") /\ UNCHANGED window
    BY <1>9 DEF EvictHead
  <2>2. /\ \A w \in Workers : pc'[w] = pc[w] /\ window'[w] = window[w]
        /\ \A x : Adding(x)' = Adding(x)
    BY <2>1, EvictorApart
  <2>3. window[Evictor] \in Windows /\ resets # 0
    BY <1>0, <1>9 DEF EvictHead, Control
  <2>4. \A x \in Windows : /\ head'[x] \in {head[x], count[x]}
                              /\ count'[x] = count[x] /\ added'[x] = added[x]
    BY <1>0, <1>9, <2>3 DEF EvictHead, Shape
  <2>5. ASSUME NEW x \in Windows PROVE InWindow(x)'
    BY <1>0, <1>a, <2>2, <2>4 DEF InWindow
  <2>6. ASSUME NEW w \in Workers PROVE HandOf(w)'
    <3>1. HandOf(w)
      BY DEF Fields
    <3>2. added' = added /\ loaded' = loaded /\ resets' = resets
      BY <1>9 DEF EvictHead
    <3> QED
      BY <2>2, <2>3, <3>1, <3>2 DEF InHand
  <2> QED
    BY <2>5, <2>6 DEF Fields
<1>10. CASE BeginDelete \/ EndDelete
  <2>1. (\E label : Goto(Evictor, label)) /\ UNCHANGED window
    BY <1>10 DEF BeginDelete, EndDelete
  <2>2. /\ \A w \in Workers : pc'[w] = pc[w] /\ window'[w] = window[w]
        /\ \A x : Adding(x)' = Adding(x)
    BY <2>1, EvictorApart
  <2> QED
    BY <1>10, <2>2 DEF BeginDelete, EndDelete, Fields, InWindow, InHand
<1>11. CASE UNCHANGED vars
  BY <1>11 DEF vars, Fields, InWindow, InHand, Adding, At
<1> QED
  BY <1>1, <1>2, <1>3, <1>4, <1>5, <1>6, <1>7, <1>8, <1>9, <1>10, <1>11
     DEF Next, Evaluate, Reset

-----------------------------------------------------------------------------
(* Arithmetic *)

\* Twice the pairs that p of n workers make with the others and among themselves.
Twice(n, p) == p * (2 * n - p - 1)

LEMMA TwiceNat == \A n, p \in Nat : p <= n => Twice(n, p) \in Nat
<1>1. \A n, p \in Nat : p <= n => p * (2 * n - p - 1) >= 0
  OBVIOUS
<1> QED
  BY <1>1 DEF Twice

LEMMA TwiceBounded ==
    \A n \in Nat, p \in Nat \ {0} : p <= n => Twice(n, p - 1) <= n * (n - 1)
BY DEF Twice

LEMMA TwiceStep ==
    \A n \in Nat, p \in Nat \ {0} : Twice(n, p) = Twice(n, p - 1) + 2 * (n - p)
BY DEF Twice

LEMMA OneMoreDeletion ==
    \A n, d \in Nat : (d + 1) * (n * (n + 1)) = d * (n * (n + 1)) + n * (n - 1) + 2 * n
OBVIOUS

LEMMA HalfOf == \A n \in Nat : 2 * ((n * (n - 1)) \div 2) = n * (n - 1)
<1> SUFFICES ASSUME NEW n \in Nat PROVE 2 * ((n * (n - 1)) \div 2) = n * (n - 1)
  OBVIOUS
<1>1. \A m \in Int : (2 * m) \div 2 = m
  OBVIOUS
<1>2. \E k \in Nat : n = 2 * k \/ n = 2 * k + 1
  <2>1. n \div 2 \in Nat /\ (n = 2 * (n \div 2) \/ n = 2 * (n \div 2) + 1)
    OBVIOUS
  <2> QED
    BY <2>1
<1>3. PICK k \in Nat : n = 2 * k \/ n = 2 * k + 1
  BY <1>2
<1>4. CASE n = 2 * k
  <2>1. n * (n - 1) = 2 * (k * (n - 1)) /\ k * (n - 1) \in Int
    BY <1>4
  <2> QED
    BY <1>1, <2>1
<1>5. CASE n = 2 * k + 1
  <2>1. n * (n - 1) = 2 * (n * k) /\ n * k \in Int
    BY <1>5
  <2> QED
    BY <1>1, <2>1
<1> QED
  BY <1>3, <1>4, <1>5

-----------------------------------------------------------------------------

LEMMA NextPotential == IInv /\ [Next]_vars => Potential'
<1> SUFFICES ASSUME IInv, [Next]_vars PROVE Potential'
  OBVIOUS
<1> USE DEF IInv, steps, shared
<1> DEFINE P == Cardinality(Pending)
           S == Cardinality(Stale)
           D == deletions * (N * (N + 1))
<1>0. /\ orphaned \in Nat /\ deletions \in Nat
      /\ N \in Nat /\ D \in Nat /\ N * (N - 1) \in Int
  <2>1. deletions \in Nat /\ orphaned \in Nat /\ N \in Nat
    BY Numbers, CountOf
  <2>2. N * (N + 1) \in Nat /\ N * (N - 1) \in Int
    BY <2>1
  <2>3. deletions * (N * (N + 1)) \in Nat
    BY <2>1, <2>2
  <2> QED
    BY <2>1, <2>2, <2>3
<1>n. N' = N
  BY DEF N
<1>s. /\ Stale \in SUBSET Workers /\ Stale' \in SUBSET Workers
      /\ Pending \in SUBSET Workers
  BY DEF Stale, Pending, At
<1>c. /\ S \in Nat /\ S' \in Nat /\ S' <= N
      /\ P \in Nat /\ P <= N /\ Twice(N, P) \in Nat
  BY <1>0, <1>s, CountOf, TwiceNat
<1>p. /\ windows = NoWindow => 2 * (orphaned + S) <= D
      /\ windows # NoWindow => 2 * (orphaned + S) + Twice(N, P) <= D + N * (N - 1)
  BY DEF Potential, Lost, Twice
<1>q. ASSUME /\ windows' = NoWindow => 2 * (orphaned' + S') <= D'
             /\ windows' # NoWindow =>
                  2 * (orphaned' + S') + Twice(N, P') <= D' + N * (N - 1)
      PROVE  Potential'
  BY <1>n, <1>q DEF Potential, Lost, Twice
<1>r. ASSUME windows' = windows, deletions' = deletions,
             orphaned' + S' = orphaned + S, windows # NoWindow => P' = P
      PROVE  Potential'
  <2>1. D' = D
    BY <1>n, <1>r
  <2> QED
    BY <1>p, <1>q, <1>r, <2>1
<1>1. ASSUME NEW w \in Workers, Lookup(w) PROVE Potential'
  <2>1. pc[w] = "idle" /\ pc'[w] = IF windows = NoWindow THEN "create" ELSE "head"
    BY <1>1, RaceAssumption DEF Lookup, Goto, Shape, Threads
  <2>2. /\ Goto(w, IF windows = NoWindow THEN "create" ELSE "head")
        /\ windows' = windows /\ deletions' = deletions
    BY <1>1 DEF Lookup
  <2>3. OthersStay(w) /\ w \in Threads
    BY <1>1 DEF Lookup, Goto, Shape, OthersStay, Threads
  <2>4. windows # NoWindow => P' = P
    BY <2>1, <2>2, MoveCounts DEF Pending
  <2>5. window'[w] = windows
    BY <1>1, <2>3 DEF Lookup, Shape
  <2>6. w \notin Stale /\ w \notin Stale'
    BY <2>1, <2>2, <2>5 DEF Stale, At, Holding
  <2>7. orphaned' = orphaned /\ S' = S
    BY <1>1, <2>2, <2>3, <2>6, StaleMoves DEF Lookup
  <2> QED
    BY <1>r, <2>2, <2>4, <2>7
<1>2. ASSUME NEW w \in Workers, BeginCreate(w) PROVE Potential'
  <2>1. pc[w] = "create" /\ pc'[w] = "assign"
    BY <1>2, RaceAssumption DEF BeginCreate, Goto, Shape, Threads
  <2>2. Goto(w, "assign") /\ windows' = windows /\ deletions' = deletions
    BY <1>2 DEF BeginCreate
  <2>3. OthersStay(w) /\ w \in Threads
    BY <1>2 DEF BeginCreate, Goto, Shape, OthersStay, Threads
  <2>4. P' = P
    BY <2>1, <2>2, MoveCounts DEF Pending
  <2>5. w \in Stale' <=> w \in Stale
    BY <2>1 DEF Stale, At, Holding
  <2>6. S' = S
    BY <2>2, <2>3, <2>5, StaleMoves
  <2>7. orphaned' + S' = orphaned + S
    BY <1>2, <2>6 DEF BeginCreate
  <2> QED
    BY <1>r, <2>2, <2>4, <2>7
<1>3. ASSUME NEW w \in Workers, EndCreate(w) PROVE Potential'
  <2>1. /\ pc[w] = "assign" /\ pc'[w] = "head" /\ w \in Threads
        /\ window[w] \in Windows /\ windows' = window[w] /\ window' = window
        /\ windows' # NoWindow
    <3>1. pc[w] = "assign" /\ w \in Threads /\ windows' = window[w] /\ window' = window
      BY <1>3 DEF EndCreate, Threads
    <3>2. window[w] \in Windows
      BY <3>1 DEF Control
    <3>3. window[w] # NoWindow
      BY <3>2 DEF Windows, NoWindow
    <3>4. pc'[w] = "head"
      BY <1>3, <3>1 DEF EndCreate, Goto, Shape
    <3> QED
      BY <3>1, <3>2, <3>3, <3>4
  <2>2. Goto(w, "head") /\ deletions' = deletions /\ orphaned' = orphaned
    BY <1>3 DEF EndCreate
  <2>3. P' = P - 1
    BY <2>1, <2>2, MoveCounts DEF Pending
  <2>4. P \in Nat \ {0}
    <3>1. w \in Pending
      BY <2>1 DEF Pending, At
    <3>2. P # 0
      BY <1>s, <3>1, CountOf, FS_EmptySet
    <3> QED
      BY <1>c, <3>2
  <2>5. \A v \in Stale' : /\ v # w /\ v \in Workers /\ pc[v] \in Holding
                         /\ window[v] # windows' /\ window[v] \in Windows
    <3>1. \A v \in Workers \ {w} : pc'[v] = pc[v]
      BY <2>2 DEF Goto, Shape, Threads
    <3> QED
      BY <2>1, <3>1 DEF Stale, At, Control
  <2>6. CASE windows = NoWindow
    <3>1. Stale' \subseteq Stale
      BY <2>5, <2>6 DEF Stale, At, NoWindow, Windows
    <3>2. S' <= S
      BY <1>s, <3>1, CountOf, FS_Subset
    <3>3. Twice(N, P - 1) <= N * (N - 1) /\ Twice(N, P - 1) \in Int
      BY <1>0, <1>c, <2>4, TwiceBounded, TwiceNat
    <3>4. D' = D
      BY <1>n, <2>2
    <3> HIDE DEF D, P, S
    <3>5. 2 * (orphaned' + S') + Twice(N, P') <= D' + N * (N - 1)
      BY <1>0, <1>c, <1>p, <2>2, <2>3, <2>6, <3>2, <3>3, <3>4
    <3> QED
      BY <1>q, <2>1, <3>5
  <2>7. CASE windows # NoWindow
    <3>1. Stale' \subseteq Workers \ Pending
      BY <2>5 DEF Pending, At, Holding
    <3>2. Cardinality(Workers \ Pending) = N - P
      <4>1. Workers \cap Pending = Pending
        BY <1>s
      <4> QED
        BY <4>1, FS_Difference, RaceAssumption DEF N
    <3>3. S' <= N - P
      BY <1>s, <3>1, <3>2, FS_Subset, FS_Difference, RaceAssumption
    <3>4. Twice(N, P) = Twice(N, P - 1) + 2 * (N - P) /\ Twice(N, P - 1) \in Int
      BY <1>0, <1>c, <2>4, TwiceStep, TwiceNat
    <3>5. D' = D
      BY <1>n, <2>2
    <3> HIDE DEF D, P, S
    <3>6. 2 * (orphaned' + S') + Twice(N, P') <= D' + N * (N - 1)
      BY <1>0, <1>c, <1>p, <2>2, <2>3, <2>7, <3>3, <3>4, <3>5
    <3> QED
      BY <1>q, <2>1, <3>6
  <2> QED
    BY <2>6, <2>7
<1>4. ASSUME NEW w \in Workers,
             LoadHead(w) \/ StoreHead(w) \/ TestFull(w) \/ LoadCount(w) \/ StoreCount(w)
      PROVE  Potential'
  <2>1. /\ pc[w] \in Holding /\ \E label \in Holding : Goto(w, label)
        /\ windows' = windows /\ deletions' = deletions /\ orphaned' = orphaned
        /\ window' = window
    BY <1>4 DEF LoadHead, StoreHead, TestFull, LoadCount, StoreCount, Holding
  <2>2. pc'[w] \in Holding /\ OthersStay(w)
    BY <2>1 DEF Goto, Shape, OthersStay, Threads
  <2>3. P' = P
    BY <2>1, MoveCounts DEF Pending, Holding
  <2>4. w \in Stale' <=> w \in Stale
    BY <2>1, <2>2 DEF Stale, At
  <2>5. S' = S
    BY <2>1, <2>2, <2>4, StaleMoves
  <2> QED
    BY <1>r, <2>1, <2>3, <2>5
<1>5. ASSUME NEW w \in Workers, Scan(w) PROVE Potential'
  <2>1. pc[w] = "scan" /\ pc'[w] = "idle"
    BY <1>5, RaceAssumption DEF Scan, Goto, Shape, Threads
  <2>2. Goto(w, "idle") /\ windows' = windows /\ deletions' = deletions
    BY <1>5 DEF Scan
  <2>3. OthersStay(w) /\ w \in Threads
    BY <1>5 DEF Scan, Goto, Shape, OthersStay, Threads
  <2>4. P' = P
    BY <2>1, <2>2, MoveCounts DEF Pending
  <2>5. w \notin Stale' /\ (w \in Stale <=> window[w] # windows)
    BY <2>1 DEF Stale, At, Holding
  <2>6. S' = IF window[w] # windows THEN S - 1 ELSE S
    BY <2>2, <2>3, <2>5, StaleMoves
  <2>7. orphaned' + S' = orphaned + S
    BY <1>0, <1>c, <1>5, <2>6 DEF Scan
  <2> QED
    BY <1>r, <2>2, <2>4, <2>7
<1>6. CASE BeginReset \/ EvictCount \/ EvictHead \/ BeginDelete
  <2>1. /\ \E label : Goto(Evictor, label)
        /\ UNCHANGED window \/ \E x : window' = [window EXCEPT ![Evictor] = x]
        /\ windows' = windows /\ deletions' = deletions /\ orphaned' = orphaned
    BY <1>6 DEF BeginReset, EvictCount, EvictHead, BeginDelete
  <2>2. Stale' = Stale /\ Pending' = Pending
    BY <2>1, EvictorApart DEF Pending
  <2> QED
    BY <1>r, <2>1, <2>2
<1>7. CASE EndDelete
  <2>1. Goto(Evictor, "idle") /\ UNCHANGED window
    BY <1>7 DEF EndDelete
  <2>2. /\ windows' = NoWindow /\ orphaned' = orphaned
        /\ deletions' = deletions + 1 /\ window' = window
    BY <1>7 DEF EndDelete
  <2>3. D' = D + N * (N - 1) + 2 * N
    BY <1>0, <1>n, <2>2, OneMoreDeletion
  <2>4. N * (N - 1) + 2 * N \in Nat
    <3>1. N * (N - 1) + 2 * N = N * (N + 1) /\ N * (N + 1) \in Nat
      BY <1>0
    <3> QED
      BY <3>1
  <2>5. CASE windows = NoWindow
    <3>1. Stale' = Stale
      BY <2>1, <2>2, <2>5, EvictorApart
    <3> HIDE DEF D, S
    <3>2. S' = S
      BY <3>1 DEF S
    <3>3. 2 * (orphaned' + S') <= D'
      BY <1>0, <1>c, <1>p, <2>2, <2>3, <2>4, <2>5, <3>2
    <3> QED
      BY <1>q, <2>2, <3>3
  <2>6. CASE windows # NoWindow
    <3> HIDE DEF D, P, S
    <3>1. \A o, a, b, d, t, n \in Nat : \A m \in Int :
            2 * (o + a) + t <= d + m /\ b <= n => 2 * (o + b) <= d + m + 2 * n
      OBVIOUS
    <3>2. 2 * (orphaned + S) + Twice(N, P) <= D + N * (N - 1)
      BY <1>p, <2>6
    <3>3. 2 * (orphaned + S') <= D + N * (N - 1) + 2 * N
      BY <1>0, <1>c, <3>1, <3>2
    <3> QED
      BY <1>q, <2>2, <2>3, <3>3
  <2> QED
    BY <2>5, <2>6
<1>8. CASE UNCHANGED vars
  <2>1. /\ windows' = windows /\ deletions' = deletions /\ orphaned' = orphaned
        /\ Stale' = Stale /\ Pending' = Pending
    BY <1>8 DEF vars, Stale, Pending, At
  <2> QED
    BY <1>r, <2>1
<1> QED
  BY <1>1, <1>2, <1>3, <1>4, <1>5, <1>6, <1>7, <1>8
     DEF Next, Evaluate, Reset

-----------------------------------------------------------------------------
(* The theorems *)

LEMMA Inductive == Spec => []IInv
<1>1. IInv /\ [Next]_vars => IInv'
  BY NextShape, NextBudget, NextFields, NextPotential DEF IInv
<1> QED
  BY InitIInv, <1>1, PTL DEF Spec

\* The types hold whatever the schedule: in particular no key ever has more windows than
\* entries, and no field of a window passes them.
THEOREM TypeCorrect == Spec => []TypeOK
<1>1. IInv => TypeOK
  <2> SUFFICES ASSUME IInv PROVE TypeOK
    OBVIOUS
  <2> USE DEF IInv
  <2>1. /\ created \in Nat /\ orphaned \in Nat /\ deletions \in Nat
        /\ events \in Nat /\ events <= MaxEvents /\ MaxEvents \in Nat /\ resets \in Nat
        /\ \A x \in Windows : head[x] \in Nat /\ count[x] \in Nat /\ added[x] \in Nat
    BY Numbers
  <2>2. /\ Creating \in SUBSET Workers /\ Before \in SUBSET Workers /\ Busy \in SUBSET Workers
        /\ \A x : Adding(x) \in SUBSET Workers
    BY DEF Creating, Before, Busy, Adding, At
  <2>3. /\ Cardinality(Creating) \in Nat /\ Cardinality(Before) \in Nat
        /\ Cardinality(Busy) \in Nat /\ \A x : Cardinality(Adding(x)) \in Nat
    BY <2>2, CountOf
  <2>4. created \in 0 .. MaxEvents /\ orphaned \in 0 .. events
    BY <2>1, <2>3 DEF Budget
  <2>5. deletions \in 0 .. resets
    BY <2>1 DEF Control
  <2>6. \A x \in Windows : added[x] <= MaxEvents
    BY <2>1, <2>3 DEF Budget
  <2>7. \A x \in Windows : head[x] <= added[x] /\ count[x] <= added[x]
    BY <2>1, <2>3 DEF Fields, InWindow
  <2>8. \A x \in Windows : /\ head[x] \in 0 .. MaxEvents /\ count[x] \in 0 .. MaxEvents
                          /\ added[x] \in 0 .. MaxEvents
    BY <2>1, <2>6, <2>7
  <2>9. {head, count, added} \subseteq [Windows -> 0 .. MaxEvents]
    BY <2>8 DEF Shape
  <2> QED
    BY <2>4, <2>5, <2>9 DEF Shape, TypeOK
<1> QED
  BY Inductive, <1>1, PTL

\* Workers that share a window without a lock, and Reset beside them, invent no event: a
\* window's head and count stay within the events that were added to it, and until the
\* first Reset a worker that scans after its Add finds at least one.
THEOREM RacesHold == Spec => []RacesOnlyLose
<1>1. IInv => RacesOnlyLose
  <2> SUFFICES ASSUME IInv PROVE RacesOnlyLose
    OBVIOUS
  <2> USE DEF IInv
  <2>1. \A x \in Windows : head[x] \in Nat /\ count[x] \in Nat /\ added[x] \in Nat
    BY Numbers
  <2>2. \A x : Adding(x) \in SUBSET Workers
    BY DEF Adding, At
  <2>3. \A x : Cardinality(Adding(x)) \in Nat
    BY <2>2, CountOf
  <2>4. \A x \in Windows : head[x] <= added[x] /\ count[x] <= added[x]
    BY <2>1, <2>3 DEF Fields, InWindow
  <2>5. ASSUME resets = 0, NEW w \in Workers, pc[w] = "scan"
        PROVE  count[window[w]] >= 1
    <3>1. window[w] \in Windows
      BY <2>5 DEF Control, Holding
    <3> QED
      BY <2>5, <3>1 DEF Fields, InHand
  <2> QED
    BY <2>4, <2>5 DEF RacesOnlyLose
<1> QED
  BY Inductive, <1>1, PTL

\* Few answers come from a window that is no longer in the map: a deletion loses at most
\* one of each worker, and the creation of a window one of each pair of them.
THEOREM OrphansHold == Spec => []OrphansBounded
<1>1. IInv => OrphansBounded
  <2> SUFFICES ASSUME IInv PROVE OrphansBounded
    OBVIOUS
  <2> USE DEF IInv
  <2> DEFINE half == (N * (N - 1)) \div 2
  <2>1. orphaned \in Nat /\ deletions \in Nat /\ N \in Nat
    BY Numbers, CountOf
  <2>2. Stale \in SUBSET Workers /\ Pending \in SUBSET Workers
    BY DEF Stale, Pending, At
  <2>3. /\ Cardinality(Stale) \in Nat /\ Cardinality(Pending) \in Nat
        /\ Twice(N, Cardinality(Pending)) \in Nat
    BY <2>1, <2>2, CountOf, TwiceNat
  <2>4. 2 * half = N * (N - 1) /\ half \in Int
    BY <2>1, HalfOf
  <2>5. N * (N + 1) = 2 * half + 2 * N /\ half >= 0
    <3>1. N * (N + 1) = N * (N - 1) + 2 * N
      BY <2>1
    <3>2. N * (N - 1) >= 0
      BY <2>1
    <3> HIDE DEF half
    <3> QED
      BY <2>1, <2>4, <3>1, <3>2
  <2> HIDE DEF half
  <2>6. 2 * orphaned <= deletions * (N * (N + 1)) + N * (N - 1)
    <3>1. \A o, a, t \in Nat : \A d, m \in Int :
            (2 * (o + a) <= d /\ m >= 0) \/ 2 * (o + a) + t <= d + m => 2 * o <= d + m
      OBVIOUS
    <3>2. deletions * (N * (N + 1)) \in Int /\ N * (N - 1) \in Int /\ N * (N - 1) >= 0
      BY <2>1
    <3> QED
      BY <2>1, <2>3, <3>1, <3>2 DEF Potential, Lost, Twice
  <2>7. deletions * (2 * half + 2 * N) = 2 * (deletions * N + deletions * half)
    BY <2>1, <2>4
  <2>8. orphaned <= deletions * N + deletions * half + half
    <3>1. deletions * N \in Int /\ deletions * half \in Int
      BY <2>1, <2>4
    <3>2. 2 * orphaned <= 2 * (deletions * N + deletions * half) + 2 * half
      BY <2>4, <2>5, <2>6, <2>7
    <3> QED
      BY <2>1, <2>4, <3>1, <3>2
  <2>9. (deletions + 1) * half = deletions * half + half
    BY <2>1, <2>4
  <2>10. orphaned <= deletions * N + (deletions + 1) * half
    <3>1. deletions * N \in Int /\ deletions * half \in Int
      BY <2>1, <2>4
    <3> QED
      BY <2>1, <2>4, <2>8, <2>9, <3>1
  <2> QED
    BY <2>10 DEF OrphansBounded, N, half
<1> QED
  BY Inductive, <1>1, PTL

\* Once no worker is creating a window, the key's window stays the same object until the
\* repeated failure rule's Reset deletes it; the error rate rule's never does.
THEOREM WindowSettlesHolds == Spec => WindowSettles
<1>1. ASSUME IInv, [Next]_vars, NEW x \in Windows, Settled(x)
      PROVE  Settled(x)' \/ (rule = "repeated_failure" /\ deletions' > deletions)
  <2> USE DEF steps, shared
  <2>1. /\ windows = x /\ windows # NoWindow
        /\ \A w \in Workers : pc[w] \notin {"create", "assign"} /\ w \in Threads
    BY <1>1 DEF Settled, Windows, NoWindow, Threads
  <2>2. ASSUME NEW w \in Workers, Evaluate(w) PROVE Settled(x)'
    <3>1. windows' = windows
      BY <2>1, <2>2 DEF Evaluate, Lookup, BeginCreate, EndCreate, LoadHead, StoreHead,
                        TestFull, LoadCount, StoreCount, Scan
    <3>2. \E label \in Holding \cup {"idle"} : Goto(w, label)
      BY <2>1, <2>2 DEF Evaluate, Lookup, BeginCreate, EndCreate, LoadHead, StoreHead,
                        TestFull, LoadCount, StoreCount, Scan, Holding
    <3>3. \A v \in Workers : pc'[v] \notin {"create", "assign"}
      BY <1>1, <2>1, <3>2 DEF Goto, Holding, IInv, Shape
    <3> QED
      BY <2>1, <3>1, <3>3 DEF Settled
  <2>3. CASE BeginReset
    <3>1. Goto(Evictor, "evict") /\ \E y : window' = [window EXCEPT ![Evictor] = y]
      BY <2>3 DEF BeginReset
    <3>2. \A w \in Workers : pc'[w] = pc[w]
      BY <1>1, <3>1, EvictorApart DEF IInv
    <3> QED
      BY <2>1, <2>3, <3>2 DEF BeginReset, Settled
  <2>4. CASE EvictCount
    <3>1. Goto(Evictor, "evicted") /\ UNCHANGED window
      BY <2>4 DEF EvictCount
    <3>2. \A w \in Workers : pc'[w] = pc[w]
      BY <1>1, <3>1, EvictorApart DEF IInv
    <3> QED
      BY <2>1, <2>4, <3>2 DEF EvictCount, Settled
  <2>5. CASE EvictHead
    <3>1. Goto(Evictor, IF rule = "error_rate" THEN "idle" ELSE "empty?") /\ UNCHANGED window
      BY <2>5 DEF EvictHead
    <3>2. \A w \in Workers : pc'[w] = pc[w]
      BY <1>1, <3>1, EvictorApart DEF IInv
    <3> QED
      BY <2>1, <2>5, <3>2 DEF EvictHead, Settled
  <2>6. CASE BeginDelete
    <3>1. Goto(Evictor, IF count[window[Evictor]] = 0 THEN "delete" ELSE "idle") /\ UNCHANGED window
      BY <2>6 DEF BeginDelete
    <3>2. \A w \in Workers : pc'[w] = pc[w]
      BY <1>1, <3>1, EvictorApart DEF IInv
    <3> QED
      BY <2>1, <2>6, <3>2 DEF BeginDelete, Settled
  <2>7. CASE EndDelete
    <3>1. rule = "repeated_failure"
      BY <1>1, <2>7 DEF EndDelete, IInv, Control
    <3>2. deletions' = deletions + 1 /\ deletions \in Nat
      BY <1>1, <2>7 DEF EndDelete, IInv, Shape
    <3> QED
      BY <3>1, <3>2
  <2>8. CASE UNCHANGED vars
    BY <2>1, <2>8 DEF vars, Settled
  <2> QED
    BY <1>1, <2>2, <2>3, <2>4, <2>5, <2>6, <2>7, <2>8 DEF Next, Reset
<1>2. IInv /\ [Next]_vars =>
        [\A x \in Windows : Settled(x) =>
           \/ Settled(x)'
           \/ rule = "repeated_failure" /\ deletions' > deletions]_vars
  BY <1>1
<1> QED
  BY Inductive, <1>2, PTL DEF Spec, WindowSettles
=============================================================================
