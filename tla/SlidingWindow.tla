---------------------------- MODULE SlidingWindow ----------------------------
(***************************************************************************)
(* internal/detection/window.go: the circular buffer of event times that   *)
(* the error-rate, repeated-failure and auth-burst rules count in.  Evict  *)
(* compacts the buffer in place, one iteration of its loop per step, while *)
(* it overwrites the array it is still reading.  Here nobody else touches  *)
(* the buffer meanwhile; RuleRace models the callers that do.              *)
(***************************************************************************)
EXTENDS Integers, Sequences, FiniteSets

CONSTANTS Cap,      \* len(w.timestamps); 10000 in the rules
          Window,   \* the d of CountWithin and the olderThan of Evict
          MaxTime,  \* bound on the clock and on the event times
          MaxHead   \* bound on head, which only Evict ever resets

ASSUME WindowAssumption == /\ Cap \in Nat \ {0}
                           /\ Window \in Nat \ {0}
                           /\ MaxTime \in Nat
                           /\ MaxHead \in Nat

VARIABLES timestamps, head, count, \* the fields of slidingWindow
          now,                     \* time.Now()
          pc,                      \* "rest", or "evict" inside Evict's loop
          cutoff, i, kept          \* Evict's locals; kept is len(newTs)

vars == <<timestamps, head, count, now, pc, cutoff, i, kept>>

Times == 0 .. MaxTime

Init == /\ timestamps = [s \in 0 .. (Cap - 1) |-> 0]
        /\ head = 0 /\ count = 0
        /\ now \in Times
        /\ pc = "rest" /\ cutoff = 0 /\ i = 0 /\ kept = 0

\* Mutant: the count is not capped at the capacity.
AddUncapped(t) ==
    /\ pc = "rest" /\ head < MaxHead
    /\ timestamps' = [timestamps EXCEPT ![head % Cap] = t]
    /\ head' = head + 1 /\ count' = count + 1
    /\ UNCHANGED <<now, pc, cutoff, i, kept>>

Add(t) ==
    /\ pc = "rest" /\ head < MaxHead
    /\ timestamps' = [timestamps EXCEPT ![head % Cap] = t]
    /\ head' = head + 1
    /\ count' = IF count < Cap THEN count + 1 ELSE count
    /\ UNCHANGED <<now, pc, cutoff, i, kept>>

\* Mutant: the scan starts at the next write position.
CountFromHead ==
    Cardinality({j \in 0 .. (count - 1) :
        timestamps[(head - j + Cap) % Cap] > now - Window})

\* The slots CountWithin visits, newest first.
CountWithin ==
    Cardinality({j \in 0 .. (count - 1) :
        timestamps[(head - 1 - j + Cap) % Cap] > now - Window})

\* The slot of the j-th oldest entry, as Evict's loop computes it.
Slot(j) == (head - count + j + Cap) % Cap

\* Mutant: time.Now().Add(olderThan), without the minus sign.
BeginEvictAhead == /\ pc = "rest"
                   /\ pc' = "evict"
                   /\ cutoff' = now + Window
                   /\ i' = 0 /\ kept' = 0
                   /\ UNCHANGED <<timestamps, head, count, now>>

BeginEvict == /\ pc = "rest"
              /\ pc' = "evict"
              /\ cutoff' = now - Window
              /\ i' = 0 /\ kept' = 0
              /\ UNCHANGED <<timestamps, head, count, now>>

\* newTs shares the array of w.timestamps: an append overwrites slot kept.
EvictEntry ==
    /\ pc = "evict" /\ i < count
    /\ i' = i + 1
    /\ IF timestamps[Slot(i)] > cutoff
         THEN /\ timestamps' = [timestamps EXCEPT ![kept] = timestamps[Slot(i)]]
              /\ kept' = kept + 1
         ELSE UNCHANGED <<timestamps, kept>>
    /\ UNCHANGED <<head, count, now, pc, cutoff>>

\* Mutant: head is not moved back to the end of the compacted entries.
EndEvictKeepsHead == /\ pc = "evict" /\ i = count
                     /\ pc' = "rest"
                     /\ count' = kept
                     /\ UNCHANGED <<timestamps, head, now, cutoff, i, kept>>

\* The final copy moves newTs onto itself.
EndEvict == /\ pc = "evict" /\ i = count
            /\ pc' = "rest"
            /\ count' = kept /\ head' = kept
            /\ UNCHANGED <<timestamps, now, cutoff, i, kept>>

Tick == /\ now < MaxTime
        /\ now' = now + 1
        /\ UNCHANGED <<timestamps, head, count, pc, cutoff, i, kept>>

Next == \/ \E t \in Times : Add(t)
        \/ BeginEvict \/ EvictEntry \/ EndEvict
        \/ Tick

Spec == Init /\ [][Next]_vars

-----------------------------------------------------------------------------
(* Properties *)

Min2(a, b) == IF a < b THEN a ELSE b

\* Types, and the bounds that keep every index of window.go inside the array:
\* an index out of range would panic in a pipeline worker.
TypeOK == /\ timestamps \in [0 .. (Cap - 1) -> Times]
          /\ head \in 0 .. MaxHead
          /\ count \in 0 .. Cap
          /\ now \in Times
          /\ pc \in {"rest", "evict"}
          /\ cutoff \in Int
          /\ i \in 0 .. Cap /\ kept \in 0 .. Cap

\* head and count describe one run of slots: count lags behind head only once
\* the buffer is full, and Evict keeps no more than it has read.
Indices == /\ count = Min2(head, Cap)
           /\ pc = "evict" => kept <= i /\ i <= count /\ cutoff <= now - Window

\* The buffer has wrapped around: the oldest entry is not in slot 0.
Wrapped == count = Cap /\ head % Cap # 0

\* What the buffer holds, oldest first; inside Evict, what it has kept and what
\* it has still to look at.
Contents ==
    IF pc = "rest"
      THEN [k \in 1 .. count |-> timestamps[Slot(k - 1)]]
      ELSE [k \in 1 .. (kept + count - i) |->
              IF k <= kept THEN timestamps[k - 1]
                           ELSE timestamps[Slot(i + k - kept - 1)]]

\* CountWithin and Evict index the array with different formulas, one from the
\* newest entry and one from the oldest: they visit the same entries.
CountScansContents ==
    pc = "rest" =>
      CountWithin = Cardinality({k \in DOMAIN Contents : Contents[k] > now - Window})

Abstract == INSTANCE RecentEvents WITH events <- Contents

\* Except for an Evict that starts on a buffer that has wrapped around, every
\* step of the buffer is one that RecentEvents allows: an Add forgets at most the
\* oldest arrival, and an Evict only events that have left the window.
RefinesUnlessWrapped ==
    [][~(pc = "evict" /\ Wrapped) => [Abstract!Next]_<<Contents, now>>]_vars
=============================================================================
