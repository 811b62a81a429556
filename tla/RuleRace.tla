------------------------------- MODULE RuleRace -------------------------------
(***************************************************************************)
(* internal/detection/error_rate.go and repeated_failure.go as the         *)
(* pipeline workers and evictLoop run them.  engine.go takes no lock       *)
(* around d.Evaluate or d.Reset, and the rules have none of their own: the *)
(* windows map and the fields of a window are shared without               *)
(* synchronisation.  This module follows one key of the map and breaks     *)
(* Evaluate and Reset at their accesses to that shared state; a field++ is *)
(* a load and a store.  Of a window it keeps head and count: every event   *)
(* is recent, so a scan counts count of them.  repeated_failure.go's Reset *)
(* deletes a window it has emptied (so does auth_burst.go's, which scans   *)
(* once more to see that it is empty), error_rate.go's keeps it.           *)
(* The Go runtime stops the process when it sees a map access overlap a    *)
(* map write, which it may; an index out of range always panics.           *)
(***************************************************************************)
EXTENDS Integers, FiniteSets

CONSTANTS Workers,
          Cap,        \* capacity of a window
          MaxEvents,  \* bound on the error entries of the key
          MaxResets   \* bound on the ticks of evictLoop

Evictor == "evictLoop"

ASSUME RaceAssumption == /\ IsFiniteSet(Workers) /\ Evictor \notin Workers
                         /\ Cap \in Nat \ {0}
                         /\ MaxEvents \in Nat
                         /\ MaxResets \in Nat

Threads == Workers \cup {Evictor}
NoWindow == 0
Windows == 1 .. MaxEvents             \* an entry creates at most one

VARIABLES rule,       \* which of the two rules this is
          windows,    \* the map's entry for the key
          head, count,\* the fields of each window
          created,    \* how many windows have been allocated
          pc,
          window,     \* per thread: the w it holds
          loaded,     \* per thread: the field it has loaded
          writing,    \* the threads inside a map assignment or deletion
          events,     \* how many entries have been handed to Evaluate
          resets,     \* how many times evictLoop has ticked
          deletions,  \* history: how many times Reset has deleted the window
          added,      \* history: per window, how many events an Add has put in
          orphaned,   \* history: answers from a window no longer in the map
          fault       \* "none", "map race" or "index": the process is dead

steps  == <<rule, events, resets, deletions, orphaned, added>>
shared == <<windows, head, count, created, writing>>
vars == <<shared, pc, window, loaded, steps, fault>>

Init ==
    /\ rule \in {"error_rate", "repeated_failure"}
    /\ windows = NoWindow
    /\ head = [x \in Windows |-> 0] /\ count = [x \in Windows |-> 0]
    /\ created = 0
    /\ pc = [t \in Threads |-> "idle"]
    /\ window = [t \in Threads |-> NoWindow]
    /\ loaded = [t \in Threads |-> 0]
    /\ writing = {}
    /\ events = 0 /\ resets = 0 /\ deletions = 0 /\ orphaned = 0
    /\ added = [x \in Windows |-> 0]
    /\ fault = "none"

Goto(t, label) == pc' = [pc EXCEPT ![t] = label]

\* A map access that overlaps a map write goes unnoticed or is fatal.
MapAccess == \/ UNCHANGED fault
             \/ writing # {} /\ fault' = "map race"

\* The lowest index a scan of window x computes before it takes it modulo Cap.
\* Go's % keeps the sign: a negative one is out of range.
ScanIndex(x) == head[x] - count[x] + Cap

\* Mutants: every entry gets a window of its own; a worker that finds none goes on with
\* the one it had.
LookupCreates(w) ==
    /\ pc[w] = "idle" /\ events < MaxEvents
    /\ events' = events + 1
    /\ MapAccess
    /\ Goto(w, "create")
    /\ UNCHANGED <<rule, shared, window, loaded, resets, deletions, orphaned, added>>

LookupReuses(w) ==
    /\ pc[w] = "idle" /\ events < MaxEvents
    /\ events' = events + 1
    /\ MapAccess
    /\ window' = IF windows = NoWindow THEN window ELSE [window EXCEPT ![w] = windows]
    /\ Goto(w, IF window'[w] = NoWindow THEN "create" ELSE "head")
    /\ UNCHANGED <<rule, shared, loaded, resets, deletions, orphaned, added>>

\* w, ok := r.windows[entry.Service]
Lookup(w) ==
    /\ pc[w] = "idle" /\ events < MaxEvents
    /\ events' = events + 1
    /\ MapAccess
    /\ window' = [window EXCEPT ![w] = windows]
    /\ Goto(w, IF windows = NoWindow THEN "create" ELSE "head")
    /\ UNCHANGED <<rule, shared, loaded, resets, deletions, orphaned, added>>

\* r.windows[entry.Service] = newSlidingWindow(r.capacity), begun and completed.
BeginCreate(w) ==
    /\ pc[w] = "create"
    /\ MapAccess
    /\ created' = created + 1
    /\ window' = [window EXCEPT ![w] = created + 1]
    /\ writing' = writing \cup {w}
    /\ Goto(w, "assign")
    /\ UNCHANGED <<windows, head, count, loaded, steps>>

EndCreate(w) ==
    /\ pc[w] = "assign"
    /\ windows' = window[w]
    /\ writing' = writing \ {w}
    /\ Goto(w, "head")
    /\ UNCHANGED <<head, count, created, window, loaded, steps, fault>>

\* w.Add: head++, then count++ unless the buffer is full.
LoadHead(w) ==
    /\ pc[w] = "head"
    /\ loaded' = [loaded EXCEPT ![w] = head[window[w]]]
    /\ Goto(w, "head++")
    /\ UNCHANGED <<shared, window, steps, fault>>

StoreHead(w) ==
    /\ pc[w] = "head++"
    /\ head' = [head EXCEPT ![window[w]] = loaded[w] + 1]
    /\ added' = [added EXCEPT ![window[w]] = @ + 1]
    /\ Goto(w, "full?")
    /\ UNCHANGED <<windows, count, created, writing, window, loaded, rule, events,
                   resets, deletions, orphaned, fault>>

TestFull(w) ==
    /\ pc[w] = "full?"
    /\ Goto(w, IF count[window[w]] < Cap THEN "count" ELSE "scan")
    /\ UNCHANGED <<shared, window, loaded, steps, fault>>

LoadCount(w) ==
    /\ pc[w] = "count"
    /\ loaded' = [loaded EXCEPT ![w] = count[window[w]]]
    /\ Goto(w, "count++")
    /\ UNCHANGED <<shared, window, steps, fault>>

StoreCount(w) ==
    /\ pc[w] = "count++"
    /\ count' = [count EXCEPT ![window[w]] = loaded[w] + 1]
    /\ Goto(w, "scan")
    /\ UNCHANGED <<windows, head, created, writing, window, loaded, steps,
                   fault>>

\* w.CountWithin, and the comparison with the threshold.
Scan(w) ==
    /\ pc[w] = "scan"
    /\ fault' = IF ScanIndex(window[w]) < 0 THEN "index" ELSE fault
    /\ orphaned' = IF windows = window[w] THEN orphaned ELSE orphaned + 1
    /\ Goto(w, "idle")
    /\ UNCHANGED <<shared, window, loaded, rule, events, resets, deletions, added>>

\* Reset: the map iteration, then Evict's loop over the window.
BeginReset ==
    /\ pc[Evictor] = "idle" /\ resets < MaxResets
    /\ resets' = resets + 1
    /\ windows # NoWindow
    /\ \/ MapAccess /\ ScanIndex(windows) >= 0
       \/ ScanIndex(windows) < 0 /\ fault' = "index"
    /\ window' = [window EXCEPT ![Evictor] = windows]
    /\ Goto(Evictor, "evict")
    /\ UNCHANGED <<shared, loaded, rule, events, deletions, orphaned, added>>

\* Mutant: an entry too many is dropped.
EvictOneMore ==
    /\ pc[Evictor] = "evict"
    /\ \E n \in 0 .. count[window[Evictor]] :
         count' = [count EXCEPT ![window[Evictor]] = n - 1]
    /\ Goto(Evictor, "evicted")
    /\ UNCHANGED <<windows, head, created, writing, window, loaded, steps,
                   fault>>

\* w.count = len(newTs): any number of the entries had left the window.
EvictCount ==
    /\ pc[Evictor] = "evict"
    /\ \E n \in 0 .. count[window[Evictor]] :
         count' = [count EXCEPT ![window[Evictor]] = n]
    /\ Goto(Evictor, "evicted")
    /\ UNCHANGED <<windows, head, created, writing, window, loaded, steps,
                   fault>>

\* Mutant: head is put at the end of the array.
EvictHeadToEnd ==
    /\ pc[Evictor] = "evicted"
    /\ head' = [head EXCEPT ![window[Evictor]] = Cap]
    /\ Goto(Evictor, IF rule = "error_rate" THEN "idle" ELSE "empty?")
    /\ UNCHANGED <<windows, count, created, writing, window, loaded, steps,
                   fault>>

\* w.head = w.count, which is read again.
EvictHead ==
    /\ pc[Evictor] = "evicted"
    /\ head' = [head EXCEPT ![window[Evictor]] = count[window[Evictor]]]
    /\ Goto(Evictor, IF rule = "error_rate" THEN "idle" ELSE "empty?")
    /\ UNCHANGED <<windows, count, created, writing, window, loaded, steps,
                   fault>>

\* if w.count == 0 { delete(r.windows, key) }, begun and completed.
BeginDelete ==
    /\ pc[Evictor] = "empty?"
    /\ IF count[window[Evictor]] = 0
         THEN /\ MapAccess
              /\ writing' = writing \cup {Evictor}
              /\ Goto(Evictor, "delete")
         ELSE /\ Goto(Evictor, "idle")
              /\ UNCHANGED <<writing, fault>>
    /\ UNCHANGED <<windows, head, count, created, window, loaded, steps>>

\* The key is deleted, whichever window is there by now.
EndDelete ==
    /\ pc[Evictor] = "delete"
    /\ windows' = NoWindow
    /\ writing' = writing \ {Evictor}
    /\ deletions' = deletions + 1
    /\ Goto(Evictor, "idle")
    /\ UNCHANGED <<head, count, created, window, loaded, rule, events, resets,
                   orphaned, added, fault>>

Evaluate(w) == \/ Lookup(w) \/ BeginCreate(w) \/ EndCreate(w)
               \/ LoadHead(w) \/ StoreHead(w)
               \/ TestFull(w) \/ LoadCount(w) \/ StoreCount(w) \/ Scan(w)
Reset == BeginReset \/ EvictCount \/ EvictHead \/ BeginDelete \/ EndDelete

Next == \/ fault = "none" /\ \E w \in Workers : Evaluate(w)
        \/ fault = "none" /\ Reset

Spec == Init /\ [][Next]_vars

-----------------------------------------------------------------------------
(* Properties *)

TypeOK ==
    /\ windows \in Windows \cup {NoWindow}
    /\ {head, count, added} \subseteq [Windows -> 0 .. MaxEvents]
    /\ rule \in {"error_rate", "repeated_failure"}
    /\ created \in 0 .. MaxEvents
    /\ window \in [Threads -> Windows \cup {NoWindow}]
    /\ writing \subseteq Threads
    /\ events \in 0 .. MaxEvents /\ resets \in 0 .. MaxResets
    /\ deletions \in 0 .. resets /\ orphaned \in 0 .. events
    /\ fault \in {"none", "map race", "index"}

\* Workers that find no window each create one, and all but the last are lost with
\* what they counted.  When none of them is creating any more, the key's window stays
\* the same object, however lookups and resets interleave, until a Reset that has
\* found it empty deletes it, which the error rate rule's never does.
Settled(x) == windows = x /\ \A w \in Workers : pc[w] \notin {"create", "assign"}
WindowSettles ==
    [][\A x \in Windows : Settled(x) =>
         \/ Settled(x)'
         \/ rule = "repeated_failure" /\ deletions' > deletions]_vars

\* repeated_failure.go:88 deletes a window that workers have looked up and go on to
\* count in, and workers replace each other's new windows: such answers come from a
\* window nobody will find again.  There are few of them: after a deletion at most one
\* of each worker, and while the window is created anew as many as there are pairs.
OrphansBounded ==
    LET W == Cardinality(Workers)
    IN  orphaned <= deletions * W + (deletions + 1) * ((W * (W - 1)) \div 2)

\* What workers and Reset do to a window without a lock loses events and invents none:
\* neither field passes the number of events that were ever added to the window, so no
\* threshold is met by fewer entries than it asks for, those included that had expired
\* when a stale store brought them back; and as long as evictLoop has not ticked a worker
\* that counts after its Add finds at least one.  Only that much is left of the count.
RacesOnlyLose ==
    /\ \A x \in Windows : head[x] <= added[x] /\ count[x] <= added[x]
    /\ resets = 0 => \A w \in Workers : pc[w] = "scan" => count[window[w]] >= 1

\* engine.go:88 "Evaluate is safe to call from multiple goroutines": no call ends the
\* process, by overlapping a write to the windows map or by a scan that indexes out of
\* range.
ConcurrentUseIsSafe == fault = "none"
=============================================================================
