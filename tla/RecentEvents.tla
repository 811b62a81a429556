---------------------------- MODULE RecentEvents ----------------------------
(***************************************************************************)
(* What a sliding window promises its rule, whatever it is stored in: the  *)
(* timestamps of the latest Cap events, oldest arrival first, of which     *)
(* only those that have left the window may be forgotten early.            *)
(* Timestamps are event times: they arrive in any order and may even lie   *)
(* ahead of the local clock.                                               *)
(***************************************************************************)
EXTENDS Integers, Sequences, FiniteSets

CONSTANTS Cap,      \* how many events are remembered
          Window,   \* how long an event stays in the window
          MaxTime   \* bound on the clock and on the event times

VARIABLES events,   \* timestamps, in order of arrival
          now       \* the local clock

Times == 0 .. MaxTime

Init == /\ events = <<>>
        /\ now \in Times

\* The events a rule counts: strictly younger than the window.
Recent(t) == t > now - Window
CountRecent == Cardinality({k \in DOMAIN events : Recent(events[k])})

\* An event arrives; with Cap events remembered the oldest arrival makes room.
Record(t) ==
    /\ events' = IF Len(events) = Cap THEN Append(Tail(events), t)
                                      ELSE Append(events, t)
    /\ UNCHANGED now

\* The sequence without its k-th element.
Without(s, k) == [j \in 1 .. (Len(s) - 1) |-> IF j < k THEN s[j] ELSE s[j + 1]]

\* An event that has left the window is forgotten.
Forget(k) == /\ ~Recent(events[k])
             /\ events' = Without(events, k)
             /\ UNCHANGED now

Tick == /\ now < MaxTime
        /\ now' = now + 1
        /\ UNCHANGED events

Next == \/ \E t \in Times : Record(t)
        \/ \E k \in DOMAIN events : Forget(k)
        \/ Tick

Spec == Init /\ [][Next]_<<events, now>>
=============================================================================
