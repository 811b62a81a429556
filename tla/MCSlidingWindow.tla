--------------------------- MODULE MCSlidingWindow ---------------------------
(***************************************************************************)
(* SlidingWindow with a history: the events the window should be holding,  *)
(* kept beside the buffer and never read by it.                            *)
(***************************************************************************)
EXTENDS SlidingWindow

VARIABLE events

\* The latest Cap arrivals, those Evict found expired left out.
HInit == Init /\ events = <<>>
HNext ==
    \/ \E t \in Times :
         /\ Add(t)
         /\ events' = Append(IF Len(events) = Cap THEN Tail(events) ELSE events, t)
    \/ /\ EndEvict
       /\ events' = SelectSeq(events, LAMBDA t : t > cutoff)
    \/ (BeginEvict \/ EvictEntry \/ Tick) /\ UNCHANGED events

HSpec == HInit /\ [][HNext]_<<vars, events>>

\* window.go:28 "CountWithin returns the number of timestamps that fall within the
\* last d duration": the count a rule compares with its threshold is that of the
\* events it recorded, neither missing one nor counting one twice.
CountIsExact ==
    pc = "rest" =>
      CountWithin = Cardinality({k \in DOMAIN events : events[k] > now - Window})
=============================================================================
