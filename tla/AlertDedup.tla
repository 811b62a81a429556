------------------------------ MODULE AlertDedup ------------------------------
(***************************************************************************)
(* What the cooldown of DetectorEngine promises: an alert for a key is let *)
(* through only when none was for Cooldown, and none is during warm-up.    *)
(***************************************************************************)
EXTENDS Integers

CONSTANTS Keys,     \* the (rule, service) pairs
          Cooldown, \* least time between two alerts of a key
          Warmup,   \* no alert before this time
          MaxTime,  \* bound on the clock
          Never     \* the last alert of a key that had none

VARIABLES last,     \* when the latest alert of each key was let through
          now

Init == /\ last = [k \in Keys |-> Never]
        /\ now = 0

Alert(k) == /\ now >= Warmup
            /\ last[k] = Never \/ now - last[k] >= Cooldown
            /\ last' = [last EXCEPT ![k] = now]
            /\ UNCHANGED now

Tick == /\ now < MaxTime
        /\ now' = now + 1
        /\ UNCHANGED last

Next == (\E k \in Keys : Alert(k)) \/ Tick

Spec == Init /\ [][Next]_<<last, now>>
=============================================================================
