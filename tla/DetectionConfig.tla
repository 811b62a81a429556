---------------------------- MODULE DetectionConfig ----------------------------
(***************************************************************************)
(* internal/detection/config.go: what the engine's loops and the rules are *)
(* configured with, and the services they watch.  Durations are numbers of *)
(* ticks of the clock.                                                     *)
(***************************************************************************)
EXTENDS Integers, Sequences, FiniteSets

CONSTANTS Services,
          EvictInterval, Cooldown,                  \* DetectionConfig
          Window, Threshold,                        \* of the counting rules
          BreachRate,                               \* LatencyConfig
          StartHours, EndHours,                     \* OffHoursConfig: business hours
          Zones,                                    \* hours to add to UTC, modulo 24
          SilenceAfter, MinLogCount, CheckInterval  \* ServiceSilenceConfig

ASSUME ConfigAssumption ==
    /\ EvictInterval \in Nat \ {0} /\ Cooldown \in Nat
    /\ Window \in Nat \ {0} /\ Threshold \in Nat /\ BreachRate \in Nat
    /\ StartHours \subseteq Nat /\ EndHours \subseteq Nat /\ Zones \subseteq 0 .. 23
    /\ SilenceAfter \in Nat
    /\ MinLogCount \in Nat \ {0} /\ CheckInterval \in Nat \ {0}
=============================================================================
