------------------------- MODULE DetectorEngineProofs -------------------------
(***************************************************************************)
(* Proofs about DetectorEngine, for any number of workers, services and    *)
(* detectors, any cooldown, warm-up and channel capacity.                  *)
(***************************************************************************)
EXTENDS DetectorEngine, TLAPS

\* What TypeOK needs to be inductive, and what warm-up rests on: a thread about
\* to send holds an anomaly of a detector, and a thread that is past the warm-up
\* check stays past it.
Ready == /\ \A t \in Threads : pc[t] = "send" => pending[t] \in Alerts
         /\ \A w \in Workers : pc[w] = "send" => next[w] \in Detectors

PastWarmup == \A t \in Threads : pc[t] # "idle" => now >= Warmup

IInv == TypeOK /\ Ready /\ PastWarmup

LEMMA KeyTypes ==
    ASSUME NEW d \in Detectors \cup {SilenceID}, NEW s \in Services
    PROVE  <<d, s>> \in Keys
BY DEF Keys

\* Letting an alert through keeps the types of what it writes.
LEMMA FireTypes ==
    ASSUME TypeOK, NEW t \in Threads, NEW k \in Keys, Fire(t, k)
    PROVE  /\ DOMAIN cooldowns' \subseteq Keys
           /\ cooldowns' \in [DOMAIN cooldowns' -> Times]
           /\ fires' \in [Keys -> Seq(Times)]
           /\ pending' \in [Threads -> Alerts \cup {NoAlert}]
           /\ pending'[t] \in Alerts
           /\ pc' \in [Threads -> {"idle", "loop", "send"}]
<1> USE DEF TypeOK, Fire
<1>1. DOMAIN cooldowns' = DOMAIN cooldowns \cup {k}
  OBVIOUS
<1>2. \A j \in DOMAIN cooldowns' : cooldowns'[j] \in Times
  OBVIOUS
<1>3. cooldowns' \in [DOMAIN cooldowns' -> Times]
  BY <1>1, <1>2
<1>4. Append(fires[k], now) \in Seq(Times)
  OBVIOUS
<1>5. fires' \in [Keys -> Seq(Times)]
  BY <1>4
<1>6. <<k, now>> \in Alerts
  BY DEF Alerts
<1> QED
  BY <1>1, <1>3, <1>5, <1>6

LEMMA SendTypes ==
    ASSUME IInv, NEW t \in Threads, SendOrDrop(t)
    PROVE  /\ out' \in Seq(Alerts) /\ Len(out') <= OutCap
           /\ pending' \in [Threads -> Alerts \cup {NoAlert}]
           /\ pc' \in [Threads -> {"idle", "loop", "send"}]
<1>1. pending[t] \in Alerts
  BY DEF IInv, Ready, SendOrDrop
<1> QED
  BY <1>1, EngineAssumption DEF IInv, TypeOK, SendOrDrop

LEMMA InitIInv == Init => IInv
<1> SUFFICES ASSUME Init PROVE IInv
  OBVIOUS
<1>1. 0 \in Times /\ 1 \in 1 .. (NumDetectors + 1)
  BY EngineAssumption DEF Times
<1>2. cooldowns \in [DOMAIN cooldowns -> Times] /\ DOMAIN cooldowns \subseteq Keys
  BY DEF Init
<1>3. out \in Seq(Alerts) /\ Len(out) <= OutCap
  BY EngineAssumption DEF Init
<1>4. fires \in [Keys -> Seq(Times)]
  BY DEF Init
<1>5. TypeOK
  BY <1>1, <1>2, <1>3, <1>4 DEF Init, TypeOK
<1> QED
  BY <1>5 DEF Init, IInv, Ready, PastWarmup, Threads

LEMMA NextIInv == IInv /\ [Next]_vars => IInv'
<1> SUFFICES ASSUME IInv, [Next]_vars PROVE IInv'
  OBVIOUS
<1> USE EngineAssumption DEF IInv, Ready, PastWarmup, Threads, Times
<1>1. ASSUME NEW w \in Workers, Evaluate(w) PROVE IInv'
  BY <1>1 DEF Evaluate, TypeOK
<1>2. ASSUME NEW w \in Workers, Continue(w) PROVE IInv'
  BY <1>2 DEF Continue, AtDetector, Detectors, TypeOK
<1>3. ASSUME NEW w \in Workers, Detect(w) PROVE IInv'
  <2>1. DetectorKey(w) \in Keys
    BY <1>3, KeyTypes DEF Detect, AtDetector, DetectorKey, TypeOK
  <2>2. TypeOK'
    BY <1>3, <2>1, FireTypes DEF Detect, TypeOK
  <2>3. Ready'
    BY <1>3, <2>1, FireTypes DEF Detect, AtDetector, Fire, TypeOK
  <2>4. PastWarmup'
    BY <1>3 DEF Detect, AtDetector, Fire, TypeOK
  <2> QED
    BY <2>2, <2>3, <2>4
<1>4. ASSUME NEW w \in Workers, Send(w) PROVE IInv'
  <2>1. next' \in [Workers -> 1 .. (NumDetectors + 1)]
    BY <1>4 DEF Send, SendOrDrop, Detectors, TypeOK
  <2>2. TypeOK'
    BY <1>4, <2>1, SendTypes DEF Send, SendOrDrop, TypeOK
  <2>3. Ready' /\ PastWarmup'
    BY <1>4 DEF Send, SendOrDrop, TypeOK
  <2> QED
    BY <2>2, <2>3
<1>5. ASSUME NEW w \in Workers, Return(w) PROVE IInv'
  BY <1>5 DEF Return, TypeOK
<1>6. CASE CheckSilence
  BY <1>6 DEF CheckSilence, TypeOK
<1>7. ASSUME NEW s \in Services, ReportSilence(s) PROVE IInv'
  <2>1. <<SilenceID, s>> \in Keys
    BY KeyTypes
  <2>2. CASE Fire(Watcher, <<SilenceID, s>>)
    <3>1. TypeOK'
      BY <1>7, <2>1, <2>2, FireTypes DEF ReportSilence, TypeOK
    <3>2. Ready'
      BY <1>7, <2>1, <2>2, FireTypes DEF ReportSilence, Fire, TypeOK
    <3>3. PastWarmup'
      BY <1>7, <2>2 DEF ReportSilence, Fire, TypeOK
    <3> QED
      BY <3>1, <3>2, <3>3
  <2>3. CASE UNCHANGED <<cooldowns, pc, pending, fires>>
    BY <1>7, <2>3 DEF ReportSilence, TypeOK
  <2> QED
    BY <1>7, <2>2, <2>3 DEF ReportSilence
<1>8. CASE SendSilence
  <2>1. TypeOK'
    BY <1>8, SendTypes DEF SendSilence, SendOrDrop, TypeOK
  <2>2. Ready' /\ PastWarmup'
    BY <1>8 DEF SendSilence, SendOrDrop, TypeOK
  <2> QED
    BY <2>1, <2>2
<1>9. CASE EndCheck
  BY <1>9 DEF EndCheck, TypeOK
<1>10. CASE WatcherExit \/ EvictExit \/ Stop
  BY <1>10 DEF WatcherExit, EvictExit, Stop, TypeOK
<1>11. CASE Evict
  BY <1>11 DEF Evict, TypeOK
<1>12. CASE Dispatch
  <2>1. out' \in Seq(Alerts) /\ Len(out') <= OutCap
    BY <1>12 DEF Dispatch, TypeOK
  <2> QED
    BY <1>12, <2>1 DEF Dispatch, TypeOK
<1>13. CASE Tick
  BY <1>13 DEF Tick, TypeOK
<1>14. CASE UNCHANGED vars
  BY <1>14 DEF vars, TypeOK, Alerts
<1> QED
  BY <1>1, <1>2, <1>3, <1>4, <1>5, <1>6, <1>7, <1>8, <1>9, <1>10, <1>11, <1>12,
     <1>13, <1>14 DEF Next, WorkerStep, WatcherStep

\* Type correctness, with the bound of the anomaly channel.
THEOREM TypeCorrect == Spec => []TypeOK
<1>1. IInv => TypeOK
  BY DEF IInv
<1> QED
  BY <1>1, InitIInv, NextIInv, PTL DEF Spec

-----------------------------------------------------------------------------
(* What a step does to the cooldowns and to the history of alerts *)

FireStep == /\ \E t \in Threads, k \in Keys : Fire(t, k)
            /\ now >= Warmup /\ now' = now
CalmStep == UNCHANGED <<cooldowns, fires>> /\ (UNCHANGED now \/ Tick)

LEMMA TimesAreNat == Times \subseteq Nat
BY EngineAssumption DEF Times

\* The history of a key is a sequence of natural numbers.
LEMMA HistoryTypes ==
    ASSUME TypeOK, NEW k \in Keys
    PROVE  /\ fires[k] \in Seq(Times)
           /\ Len(fires[k]) \in Nat
           /\ fires[k] = <<>> <=> Len(fires[k]) = 0
           /\ \A m \in 1 .. Len(fires[k]) : fires[k][m] \in Nat
           /\ fires[k] # <<>> => fires[k][Len(fires[k])] \in Nat
<1>1. fires[k] \in Seq(Times)
  BY DEF TypeOK
<1>2. \A m \in 1 .. Len(fires[k]) : fires[k][m] \in Times
  BY <1>1
<1>3. fires[k] # <<>> => Len(fires[k]) \in 1 .. Len(fires[k])
  BY <1>1
<1>4. fires[k] = <<>> <=> Len(fires[k]) = 0
  BY <1>1
<1>5. \A m \in 1 .. Len(fires[k]) : fires[k][m] \in Nat
  BY <1>2, TimesAreNat
<1>6. Len(fires[k]) \in Nat
  BY <1>1
<1> QED
  BY <1>1, <1>3, <1>4, <1>5, <1>6

\* Every step lets one alert through, evicts, or touches neither map.
LEMMA StepKinds ==
    ASSUME IInv, [Next]_vars
    PROVE  FireStep \/ Evict \/ CalmStep
<1> USE DEF FireStep, CalmStep
<1>1. ASSUME NEW w \in Workers, Detect(w) PROVE FireStep
  <2>1. DetectorKey(w) \in Keys
    BY <1>1, KeyTypes DEF Detect, AtDetector, DetectorKey, IInv, TypeOK
  <2> QED
    BY <1>1, <2>1 DEF Detect, AtDetector, IInv, PastWarmup, Threads
<1>2. ASSUME NEW s \in Services, ReportSilence(s) PROVE FireStep \/ CalmStep
  <2>1. <<SilenceID, s>> \in Keys
    BY KeyTypes
  <2> QED
    BY <1>2, <2>1 DEF ReportSilence, IInv, PastWarmup, Threads
<1>3. ASSUME NEW w \in Workers,
             Evaluate(w) \/ Continue(w) \/ Send(w) \/ Return(w)
      PROVE  CalmStep
  BY <1>3 DEF Evaluate, Continue, Send, SendOrDrop, Return
<1>4. CASE CheckSilence \/ SendSilence \/ EndCheck \/ WatcherExit
  BY <1>4 DEF CheckSilence, SendSilence, SendOrDrop, EndCheck, WatcherExit
<1>5. CASE EvictExit \/ Stop \/ Dispatch \/ Tick \/ UNCHANGED vars
  BY <1>5 DEF EvictExit, Stop, Dispatch, Tick, vars
<1> QED
  BY <1>1, <1>2, <1>3, <1>4, <1>5 DEF Next, WorkerStep, WatcherStep

\* What letting an alert for k through does, key by key.
LEMMA FireEffect ==
    ASSUME TypeOK, NEW t \in Threads, NEW k \in Keys, Fire(t, k)
    PROVE  /\ DOMAIN cooldowns' = DOMAIN cooldowns \cup {k}
           /\ cooldowns'[k] = now
           /\ fires'[k] # <<>>
           /\ fires'[k] = Append(fires[k], now)
           /\ fires'[k] \in Seq(Times)
           /\ Len(fires'[k]) = Len(fires[k]) + 1
           /\ fires'[k][Len(fires[k]) + 1] = now
           /\ \A m \in 1 .. Len(fires[k]) : fires'[k][m] = fires[k][m]
           /\ \A j \in Keys \ {k} : /\ fires'[j] = fires[j]
                                    /\ j \in DOMAIN cooldowns =>
                                         cooldowns'[j] = cooldowns[j]
<1>1. fires[k] \in Seq(Times) /\ now \in Times
  BY DEF TypeOK
<1>2. fires'[k] = Append(fires[k], now)
  BY DEF TypeOK, Fire
<1>3. /\ fires'[k] \in Seq(Times)
      /\ Len(fires'[k]) = Len(fires[k]) + 1
      /\ fires'[k] # <<>>
      /\ fires'[k][Len(fires[k]) + 1] = now
      /\ \A m \in 1 .. Len(fires[k]) : fires'[k][m] = fires[k][m]
  BY <1>1, <1>2
<1> QED
  BY <1>2, <1>3 DEF TypeOK, Fire

CInv == CooldownsRemember /\ CooldownSpacing

LEMMA InitCInv == Init => CInv
BY DEF Init, CInv, CooldownsRemember, CooldownSpacing

LEMMA NextCInv == IInv /\ CInv /\ [Next]_vars => CInv'
<1> SUFFICES ASSUME IInv, CInv, [Next]_vars PROVE CInv'
  OBVIOUS
<1>0. TypeOK /\ now \in Nat /\ Cooldown \in Nat \ {0}
  BY EngineAssumption DEF IInv, TypeOK, Times
<1>1. ASSUME NEW t \in Threads, NEW k \in Keys, Fire(t, k), now' = now
      PROVE  CInv'
  <2> DEFINE n == Len(fires[k])
  <2>1. n \in Nat /\ (n > 0 => fires[k] # <<>>)
    BY <1>0, HistoryTypes
  <2>2. \A m \in 1 .. n : fires[k][m] \in Nat
    BY <1>0, HistoryTypes
  <2>3. /\ Len(fires'[k]) = n + 1 /\ fires'[k][n + 1] = now
        /\ \A m \in 1 .. n : fires'[k][m] = fires[k][m]
        /\ \A j \in Keys \ {k} : fires'[j] = fires[j]
        /\ fires'[k] # <<>> /\ cooldowns'[k] = now
        /\ DOMAIN cooldowns' = DOMAIN cooldowns \cup {k}
        /\ \A j \in Keys \ {k} : j \in DOMAIN cooldowns => cooldowns'[j] = cooldowns[j]
    BY <1>0, <1>1, FireEffect
  <2>4. n > 0 => now - fires[k][n] >= Cooldown
    <3>1. CASE k \in DOMAIN cooldowns
      BY <1>0, <1>1, <2>1, <2>2, <3>1 DEF Fire, Suppressed, CInv, CooldownsRemember
    <3>2. CASE k \notin DOMAIN cooldowns
      <4>1. n > 0 => now - fires[k][n] > Cooldown * 2
        BY <2>1, <3>2 DEF CInv, CooldownsRemember
      <4> QED
        BY <1>0, <2>1, <2>2, <4>1
    <3> QED
      BY <3>1, <3>2
  <2>5. \A m \in 1 .. n : fires'[k][m + 1] - fires'[k][m] >= Cooldown
    <3> TAKE m \in 1 .. n
    <3>1. CASE m = n
      BY <2>2, <2>3, <2>4, <3>1
    <3>2. CASE m # n
      <4>1. m \in 1 .. (n - 1) /\ m + 1 \in 1 .. n
        BY <2>2, <3>2
      <4>2. fires'[k][m + 1] = fires[k][m + 1] /\ fires'[k][m] = fires[k][m]
        BY <2>3, <4>1
      <4> QED
        BY <4>1, <4>2 DEF CInv, CooldownSpacing
    <3> QED
      BY <3>1, <3>2
  <2>6. CooldownSpacing'
    <3>1. ASSUME NEW j \in Keys, NEW m \in 1 .. (Len(fires'[j]) - 1)
          PROVE  fires'[j][m + 1] - fires'[j][m] >= Cooldown
      <4>1. CASE j = k
        BY <2>2, <2>3, <2>5, <3>1, <4>1
      <4>2. CASE j # k
        BY <2>3, <3>1, <4>2 DEF CInv, CooldownSpacing
      <4> QED
        BY <4>1, <4>2
    <3> QED
      BY <3>1 DEF CooldownSpacing
  <2>7. fires'[k] # <<>> /\ cooldowns'[k] = fires'[k][Len(fires'[k])]
    BY <2>3
  <2>8. CooldownsRemember'
    <3>1. ASSUME NEW j \in Keys
          PROVE  /\ j \in DOMAIN cooldowns' =>
                      fires'[j] # <<>> /\ cooldowns'[j] = fires'[j][Len(fires'[j])]
                 /\ j \notin DOMAIN cooldowns' /\ fires'[j] # <<>> =>
                      now' - fires'[j][Len(fires'[j])] > Cooldown * 2
      <4>1. CASE j = k
        BY <2>3, <2>7, <4>1
      <4>2. CASE j # k
        BY <1>1, <2>3, <4>2 DEF CInv, CooldownsRemember
      <4> QED
        BY <4>1, <4>2
    <3> QED
      BY <3>1 DEF CooldownsRemember
  <2> QED
    BY <2>6, <2>8 DEF CInv
<1>2. CASE Evict
  <2>1. fires' = fires /\ now' = now
    BY <1>2 DEF Evict
  <2>2. CooldownSpacing'
    BY <2>1 DEF CInv, CooldownSpacing
  <2>3. CooldownsRemember'
    BY <1>2, <2>1 DEF Evict, Stale, CInv, CooldownsRemember
  <2> QED
    BY <2>2, <2>3 DEF CInv
<1>3. CASE CalmStep
  <2>1. CooldownSpacing'
    BY <1>3 DEF CalmStep, CInv, CooldownSpacing
  <2>2. ASSUME NEW k \in Keys, fires[k] # <<>>
        PROVE  fires[k][Len(fires[k])] \in Nat
    BY <1>0, <2>2, HistoryTypes
  <2>3. CooldownsRemember'
    BY <1>0, <1>3, <2>2 DEF CalmStep, Tick, CInv, CooldownsRemember
  <2> QED
    BY <2>1, <2>3 DEF CInv
<1> QED
  BY <1>1, <1>2, <1>3, StepKinds DEF FireStep

\* DETECT-08 for any number of threads: the alerts of a (rule, service) pair are
\* at least Cooldown apart.
THEOREM CooldownHolds == Spec => []CooldownSpacing
<1>1. CInv => CooldownSpacing
  BY DEF CInv
<1> QED
  BY <1>1, InitIInv, NextIInv, InitCInv, NextCInv, PTL DEF Spec

\* Eviction never forgets an alert that could still suppress another.
THEOREM EvictionIsSafe == Spec => []CooldownsRemember
<1>1. CInv => CooldownsRemember
  BY DEF CInv
<1> QED
  BY <1>1, InitIInv, NextIInv, InitCInv, NextCInv, PTL DEF Spec

-----------------------------------------------------------------------------
(* Warm-up *)

LEMMA NextWarmup ==
    IInv /\ WarmupSuppression /\ [Next]_vars => WarmupSuppression'
<1> SUFFICES ASSUME IInv, WarmupSuppression, [Next]_vars PROVE WarmupSuppression'
  OBVIOUS
<1>1. ASSUME NEW t \in Threads, NEW k \in Keys, Fire(t, k), now >= Warmup
      PROVE  WarmupSuppression'
  <2>1. TypeOK /\ Len(fires[k]) \in Nat
    BY HistoryTypes DEF IInv
  <2>2. /\ Len(fires'[k]) = Len(fires[k]) + 1
        /\ fires'[k][Len(fires[k]) + 1] = now
        /\ \A m \in 1 .. Len(fires[k]) : fires'[k][m] = fires[k][m]
        /\ \A j \in Keys \ {k} : fires'[j] = fires[j]
    BY <1>1, <2>1, FireEffect
  <2>3. ASSUME NEW m \in 1 .. Len(fires'[k]) PROVE fires'[k][m] >= Warmup
    <3>1. CASE m \in 1 .. Len(fires[k])
      BY <2>2, <3>1 DEF WarmupSuppression
    <3>2. CASE m = Len(fires[k]) + 1
      BY <1>1, <2>2, <3>2
    <3> QED
      BY <2>2, <2>1, <3>1, <3>2
  <2>4. ASSUME NEW j \in Keys \ {k}, NEW m \in 1 .. Len(fires'[j])
        PROVE  fires'[j][m] >= Warmup
    BY <2>2, <2>4 DEF WarmupSuppression
  <2> QED
    BY <2>3, <2>4 DEF WarmupSuppression
<1>2. CASE Evict \/ CalmStep
  BY <1>2 DEF Evict, CalmStep, WarmupSuppression
<1> QED
  BY <1>1, <1>2, StepKinds DEF FireStep

\* No alert is let through during warm-up, by a worker or by the heartbeat.
THEOREM WarmupHolds == Spec => []WarmupSuppression
<1>1. Init => WarmupSuppression
  BY DEF Init, WarmupSuppression
<1> QED
  BY <1>1, InitIInv, NextIInv, NextWarmup, PTL DEF Spec

-----------------------------------------------------------------------------
(* The refinement *)

LEMMA StepRefines ==
    IInv /\ CInv /\ [Next]_vars =>
        [Abstract!Next]_<<[k \in Keys |-> LastFire(k)], now>>
<1> SUFFICES ASSUME IInv, CInv, [Next]_vars
             PROVE  [Abstract!Next]_<<[k \in Keys |-> LastFire(k)], now>>
  OBVIOUS
<1> DEFINE last == [k \in Keys |-> LastFire(k)]
<1>0. TypeOK /\ now \in Nat /\ Cooldown \in Nat \ {0}
  BY EngineAssumption DEF IInv, TypeOK, Times
<1>1. ASSUME NEW t \in Threads, NEW k \in Keys, Fire(t, k), now >= Warmup, now' = now
      PROVE  Abstract!Alert(k)
  <2>1. Len(fires[k]) \in Nat /\ fires[k] \in Seq(Times)
    BY <1>0 DEF TypeOK
  <2>2. last[k] = Never \/ now - last[k] >= Cooldown
    <3>1. CASE fires[k] = <<>>
      BY <3>1 DEF LastFire
    <3>2. CASE fires[k] # <<>>
      <4>1. last[k] = fires[k][Len(fires[k])] /\ last[k] \in Nat
        BY <1>0, <3>2, HistoryTypes DEF LastFire
      <4> QED
        BY <1>0, <1>1, <3>2, <4>1
           DEF Fire, Suppressed, CInv, CooldownsRemember, TypeOK, Times
    <3> QED
      BY <3>1, <3>2
  <2>3. LastFire(k)' = now
    BY <1>0, <1>1, <2>1, FireEffect DEF LastFire
  <2>4. \A j \in Keys \ {k} : LastFire(j)' = LastFire(j)
    BY <1>0, <1>1, FireEffect DEF LastFire
  <2>5. last' = [last EXCEPT ![k] = now]
    BY <2>3, <2>4
  <2> QED
    BY <1>1, <2>2, <2>5 DEF Abstract!Alert
<1>2. CASE Evict
  BY <1>2 DEF Evict, LastFire
<1>3. CASE CalmStep /\ UNCHANGED now
  BY <1>3 DEF CalmStep, LastFire
<1>4. CASE CalmStep /\ Tick
  BY <1>4 DEF CalmStep, Tick, LastFire, Abstract!Next, Abstract!Tick
<1> QED
  BY <1>1, <1>2, <1>3, <1>4, StepKinds DEF FireStep, CalmStep, Abstract!Next

LEMMA InitRefines == Init => Abstract!Init
BY DEF Init, Abstract!Init, LastFire

\* The engine implements the cooldown AlertDedup promises, whatever the
\* interleaving of workers, heartbeat and eviction.
THEOREM EngineImplementsAlertDedup == Spec => ImplementsAlertDedup
BY InitRefines, StepRefines, InitIInv, NextIInv, InitCInv, NextCInv, PTL
   DEF Spec, ImplementsAlertDedup, Abstract!Spec
=============================================================================
