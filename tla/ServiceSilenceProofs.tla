------------------------ MODULE ServiceSilenceProofs ------------------------
(***************************************************************************)
(* Proofs about ServiceSilence, for any services, thresholds and periods:  *)
(* silences are found in time, truly, once, and alerted unless an alert of *)
(* the same service is recent.                                             *)
(***************************************************************************)
EXTENDS ServiceSilence, TLAPS

-----------------------------------------------------------------------------
(* The inductive invariant *)

HistoryOK ==
    /\ DOMAIN lastLog \subseteq Services
    /\ \A s \in DOMAIN lastLog : lastLog[s] \in 0 .. now
    /\ logs \in [Services -> 0 .. MinLogCount]
    /\ reported \subseteq Services
    /\ \A s \in DOMAIN passed : passed[s].at \in 0 .. now

\* No tracked service was silent at the latest check.
CheckedInTime ==
    \A s \in DOMAIN lastSeen : checkAt - CheckInterval - lastSeen[s] <= SilenceAfter

\* lastSeen holds the latest log of a service that has logged often enough, and has
\* logged since it was last reported.
Tracked ==
    \A s \in DOMAIN lastSeen :
        /\ s \in DOMAIN lastLog /\ lastSeen[s] = lastLog[s]
        /\ seenCount[s] = MinLogCount
        /\ logs[s] > 0

\* A report that is not handled yet: its service is still silent, and only just found
\* to be, or it has logged at this very moment and is tracked again.
Pending ==
    \A s \in reports :
        /\ s \in DOMAIN lastLog
        /\ s \in DOMAIN seenCount /\ seenCount[s] = MinLogCount
        /\ \/ /\ s \notin DOMAIN lastSeen /\ logs[s] = 0
              /\ now - lastLog[s] > SilenceAfter
              /\ now - lastLog[s] <= SilenceAfter + CheckInterval
           \/ s \in DOMAIN lastSeen /\ lastLog[s] = now

\* The engine's map holds when each service's latest anomaly passed, and nothing that was
\* stale when evictLoop ticked last.
Latest ==
    \A s \in DOMAIN cooldowns :
        /\ s \in DOMAIN passed /\ passed[s].at = cooldowns[s]
        /\ evictAt - EvictInterval - cooldowns[s] <= Cooldown * 2

\* A service with enough logs that is neither tracked nor about to be handled was
\* alerted, or an anomaly of it had passed shortly before its silence began to count, or
\* passed later.
Accounted ==
    \A s \in DOMAIN lastLog :
        /\ s \in DOMAIN seenCount /\ seenCount[s] = MinLogCount
        /\ s \notin DOMAIN lastSeen /\ s \notin alerted /\ s \notin reports
        => /\ s \in DOMAIN passed
           /\ passed[s].at + Cooldown > lastLog[s] + SilenceAfter

\* What passed after a service's last log and was sent was the alert of its outage.
SentIsAlert ==
    \A s \in DOMAIN passed :
        /\ s \in DOMAIN lastLog
        /\ passed[s].sent /\ passed[s].at > lastLog[s] => s \in alerted

\* If Reset comes too late to drop anything, the rule's count is at least that of the logs
\* since the latest report, and a service with enough of them is tracked.
Watched ==
    CheckInterval <= 2 * SilenceAfter =>
        \A s \in Services :
            /\ logs[s] <= Count(seenCount, s)
            /\ logs[s] = MinLogCount => s \in DOMAIN lastSeen

IInv == /\ SilenceTypeOK /\ HistoryOK /\ CheckedInTime /\ Tracked /\ Pending
        /\ Latest /\ Accounted /\ SentIsAlert /\ Watched

-----------------------------------------------------------------------------
(* Each action preserves the invariant *)

\* A count goes up to MinLogCount and stays there.
LEMMA BumpIs ==
    ASSUME SilenceTypeOK, NEW s \in Services
    PROVE  /\ Bump(Count(seenCount, s)) \in 1 .. MinLogCount
           /\ s \in DOMAIN seenCount /\ seenCount[s] = MinLogCount
                => Bump(Count(seenCount, s)) = MinLogCount
BY ConfigAssumption DEF SilenceTypeOK, Bump, Count

LEMMA InitIInv == Init => IInv
BY ConfigAssumption DEF Init, IInv, SilenceTypeOK, HistoryOK, CheckedInTime, Tracked, Pending,
   Latest, Accounted, SentIsAlert, Watched, NoEntries, Count

LEMMA EvaluateIInv ==
    ASSUME IInv, NEW s \in Services, Evaluate(s)
    PROVE  IInv'
<1> USE ConfigAssumption
<1> DEFINE n == Bump(Count(seenCount, s))
<1>1. n \in 1 .. MinLogCount /\ (s \in DOMAIN seenCount /\ seenCount[s] = MinLogCount => n = MinLogCount)
  BY BumpIs DEF IInv
<1> HIDE DEF n
<1>2. /\ DOMAIN seenCount' = DOMAIN seenCount \cup {s}
      /\ seenCount'[s] = n
      /\ \A x \in DOMAIN seenCount : x # s => seenCount'[x] = seenCount[x]
  <2>1. seenCount' = Put(seenCount, s, n)
    BY DEF Evaluate, n
  <2>2. QED
    BY <2>1 DEF Put
<1>3. /\ DOMAIN lastLog' = DOMAIN lastLog \cup {s}
      /\ lastLog'[s] = now
      /\ \A x \in DOMAIN lastLog : x # s => lastLog'[x] = lastLog[x]
  BY DEF Evaluate, Put
<1>4. n = MinLogCount \/ (n < MinLogCount /\ s \notin DOMAIN lastSeen)
  BY <1>1 DEF IInv, SilenceTypeOK, Tracked
<1>w. ASSUME CheckInterval <= 2 * SilenceAfter
      PROVE  logs'[s] <= n
  <2>1. logs[s] <= Count(seenCount, s) /\ logs'[s] = Bump(logs[s])
    BY <1>w DEF IInv, HistoryOK, Watched, Evaluate
  <2>2. logs[s] \in 0 .. MinLogCount /\ Count(seenCount, s) \in 0 .. MinLogCount
    BY DEF IInv, HistoryOK, SilenceTypeOK, Count
  <2>3. QED
    BY <2>1, <2>2 DEF Bump, n
<1>5. CASE n = MinLogCount
  <2>1. /\ DOMAIN lastSeen' = DOMAIN lastSeen \cup {s}
        /\ lastSeen'[s] = now
        /\ \A x \in DOMAIN lastSeen : x # s => lastSeen'[x] = lastSeen[x]
    BY <1>2, <1>5 DEF Evaluate, Put
  <2>2. /\ logs' \in [Services -> 0 .. MinLogCount] /\ logs'[s] > 0
        /\ \A x \in Services : x # s => logs'[x] = logs[x]
    BY DEF IInv, HistoryOK, Evaluate, Bump
  <2>3. UNCHANGED <<now, cooldowns, checkAt, evictAt, reports, reported, passed>>
        /\ alerted' = alerted \ {s}
    BY DEF Evaluate
  <2>4. SilenceTypeOK' /\ HistoryOK'
    BY <1>1, <1>2, <1>3, <2>1, <2>2, <2>3 DEF IInv, SilenceTypeOK, HistoryOK
  <2>5. CheckedInTime' /\ Tracked' /\ Latest'
    BY <1>1, <1>2, <1>3, <1>5, <2>1, <2>2, <2>3
    DEF IInv, SilenceTypeOK, HistoryOK, CheckedInTime, Tracked, Latest
  <2>6. Pending'
    BY <1>1, <1>2, <1>3, <1>5, <2>1, <2>2, <2>3 DEF IInv, SilenceTypeOK, HistoryOK, Pending
  <2>7. Accounted'
    BY <1>1, <1>2, <1>3, <1>5, <2>1, <2>2, <2>3 DEF IInv, SilenceTypeOK, HistoryOK, Accounted
  <2>8. Watched'
    BY <1>1, <1>2, <1>w, <2>1, <2>2 DEF IInv, SilenceTypeOK, HistoryOK, Watched, Count
  <2>9. SentIsAlert'
    BY <1>3, <2>3 DEF IInv, SilenceTypeOK, HistoryOK, SentIsAlert
  <2>10. QED
    BY <2>4, <2>5, <2>6, <2>7, <2>8, <2>9 DEF IInv
<1>6. CASE n < MinLogCount /\ s \notin DOMAIN lastSeen
  <2>1. lastSeen' = lastSeen
    BY <1>1, <1>2, <1>6 DEF Evaluate
  <2>2. /\ logs' \in [Services -> 0 .. MinLogCount] /\ logs'[s] > 0
        /\ \A x \in Services : x # s => logs'[x] = logs[x]
    BY DEF IInv, HistoryOK, Evaluate, Bump
  <2>3. UNCHANGED <<now, cooldowns, checkAt, evictAt, reports, reported, passed>>
        /\ alerted' = alerted \ {s}
    BY DEF Evaluate
  <2>4. SilenceTypeOK' /\ HistoryOK'
    BY <1>1, <1>2, <1>3, <2>1, <2>2, <2>3 DEF IInv, SilenceTypeOK, HistoryOK
  <2>5. CheckedInTime' /\ Tracked' /\ Latest'
    BY <1>1, <1>2, <1>3, <1>6, <2>1, <2>2, <2>3
    DEF IInv, SilenceTypeOK, HistoryOK, CheckedInTime, Tracked, Latest
  <2>6. s \notin reports
    BY <1>1, <1>6 DEF IInv, Pending
  <2>7. Pending'
    BY <1>1, <1>2, <1>3, <1>6, <2>1, <2>2, <2>3, <2>6
    DEF IInv, SilenceTypeOK, HistoryOK, Pending
  <2>8. Accounted'
    BY <1>1, <1>2, <1>3, <1>6, <2>1, <2>2, <2>3 DEF IInv, SilenceTypeOK, HistoryOK, Accounted
  <2>9. Watched'
    BY <1>1, <1>2, <1>w, <1>6, <2>1, <2>2 DEF IInv, SilenceTypeOK, HistoryOK, Watched, Count
  <2>10. SentIsAlert'
    BY <1>3, <2>3 DEF IInv, SilenceTypeOK, HistoryOK, SentIsAlert
  <2>11. QED
    BY <2>4, <2>5, <2>7, <2>8, <2>9, <2>10 DEF IInv
<1>7. QED
  BY <1>4, <1>5, <1>6

LEMMA CheckSilenceIInv ==
    ASSUME IInv, CheckSilence
    PROVE  IInv'
<1> USE ConfigAssumption
<1>1. /\ now = checkAt /\ reports = {}
      /\ checkAt' = checkAt + CheckInterval
      /\ reports' = Silent
      /\ DOMAIN lastSeen' = DOMAIN lastSeen \ Silent
      /\ \A x \in DOMAIN lastSeen' : lastSeen'[x] = lastSeen[x]
      /\ reported' = reported \cup Silent
      /\ UNCHANGED <<now, seenCount, cooldowns, evictAt, lastLog, alerted, passed>>
  BY DEF CheckSilence, Remove
<1>2. /\ Silent \subseteq DOMAIN lastSeen
      /\ \A s \in DOMAIN lastSeen : s \in Silent <=> now - lastSeen[s] > SilenceAfter
  BY DEF Silent
<1>3. /\ logs' \in [Services -> 0 .. MinLogCount]
      /\ \A s \in Services : logs'[s] = IF s \in Silent THEN 0 ELSE logs[s]
  BY DEF CheckSilence, IInv, HistoryOK
<1>4. SilenceTypeOK' /\ HistoryOK'
  BY <1>1, <1>2, <1>3 DEF IInv, SilenceTypeOK, HistoryOK
<1>5. CheckedInTime'
  BY <1>1, <1>2 DEF IInv, SilenceTypeOK, CheckedInTime
<1>6. Tracked'
  BY <1>1, <1>2, <1>3 DEF IInv, SilenceTypeOK, Tracked
<1>7. Pending'
  BY <1>1, <1>2, <1>3 DEF IInv, SilenceTypeOK, HistoryOK, CheckedInTime, Tracked, Pending
<1>8. Latest' /\ Accounted' /\ SentIsAlert'
  BY <1>1, <1>2 DEF IInv, Latest, Accounted, SentIsAlert
<1>9. Watched'
  BY <1>1, <1>2, <1>3 DEF IInv, SilenceTypeOK, HistoryOK, Watched, Count
<1>10. QED
  BY <1>4, <1>5, <1>6, <1>7, <1>8, <1>9 DEF IInv

LEMMA AlertIInv ==
    ASSUME IInv, NEW s \in Services, Alert(s)
    PROVE  IInv'
<1> USE ConfigAssumption
<1>1. /\ s \in reports /\ reports' = reports \ {s}
      /\ UNCHANGED <<now, rule, checkAt, evictAt, lastLog, logs, reported>>
  BY DEF Alert
<1>2. CASE CoolingDown(s)
  <2>1. UNCHANGED <<cooldowns, alerted, passed>>
    BY <1>2 DEF Alert
  <2>2. SilenceTypeOK' /\ HistoryOK' /\ CheckedInTime' /\ Tracked' /\ Latest' /\ Watched'
        /\ SentIsAlert'
    BY <1>1, <2>1
    DEF IInv, SilenceTypeOK, HistoryOK, CheckedInTime, Tracked, Latest, Watched, SentIsAlert,
        rule, Count
  <2>3. Pending'
    BY <1>1, <2>1 DEF IInv, Pending, rule
  <2>4. s \in DOMAIN lastSeen
        \/ (s \in DOMAIN passed /\ passed[s].at + Cooldown > lastLog[s] + SilenceAfter)
    BY <1>1, <1>2 DEF CoolingDown, IInv, SilenceTypeOK, HistoryOK, Pending, Latest
  <2>5. Accounted'
    BY <1>1, <2>1, <2>4 DEF IInv, Accounted, rule
  <2>6. QED
    BY <2>2, <2>3, <2>5 DEF IInv
<1>3. CASE ~CoolingDown(s)
  <2>1. PICK sent \in BOOLEAN :
          /\ passed' = Put(passed, s, [at |-> now, sent |-> sent])
          /\ alerted' = IF sent /\ logs[s] = 0 THEN alerted \cup {s} ELSE alerted
    BY <1>3 DEF Alert
  <2>2. /\ DOMAIN passed' = DOMAIN passed \cup {s}
        /\ passed'[s].at = now /\ passed'[s].sent = sent
        /\ \A x \in DOMAIN passed : x # s => passed'[x] = passed[x]
    BY <2>1 DEF Put
  <2>3. /\ DOMAIN cooldowns' = DOMAIN cooldowns \cup {s}
        /\ cooldowns'[s] = now
        /\ \A x \in DOMAIN cooldowns : x # s => cooldowns'[x] = cooldowns[x]
    BY <1>3 DEF Alert, Put
  <2>4. SilenceTypeOK' /\ HistoryOK'
    BY <1>1, <2>2, <2>3 DEF IInv, SilenceTypeOK, HistoryOK, rule
  <2>5. Latest'
    BY <1>1, <2>2, <2>3 DEF IInv, SilenceTypeOK, Latest
  <2>6. CheckedInTime' /\ Tracked' /\ Watched' /\ Pending'
    BY <1>1 DEF IInv, CheckedInTime, Tracked, Watched, Pending, rule, Count
  <2>7. s \in DOMAIN lastLog /\ (now > lastLog[s] => logs[s] = 0)
    BY <1>1 DEF IInv, SilenceTypeOK, HistoryOK, Pending
  <2>8. SentIsAlert'
    BY <1>1, <2>1, <2>2, <2>7 DEF IInv, SentIsAlert, Pending
  <2>9. s \in DOMAIN lastSeen \/ now > lastLog[s] + SilenceAfter
    BY <1>1 DEF IInv, SilenceTypeOK, HistoryOK, Pending
  <2>10. Accounted'
    BY <1>1, <2>1, <2>2, <2>9 DEF IInv, SilenceTypeOK, HistoryOK, Accounted, rule
  <2>11. QED
    BY <2>4, <2>5, <2>6, <2>8, <2>10 DEF IInv
<1>4. QED
  BY <1>2, <1>3

LEMMA EvictIInv ==
    ASSUME IInv, Evict
    PROVE  IInv'
<1> USE ConfigAssumption
<1>1. /\ now = evictAt
      /\ evictAt' = evictAt + EvictInterval
      /\ DOMAIN lastSeen' = DOMAIN lastSeen \ LongSilent
      /\ \A x \in DOMAIN lastSeen' : lastSeen'[x] = lastSeen[x]
      /\ DOMAIN seenCount' = DOMAIN seenCount \ LongSilent
      /\ \A x \in DOMAIN seenCount' : seenCount'[x] = seenCount[x]
      /\ DOMAIN cooldowns' = DOMAIN cooldowns \ Stale
      /\ \A x \in DOMAIN cooldowns' : cooldowns'[x] = cooldowns[x]
      /\ UNCHANGED <<now, checkAt, reports, history>>
  BY DEF Evict, Remove
<1>2. /\ LongSilent \subseteq DOMAIN lastSeen
      /\ \A s \in LongSilent : now - lastSeen[s] > SilenceAfter * 3
  BY DEF LongSilent
<1>3. SilenceTypeOK' /\ HistoryOK'
  BY <1>1 DEF IInv, SilenceTypeOK, HistoryOK, history
<1>4. CheckedInTime' /\ Tracked'
  BY <1>1 DEF IInv, SilenceTypeOK, CheckedInTime, Tracked, history
<1>10. Latest'
  BY <1>1 DEF IInv, SilenceTypeOK, Latest, Stale, history
<1>5. \A s \in reports : s \notin LongSilent
  BY <1>2 DEF IInv, SilenceTypeOK, HistoryOK, Pending, Tracked
<1>6. Pending'
  BY <1>1, <1>5 DEF IInv, Pending, history
<1>7. Accounted' /\ SentIsAlert'
  BY <1>1 DEF IInv, Accounted, SentIsAlert, history
<1>8. CheckInterval <= 2 * SilenceAfter => LongSilent = {}
  BY <1>2 DEF IInv, SilenceTypeOK, CheckedInTime
<1>9. Watched'
  BY <1>1, <1>8 DEF IInv, Watched, Count, history
<1>11. QED
  BY <1>3, <1>4, <1>6, <1>7, <1>9, <1>10 DEF IInv

LEMMA TickIInv ==
    ASSUME IInv, Tick
    PROVE  IInv'
BY ConfigAssumption
DEF Tick, IInv, SilenceTypeOK, HistoryOK, CheckedInTime, Tracked, Pending, Latest, Accounted,
    SentIsAlert, Watched, Count, rule, history

LEMMA StepIInv == IInv /\ [Next]_vars => IInv'
<1> SUFFICES ASSUME IInv, [Next]_vars PROVE IInv'
  OBVIOUS
<1>1. CASE \E s \in Services : Evaluate(s)
  BY <1>1, EvaluateIInv
<1>2. CASE \E s \in Services : Alert(s)
  BY <1>2, AlertIInv
<1>3. CASE CheckSilence
  BY <1>3, CheckSilenceIInv
<1>4. CASE Evict
  BY <1>4, EvictIInv
<1>5. CASE Tick
  BY <1>5, TickIInv
<1>6. CASE UNCHANGED vars
  BY <1>6 DEF vars, rule, history, IInv, SilenceTypeOK, HistoryOK, CheckedInTime, Tracked,
     Pending, Latest, Accounted, SentIsAlert, Watched, Count
<1>7. QED
  BY <1>1, <1>2, <1>3, <1>4, <1>5, <1>6 DEF Next

THEOREM Inductive == Spec => []IInv
BY InitIInv, StepIInv, PTL DEF Spec

-----------------------------------------------------------------------------
(* What the invariant gives *)

\* Types: seenCount covers what lastSeen tracks, and no ticker falls behind the clock.
THEOREM TypeCorrect == Spec => []SilenceTypeOK
<1>1. IInv => SilenceTypeOK
  BY DEF IInv
<1>2. QED
  BY Inductive, <1>1, PTL

\* If a check comes at least every two thresholds a service that has logged often enough is
\* reported no later than one check interval after its silence reaches the threshold,
\* whatever the phases of the tickers, because Reset never comes first.
THEOREM SilenceIsFoundInTime == Spec => []SilenceFoundInTime
<1>1. IInv => SilenceFoundInTime
  <2> SUFFICES ASSUME IInv, CheckInterval <= 2 * SilenceAfter,
                      NEW s \in DOMAIN lastLog, logs[s] = MinLogCount
               PROVE  now - lastLog[s] <= SilenceAfter + CheckInterval
    BY DEF SilenceFoundInTime
  <2> USE ConfigAssumption
  <2>1. s \in DOMAIN lastSeen
    BY DEF IInv, HistoryOK, Watched
  <2>2. lastSeen[s] = lastLog[s] /\ lastSeen[s] \in Int
    BY <2>1 DEF IInv, Tracked, SilenceTypeOK
  <2>3. QED
    BY <2>1, <2>2 DEF IInv, SilenceTypeOK, CheckedInTime
<1>2. QED
  BY Inductive, <1>1, PTL

\* The heartbeat gives up an outage only to the cooldown of an anomaly less than Cooldown
\* before it, or to a full channel.
THEOREM UnalertedHolds == Spec => []UnalertedOnlyAsRepeatOrLost
<1>1. IInv => UnalertedOnlyAsRepeatOrLost
  <2> SUFFICES ASSUME IInv, NEW s \in DOMAIN lastLog,
                      Count(seenCount, s) >= MinLogCount,
                      now - lastLog[s] > SilenceAfter + CheckInterval, s \notin alerted
               PROVE  /\ s \in DOMAIN passed
                      /\ passed[s].at + Cooldown > lastLog[s] + SilenceAfter
                      /\ passed[s].at > lastLog[s] => ~passed[s].sent
    BY DEF UnalertedOnlyAsRepeatOrLost
  <2> USE ConfigAssumption
  <2>1. s \in DOMAIN seenCount /\ seenCount[s] = MinLogCount
    BY DEF Count, IInv, SilenceTypeOK
  <2>2. s \notin DOMAIN lastSeen
    BY DEF IInv, SilenceTypeOK, HistoryOK, CheckedInTime, Tracked
  <2>3. s \notin reports
    BY <2>2 DEF IInv, SilenceTypeOK, HistoryOK, Pending
  <2>4. s \in DOMAIN passed /\ passed[s].at + Cooldown > lastLog[s] + SilenceAfter
    BY <2>1, <2>2, <2>3 DEF IInv, Accounted
  <2>5. QED
    BY <2>4 DEF IInv, SentIsAlert
<1>2. QED
  BY Inductive, <1>1, PTL

\* evictLoop removes a cooldown at its first tick after it has turned stale.
THEOREM CooldownsGo == Spec => []CooldownsForgotten
<1>1. IInv => CooldownsForgotten
  BY ConfigAssumption DEF IInv, SilenceTypeOK, Latest, CooldownsForgotten
<1>2. QED
  BY Inductive, <1>1, PTL

\* CheckSilence reports no service that has logged within the threshold.
THEOREM NoFalseAlarm == Spec => ReportedOnlyIfSilent
<1>1. IInv /\ [Next]_vars =>
        [\A s \in reports' \ reports : now - lastLog[s] > SilenceAfter]_vars
  <2> SUFFICES ASSUME IInv, Next, NEW s \in reports' \ reports
               PROVE  now - lastLog[s] > SilenceAfter
    OBVIOUS
  <2>1. s \in Silent
    BY DEF Next, Evaluate, Alert, CheckSilence, Evict, Tick
  <2>2. QED
    BY <2>1 DEF Silent, IInv, Tracked
<1>2. QED
  BY Inductive, <1>1, PTL DEF Spec, ReportedOnlyIfSilent

\* Between two reports of a service it has logged.
THEOREM OneReport == Spec => OneReportPerOutage
<1>1. IInv /\ [Next]_vars => [\A s \in reports' \ reports : logs[s] > 0]_vars
  <2> SUFFICES ASSUME IInv, Next, NEW s \in reports' \ reports
               PROVE  logs[s] > 0
    OBVIOUS
  <2>1. s \in Silent
    BY DEF Next, Evaluate, Alert, CheckSilence, Evict, Tick
  <2>2. QED
    BY <2>1 DEF Silent, IInv, Tracked
<1>2. QED
  BY Inductive, <1>1, PTL DEF Spec, OneReportPerOutage

-----------------------------------------------------------------------------
(* The heartbeat implements the cooldown of AlertDedup *)

LatestPassed == [s \in Services |-> IF s \in DOMAIN passed THEN passed[s].at ELSE -1]
Dedup == INSTANCE AlertDedup WITH Keys <- Services, Warmup <- 0, Never <- -1,
                                  last <- LatestPassed

\* Eviction never forgets an alert that still suppresses the next one.
Suppressing == \A s \in DOMAIN passed :
                  now - passed[s].at < Cooldown => s \in DOMAIN cooldowns

LEMMA InitDedup == Init => Suppressing /\ Dedup!Init
BY DEF Init, Suppressing, LatestPassed, NoEntries, Dedup!Init

\* An anomaly that passes the watcher's check is one AlertDedup lets through.
LEMMA AlertDedups ==
    ASSUME IInv, Suppressing, NEW s \in Services, Alert(s)
    PROVE  Suppressing' /\ [Dedup!Next]_<<LatestPassed, now>>
<1> USE ConfigAssumption
<1>1. now' = now /\ now \in Nat
  BY DEF Alert, IInv, SilenceTypeOK
<1>2. CASE CoolingDown(s)
  <2>1. UNCHANGED <<cooldowns, passed>>
    BY <1>2 DEF Alert
  <2>2. QED
    BY <1>1, <2>1 DEF Suppressing, LatestPassed
<1>3. CASE ~CoolingDown(s)
  <2>1. /\ DOMAIN cooldowns' = DOMAIN cooldowns \cup {s}
        /\ DOMAIN passed' = DOMAIN passed \cup {s}
        /\ passed'[s].at = now
        /\ \A x \in DOMAIN passed : x # s => passed'[x] = passed[x]
    <3>1. /\ cooldowns' = Put(cooldowns, s, now)
          /\ \E sent \in BOOLEAN : passed' = Put(passed, s, [at |-> now, sent |-> sent])
      BY <1>3 DEF Alert
    <3>2. PICK sent \in BOOLEAN : passed' = Put(passed, s, [at |-> now, sent |-> sent])
      BY <3>1
    <3>3. QED
      BY <3>1, <3>2 DEF Put
  <2>2. Suppressing'
    BY <1>1, <2>1 DEF Suppressing
  <2>3. LatestPassed[s] = -1 \/ now - LatestPassed[s] >= Cooldown
    <3>1. s \in DOMAIN passed => now - passed[s].at >= Cooldown
      BY <1>1, <1>3 DEF CoolingDown, Suppressing, IInv, HistoryOK, Latest
    <3>2. QED
      BY <3>1 DEF LatestPassed
  <2>4. LatestPassed' = [LatestPassed EXCEPT ![s] = now]
    BY <2>1 DEF LatestPassed
  <2>5. Dedup!Alert(s)
    BY <1>1, <2>3, <2>4 DEF Dedup!Alert
  <2>6. QED
    BY <2>2, <2>5 DEF Dedup!Next
<1>4. QED
  BY <1>2, <1>3

\* Evict removes a cooldown when it is twice as old as one that suppresses.
LEMMA EvictDedups ==
    ASSUME IInv, Suppressing, Evict
    PROVE  Suppressing'
<1>1. /\ DOMAIN cooldowns' = DOMAIN cooldowns \ Stale
      /\ UNCHANGED <<now, passed>>
  BY DEF Evict, Remove, history
<1>2. ASSUME NEW s \in DOMAIN passed, now - passed[s].at < Cooldown
      PROVE  s \in DOMAIN cooldowns \ Stale
  BY <1>2, ConfigAssumption DEF Suppressing, Stale, IInv, SilenceTypeOK, HistoryOK, Latest
<1>3. QED
  BY <1>1, <1>2 DEF Suppressing

LEMMA StepDedups ==
    IInv /\ Suppressing /\ [Next]_vars => Suppressing' /\ [Dedup!Next]_<<LatestPassed, now>>
<1> SUFFICES ASSUME IInv, Suppressing, [Next]_vars
             PROVE  Suppressing' /\ [Dedup!Next]_<<LatestPassed, now>>
  OBVIOUS
<1>1. CASE UNCHANGED vars \/ CheckSilence \/ \E s \in Services : Evaluate(s)
  BY <1>1 DEF vars, history, CheckSilence, Evaluate, Suppressing, LatestPassed
<1>2. CASE \E s \in Services : Alert(s)
  BY <1>2, AlertDedups
<1>3. CASE Evict
  BY <1>3, EvictDedups DEF Evict, history, LatestPassed
<1>4. CASE Tick
  <2>1. UNCHANGED LatestPassed /\ Dedup!Tick
    BY <1>4 DEF Tick, history, LatestPassed, Dedup!Tick
  <2>2. Suppressing'
    BY <1>4, ConfigAssumption DEF Tick, history, Suppressing, IInv, SilenceTypeOK, HistoryOK
  <2>3. QED
    BY <2>1, <2>2 DEF Dedup!Next
<1>5. QED
  BY <1>1, <1>2, <1>3, <1>4 DEF Next

\* engine.go:109 and engine.go:143: whatever the phases of the check, of the eviction and
\* of the workers' logs, what silenceWatcher lets through is what the cooldown of AlertDedup
\* allows: no alert of a service within Cooldown of the one before.
THEOREM SilenceImplementsAlertDedup == Spec => Dedup!Spec
BY Inductive, InitDedup, StepDedups, PTL DEF Spec, Dedup!Spec
=============================================================================
