-------------------------- MODULE WindowRulesProofs --------------------------
(***************************************************************************)
(* Proofs about WindowRules, for any sets of services, messages, addresses *)
(* and users, any window, threshold and breach rate, any eviction interval *)
(* and cooldown, and events that are early, late and out of order by any   *)
(* amount.                                                                 *)
(***************************************************************************)
EXTENDS WindowRules, FiniteSetTheorems, TLAPS

Keys   == {call.key : call \in UNION {Calls[r] : r \in Rules}}
Events == [time : Int, at : Nat, key : Keys, breached : BOOLEAN]

\* The log is a sequence of events of the past.
LogOK == log \in Seq(Events)

\* A window holds events of its own key, and every event that is still recent.
Tracking == /\ \A k \in DOMAIN windows : \A i \in windows[k] : log[i].key = k
            /\ \A i \in DOMAIN log : Recent(log[i]) =>
                 /\ log[i].key \in DOMAIN windows
                 /\ i \in windows[log[i].key]

\* When evictLoop ticked last, or would have.
LastEvict == evictAt - EvictInterval

\* What the last eviction left was recent then; the rest has come in since.
Fresh == /\ \A k \in DOMAIN windows : \A i \in windows[k] :
              log[i].at >= LastEvict \/ log[i].time > LastEvict - Window
         /\ rule \in Shrinking => \A k \in DOMAIN windows : windows[k] # {}

\* The cooldowns map agrees with the history of what passed.
Remembered == \A s \in DOMAIN cooldowns :
                 s \in DOMAIN lastPassed /\ lastPassed[s] = cooldowns[s]

IInv == TypeOK /\ LogOK /\ Tracking /\ Fresh /\ Remembered /\ WindowPerService

-----------------------------------------------------------------------------
(* Helpers *)

LEMMA CallTypes ==
    ASSUME NEW r \in Rules, NEW call \in Calls[r]
    PROVE  /\ call.service \in Services /\ call.breached \in BOOLEAN
           /\ call.key \in Keys
<1>1. call.key \in Keys
  BY DEF Keys
<1>2. CASE r = "error_rate_spike"
  <2>1. call \in ErrorRateCalls
    BY <1>2 DEF Calls
  <2>2. PICK e \in [level : Levels, service : Services] :
          call = [key |-> IF e.level = "error" THEN e.service ELSE None,
                  service |-> e.service, breached |-> FALSE]
    BY <2>1 DEF ErrorRateCalls
  <2> QED
    BY <1>1, <2>2
<1>3. CASE r = "latency_threshold_breach"
  <2>1. call \in LatencyCalls
    BY <1>3 DEF Calls
  <2>2. PICK e \in [service : Services, duration_ms : Readings, latency_ms : Readings] :
          call = [key |-> IF IsNumber(Duration(e)) THEN e.service ELSE None,
                  service |-> e.service, breached |-> Duration(e) = "slow"]
    BY <2>1 DEF LatencyCalls
  <2> QED
    BY <1>1, <2>2
<1>4. CASE r = "repeated_failure"
  <2>1. call \in RepeatedFailureCalls
    BY <1>4 DEF Calls
  <2>2. PICK e \in [level : Levels, service : Services, message : Messages] :
          call = [key |-> IF e.level = "error" THEN <<e.service, e.message>> ELSE None,
                  service |-> e.service, breached |-> FALSE]
    BY <2>1 DEF RepeatedFailureCalls
  <2> QED
    BY <1>1, <2>2
<1>5. CASE r = "auth_failure_burst"
  <2>1. call \in AuthBurstCalls
    BY <1>5 DEF Calls
  <2>2. PICK e \in [level : Levels, service : Services, message : {"auth", "other"},
                   auth_result : {"failure", "other"},
                   source_ip : Addresses \cup {None}, username : Users \cup {None}] :
          call = [key |-> IF isAuthFailure(e) THEN AuthKey(e) ELSE None,
                  service |-> e.service, breached |-> FALSE]
    BY <2>1 DEF AuthBurstCalls
  <2> QED
    BY <1>1, <2>2
<1>6. CASE r = "off_hours_access"
  <2>1. call \in OffHoursCalls
    BY <1>6 DEF Calls
  <2>2. PICK e \in [service : Services, path : {"sensitive", "other", "absent"}] :
          call = [key |-> IF e.path = "sensitive" THEN e.path ELSE None,
                  service |-> e.service, breached |-> FALSE]
    BY <2>1 DEF OffHoursCalls
  <2> QED
    BY <1>1, <2>2
<1> QED
  BY <1>2, <1>3, <1>4, <1>5, <1>6 DEF Rules

\* The integer division of latency.go:145 compares like a fraction.
LEMMA IntegerPercentage ==
    ASSUME NEW b \in Nat, NEW t \in Nat \ {0}, NEW rate \in Nat
    PROVE  (b * 100) \div t >= rate <=> b * 100 >= rate * t
<1> DEFINE n == b * 100
           q == n \div t
           m == n % t
<1>1. n \in Nat
  OBVIOUS
<1> HIDE DEF n
<1>2. q \in Int /\ m \in 0 .. t - 1 /\ n = t * q + m
  BY <1>1
<1> HIDE DEF q, m
<1>3. ASSUME q >= rate PROVE n >= rate * t
  <2>1. t * q >= t * rate
    BY <1>2, <1>3
  <2> QED
    BY <1>1, <1>2, <2>1
<1>4. ASSUME q < rate PROVE n < rate * t
  <2>1. t * (q + 1) <= t * rate
    BY <1>2, <1>4
  <2>2. t * (q + 1) = t * q + t
    BY <1>2
  <2> QED
    BY <1>1, <1>2, <2>1, <2>2
<1> QED
  BY <1>1, <1>2, <1>3, <1>4 DEF q, n

LEMMA SubsetOfLogFinite ==
    ASSUME LogOK, NEW S \in SUBSET DOMAIN log
    PROVE  IsFiniteSet(S) /\ Cardinality(S) \in Nat
<1>1. IsFiniteSet(DOMAIN log)
  BY FS_Interval DEF LogOK
<1> QED
  BY <1>1, FS_Subset, FS_CardinalityType
-----------------------------------------------------------------------------
(* Type correctness *)

LEMMA InitIInv == Init => IInv
<1> SUFFICES ASSUME Init PROVE IInv
  OBVIOUS
<1> USE ConfigAssumption, RulesAssumption DEF Init
<1>1. TypeOK
  <2>1. start \in Nat /\ end \in Nat /\ zone \in Hours
    <3>1. CASE rule = "off_hours_access"
      BY <3>1 DEF Hours
    <3>2. CASE rule # "off_hours_access"
      BY <3>2 DEF Hours
    <3> QED
      BY <3>1, <3>2
  <2>2. log = <<>> /\ Len(log) = 0 /\ DOMAIN log = {}
    OBVIOUS
  <2>3. DOMAIN cooldowns = {} /\ DOMAIN windows = {} /\ DOMAIN lastPassed = {}
    BY DEF NoEntries
  <2> QED
    BY <2>1, <2>2, <2>3 DEF TypeOK
<1>2. LogOK
  BY DEF LogOK
<1>3. Tracking /\ Remembered
  BY DEF Tracking, Remembered, NoEntries
<1>4. Fresh /\ WindowPerService
  BY DEF Fresh, WindowPerService, NoEntries
<1> QED
  BY <1>1, <1>2, <1>3, <1>4 DEF IInv

\* What answering changes, of the types and of the history.
LEMMA AnswerTypes ==
    ASSUME TypeOK, Remembered, now' = now, NEW yes, NEW s \in Services,
           Answer(yes, s)
    PROVE  /\ DOMAIN cooldowns' \subseteq Services
           /\ \A x \in DOMAIN cooldowns' : cooldowns'[x] \in 0 .. now
           /\ answer' \in Services \cup {None}
           /\ DOMAIN lastPassed' \subseteq Services
           /\ Remembered'
<1> USE DEF TypeOK, Answer
<1>1. CASE UNCHANGED <<cooldowns, lastPassed>>
  BY <1>1 DEF Remembered
<1>2. CASE ~ UNCHANGED <<cooldowns, lastPassed>>
  <2>1. /\ cooldowns' = Put(cooldowns, s, now)
        /\ lastPassed' = Put(lastPassed, s, now)
    BY <1>2 DEF PassCooldown
  <2>2. /\ DOMAIN cooldowns' = DOMAIN cooldowns \cup {s}
        /\ \A x \in DOMAIN cooldowns' :
             cooldowns'[x] = IF x = s THEN now ELSE cooldowns[x]
        /\ DOMAIN lastPassed' = DOMAIN lastPassed \cup {s}
        /\ \A x \in DOMAIN lastPassed' :
             lastPassed'[x] = IF x = s THEN now ELSE lastPassed[x]
    BY <2>1 DEF Put
  <2>3. s \in Services /\ now \in 0 .. now
    BY RulesAssumption
  <2>4. Remembered'
    BY <2>2 DEF Remembered
  <2>5. /\ DOMAIN cooldowns' \subseteq Services
        /\ DOMAIN lastPassed' \subseteq Services
    BY <2>2, <2>3
  <2>6. \A x \in DOMAIN cooldowns' : cooldowns'[x] \in 0 .. now
    BY <2>2, <2>3
  <2>7. answer' \in Services \cup {None}
    OBVIOUS
  <2> QED
    BY <2>4, <2>5, <2>6, <2>7
<1> QED
  BY <1>1, <1>2

\* The eviction of cooldowns.
LEMMA EvictedCooldowns ==
    ASSUME Evict
    PROVE  /\ DOMAIN cooldowns' = DOMAIN cooldowns \ Stale
           /\ \A s \in DOMAIN cooldowns' : cooldowns'[s] = cooldowns[s]
BY DEF Evict, Only

\* The eviction of windows.
LEMMA EvictedWindows ==
    ASSUME Evict
    PROVE  /\ DOMAIN windows' \subseteq DOMAIN windows
           /\ \A k \in DOMAIN windows' : windows'[k] = Within(log, windows[k])
           /\ \A k \in DOMAIN windows :
                Within(log, windows[k]) # {} => k \in DOMAIN windows'
           /\ rule \in Shrinking => \A k \in DOMAIN windows' : windows'[k] # {}
           /\ rule \notin Shrinking => DOMAIN windows' = DOMAIN windows
BY DEF Evict, Reset, Evicted, Only

\* Recording an event.
LEMMA Recorded ==
    ASSUME IInv, NEW call \in Calls[rule], NEW d \in Delays, Count(call, now + Ahead - d)
    PROVE  /\ LogOK' /\ Len(log') = Len(log) + 1
           /\ DOMAIN log' = DOMAIN log \cup {Len(log) + 1}
           /\ \A i \in DOMAIN log : log'[i] = log[i]
           /\ log'[Len(log) + 1].key = call.key
           /\ log'[Len(log) + 1].at = now
           /\ log'[Len(log) + 1].time \in Int
           /\ DOMAIN windows' = DOMAIN windows \cup {call.key}
           /\ \A k \in DOMAIN windows' : windows'[k] =
                IF k = call.key THEN Held(k) \cup {Len(log) + 1} ELSE windows[k]
<1> DEFINE e == [time |-> now + Ahead - d, at |-> now, key |-> call.key,
                 breached |-> call.breached]
<1>1. log \in Seq(Events) /\ rule \in Rules /\ now \in Nat
  BY DEF IInv, LogOK, TypeOK
<1>2. e \in Events
  BY <1>1, CallTypes, RulesAssumption DEF Events
<1>3. log' = Append(log, e)
  BY DEF Count
<1> HIDE DEF e
<1>4. log' \in Seq(Events) /\ Len(log') = Len(log) + 1 /\ log'[Len(log) + 1] = e
  BY <1>1, <1>2, <1>3
<1>5. \A i \in DOMAIN log : log'[i] = log[i]
  BY <1>1, <1>2, <1>3
<1>6. DOMAIN log' = DOMAIN log \cup {Len(log) + 1}
  BY <1>1, <1>4
<1>7. windows' = Put(windows, call.key, Held(call.key) \cup {Len(log) + 1})
  BY DEF Count
<1> QED
  <2>1. LogOK'
    BY <1>4 DEF LogOK
  <2>2. e.key = call.key /\ e.at = now /\ e.time \in Int
    BY <1>2 DEF e, Events
  <2>3. /\ DOMAIN windows' = DOMAIN windows \cup {call.key}
        /\ \A k \in DOMAIN windows' : windows'[k] =
             IF k = call.key THEN Held(k) \cup {Len(log) + 1} ELSE windows[k]
    BY <1>7 DEF Put
  <2> QED
    BY <1>4, <1>5, <1>6, <2>1, <2>2, <2>3

-----------------------------------------------------------------------------
(* The inductive invariant *)

\* An entry that no window is asked about.
LEMMA AnswerOnly ==
    ASSUME IInv, NEW yes, NEW call \in Calls[rule],
           Answer(yes, call.service), UNCHANGED <<config, now, evictAt, windows, log>>
    PROVE  IInv'
<1> USE RulesAssumption DEF IInv
<1>1. call.service \in Services /\ rule \in Rules
  BY CallTypes DEF TypeOK
<1>2. Remembered' /\ TypeOK'
  BY <1>1, AnswerTypes DEF TypeOK, config
<1>3. LogOK' /\ Tracking'
  BY DEF LogOK, Tracking, Recent
<1>4. Fresh' /\ WindowPerService'
  BY DEF Fresh, WindowPerService, config, LastEvict
<1> QED
  BY <1>2, <1>3, <1>4

LEMMA CountStep ==
    ASSUME IInv, NEW call \in Calls[rule], NEW d \in Delays, Count(call, now + Ahead - d)
    PROVE  IInv'
<1> DEFINE n   == Len(log) + 1
           key == call.key
<1>1. /\ LogOK' /\ Len(log') = n /\ DOMAIN log' = DOMAIN log \cup {n}
      /\ \A i \in DOMAIN log : log'[i] = log[i]
      /\ log'[n].key = key /\ log'[n].at = now /\ log'[n].time \in Int
  BY Recorded
<1>2. /\ DOMAIN windows' = DOMAIN windows \cup {key}
      /\ \A k \in DOMAIN windows' : windows'[k] =
           IF k = key THEN Held(k) \cup {n} ELSE windows[k]
  BY Recorded
<1>3. n \in Nat /\ n \notin DOMAIN log
  BY DEF IInv, LogOK
<1>4. UNCHANGED <<config, now, evictAt>> /\ n <= MaxEvents
  BY RulesAssumption DEF Count, IInv, LogOK
<1> HIDE DEF n, key
<1>5. call.service \in Services /\ rule \in Rules /\ now \in Nat
  BY CallTypes DEF IInv, TypeOK
<1>6. /\ DOMAIN cooldowns' \subseteq Services
      /\ \A x \in DOMAIN cooldowns' : cooldowns'[x] \in 0 .. now
      /\ answer' \in Services \cup {None}
      /\ DOMAIN lastPassed' \subseteq Services
      /\ Remembered'
  <2>1. PICK yes : Answer(yes, call.service)
    BY DEF Count
  <2> QED
    BY <1>4, <1>5, <2>1, AnswerTypes DEF IInv
<1>7. \A k \in DOMAIN windows' : \A i \in windows'[k] :
        \/ i = n /\ k = key
        \/ k \in DOMAIN windows /\ i \in windows[k] /\ i \in DOMAIN log
  BY <1>2 DEF Held, IInv, TypeOK
<1>8. TypeOK'
  <2>1. \A k \in DOMAIN windows' : windows'[k] \subseteq DOMAIN log'
    BY <1>1, <1>7
  <2>2. \A i \in DOMAIN log' : log'[i].time \in Int /\ log'[i].at \in 0 .. now
    BY <1>1, <1>5 DEF IInv, TypeOK
  <2> QED
    BY <1>1, <1>4, <1>6, <2>1, <2>2 DEF IInv, TypeOK, config
<1>9. Tracking'
  <2>1. \A k \in DOMAIN windows' : \A i \in windows'[k] : log'[i].key = k
    BY <1>1, <1>7 DEF IInv, Tracking
  <2>2. ASSUME NEW i \in DOMAIN log', Recent(log[i])'
        PROVE  log'[i].key \in DOMAIN windows' /\ i \in windows'[log'[i].key]
    <3>1. CASE i = n
      BY <1>1, <1>2, <3>1
    <3>2. CASE i # n
      <4>1. i \in DOMAIN log /\ log'[i] = log[i]
        BY <1>1, <3>2
      <4>2. Recent(log[i])
        BY <1>4, <2>2, <4>1 DEF Recent
      <4>3. log[i].key \in DOMAIN windows /\ i \in windows[log[i].key]
        BY <4>1, <4>2 DEF IInv, Tracking
      <4> QED
        BY <1>2, <4>1, <4>3 DEF Held
    <3> QED
      BY <3>1, <3>2
  <2> QED
    BY <2>1, <2>2 DEF Tracking
<1>10. LastEvict \in Int /\ LastEvict <= now /\ LastEvict' = LastEvict
  BY <1>4, ConfigAssumption DEF LastEvict, IInv, TypeOK
<1>11. Fresh'
  <2>1. ASSUME NEW k \in DOMAIN windows', NEW i \in windows'[k]
        PROVE  log'[i].at >= LastEvict' \/ log'[i].time > LastEvict' - Window
    BY <1>1, <1>7, <1>5, <1>10 DEF IInv, Fresh
  <2>2. rule' \in Shrinking => \A k \in DOMAIN windows' : windows'[k] # {}
    BY <1>2, <1>4 DEF IInv, Fresh, config
  <2> QED
    BY <2>1, <2>2 DEF Fresh
<1>12. WindowPerService'
  BY <1>1, <1>2, <1>4 DEF IInv, WindowPerService, config
<1> QED
  BY <1>1, <1>6, <1>8, <1>9, <1>11, <1>12 DEF IInv

LEMMA EvictStep == IInv /\ Evict => IInv'
<1> SUFFICES ASSUME IInv, Evict PROVE IInv'
  OBVIOUS
<1> USE ConfigAssumption DEF IInv
<1>1. /\ UNCHANGED <<config, now, answer, log, lastPassed>>
      /\ now = evictAt /\ evictAt' = evictAt + EvictInterval
  BY DEF Evict
<1>2. LastEvict' = now /\ now \in Nat
  BY <1>1 DEF LastEvict, TypeOK
<1>3. TypeOK'
  <2>1. \A k \in DOMAIN windows' : windows'[k] \subseteq DOMAIN log'
    BY <1>1, EvictedWindows DEF TypeOK, Within
  <2>2. /\ DOMAIN cooldowns' \subseteq Services
        /\ \A s \in DOMAIN cooldowns' : cooldowns'[s] \in 0 .. now
    BY EvictedCooldowns DEF TypeOK
  <2>3. evictAt' \in now .. now + EvictInterval
    BY <1>1, <1>2
  <2> QED
    BY <1>1, <2>1, <2>2, <2>3 DEF TypeOK, config
<1>4. LogOK'
  BY <1>1 DEF LogOK
<1>5. Tracking'
  <2>1. \A k \in DOMAIN windows' : \A i \in windows'[k] : log'[i].key = k
    BY <1>1, EvictedWindows DEF Tracking, Within
  <2>2. ASSUME NEW i \in DOMAIN log, Recent(log[i])
        PROVE  log[i].key \in DOMAIN windows' /\ i \in windows'[log[i].key]
    <3>1. log[i].key \in DOMAIN windows /\ i \in windows[log[i].key]
      BY <2>2 DEF Tracking
    <3>2. i \in Within(log, windows[log[i].key])
      BY <2>2, <3>1 DEF Within
    <3> QED
      BY <3>1, <3>2, EvictedWindows
  <2> QED
    BY <1>1, <2>1, <2>2 DEF Tracking, Recent
<1>6. Fresh'
  <2>1. \A k \in DOMAIN windows' : \A i \in windows'[k] : log'[i].time > LastEvict' - Window
    BY <1>1, <1>2, EvictedWindows DEF Within, Recent
  <2>2. rule' \in Shrinking => \A k \in DOMAIN windows' : windows'[k] # {}
    BY <1>1, EvictedWindows DEF config
  <2> QED
    BY <2>1, <2>2 DEF Fresh
<1>7. Remembered'
  BY <1>1, EvictedCooldowns DEF Remembered
<1>8. WindowPerService'
  BY <1>1, EvictedWindows DEF WindowPerService, Shrinking, config
<1> QED
  BY <1>3, <1>4, <1>5, <1>6, <1>7, <1>8

LEMMA TickStep == IInv /\ Tick => IInv'
<1> SUFFICES ASSUME IInv, Tick PROVE IInv'
  OBVIOUS
<1> USE ConfigAssumption, RulesAssumption DEF IInv, Tick, config
<1>1. now \in Nat /\ now' = now + 1
  BY DEF TypeOK
<1>2. TypeOK'
  BY <1>1 DEF TypeOK
<1>3. LogOK' /\ Remembered'
  BY DEF LogOK, Remembered
<1>4. Tracking'
  <2>1. ASSUME NEW i \in DOMAIN log, Recent(log[i])' PROVE Recent(log[i])
    BY <1>1, <2>1 DEF Recent, TypeOK
  <2> QED
    BY <2>1 DEF Tracking
<1>5. Fresh' /\ WindowPerService'
  BY DEF Fresh, LastEvict, WindowPerService
<1> QED
  BY <1>2, <1>3, <1>4, <1>5

LEMMA StepIInv == IInv /\ [Next]_vars => IInv'
<1> SUFFICES ASSUME IInv, [Next]_vars PROVE IInv'
  OBVIOUS
<1>1. ASSUME NEW call \in Calls[rule], Ignore(call) PROVE IInv'
  BY <1>1, AnswerOnly DEF Ignore
<1>2. ASSUME NEW call \in Calls[rule], NEW d \in Delays, Count(call, now + Ahead - d)
      PROVE  IInv'
  BY <1>2, CountStep
<1>3. ASSUME NEW call \in Calls[rule], NEW h \in Hours, CheckHours(call, h) PROVE IInv'
  <2>1. OffHours((h + zone) % 24) \in BOOLEAN
    BY DEF OffHours
  <2> QED
    BY <1>3, <2>1, AnswerOnly DEF CheckHours
<1>4. CASE UNCHANGED vars
  BY <1>4 DEF vars, config, IInv, TypeOK, LogOK, Tracking, Recent, Fresh, LastEvict, Remembered,
     WindowPerService
<1> QED
  BY <1>1, <1>2, <1>3, <1>4, EvictStep, TickStep DEF Next, Evaluate

LEMMA InductiveInvariant == Spec => []IInv
<1> QED
  BY InitIInv, StepIInv, PTL DEF Spec

\* The rules' state keeps its type: a window only refers to events that were recorded.
THEOREM TypeCorrect == Spec => []TypeOK
<1>1. IInv => TypeOK
  BY DEF IInv
<1> QED
  BY <1>1, InductiveInvariant, PTL

-----------------------------------------------------------------------------
(* What the rules promise *)

\* A window knows of its key exactly the recent events the log has.
LEMMA WindowIsLog ==
    ASSUME LogOK, Tracking, NEW k \in DOMAIN windows, windows[k] \subseteq DOMAIN log
    PROVE  Within(log, windows[k]) = OfKey(k)
BY DEF Tracking, Within, OfKey

\* Firing on the window is keeping the promise over the log.
LEMMA FiresAsPromised ==
    IInv => \A k \in DOMAIN windows : Fires(log, windows[k]) <=> Promised(k)
<1> SUFFICES ASSUME IInv, NEW k \in DOMAIN windows
             PROVE  Fires(log, windows[k]) <=> Promised(k)
  OBVIOUS
<1> USE DEF IInv, TypeOK
<1> DEFINE w == windows[k]
           S == OfKey(k)
           B == {i \in S : log[i].breached}
<1>1. Within(log, w) = S
  BY WindowIsLog
<1>2. CASE rule # "latency_threshold_breach"
  BY <1>1, <1>2 DEF Fires, CountFires, Promised
<1>3. CASE rule = "latency_threshold_breach"
  <2>1. Fires(log, w) <=> /\ Cardinality(S) # 0
                          /\ (Cardinality(B) * 100) \div Cardinality(S) >= BreachRate
    BY <1>1, <1>3 DEF Fires, LatencyFires
  <2>2. Promised(k) <=> /\ S # {}
                        /\ Cardinality(B) * 100 >= BreachRate * Cardinality(S)
    BY <1>3 DEF Promised
  <2>3. S \subseteq DOMAIN log /\ B \subseteq DOMAIN log
    BY DEF OfKey
  <2>4. IsFiniteSet(S) /\ Cardinality(S) \in Nat /\ Cardinality(B) \in Nat
    BY <2>3, SubsetOfLogFinite
  <2>5. Cardinality(S) = 0 <=> S = {}
    BY <2>4, FS_EmptySet
  <2>6. ASSUME Cardinality(S) # 0
        PROVE  (Cardinality(B) * 100) \div Cardinality(S) >= BreachRate
                 <=> Cardinality(B) * 100 >= BreachRate * Cardinality(S)
    BY <2>4, <2>6, IntegerPercentage, ConfigAssumption
  <2> QED
    BY <2>1, <2>2, <2>5, <2>6
<1> QED
  BY <1>2, <1>3

LEMMA AnswerStep ==
    ASSUME IInv, NEW call \in Calls[rule], NEW d \in Delays, Count(call, now + Ahead - d)
    PROVE  answer' # None <=> PromisedForLatest'
<1> DEFINE n == Len(log) + 1
<1>1. IInv'
  BY CountStep
<1>2. Len(log') = n /\ log'[n].key = call.key /\ call.key \in DOMAIN windows'
  BY Recorded
<1>3. UNCHANGED <<config, now>> /\ call.service \in Services
  BY CallTypes DEF Count, IInv, TypeOK
<1>4. answer' # None <=> Fires(log', windows'[call.key])
  BY <1>3, RulesAssumption DEF Count, Answer
<1>5. Fires(log, windows[call.key])' <=> Promised(call.key)'
  <2>1. (IInv => \A k \in DOMAIN windows : Fires(log, windows[k]) <=> Promised(k))'
    BY FiresAsPromised, PTL
  <2> QED
    BY <1>1, <1>2, <2>1
<1>6. Fires(log, windows[call.key])' <=> Fires(log', windows'[call.key])
  BY <1>3 DEF Fires, CountFires, LatencyFires, Within, Recent, config
<1>7. PromisedForLatest' <=> Promised(call.key)'
  BY <1>2 DEF PromisedForLatest
<1> QED
  BY <1>4, <1>5, <1>6, <1>7

\* An event is recorded by no step but Count.
LEMMA LogGrows ==
    ASSUME IInv, [Next]_vars, log' # log
    PROVE  \E call \in Calls[rule], d \in Delays : Count(call, now + Ahead - d)
BY DEF Next, Evaluate, Ignore, CheckHours, Evict, Tick, vars, config

\* error_rate.go:48, latency.go:145, repeated_failure.go:65, auth_burst.go:97: whatever
\* evictions came before, a rule answers as if it remembered everything, and the integer
\* percentage is as good as the fraction.
THEOREM AnswersHold == Spec => AnswersAsIfNothingEvicted
<1>1. IInv /\ [Next]_vars => [log' # log => (answer' # None <=> PromisedForLatest')]_vars
  BY LogGrows, AnswerStep
<1> QED
  BY <1>1, InductiveInvariant, PTL DEF Spec, AnswersAsIfNothingEvicted

\* engine.go:143: what a window holds is cleared in time.
THEOREM MemoryHolds == Spec => []MemoryBounded
<1>1. IInv => MemoryBounded
  <2> SUFFICES ASSUME IInv PROVE MemoryBounded
    OBVIOUS
  <2> USE ConfigAssumption DEF IInv
  <2>1. evictAt \in Int /\ now \in Nat /\ evictAt >= now
    BY DEF TypeOK
  <2>2. ASSUME NEW k \in DOMAIN windows, NEW i \in windows[k] PROVE ~Old(log[i])
    <3>1. i \in DOMAIN log /\ log[i].time \in Int /\ log[i].at \in Int
      BY <2>2 DEF TypeOK
    <3> QED
      BY <2>1, <2>2, <3>1 DEF Fresh, LastEvict, Old
  <2> QED
    BY <2>2 DEF MemoryBounded, Fresh
<1> QED
  BY <1>1, InductiveInvariant, PTL

\* error_rate.go:66 and latency.go:163: their Reset takes no key out of the map, so there is
\* a window for every service that was ever counted, whether it still logs or not.
THEOREM WindowsAreKept == Spec => []WindowPerService
<1>1. IInv => WindowPerService
  BY DEF IInv
<1> QED
  BY <1>1, InductiveInvariant, PTL

-----------------------------------------------------------------------------
(* What passes the cooldown implements AlertDedup *)

\* Alerts are of the past, and eviction forgets none that still suppresses the next.
Suppressing ==
    /\ \A s \in DOMAIN lastPassed : lastPassed[s] \in 0 .. now
    /\ \A s \in DOMAIN lastPassed : now - lastPassed[s] < Cooldown => s \in DOMAIN cooldowns

LEMMA InitDedup == Init => Suppressing /\ Dedup!Init
BY DEF Init, Suppressing, LatestPassed, NoEntries, Dedup!Init

\* An anomaly is let through as AlertDedup does, or nothing happens.
LEMMA AnswerDedups ==
    ASSUME IInv, Suppressing, now' = now, NEW yes, NEW s \in Services, Answer(yes, s)
    PROVE  Suppressing' /\ [Dedup!Next]_<<LatestPassed, now>>
<1> USE ConfigAssumption
<1>1. now \in Nat
  BY DEF IInv, TypeOK
<1>2. CASE UNCHANGED <<cooldowns, lastPassed>>
  BY <1>2 DEF Suppressing, LatestPassed
<1>3. CASE ~ UNCHANGED <<cooldowns, lastPassed>>
  <2>1. /\ ~(s \in DOMAIN cooldowns /\ now - cooldowns[s] < Cooldown)
        /\ cooldowns' = Put(cooldowns, s, now) /\ lastPassed' = Put(lastPassed, s, now)
    BY <1>3 DEF Answer, PassCooldown
  <2>2. Suppressing'
    BY <1>1, <2>1 DEF Suppressing, Put
  <2>3. LatestPassed[s] = -1 \/ now - LatestPassed[s] >= Cooldown
    <3>1. s \in DOMAIN lastPassed => now - lastPassed[s] >= Cooldown
      BY <1>1, <2>1 DEF Suppressing, IInv, Remembered
    <3> QED
      BY <3>1 DEF LatestPassed
  <2>4. LatestPassed' = [LatestPassed EXCEPT ![s] = now]
    BY <2>1 DEF LatestPassed, Put
  <2>5. Dedup!Alert(s)
    BY <1>1, <2>3, <2>4 DEF Dedup!Alert
  <2> QED
    BY <2>2, <2>5 DEF Dedup!Next
<1> QED
  BY <1>2, <1>3

LEMMA EvictDedups ==
    ASSUME IInv, Suppressing, Evict
    PROVE  Suppressing' /\ UNCHANGED <<LatestPassed, now>>
<1>1. UNCHANGED <<now, lastPassed>> /\ now \in Nat
  BY DEF Evict, IInv, TypeOK
<1>2. ASSUME NEW s \in DOMAIN lastPassed, now - lastPassed[s] < Cooldown
      PROVE  s \in DOMAIN cooldowns'
  BY <1>1, <1>2, EvictedCooldowns, ConfigAssumption
  DEF Suppressing, IInv, TypeOK, Remembered, Stale
<1> QED
  BY <1>1, <1>2 DEF Suppressing, LatestPassed

LEMMA TickDedups ==
    ASSUME IInv, Suppressing, Tick
    PROVE  Suppressing' /\ Dedup!Tick
<1>1. now < MaxTime /\ now' = now + 1 /\ now \in Nat /\ UNCHANGED <<lastPassed, cooldowns>>
  BY DEF Tick, IInv, TypeOK
<1>2. Suppressing'
  BY <1>1, ConfigAssumption DEF Suppressing
<1> QED
  BY <1>1, <1>2 DEF Dedup!Tick, LatestPassed

LEMMA StepDedups ==
    IInv /\ Suppressing /\ [Next]_vars => Suppressing' /\ [Dedup!Next]_<<LatestPassed, now>>
<1> SUFFICES ASSUME IInv, Suppressing, [Next]_vars
             PROVE  Suppressing' /\ [Dedup!Next]_<<LatestPassed, now>>
  OBVIOUS
<1>1. ASSUME NEW call \in Calls[rule], Evaluate(call)
      PROVE  Suppressing' /\ [Dedup!Next]_<<LatestPassed, now>>
  <2>1. call.service \in Services
    BY <1>1, CallTypes DEF IInv, TypeOK
  <2>2. (\E yes : Answer(yes, call.service)) /\ now' = now
    BY <1>1 DEF Evaluate, Ignore, Count, CheckHours
  <2> QED
    BY <2>1, <2>2, AnswerDedups
<1>2. CASE UNCHANGED vars
  BY <1>2 DEF vars, Suppressing, LatestPassed
<1> QED
  BY <1>1, <1>2, EvictDedups, TickDedups DEF Next, Dedup!Next

\* engine.go:103 and engine.go:143: whichever rule fires, and whichever key it counts
\* under, what is let through of a service is what the cooldown of AlertDedup allows: the
\* eviction of stale cooldowns lets no repeat through early.
THEOREM RulesImplementAlertDedup == Spec => ImplementsAlertDedup
BY InductiveInvariant, InitDedup, StepDedups, PTL DEF Spec, Dedup!Spec, ImplementsAlertDedup
=============================================================================
