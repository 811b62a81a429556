----------------------------- MODULE WindowRules -----------------------------
(***************************************************************************)
(* The rules of internal/detection that look at one entry at a time:       *)
(* error_rate.go, latency.go, repeated_failure.go and auth_burst.go, which *)
(* count in windows, and off_hours.go, which keeps no state; with what     *)
(* engine.go does around them: the cooldown of a (rule, service) pair and  *)
(* evictLoop, which calls Reset.  A behaviour follows one rule, chosen in  *)
(* Init, from the end of warm-up.  Calls are whole here (RuleRace takes    *)
(* them apart) and windows stay below their capacity (SlidingWindow does   *)
(* not): an element of a window is the position of its event in the log of *)
(* everything that was ever recorded.                                      *)
(***************************************************************************)
EXTENDS DetectionConfig

CONSTANTS Messages, Addresses, Users,
          None,                   \* a field that is missing or empty
          Ahead, Delays,          \* an event is Ahead - d past its arrival
          MaxTime, MaxEvents      \* bounds on the clock and on the log

ASSUME RulesAssumption ==
    /\ None \notin Services
    /\ Ahead \in Nat /\ Delays \subseteq Nat
    /\ MaxTime \in Nat /\ MaxEvents \in Nat

Rules     == {"error_rate_spike", "latency_threshold_breach", "repeated_failure",
              "auth_failure_burst", "off_hours_access"}
Shrinking == {"repeated_failure", "auth_failure_burst"}
Hours     == 0 .. 23

VARIABLES rule, start, end, zone, \* the rule and its configuration
          now,
          evictAt,    \* when evictLoop's ticker fires next
          windows,    \* the rule's map: by key, the events a window holds
          cooldowns,  \* the engine's, for this rule: by service
          answer,     \* service of the anomaly the latest Evaluate returned
          log,        \* history: every event recorded, in order of arrival
          lastPassed  \* history: when an anomaly of each service last passed the cooldown

config == <<rule, start, end, zone>>
vars   == <<config, now, evictAt, windows, cooldowns, answer, log, lastPassed>>

NoEntries       == [x \in {} |-> 0]
Put(map, x, v)  == [y \in DOMAIN map \cup {x} |-> IF y = x THEN v ELSE map[y]]
Only(map, kept) == [y \in DOMAIN map \cap kept |-> map[y]]

Init ==
    /\ rule \in Rules
    /\ IF rule = "off_hours_access"
         THEN start \in StartHours /\ end \in EndHours /\ zone \in Zones
         ELSE start = 0 /\ end = 0 /\ zone = 0
    /\ now = 0
    /\ evictAt \in 1 .. EvictInterval
    /\ windows = NoEntries /\ cooldowns = NoEntries
    /\ answer = None
    /\ log = <<>> /\ lastPassed = NoEntries

-----------------------------------------------------------------------------
(* What a rule makes of an entry before it looks at a window.  The fields of *)
(* an entry are those the rule reads; a key None ends the call.              *)

Levels    == {"error", "other"}
Readings  == {"absent", "text", "fast", "slow"} \* of a number: below the threshold or not
IsNumber(reading) == reading \in {"fast", "slow"}

ErrorRateCalls ==
    {[key |-> IF e.level = "error" THEN e.service ELSE None,
      service |-> e.service, breached |-> FALSE] :
        e \in [level : Levels, service : Services]}

\* duration_ms, or latency_ms when that is missing or no number.
Duration(e) == IF IsNumber(e.duration_ms) THEN e.duration_ms ELSE e.latency_ms

LatencyCalls ==
    {[key |-> IF IsNumber(Duration(e)) THEN e.service ELSE None,
      service |-> e.service, breached |-> Duration(e) = "slow"] :
        e \in [service : Services, duration_ms : Readings, latency_ms : Readings]}

\* A message stands for its fingerprint.
RepeatedFailureCalls ==
    {[key |-> IF e.level = "error" THEN <<e.service, e.message>> ELSE None,
      service |-> e.service, breached |-> FALSE] :
        e \in [level : Levels, service : Services, message : Messages]}

isAuthFailure(e) == /\ e.level = "error"
                    /\ e.message = "auth" \/ e.auth_result = "failure"

\* The address, or the user name when there is none.
AuthKey(e) == IF e.source_ip # None THEN e.source_ip ELSE e.username

AuthBurstCalls ==
    {[key |-> IF isAuthFailure(e) THEN AuthKey(e) ELSE None,
      service |-> e.service, breached |-> FALSE] :
        e \in [level : Levels, service : Services, message : {"auth", "other"},
               auth_result : {"failure", "other"},
               source_ip : Addresses \cup {None}, username : Users \cup {None}]}

OffHoursCalls ==
    {[key |-> IF e.path = "sensitive" THEN e.path ELSE None,
      service |-> e.service, breached |-> FALSE] :
        e \in [service : Services, path : {"sensitive", "other", "absent"}]}

Calls == [error_rate_spike         |-> ErrorRateCalls,
          latency_threshold_breach |-> LatencyCalls,
          repeated_failure         |-> RepeatedFailureCalls,
          auth_failure_burst       |-> AuthBurstCalls,
          off_hours_access         |-> OffHoursCalls]

-----------------------------------------------------------------------------
(* What it answers *)

Recent(e) == e.time > now - Window
Within(l, w) == {i \in w : Recent(l[i])}

\* The breach rate is an integer: the division rounds down.
LatencyFires(l, w) ==
    LET total    == Cardinality(Within(l, w))
        breaches == Cardinality({i \in Within(l, w) : l[i].breached})
    IN  total # 0 /\ (breaches * 100) \div total >= BreachRate

CountFires(l, w) == Cardinality(Within(l, w)) >= Threshold

Fires(l, w) == IF rule = "latency_threshold_breach" THEN LatencyFires(l, w)
                                                    ELSE CountFires(l, w)

OffHours(hour) == ~(hour >= start /\ hour < end)

-----------------------------------------------------------------------------
(* Evaluate, by a pipeline worker, and the cooldown that follows it *)

\* The region under cooldownMu.  What passes it is sent, unless the channel is full: that
\* touches nothing here, and is in DetectorEngine and ServiceSilence.
PassCooldown(s) ==
    IF s \in DOMAIN cooldowns /\ now - cooldowns[s] < Cooldown
      THEN UNCHANGED <<cooldowns, lastPassed>>
      ELSE /\ cooldowns' = Put(cooldowns, s, now)
           /\ lastPassed' = Put(lastPassed, s, now)

Answer(yes, s) == /\ answer' = IF yes THEN s ELSE None
                  /\ IF yes THEN PassCooldown(s) ELSE UNCHANGED <<cooldowns, lastPassed>>

Held(key) == IF key \in DOMAIN windows THEN windows[key] ELSE {}

\* Mutant: the window is looked up, or made, before the entry is looked at.
IgnoreLate(call) ==
    /\ call.key = None
    /\ Answer(FALSE, call.service)
    /\ windows' = Put(windows, call.service, Held(call.service))
    /\ UNCHANGED <<config, now, evictAt, log>>

\* The rule is not concerned with the entry.
Ignore(call) ==
    /\ call.key = None
    /\ Answer(FALSE, call.service)
    /\ UNCHANGED <<config, now, evictAt, windows, log>>

\* w.Add(entry.Timestamp), w.CountWithin or w.StatsWithin, and the comparison.
Count(call, time) ==
    /\ rule # "off_hours_access" /\ call.key # None /\ Len(log) < MaxEvents
    /\ log' = Append(log, [time |-> time, at |-> now, key |-> call.key,
                           breached |-> call.breached])
    /\ windows' = Put(windows, call.key, Held(call.key) \cup {Len(log) + 1})
    /\ Answer(Fires(log', windows'[call.key]), call.service)
    /\ UNCHANGED <<config, now, evictAt>>

CheckHours(call, utcHour) ==
    /\ rule = "off_hours_access" /\ call.key # None
    /\ Answer(OffHours((utcHour + zone) % 24), call.service)
    /\ UNCHANGED <<config, now, evictAt, windows, log>>

-----------------------------------------------------------------------------
(* evictLoop and time *)

\* Mutants: the cutoff is too late, and nothing is evicted.
EvictedEarly == [k \in DOMAIN windows |->
                   {i \in windows[k] : log[i].time > now - Window + 1}]
NotEvicted == windows

Evicted == [k \in DOMAIN windows |-> Within(log, windows[k])]

\* Reset of repeated_failure.go and auth_burst.go deletes the windows it has emptied.
Reset == windows' = IF rule \in Shrinking
                      THEN Only(Evicted, {k \in DOMAIN windows : Evicted[k] # {}})
                      ELSE Evicted

\* Mutant: a cooldown is removed when it is over half.
StaleEarly == {s \in DOMAIN cooldowns : now - cooldowns[s] > Cooldown \div 2}

Stale == {s \in DOMAIN cooldowns : now - cooldowns[s] > Cooldown * 2}

\* Mutant: the next tick is two intervals away.
EvictSeldom ==
    /\ now = evictAt
    /\ evictAt' = evictAt + EvictInterval * 2
    /\ Reset
    /\ cooldowns' = Only(cooldowns, DOMAIN cooldowns \ Stale)
    /\ UNCHANGED <<config, now, answer, log, lastPassed>>

Evict ==
    /\ now = evictAt
    /\ evictAt' = evictAt + EvictInterval
    /\ Reset
    /\ cooldowns' = Only(cooldowns, DOMAIN cooldowns \ Stale)
    /\ UNCHANGED <<config, now, answer, log, lastPassed>>

Tick ==
    /\ now < MaxTime /\ now < evictAt
    /\ now' = now + 1
    /\ UNCHANGED <<config, evictAt, windows, cooldowns, answer, log, lastPassed>>

Evaluate(call) == \/ Ignore(call)
                  \/ \E d \in Delays : Count(call, now + Ahead - d)
                  \/ \E h \in Hours : CheckHours(call, h)

Next == (\E call \in Calls[rule] : Evaluate(call)) \/ Evict \/ Tick

Spec == Init /\ [][Next]_vars

-----------------------------------------------------------------------------
(* Properties *)

TypeOK ==
    /\ rule \in Rules
    /\ start \in Nat /\ end \in Nat /\ zone \in Hours
    /\ now \in 0 .. MaxTime
    /\ evictAt \in now .. now + EvictInterval
    /\ \A k \in DOMAIN windows : windows[k] \subseteq DOMAIN log
    /\ DOMAIN cooldowns \subseteq Services
    /\ \A s \in DOMAIN cooldowns : cooldowns[s] \in 0 .. now
    /\ answer \in Services \cup {None}
    /\ Len(log) <= MaxEvents
    /\ \A i \in DOMAIN log : log[i].time \in Int /\ log[i].at \in 0 .. now
    /\ DOMAIN lastPassed \subseteq Services

\* What the rules promise, over everything that was ever recorded under a key: the
\* threshold is reached, or at least BreachRate percent of the requests were slow.
OfKey(key) == {i \in DOMAIN log : log[i].key = key /\ Recent(log[i])}
Promised(key) ==
    IF rule = "latency_threshold_breach"
      THEN /\ OfKey(key) # {}
           /\ Cardinality({i \in OfKey(key) : log[i].breached}) * 100
                >= BreachRate * Cardinality(OfKey(key))
      ELSE Cardinality(OfKey(key)) >= Threshold
PromisedForLatest == Promised(log[Len(log)].key)

\* Resets, deleted windows and late or early time stamps never change an answer, and
\* the integer percentage of latency.go:145 is as exact as a fraction.
AnswersAsIfNothingEvicted == [][log' # log => (answer' # None <=> PromisedForLatest')]_vars

\* What a window holds is no older than Window plus one eviction interval, or came in
\* since then; and the rules that delete the windows they empty keep none that is empty.
Old(e) == e.time <= now - Window - EvictInterval /\ e.at < now - EvictInterval
MemoryBounded ==
    /\ \A k \in DOMAIN windows : \A i \in windows[k] : ~Old(log[i])
    /\ rule \in Shrinking => \A k \in DOMAIN windows : windows[k] # {}

\* The other two keep a window, with its arrays, for each service that ever had an entry
\* they count, and for no other: their maps grow with the services, not with the entries,
\* but they shrink with nothing.  REQUIREMENTS.md:35 asks that "Window state is cleaned up
\* for inactive services"; of these rules' state only the events are.
WindowPerService ==
    rule \in {"error_rate_spike", "latency_threshold_breach"} =>
        DOMAIN windows = {log[i].key : i \in DOMAIN log}

\* engine.go:103 and 143: whichever rule fires, and whichever key it counts under
\* (auth_burst.go:105 counts by address and is suppressed by service), what passes the
\* cooldown is what AlertDedup lets through, for all that evictLoop forgets.
LatestPassed == [s \in Services |-> IF s \in DOMAIN lastPassed THEN lastPassed[s] ELSE -1]
Dedup == INSTANCE AlertDedup WITH Keys <- Services, Warmup <- 0, Never <- -1,
                                  last <- LatestPassed
ImplementsAlertDedup == Dedup!Spec
=============================================================================
