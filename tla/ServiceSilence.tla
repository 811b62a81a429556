---------------------------- MODULE ServiceSilence ----------------------------
(***************************************************************************)
(* internal/detection/service_silence.go, with the two goroutines of       *)
(* engine.go that drive it: silenceWatcher calls CheckSilence, puts what   *)
(* it reports through the cooldown and sends what passes if the anomaly    *)
(* channel has room; evictLoop calls Reset and expires the cooldowns.      *)
(* Workers call Evaluate at any moment.  The clock starts where warm-up    *)
(* ends, at any phase of the two tickers, and does not pass a tick that is *)
(* due: the goroutines run when their tickers fire.                        *)
(***************************************************************************)
EXTENDS DetectionConfig

CONSTANT MaxTime \* bound on the clock

VARIABLES now,
          lastSeen, seenCount, \* the maps of ServiceSilenceRule
          cooldowns,           \* the engine's, for this rule: by service
          checkAt, evictAt,    \* when the two tickers fire next
          reports,             \* returned by CheckSilence, not yet handled
          lastLog,             \* history: time of each service's latest log
          logs,                \* history: its logs since it was last reported
          reported,            \* history: services ever reported
          alerted,             \* history: services whose outage was alerted
          passed               \* history: each service's latest anomaly to pass the
                               \* cooldown, when and whether it was sent

rule    == <<lastSeen, seenCount>>
history == <<lastLog, logs, reported, alerted, passed>>
vars    == <<now, rule, cooldowns, checkAt, evictAt, reports, history>>

NoEntries == [s \in {} |-> 0]
Put(map, s, v)   == [x \in DOMAIN map \cup {s} |-> IF x = s THEN v ELSE map[x]]
Remove(map, gone) == [x \in DOMAIN map \ gone |-> map[x]]

Init ==
    /\ now = 0
    /\ lastSeen = NoEntries /\ seenCount = NoEntries /\ cooldowns = NoEntries
    /\ checkAt \in 1 .. CheckInterval /\ evictAt \in 1 .. EvictInterval
    /\ reports = {}
    /\ lastLog = NoEntries
    /\ logs = [s \in Services |-> 0]
    /\ reported = {} /\ alerted = {}
    /\ passed = NoEntries

\* The rule only asks whether a count has reached MinLogCount: counts stop there.
Count(map, s) == IF s \in DOMAIN map THEN map[s] ELSE 0
Bump(n) == IF n < MinLogCount THEN n + 1 ELSE n

\* Mutants: the count is consumed when tracking starts; only the first log counts.
EvaluateConsumes(s) ==
    /\ LET n == Bump(Count(seenCount, s)) IN
         IF n < MinLogCount
           THEN seenCount' = Put(seenCount, s, n) /\ UNCHANGED lastSeen
           ELSE /\ seenCount' = Remove(seenCount, {s})
                /\ lastSeen' = Put(lastSeen, s, now)
    /\ lastLog' = Put(lastLog, s, now)
    /\ logs' = [logs EXCEPT ![s] = Bump(@)]
    /\ alerted' = alerted \ {s}
    /\ UNCHANGED <<now, cooldowns, checkAt, evictAt, reports, reported, passed>>

EvaluateOnce(s) ==
    /\ seenCount' = Put(seenCount, s, Bump(Count(seenCount, s)))
    /\ lastSeen' = IF seenCount'[s] >= MinLogCount /\ s \notin DOMAIN lastSeen
                     THEN Put(lastSeen, s, now) ELSE lastSeen
    /\ lastLog' = Put(lastLog, s, now)
    /\ logs' = [logs EXCEPT ![s] = Bump(@)]
    /\ alerted' = alerted \ {s}
    /\ UNCHANGED <<now, cooldowns, checkAt, evictAt, reports, reported, passed>>

Evaluate(s) ==
    /\ seenCount' = Put(seenCount, s, Bump(Count(seenCount, s)))
    /\ lastSeen' = IF seenCount'[s] >= MinLogCount THEN Put(lastSeen, s, now)
                                                   ELSE lastSeen
    /\ lastLog' = Put(lastLog, s, now)
    /\ logs' = [logs EXCEPT ![s] = Bump(@)]
    /\ alerted' = alerted \ {s}
    /\ UNCHANGED <<now, cooldowns, checkAt, evictAt, reports, reported, passed>>

\* Mutant: the threshold is doubled.
SilentLate == {s \in DOMAIN lastSeen : now - lastSeen[s] > SilenceAfter * 2}

Silent == {s \in DOMAIN lastSeen : now - lastSeen[s] > SilenceAfter}

\* Mutant: a reported service stays tracked.
CheckSilenceKeeps ==
    /\ now = checkAt /\ reports = {}
    /\ checkAt' = checkAt + CheckInterval
    /\ reports' = Silent
    /\ logs' = [s \in Services |-> IF s \in Silent THEN 0 ELSE logs[s]]
    /\ reported' = reported \cup Silent
    /\ UNCHANGED <<now, lastSeen, seenCount, cooldowns, evictAt, lastLog, alerted,
                   passed>>

CheckSilence ==
    /\ now = checkAt /\ reports = {}
    /\ checkAt' = checkAt + CheckInterval
    /\ reports' = Silent
    /\ lastSeen' = Remove(lastSeen, Silent)
    /\ logs' = [s \in Services |-> IF s \in Silent THEN 0 ELSE logs[s]]
    /\ reported' = reported \cup Silent
    /\ UNCHANGED <<now, seenCount, cooldowns, evictAt, lastLog, alerted, passed>>

\* Mutant: the watcher cools down twice as long.
CoolingDownTwice(s) == s \in DOMAIN cooldowns /\ now - cooldowns[s] < Cooldown * 2

CoolingDown(s) == s \in DOMAIN cooldowns /\ now - cooldowns[s] < Cooldown

\* The rest of the watcher's loop body, for one reported service.  The send does not
\* wait: what meets a full channel is lost, and its cooldown stays.
Alert(s) ==
    /\ s \in reports
    /\ reports' = reports \ {s}
    /\ \/ CoolingDown(s) /\ UNCHANGED <<cooldowns, alerted, passed>>
       \/ /\ ~CoolingDown(s)
          /\ cooldowns' = Put(cooldowns, s, now)
          /\ \E sent \in BOOLEAN :
               /\ passed' = Put(passed, s, [at |-> now, sent |-> sent])
               /\ alerted' = IF sent /\ logs[s] = 0 THEN alerted \cup {s} ELSE alerted
    /\ UNCHANGED <<now, rule, checkAt, evictAt, lastLog, logs, reported>>

\* Mutant: Reset drops a service as soon as it counts as silent.
LongSilentSoon == {s \in DOMAIN lastSeen : now - lastSeen[s] > SilenceAfter}

LongSilent == {s \in DOMAIN lastSeen : now - lastSeen[s] > SilenceAfter * 3}

\* Mutant: cooldowns stay.
NotStale == {}

Stale == {s \in DOMAIN cooldowns : now - cooldowns[s] > Cooldown * 2}

\* evictLoop: Reset, then the cooldowns.
Evict ==
    /\ now = evictAt
    /\ evictAt' = evictAt + EvictInterval
    /\ lastSeen' = Remove(lastSeen, LongSilent)
    /\ seenCount' = Remove(seenCount, LongSilent)
    /\ cooldowns' = Remove(cooldowns, Stale)
    /\ UNCHANGED <<now, checkAt, reports, history>>

Tick ==
    /\ now < MaxTime /\ now < checkAt /\ now < evictAt /\ reports = {}
    /\ now' = now + 1
    /\ UNCHANGED <<rule, cooldowns, checkAt, evictAt, reports, history>>

Next == \/ \E s \in Services : Evaluate(s) \/ Alert(s)
        \/ CheckSilence \/ Evict \/ Tick

Spec == Init /\ [][Next]_vars

-----------------------------------------------------------------------------
(* Properties *)

SilenceTypeOK ==
    /\ now \in Nat
    /\ DOMAIN lastSeen \subseteq DOMAIN seenCount
    /\ DOMAIN seenCount \subseteq Services
    /\ DOMAIN cooldowns \subseteq Services
    /\ \A s \in DOMAIN seenCount : seenCount[s] \in 1 .. MinLogCount
    /\ \A s \in DOMAIN lastSeen : lastSeen[s] \in 0 .. now
    /\ \A s \in DOMAIN cooldowns : cooldowns[s] \in 0 .. now
    /\ checkAt \in now .. now + CheckInterval
    /\ evictAt \in now .. now + EvictInterval
    /\ reports \subseteq Services

\* A service that has logged MinLogCount times, since the start or since its latest
\* report, and then stops is reported no later than SilenceAfter plus one check interval
\* after its last log.  So much is promised if a check comes at least every two
\* thresholds (by default every 30 s and 5 min): else Reset, which forgets a service
\* after three thresholds, can be faster, and its silence is never reported.
SilenceFoundInTime ==
    CheckInterval <= 2 * SilenceAfter =>
        \A s \in DOMAIN lastLog :
            logs[s] = MinLogCount => now - lastLog[s] <= SilenceAfter + CheckInterval

\* No false alarm: a service that has logged within SilenceAfter is not reported.
ReportedOnlyIfSilent ==
    [][\A s \in reports' \ reports : now - lastLog[s] > SilenceAfter]_vars

\* One outage is reported once: between two reports the service has logged.
OneReportPerOutage ==
    [][\A s \in reports' \ reports : logs[s] > 0]_vars

\* An outage goes without an alert for two reasons only.  Less than Cooldown before it
\* was found, or as it was found, an anomaly of the service passed the cooldown: either
\* an earlier one, of which this would be the repeat, or its own, which met a full
\* channel.  (The earlier one may itself have been lost: its cooldown holds all the same.)
UnalertedOnlyAsRepeatOrLost ==
    \A s \in DOMAIN lastLog :
        /\ Count(seenCount, s) >= MinLogCount
        /\ now - lastLog[s] > SilenceAfter + CheckInterval
        /\ s \notin alerted
        => /\ s \in DOMAIN passed
           /\ passed[s].at + Cooldown > lastLog[s] + SilenceAfter
           /\ passed[s].at > lastLog[s] => ~passed[s].sent

\* evictLoop takes a cooldown out of the engine's map no later than one interval after
\* it has turned stale, whatever becomes of the service.
CooldownsForgotten ==
    \A s \in DOMAIN cooldowns : now - cooldowns[s] <= Cooldown * 2 + EvictInterval

\* service_silence.go:62 "it re-enters tracking once new logs arrive and exceed
\* MinLogCount again": a service that was reported is tracked only if it has logged
\* MinLogCount times since.
RetrackedAfterMinLogCount ==
    \A s \in reported : s \in DOMAIN lastSeen => logs[s] >= MinLogCount
=============================================================================
