---------------------------- MODULE DetectorEngine ----------------------------
(***************************************************************************)
(* internal/detection/engine.go: the pipeline workers call Evaluate, the   *)
(* silence watcher wakes up on its ticker, the eviction loop on its own;   *)
(* all of them share the cooldowns map and the bounded anomaly channel,    *)
(* which the alert dispatcher reads.                                       *)
(* What a rule answers is left open: any detector may fire on any entry,   *)
(* and CheckSilence may report any services.  A region under cooldownMu is *)
(* one step; a thread that has left it and has still to send on the        *)
(* channel can be overtaken by every other.                                *)
(***************************************************************************)
EXTENDS Integers, Sequences, FiniteSets

CONSTANTS Workers,       \* the goroutines that call Evaluate
          Watcher,       \* the silenceWatcher goroutine
          Services,
          NumDetectors,  \* detectors besides the silence rule
          Cooldown,      \* cfg.CooldownDuration
          Warmup,        \* warmupUntil
          OutCap,        \* capacity of out; 1024 in the code
          MaxTime,       \* bound on the clock
          Never          \* the last alert of a key that had none

ASSUME EngineAssumption == /\ Watcher \notin Workers
                           /\ NumDetectors \in Nat
                           /\ Cooldown \in Nat \ {0}
                           /\ Warmup \in Nat
                           /\ OutCap \in Nat \ {0}
                           /\ MaxTime \in Nat
                           /\ Never \notin Nat

Threads   == Workers \cup {Watcher}
SilenceID == 0                      \* the rule id of the silence rule
Detectors == 1 .. NumDetectors
Keys      == (Detectors \cup {SilenceID}) \X Services
Times     == 0 .. MaxTime
NoAlert   == <<>>

VARIABLES now,        \* time.Now(); 0 when the engine was created
          cooldowns,  \* the map: a function on the keys it holds
          out,        \* the anomaly channel, oldest first
          evictStop,  \* whether this channel has been closed
          running,    \* which background goroutines are running
          pc,         \* per thread: "idle", "loop" or "send"
          service,    \* per worker: entry.Service
          next,       \* per worker: the detector it calls next
          silent,     \* what CheckSilence returned and is still unreported
          pending,    \* per thread: the anomaly it is about to send
          fires       \* history: when each key passed the cooldown check

vars == <<now, cooldowns, out, evictStop, running, pc, service, next, silent,
          pending, fires>>

Init ==
    /\ now = 0
    /\ cooldowns = [k \in {} |-> 0]
    /\ out = <<>>
    /\ evictStop = FALSE
    /\ running = {"evictLoop", "silenceWatcher"}
    /\ pc = [t \in Threads |-> "idle"]
    /\ service \in [Workers -> Services]
    /\ next = [w \in Workers |-> 1]
    /\ silent = {}
    /\ pending = [t \in Threads |-> NoAlert]
    /\ fires = [k \in Keys |-> <<>>]

-----------------------------------------------------------------------------
(* The region under cooldownMu, and the send that follows it *)

\* Mutant: the cooldown is one tick too short.
SuppressedTooBriefly(k) == k \in DOMAIN cooldowns /\ now - cooldowns[k] < Cooldown - 1

Suppressed(k) == k \in DOMAIN cooldowns /\ now - cooldowns[k] < Cooldown

\* Mutant: the alert is not entered in the map.
FireUnrecorded(t, k) ==
    /\ ~Suppressed(k)
    /\ fires' = [fires EXCEPT ![k] = Append(@, now)]
    /\ pending' = [pending EXCEPT ![t] = <<k, now>>]
    /\ pc' = [pc EXCEPT ![t] = "send"]
    /\ UNCHANGED cooldowns

\* Thread t is let through with an anomaly for key k and goes on to send it.
Fire(t, k) ==
    /\ ~Suppressed(k)
    /\ cooldowns' = [j \in DOMAIN cooldowns \cup {k} |->
                       IF j = k THEN now ELSE cooldowns[j]]
    /\ fires' = [fires EXCEPT ![k] = Append(@, now)]
    /\ pending' = [pending EXCEPT ![t] = <<k, now>>]
    /\ pc' = [pc EXCEPT ![t] = "send"]

\* Mutant: the send finds room in a full channel.
SendBeyondCapacity(t) ==
    /\ pc[t] = "send"
    /\ out' = Append(out, pending[t])
    /\ pending' = [pending EXCEPT ![t] = NoAlert]
    /\ pc' = [pc EXCEPT ![t] = "loop"]
    /\ UNCHANGED <<now, cooldowns, evictStop, running, service, silent, fires>>

\* The non-blocking send: with the channel full the anomaly is dropped.
SendOrDrop(t) ==
    /\ pc[t] = "send"
    /\ out' = IF Len(out) < OutCap THEN Append(out, pending[t]) ELSE out
    /\ pending' = [pending EXCEPT ![t] = NoAlert]
    /\ pc' = [pc EXCEPT ![t] = "loop"]
    /\ UNCHANGED <<now, cooldowns, evictStop, running, service, silent, fires>>

-----------------------------------------------------------------------------
(* Evaluate, by a pipeline worker *)

\* During warm-up Evaluate returns before any detector sees the entry.
Evaluate(w) ==
    /\ pc[w] = "idle" /\ now >= Warmup
    /\ \E s \in Services : service' = [service EXCEPT ![w] = s]
    /\ next' = [next EXCEPT ![w] = 1]
    /\ pc' = [pc EXCEPT ![w] = "loop"]
    /\ UNCHANGED <<now, cooldowns, out, evictStop, running, silent, pending,
                   fires>>

AtDetector(w) == pc[w] = "loop" /\ next[w] \in Detectors
DetectorKey(w) == <<next[w], service[w]>>

\* The detector does not fire, or its (rule, service) pair is cooling down.
Continue(w) ==
    /\ AtDetector(w)
    /\ next' = [next EXCEPT ![w] = @ + 1]
    /\ UNCHANGED <<now, cooldowns, out, evictStop, running, pc, service, silent,
                   pending, fires>>

Detect(w) ==
    /\ AtDetector(w)
    /\ Fire(w, DetectorKey(w))
    /\ UNCHANGED <<now, out, evictStop, running, service, next, silent>>

Send(w) == SendOrDrop(w) /\ next' = [next EXCEPT ![w] = @ + 1]

Return(w) ==
    /\ pc[w] = "loop" /\ next[w] > NumDetectors
    /\ pc' = [pc EXCEPT ![w] = "idle"]
    /\ UNCHANGED <<now, cooldowns, out, evictStop, running, service, next, silent,
                   pending, fires>>

-----------------------------------------------------------------------------
(* silenceWatcher *)

\* Mutant: the heartbeat does not know about warm-up.
CheckSilenceAlways ==
    /\ "silenceWatcher" \in running
    /\ pc[Watcher] = "idle"
    /\ \E S \in (SUBSET Services) \ {{}} : silent' = S
    /\ pc' = [pc EXCEPT ![Watcher] = "loop"]
    /\ UNCHANGED <<now, cooldowns, out, evictStop, running, service, next, pending,
                   fires>>

\* A tick outside warm-up: CheckSilence returns the services to report.
CheckSilence ==
    /\ "silenceWatcher" \in running
    /\ pc[Watcher] = "idle" /\ now >= Warmup
    /\ \E S \in (SUBSET Services) \ {{}} : silent' = S
    /\ pc' = [pc EXCEPT ![Watcher] = "loop"]
    /\ UNCHANGED <<now, cooldowns, out, evictStop, running, service, next, pending,
                   fires>>

ReportSilence(s) ==
    /\ pc[Watcher] = "loop" /\ s \in silent
    /\ silent' = silent \ {s}
    /\ \/ Fire(Watcher, <<SilenceID, s>>)
       \/ /\ Suppressed(<<SilenceID, s>>)
          /\ UNCHANGED <<cooldowns, pc, pending, fires>>
    /\ UNCHANGED <<now, out, evictStop, running, service, next>>

SendSilence == SendOrDrop(Watcher) /\ UNCHANGED next

EndCheck ==
    /\ pc[Watcher] = "loop" /\ silent = {}
    /\ pc' = [pc EXCEPT ![Watcher] = "idle"]
    /\ UNCHANGED <<now, cooldowns, out, evictStop, running, service, next, silent,
                   pending, fires>>

WatcherExit ==
    /\ "silenceWatcher" \in running /\ pc[Watcher] = "idle" /\ evictStop
    /\ running' = running \ {"silenceWatcher"}
    /\ UNCHANGED <<now, cooldowns, out, evictStop, pc, service, next, silent,
                   pending, fires>>

-----------------------------------------------------------------------------
(* evictLoop, Stop, the reader of the channel, and time *)

\* Mutant: entries are evicted while they still matter.
StaleTooEarly(k) == now - cooldowns[k] > Cooldown \div 2 - 1

Stale(k) == now - cooldowns[k] > Cooldown * 2

\* A tick: the Reset of each detector is the rules' own; the stale cooldowns go.
Evict ==
    /\ "evictLoop" \in running
    /\ cooldowns' = [k \in {j \in DOMAIN cooldowns : ~Stale(j)} |-> cooldowns[k]]
    /\ UNCHANGED <<now, out, evictStop, running, pc, service, next, silent, pending,
                   fires>>

EvictExit ==
    /\ "evictLoop" \in running /\ evictStop
    /\ running' = running \ {"evictLoop"}
    /\ UNCHANGED <<now, cooldowns, out, evictStop, pc, service, next, silent,
                   pending, fires>>

\* Called once, by the shutdown watcher; workers may still be evaluating.
Stop ==
    /\ ~evictStop
    /\ evictStop' = TRUE
    /\ UNCHANGED <<now, cooldowns, out, running, pc, service, next, silent,
                   pending, fires>>

Dispatch ==
    /\ out # <<>>
    /\ out' = Tail(out)
    /\ UNCHANGED <<now, cooldowns, evictStop, running, pc, service, next, silent,
                   pending, fires>>

Tick ==
    /\ now < MaxTime
    /\ now' = now + 1
    /\ UNCHANGED <<cooldowns, out, evictStop, running, pc, service, next, silent,
                   pending, fires>>

WorkerStep(w)  == Continue(w) \/ Detect(w) \/ Send(w) \/ Return(w)
WatcherStep    == (\E s \in Services : ReportSilence(s)) \/ SendSilence \/ EndCheck

Next == \/ \E w \in Workers : Evaluate(w) \/ WorkerStep(w)
        \/ CheckSilence \/ WatcherStep \/ WatcherExit
        \/ Evict \/ EvictExit \/ Stop \/ Dispatch \/ Tick

Spec == Init /\ [][Next]_vars

-----------------------------------------------------------------------------
(* Properties *)

Alerts == Keys \X Times

TypeOK ==
    /\ now \in Times
    /\ DOMAIN cooldowns \subseteq Keys
    /\ cooldowns \in [DOMAIN cooldowns -> Times]
    /\ out \in Seq(Alerts) /\ Len(out) <= OutCap
    /\ evictStop \in BOOLEAN
    /\ running \subseteq {"evictLoop", "silenceWatcher"}
    /\ pc \in [Threads -> {"idle", "loop", "send"}]
    /\ service \in [Workers -> Services]
    /\ next \in [Workers -> 1 .. (NumDetectors + 1)]
    /\ silent \subseteq Services
    /\ pending \in [Threads -> Alerts \cup {NoAlert}]
    /\ fires \in [Keys -> Seq(Times)]

\* DETECT-08: two alerts of one (rule, service) pair are let through at least
\* Cooldown apart, whichever threads they come from and whatever the eviction
\* loop has forgotten in between.
CooldownSpacing ==
    \A k \in Keys : \A m \in 1 .. (Len(fires[k]) - 1) :
        fires[k][m + 1] - fires[k][m] >= Cooldown

\* No rule fires during warm-up, the silence rule's heartbeat included.
WarmupSuppression ==
    \A k \in Keys : \A m \in 1 .. Len(fires[k]) : fires[k][m] >= Warmup

\* The map holds the latest alert of a key, or has forgotten one too old to matter.
CooldownsRemember ==
    \A k \in Keys :
        /\ k \in DOMAIN cooldowns =>
              fires[k] # <<>> /\ cooldowns[k] = fires[k][Len(fires[k])]
        /\ k \notin DOMAIN cooldowns /\ fires[k] # <<>> =>
              now - fires[k][Len(fires[k])] > Cooldown * 2

LastFire(k) == IF fires[k] = <<>> THEN Never ELSE fires[k][Len(fires[k])]
Abstract == INSTANCE AlertDedup WITH last <- [k \in Keys |-> LastFire(k)]

\* The engine, with its evictions, implements the cooldown it promises.
ImplementsAlertDedup == Abstract!Spec
=============================================================================
