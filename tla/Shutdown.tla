------------------------------- MODULE Shutdown -------------------------------
(***************************************************************************)
(* cmd/server/wire.go: the goroutines runPipeline puts in its errgroup,    *)
(* the channels between them, and how they stop once gCtx is done (SIGTERM *)
(* or the failure of a server).  Kafka is a source of messages here        *)
(* (KafkaConsumer has the offsets) and a rule may fire on any entry        *)
(* (DetectorEngine has the cooldowns).                                     *)
(* External: esutil.BulkIndexer.  Add selects between ctx.Done and a send  *)
(* on its queue; Close closes the queue, so that a later send may panic,   *)
(* and waits for the flush of what was accepted, or for its context.       *)
(***************************************************************************)
EXTENDS Integers, Sequences, FiniteSets

CONSTANTS Workers,   \* the pipeline workers; 4 in the code
          MaxMsgs,   \* bound on the messages Kafka delivers
          RawCap,    \* capacity of consumer.out; 10000 in the code
          OutCap,    \* capacity of the anomaly channel; 1024 in the code
          HasAlertChannel \* wire.go passes nil; dispatcher_test.go passes a channel

ASSUME ShutdownAssumption ==
    /\ MaxMsgs \in Nat /\ RawCap \in Nat \ {0} /\ OutCap \in Nat \ {0}
    /\ HasAlertChannel \in BOOLEAN

Messages == 1 .. MaxMsgs
Indexers == {"log", "anomaly"}
Nothing  == 0

VARIABLES done,      \* gCtx is done
          expired,   \* shutdownCtx, 8 seconds, is done
          consumer,  \* consumer.Run: "run", "return" or "done"
          delivered, \* how many messages the consumer has sent on raw
          raw,       \* the channel of consumer.Messages(), closed by "done"
          worker,    \* per worker: "range", "index", "evaluate" or "done"
          entry,     \* per worker: the entry in hand
          out,       \* the anomaly channel, anomalies named by their entry
          dispatcher,\* "select", "index", "send" or "done"
          anomaly,   \* the anomaly the dispatcher has in hand
          taken,     \* history: the anomalies the dispatcher has received
          notified,  \* history: those the alert channel was called with
          servers,   \* the servers, API and metrics, still in ListenAndServe
          watcher,   \* what the shutdown watcher does next
          stopped,   \* engine.Stop was called
          closed,    \* the indexers whose queue is closed
          buffer,    \* per indexer: accepted and not yet flushed
          stored,    \* per indexer: written to Elasticsearch
          panicked   \* a send on a closed queue has ended the process

pipe  == <<consumer, delivered, raw>>
work  == <<worker, entry>>
disp  == <<dispatcher, anomaly, taken, notified>>
watch == <<expired, servers, watcher, stopped, closed>>
docs  == <<buffer, stored>>
vars  == <<done, pipe, work, out, disp, watch, docs, panicked>>

Init ==
    /\ done = FALSE /\ expired = FALSE
    /\ consumer = "run" /\ delivered = 0 /\ raw = <<>>
    /\ worker = [w \in Workers |-> "range"]
    /\ entry = [w \in Workers |-> Nothing]
    /\ out = <<>>
    /\ dispatcher = "select" /\ anomaly = Nothing
    /\ taken = {} /\ notified = {}
    /\ servers = {"api", "metrics"}
    /\ watcher = "wait" /\ stopped = FALSE
    /\ closed = {}
    /\ buffer = [x \in Indexers |-> {}] /\ stored = [x \in Indexers |-> {}]
    /\ panicked = FALSE

-----------------------------------------------------------------------------
(* esutil.BulkIndexer *)

Add(x, doc) ==
    \/ /\ x \notin closed
       /\ buffer' = [buffer EXCEPT ![x] = @ \cup {doc}]
       /\ UNCHANGED panicked
    \/ done /\ UNCHANGED <<buffer, panicked>>
    \/ x \in closed /\ panicked' = TRUE /\ UNCHANGED buffer

Flush(x) ==
    /\ buffer[x] # {}
    /\ stored' = [stored EXCEPT ![x] = @ \cup buffer[x]]
    /\ buffer' = [buffer EXCEPT ![x] = {}]
    /\ UNCHANGED <<done, pipe, work, out, disp, watch, panicked>>

-----------------------------------------------------------------------------
(* Consumer and workers *)

\* Mutant: the channel takes messages beyond its capacity.
DeliverBeyondCapacity ==
    /\ consumer = "run" /\ delivered < MaxMsgs
    /\ delivered' = delivered + 1
    /\ raw' = Append(raw, delivered')
    /\ UNCHANGED <<done, consumer, work, out, disp, watch, docs, panicked>>

\* Mutant: a default case gives a message up when the channel is full.
DeliverOrDrop ==
    /\ consumer = "run" /\ delivered < MaxMsgs
    /\ delivered' = delivered + 1
    /\ raw' = IF Len(raw) < RawCap THEN Append(raw, delivered') ELSE raw
    /\ UNCHANGED <<done, consumer, work, out, disp, watch, docs, panicked>>

\* A message enters the channel; the select may still choose this after gCtx is done.
Deliver ==
    /\ consumer = "run" /\ delivered < MaxMsgs /\ Len(raw) < RawCap
    /\ delivered' = delivered + 1
    /\ raw' = Append(raw, delivered')
    /\ UNCHANGED <<done, consumer, work, out, disp, watch, docs, panicked>>

StopPolling ==
    /\ consumer = "run" /\ done
    /\ consumer' = "return"
    /\ UNCHANGED <<done, delivered, raw, work, out, disp, watch, docs, panicked>>

\* client.Close, then close(c.out).
CloseRaw ==
    /\ consumer = "return"
    /\ consumer' = "done"
    /\ UNCHANGED <<done, delivered, raw, work, out, disp, watch, docs, panicked>>

Receive(w) ==
    /\ worker[w] = "range" /\ raw # <<>>
    /\ entry' = [entry EXCEPT ![w] = Head(raw)]
    /\ raw' = Tail(raw)
    /\ worker' = [worker EXCEPT ![w] = "index"]
    /\ UNCHANGED <<done, consumer, delivered, out, disp, watch, docs, panicked>>

EndRange(w) ==
    /\ worker[w] = "range" /\ raw = <<>> /\ consumer = "done"
    /\ worker' = [worker EXCEPT ![w] = "done"]
    /\ UNCHANGED <<done, pipe, entry, out, disp, watch, docs, panicked>>

IndexLog(w) ==
    /\ worker[w] = "index"
    /\ Add("log", entry[w])
    /\ worker' = [worker EXCEPT ![w] = "evaluate"]
    /\ UNCHANGED <<done, pipe, entry, out, disp, watch, stored>>

\* engine.Evaluate: no anomaly, or one that is dropped when the channel is full.
Evaluate(w) ==
    /\ worker[w] = "evaluate"
    /\ out' \in {out, IF Len(out) < OutCap THEN Append(out, entry[w]) ELSE out}
    /\ worker' = [worker EXCEPT ![w] = "range"]
    /\ entry' = [entry EXCEPT ![w] = Nothing]
    /\ UNCHANGED <<done, pipe, disp, watch, docs, panicked>>

-----------------------------------------------------------------------------
(* Dispatcher.Run *)

TakeAnomaly ==
    /\ dispatcher = "select" /\ out # <<>>
    /\ anomaly' = Head(out)
    /\ out' = Tail(out)
    /\ taken' = taken \cup {anomaly'}
    /\ dispatcher' = "index"
    /\ UNCHANGED <<done, pipe, work, watch, docs, notified, panicked>>

\* Mutant: an anomaly the store refuses is not sent either.
IndexAnomalyOrSkip ==
    /\ dispatcher = "index"
    /\ Add("anomaly", anomaly)
    /\ dispatcher' = IF HasAlertChannel /\ buffer' # buffer THEN "send" ELSE "select"
    /\ anomaly' = IF dispatcher' = "send" THEN anomaly ELSE Nothing
    /\ UNCHANGED <<done, pipe, work, out, watch, stored, taken, notified>>

\* An error of the store is only logged: the alert channel gets the anomaly all the same.
IndexAnomaly ==
    /\ dispatcher = "index"
    /\ Add("anomaly", anomaly)
    /\ dispatcher' = IF HasAlertChannel THEN "send" ELSE "select"
    /\ anomaly' = IF HasAlertChannel THEN anomaly ELSE Nothing
    /\ UNCHANGED <<done, pipe, work, out, watch, stored, taken, notified>>

\* Send may fail, which is logged.
SendAlert ==
    /\ dispatcher = "send"
    /\ notified' = notified \cup {anomaly}
    /\ anomaly' = Nothing
    /\ dispatcher' = "select"
    /\ UNCHANGED <<done, pipe, work, out, watch, docs, taken, panicked>>

EndDispatch ==
    /\ dispatcher = "select" /\ done
    /\ dispatcher' = "done"
    /\ UNCHANGED <<done, pipe, work, out, anomaly, taken, notified, watch, docs, panicked>>

-----------------------------------------------------------------------------
(* Servers, signal and shutdown watcher *)

\* SIGTERM cancels the root context.
Signal ==
    /\ ~done
    /\ done' = TRUE
    /\ UNCHANGED <<pipe, work, out, disp, watch, docs, panicked>>

\* ListenAndServe fails: errgroup cancels gCtx for everybody.
ServerFails(s) ==
    /\ s \in servers /\ watcher = "wait"
    /\ servers' = servers \ {s}
    /\ done' = TRUE
    /\ UNCHANGED <<pipe, work, out, disp, expired, watcher, stopped, closed, docs,
                   panicked>>

\* What the watcher calls, in this order.
After == [wait |-> "api", api |-> "metrics", metrics |-> "stop", stop |-> "close_log",
          log |-> "close_anomaly", anomaly |-> "done"]

WatcherWakes ==
    /\ watcher = "wait" /\ done
    /\ watcher' = After.wait
    /\ UNCHANGED <<done, pipe, work, out, disp, expired, servers, stopped, closed,
                   docs, panicked>>

\* Mutant: only the API server is shut down.
ShutdownApi(s) ==
    /\ watcher = s
    /\ servers' = servers \ {"api"}
    /\ watcher' = After[s]
    /\ UNCHANGED <<done, pipe, work, out, disp, expired, stopped, closed, docs,
                   panicked>>

\* Shutdown makes ListenAndServe return, and waits for requests or the deadline.
ShutdownServer(s) ==
    /\ watcher = s
    /\ servers' = servers \ {s}
    /\ watcher' = After[s]
    /\ UNCHANGED <<done, pipe, work, out, disp, expired, stopped, closed, docs,
                   panicked>>

StopEngine ==
    /\ watcher = "stop"
    /\ stopped' = TRUE
    /\ watcher' = After.stop
    /\ UNCHANGED <<done, pipe, work, out, disp, expired, servers, closed, docs,
                   panicked>>

CloseIndexer(x) ==
    /\ watcher = (IF x = "log" THEN "close_log" ELSE "close_anomaly")
    /\ closed' = closed \cup {x}
    /\ watcher' = x
    /\ UNCHANGED <<done, pipe, work, out, disp, expired, servers, stopped, docs,
                   panicked>>

\* Mutant: Close does not wait for the flush.
IndexerClosedEarly(x) ==
    /\ watcher = x
    /\ watcher' = After[x]
    /\ UNCHANGED <<done, pipe, work, out, disp, expired, servers, stopped, closed,
                   docs, panicked>>

\* Close returns.
IndexerClosed(x) ==
    /\ watcher = x
    /\ buffer[x] = {} \/ expired
    /\ watcher' = After[x]
    /\ UNCHANGED <<done, pipe, work, out, disp, expired, servers, stopped, closed,
                   docs, panicked>>

Expire ==
    /\ watcher \notin {"wait", "done"} /\ ~expired
    /\ expired' = TRUE
    /\ UNCHANGED <<done, pipe, work, out, disp, servers, watcher, stopped, closed,
                   docs, panicked>>

\* g.Wait returns when every goroutine of the group has.
Exited == /\ consumer = "done" /\ dispatcher = "done" /\ watcher = "done"
          /\ servers = {}
          /\ \A w \in Workers : worker[w] = "done"

ConsumerStep   == Deliver \/ StopPolling \/ CloseRaw
WorkerStep(w)  == Receive(w) \/ EndRange(w) \/ IndexLog(w) \/ Evaluate(w)
DispatcherStep == TakeAnomaly \/ IndexAnomaly \/ SendAlert
WatcherStep    == \/ WatcherWakes \/ StopEngine
                  \/ \E s \in {"api", "metrics"} : ShutdownServer(s)
                  \/ \E x \in Indexers : CloseIndexer(x) \/ IndexerClosed(x)

Next == /\ ~panicked /\ ~Exited
        /\ \/ ConsumerStep \/ DispatcherStep \/ EndDispatch \/ WatcherStep
           \/ \E w \in Workers : WorkerStep(w)
           \/ \E x \in Indexers : Flush(x)
           \/ \E s \in servers : ServerFails(s)
           \/ Signal \/ Expire

\* Every goroutine that can run does.  PollFetches returns once gCtx is done, and a
\* select that finds ctx.Done ready again and again takes it.
Fairness ==
    /\ WF_vars(Next /\ StopPolling) /\ WF_vars(Next /\ CloseRaw)
    /\ \A w \in Workers : WF_vars(Next /\ WorkerStep(w))
    /\ WF_vars(Next /\ DispatcherStep) /\ SF_vars(Next /\ EndDispatch)
    /\ WF_vars(Next /\ WatcherStep)
    /\ \A x \in Indexers : WF_vars(Next /\ Flush(x))

Spec     == Init /\ [][Next]_vars
FairSpec == Spec /\ Fairness

-----------------------------------------------------------------------------
(* Properties *)

SeqToSet(s) == {s[k] : k \in DOMAIN s}

TypeOK ==
    /\ delivered \in 0 .. MaxMsgs
    /\ raw \in Seq(Messages) /\ Len(raw) <= RawCap
    /\ entry \in [Workers -> Messages \cup {Nothing}]
    /\ out \in Seq(Messages) /\ Len(out) <= OutCap
    /\ anomaly \in Messages \cup {Nothing}
    /\ notified \subseteq taken /\ taken \subseteq Messages
    /\ closed \subseteq Indexers
    /\ buffer \in [Indexers -> SUBSET Messages]
    /\ stored \in [Indexers -> SUBSET Messages]
    /\ {done, expired, stopped, panicked} \subseteq BOOLEAN

\* Once the context is cancelled, by a signal or because one server could not listen,
\* the whole process ends: no goroutine waits for another that has already gone.
ShutdownCompletes == done ~> (Exited \/ panicked)

\* A shutdown within its deadline writes every document an indexer has accepted,
\* anomalies the dispatcher was still handing over included.
AcceptedIsStored ==
    Exited /\ ~expired => \A x \in Indexers : buffer[x] = {}

\* Before gCtx is done the pipeline loses no message, which is in the channel, with a
\* worker, or accepted by the log indexer; and no anomaly the dispatcher has received.
\* dispatcher.go:13 "Failure in one output does not prevent the other from receiving the
\* anomaly": whatever the store refuses, the alert channel is called with every anomaly.
NothingLostWhileRunning ==
    /\ ~done => /\ 1 .. delivered \subseteq
                     SeqToSet(raw) \cup {entry[w] : w \in Workers}
                       \cup buffer["log"] \cup stored["log"]
                /\ taken \subseteq {anomaly} \cup buffer["anomaly"] \cup stored["anomaly"]
    /\ HasAlertChannel => taken \subseteq {anomaly} \cup notified

\* INGEST-03 "drains in-flight messages before closing on SIGTERM": every message the
\* consumer has forwarded, and may commit, is accepted for indexing.
InFlightIsIndexed ==
    Exited => 1 .. delivered \subseteq buffer["log"] \cup stored["log"]
=============================================================================
