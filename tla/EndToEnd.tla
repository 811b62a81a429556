------------------------------- MODULE EndToEnd -------------------------------
(***************************************************************************)
(* cmd/e2etest/main.go: the test driver that sends records to Kafka, polls *)
(* the REST API until they are indexed, and gives a verdict.  The API is   *)
(* SearchApi; Kafka's producer client and the pipeline between the topic   *)
(* and the index are external.  Timers (ticks, time-outs) may fire         *)
(* whenever they are set, which covers every speed.                        *)
(***************************************************************************)
EXTENDS SearchApi, SequencesExt

CONSTANTS Workers,      \* numWorkers goroutines, 1 .. n
          Files,        \* what --file may hold: sequences of time stamps or Absent
          Duration,     \* --duration
          MaxBuffered,  \* kgo.MaxBufferedRecords
          PassPercent, WarnPercent, SettledPercent,  \* 99, 95, 90
          MaxRecords    \* bound on the records generated

ASSUME EndToEndAssumption ==
    /\ Files \subseteq Seq(Int \cup {Absent})
    /\ Duration \in Nat /\ MaxBuffered \in Nat /\ MaxRecords \in Nat
    /\ PassPercent \in 0 .. 100

VARIABLES pc,           \* where main is
          file,         \* the file to replay; Absent: random generation
          start,        \* testStart, the time replayed stamps start at
          elapsed,      \* since produceStart
          worker,       \* "idle", "sending" or "over"
          sampler,      \* the sampling goroutine: "sampling" or "over"
          records,      \* what was given to Produce, with the fate its callback reports
          logs,         \* the documents of logs-*, in the order of the index
          interrupted,  \* ctx.Done
          totalSent, prevCount, stableRuns, finalLogs, verdict,
          flushed,      \* history: Flush returned nil
          lastPoll      \* history: how the latest poll went

drain == <<totalSent, prevCount, stableRuns, finalLogs, verdict, flushed, lastPoll>>
vars  == <<pc, file, start, elapsed, worker, sampler, records, logs, interrupted, drain>>

Running  == pc \notin {"done", "exit"}
FileMode == file # Absent

-----------------------------------------------------------------------------
(* Records *)

\* Of the generators two kinds of record; phases decide on their mix and rate.
normalLog == [service |-> "order-service", level |-> "info"]
errorLog  == [service |-> "payment-service", level |-> "error"]

\* loadLogsFromFile notes the earliest and the latest stamp.
Stamps == Range(file) \ {Absent}
minTS  == Min(Stamps)
maxTS  == Max(Stamps)

\* The stamps are spread over the time it takes to send the file, one line a second; a
\* line without one is dated by the parser.
rebaseTimestamp(stamp) ==
    IF stamp = Absent THEN Absent
    ELSE LET span  == maxTS - minTS
             ahead == IF span > 0 THEN (Len(file) * Unit * (stamp - minTS)) \div span ELSE 0
         IN  Second(start + ahead)

Replayed  == {[kind |-> normalLog, stamp |-> rebaseTimestamp(file[Len(records) + 1])]}
Generated == {[kind |-> k, stamp |-> Second(start + elapsed)] : k \in {normalLog, errorLog}}

Fated(fate) == {i \in DOMAIN records : records[i].fate = fate}
Indexed     == {d.id : d \in Range(logs)} \ {0}

\* Documents of earlier runs have id 0.
OldLogs(times) == {<<[id |-> 0, time |-> t, service |-> "order-service", level |-> "info"]>> :
                      t \in times}

Init ==
    /\ pc = "health"
    /\ file \in Files \cup {Absent}
    /\ start \in Unit .. 2 * Unit - 1
    /\ elapsed = 0
    /\ worker = [w \in Workers |-> IF file = Absent \/ w = 1 THEN "idle" ELSE "over"]
    /\ sampler = "sampling"
    /\ records = <<>>
    /\ logs \in {<<>>} \cup OldLogs({start - 1})
    /\ interrupted = FALSE
    /\ totalSent = 0 /\ prevCount = -1 /\ stableRuns = 0 /\ finalLogs = 0
    /\ verdict = "none" /\ flushed = FALSE /\ lastPoll = "none"

-----------------------------------------------------------------------------
(* The API and the client that asks it *)

logCount == handleListLogs(logs, [service |-> Absent, level |-> Absent, page |-> Absent,
                                  size |-> 1, from |-> Second(start), to |-> Absent]).total

\* The status is not looked at: an error that has a JSON body counts as no document.
apiTotal(answer) == IF answer = "error" THEN writeError(500).total ELSE logCount

healthCheck ==
    /\ pc = "health"
    /\ \E ok \in BOOLEAN : pc' = IF ok THEN "baseline" ELSE "exit"
    /\ UNCHANGED <<file, start, elapsed, worker, sampler, records, logs, interrupted, drain>>

\* The counts are only printed, an error ends the run.
Baseline ==
    /\ pc = "baseline"
    /\ \E ok \in BOOLEAN : pc' = IF ok THEN "produce" ELSE "exit"
    /\ UNCHANGED <<file, start, elapsed, worker, sampler, records, logs, interrupted, drain>>

-----------------------------------------------------------------------------
(* Produce: the workers, or the loop over the file, which is worker 1 *)

Replaying  == Len(records) < Len(file)
Generating == elapsed < Duration
Sending    == IF FileMode THEN Replaying ELSE Generating

WorkerTick(w) ==
    /\ pc = "produce" /\ worker[w] = "idle"
    /\ Sending
    /\ worker' = [worker EXCEPT ![w] = "sending"]
    /\ UNCHANGED <<pc, file, start, elapsed, sampler, records, logs, interrupted, drain>>

WorkerStop(w) ==
    /\ pc = "produce" /\ worker[w] = "idle"
    /\ ~Sending \/ interrupted
    /\ worker' = [worker EXCEPT ![w] = "over"]
    /\ UNCHANGED <<pc, file, start, elapsed, sampler, records, logs, interrupted, drain>>

\* Mutant: one record more.
RoomForOneMore == Cardinality(Fated("buffered")) <= MaxBuffered

Room == Cardinality(Fated("buffered")) < MaxBuffered

\* One Produce of a batch: it waits while the client's buffer is full, and gives up when
\* the context is cancelled meanwhile.
Produce(w) ==
    /\ worker[w] = "sending" /\ Running
    /\ Len(records) < IF FileMode THEN Len(file) ELSE MaxRecords
    /\ \E p \in IF FileMode THEN Replayed ELSE Generated, more \in BOOLEAN :
         /\ \/ /\ Room
               /\ records' = Append(records, [payload |-> p, fate |-> "buffered",
                                               written |-> FALSE])
            \/ /\ ~Room /\ interrupted
               /\ records' = Append(records, [payload |-> p, fate |-> "failed",
                                               written |-> FALSE])
         /\ worker' = [worker EXCEPT ![w] = IF more THEN "sending" ELSE "idle"]
    /\ UNCHANGED <<pc, file, start, elapsed, sampler, logs, interrupted, drain>>

\* A batch ends with the file, or with the bound of the model.
BatchEnd(w) ==
    /\ worker[w] = "sending" /\ Running
    /\ Len(records) = IF FileMode THEN Len(file) ELSE MaxRecords
    /\ worker' = [worker EXCEPT ![w] = "idle"]
    /\ UNCHANGED <<pc, file, start, elapsed, sampler, records, logs, interrupted, drain>>

\* The client settles a record; one it reports as failed may have been written all the same.
Settle(i) ==
    /\ Running /\ records[i].fate = "buffered"
    /\ \E fate \in {"acked", "failed"}, written \in BOOLEAN :
         /\ fate = "acked" => written
         /\ records' = [records EXCEPT ![i].fate = fate, ![i].written = written]
    /\ UNCHANGED <<pc, file, start, elapsed, worker, sampler, logs, interrupted, drain>>

\* The pipeline stores a record that is in the topic, and Elasticsearch shows it.
Index(i) ==
    /\ Running /\ records[i].written /\ i \notin Indexed
    /\ LET p == records[i].payload
       IN  logs' = Append(logs, [id |-> i, service |-> p.kind.service, level |-> p.kind.level,
                                 time |-> IF p.stamp = Absent THEN start ELSE p.stamp])
    /\ UNCHANGED <<pc, file, start, elapsed, worker, sampler, records, interrupted, drain>>

\* Mutant: the sampling goroutine does not look at the deadline.
SamplerForEver ==
    /\ sampler = "sampling" /\ pc \notin {"health", "baseline"} /\ Running
    /\ interrupted
    /\ sampler' = "over"
    /\ UNCHANGED <<pc, file, start, elapsed, worker, records, logs, interrupted, drain>>

\* Between its ticks the sampling goroutine learns that it is no longer wanted.  Samples
\* are only printed.
ReplaySampled   == interrupted \/ pc # "produce"
GenerateSampled == interrupted \/ ~Generating

SamplerDone ==
    /\ sampler = "sampling" /\ pc \notin {"health", "baseline"} /\ Running
    /\ IF FileMode THEN ReplaySampled ELSE GenerateSampled
    /\ sampler' = "over"
    /\ UNCHANGED <<pc, file, start, elapsed, worker, records, logs, interrupted, drain>>

Elapse ==
    /\ pc = "produce" /\ ~FileMode /\ Generating
    /\ elapsed' = elapsed + 1
    /\ UNCHANGED <<pc, file, start, worker, sampler, records, logs, interrupted, drain>>

Interrupt ==
    /\ Running /\ ~interrupted
    /\ interrupted' = TRUE
    /\ UNCHANGED <<pc, file, start, elapsed, worker, sampler, records, logs, drain>>

-----------------------------------------------------------------------------
(* Flush, drain and verdict *)

\* Mutant: the first worker to end takes main along.
BeginFlushEarly ==
    /\ pc = "produce" /\ \E w \in Workers : worker[w] = "over"
    /\ FileMode \/ sampler = "over"
    /\ pc' = "flush"
    /\ UNCHANGED <<file, start, elapsed, worker, sampler, records, logs, interrupted, drain>>

\* wg.Wait() and <-samplerDone; a replay does not wait for its sampler.
BeginFlush ==
    /\ pc = "produce" /\ \A w \in Workers : worker[w] = "over"
    /\ FileMode \/ sampler = "over"
    /\ pc' = "flush"
    /\ UNCHANGED <<file, start, elapsed, worker, sampler, records, logs, interrupted, drain>>

\* All callbacks have run, or the time-out: they go on running.
Flush ==
    /\ pc = "flush"
    /\ \E ok \in BOOLEAN : /\ ok <=> Fated("buffered") = {}
                           /\ flushed' = ok
    /\ pc' = "totals"
    /\ UNCHANGED <<file, start, elapsed, worker, sampler, records, logs, interrupted,
                   totalSent, prevCount, stableRuns, finalLogs, verdict, lastPoll>>

Totals ==
    /\ pc = "totals"
    /\ totalSent' = Cardinality(Fated("acked"))
    /\ pc' = IF totalSent' = 0 THEN "exit" ELSE "drain"
    /\ UNCHANGED <<file, start, elapsed, worker, sampler, records, logs, interrupted,
                   prevCount, stableRuns, finalLogs, verdict, flushed, lastPoll>>

Enough(cur, stable) == \/ cur >= totalSent
                       \/ stable >= 3 /\ 100 * cur >= SettledPercent * totalSent

\* One turn of the loop; stableRuns is compared with 3 and counted no further.
Poll(answer) ==
    /\ pc = "drain"
    /\ LET cur == apiTotal(answer)
       IN  /\ stableRuns' = IF cur = prevCount THEN Clamp(stableRuns + 1, 0, 3) ELSE 0
           /\ prevCount' = cur
           /\ IF Enough(cur, stableRuns')
                THEN finalLogs' = cur /\ pc' = "report"
                ELSE UNCHANGED <<finalLogs, pc>>
    /\ lastPoll' = IF answer = "error" THEN "failed"
                   ELSE IF Fated("acked") \subseteq Indexed THEN "complete" ELSE "partial"
    /\ UNCHANGED <<file, start, elapsed, worker, sampler, records, logs, interrupted,
                   totalSent, verdict, flushed>>

\* No connection: continue.
PollFails ==
    /\ pc = "drain"
    /\ lastPoll' = "failed"
    /\ UNCHANGED <<pc, file, start, elapsed, worker, sampler, records, logs, interrupted,
                   totalSent, prevCount, stableRuns, finalLogs, verdict, flushed>>

DrainTimeout ==
    /\ pc = "drain"
    /\ finalLogs' = prevCount
    /\ pc' = "report"
    /\ UNCHANGED <<file, start, elapsed, worker, sampler, records, logs, interrupted,
                   totalSent, prevCount, stableRuns, verdict, flushed, lastPoll>>

\* goto report leaves finalLogs at zero.
DrainInterrupted ==
    /\ pc = "drain" /\ interrupted
    /\ lastPoll' = "failed"
    /\ pc' = "report"
    /\ UNCHANGED <<file, start, elapsed, worker, sampler, records, logs, interrupted,
                   totalSent, prevCount, stableRuns, finalLogs, verdict, flushed>>

Verdict(indexed) == IF 100 * indexed >= PassPercent * totalSent THEN "PASS"
                    ELSE IF 100 * indexed >= WarnPercent * totalSent THEN "WARN" ELSE "FAIL"

Report ==
    /\ pc = "report"
    /\ verdict' = Verdict(finalLogs)
    /\ pc' = "done"
    /\ UNCHANGED <<file, start, elapsed, worker, sampler, records, logs, interrupted,
                   totalSent, prevCount, stableRuns, finalLogs, flushed, lastPoll>>

-----------------------------------------------------------------------------
Main == \/ healthCheck \/ Baseline \/ BeginFlush \/ Flush \/ Totals
        \/ \E answer \in {"ok", "error"} : Poll(answer)
        \/ PollFails \/ DrainTimeout \/ DrainInterrupted \/ Report

Worker(w) == WorkerTick(w) \/ WorkerStop(w) \/ Produce(w) \/ BatchEnd(w)

Next == \/ Main
        \/ \E w \in Workers : Worker(w)
        \/ \E i \in DOMAIN records : Settle(i) \/ Index(i)
        \/ SamplerDone \/ Elapse \/ Interrupt

Positions == 1 .. Max({MaxRecords} \cup {Len(f) : f \in Files})

\* Goroutines are scheduled, time passes and the deadline of the drain with it; the broker
\* answers, because kgo retries a record without end.  Index is not fair.
Fairness ==
    /\ WF_vars(healthCheck) /\ WF_vars(Baseline) /\ WF_vars(BeginFlush) /\ WF_vars(Flush)
    /\ WF_vars(Totals) /\ WF_vars(DrainTimeout) /\ WF_vars(Report)
    /\ \A w \in Workers : WF_vars(Worker(w))
    /\ \A i \in Positions : WF_vars(i \in DOMAIN records /\ Settle(i))
    /\ WF_vars(SamplerDone) /\ WF_vars(Elapse)

Spec == Init /\ [][Next]_vars /\ Fairness

-----------------------------------------------------------------------------
(* Properties *)

\* Type correctness; the client never buffers more than MaxBuffered records.
TypeOK ==
    /\ pc \in {"health", "baseline", "produce", "flush", "totals", "drain", "report",
               "done", "exit"}
    /\ elapsed \in 0 .. Duration
    /\ worker \in [Workers -> {"idle", "sending", "over"}]
    /\ sampler \in {"sampling", "over"}
    /\ \A i \in DOMAIN records : records[i].fate \in {"buffered", "acked", "failed"}
    /\ Cardinality(Fated("buffered")) <= MaxBuffered
    /\ Indexed \subseteq DOMAIN records
    /\ interrupted \in BOOLEAN /\ flushed \in BOOLEAN
    /\ totalSent \in 0 .. Len(records) /\ prevCount \in -1 .. Len(logs)
    /\ stableRuns \in 0 .. 3 /\ finalLogs \in -1 .. Len(logs)
    /\ verdict \in {"none", "PASS", "WARN", "FAIL"}
    /\ lastPoll \in {"none", "failed", "partial", "complete"}

\* The verdict tells the truth about the run (main.go:801).  After a flush that succeeded
\* PASS means that PassPercent of all records acknowledged are documents, those the
\* client took for failed included, give or take what an earlier run left in the second
\* the run began in.  And a poll that was answered when every acknowledged record was a
\* document ends in PASS, however the records were dated, clipped or replayed.
OfThatSecond == {d \in Range(logs) : d.id = 0 /\ d.time >= Second(start)}
VerdictRight ==
    /\ verdict = "PASS" /\ flushed =>
         100 * (Cardinality(Indexed) + Cardinality(OfThatSecond))
           >= PassPercent * Cardinality(Fated("acked"))
    /\ verdict # "none" /\ lastPoll = "complete" => verdict = "PASS"

\* When the run is over and the index at rest, whatever it holds: a reader that asks page
\* by page (logs.go:54, anomalies.go:18) for as many pages as the first answer's total
\* calls for gets every matching document once, in order, and finds each by its id, so
\* long as the pages end within MaxPage and Elasticsearch's result window.  (Every
\* document stands for an anomaly too, its level for the rule.)
Anomalies == [i \in DOMAIN logs |-> [id |-> logs[i].id, rule_id |-> logs[i].level,
                service |-> logs[i].service, severity |-> "high", detected_at |-> logs[i].time]]

Sizes      == {Absent, 0, MaxSize, MaxSize + 1}
Times      == {Absent, start}
LogQueries == [service : {Absent, "order-service"}, level : {Absent}, page : {1},
               size : Sizes, from : Times, to : Times]
AnomalyQueries == [type : {Absent, "error"}, service : {Absent}, severity : {Absent},
                   page : {1}, size : Sizes, from : {Absent}, to : {Absent}]

WalkedOnce(list(_, _), get(_, _), docs, matches(_, _), r) ==
    LET answer(p) == list(docs, [r EXCEPT !.page = p])
        matching  == At(docs, {i \in DOMAIN docs : matches(docs[i], r)})
        size      == SizeParam(r)
        pages     == 1 + (answer(1).total \div size)
    IN  pages <= MaxPage /\ pages * size <= ResultWindow =>
          /\ docs # <<>> => FlattenSeq([p \in 1 .. pages |-> answer(p).data]) = matching
          /\ \A d \in Range(matching) : get(docs, d.id).status = 200

PagesPartition == pc = "done" =>
    /\ \A r \in LogQueries :
         WalkedOnce(handleListLogs, handleGetLog, logs, LogMatches, r)
    /\ \A r \in AnomalyQueries :
         WalkedOnce(handleListAnomalies, handleGetAnomaly, Anomalies, AnomalyMatches, r)

\* The driver comes to an end, whatever of workers, sampler, full buffer, time-outs,
\* failing polls and an interrupt it has to wait for.
DriverEnds == <>(pc \in {"done", "exit"})
=============================================================================
