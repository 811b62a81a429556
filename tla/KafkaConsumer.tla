---------------------------- MODULE KafkaConsumer ----------------------------
(***************************************************************************)
(* internal/kafka/consumer.go between the broker and the pipeline workers  *)
(* of cmd/server/wire.go: polled batches, the bounded channel, the marks   *)
(* and commits of offsets, where a group starts that has none, rebalances, *)
(* cancellation and crashes; and what                                      *)
(* pipeline.ProcessMessage and LogIndexer.IndexLog make of a record: a     *)
(* document in the daily index of its time stamp, under an id derived from *)
(* partition and offset.                                                   *)
(* External, as src/ uses it: the franz-go client (fetch position, marked  *)
(* and committed offsets) and the bulk indexer, which holds documents in   *)
(* memory until it flushes them.                                           *)
(***************************************************************************)
EXTENDS Integers, Sequences, FiniteSets

CONSTANTS Partitions,
          Workers,
          LogLen,         \* bound on the records of a partition
          InitialOffsets, \* what initial_offset may be set to
          Dated,          \* offsets of the records with a time stamp of their own
          MaxDay,         \* bound on the days that pass
          OutCap,         \* capacity of out; 10000 in the code
          MaxPoll,        \* most records of a partition in one fetch
          MaxCrashes,     \* bounds on what may go wrong
          MaxRebalances,
          MayCancel       \* whether SIGTERM may arrive

ASSUME ConsumerAssumption ==
    /\ Dated \subseteq Nat /\ MaxDay \in Nat
    /\ InitialOffsets \subseteq {"oldest", "newest"}
    /\ LogLen \in Nat /\ OutCap \in Nat \ {0} /\ MaxPoll \in Nat \ {0}
    /\ MaxCrashes \in Nat /\ MaxRebalances \in Nat /\ MayCancel \in BOOLEAN

Records == Partitions \X (0 .. LogLen - 1)
None    == <<>>
NoOffset == -1      \* nothing committed, or marked, yet
Days    == 0 .. MaxDay

VARIABLES initialOffset,
          produced,  \* broker: end of the log
          position,  \* client: next offset to fetch
          marked,    \* client: offset up to which records may be committed
          committed, \* broker: the group's offset
          pc,        \* Run: "poll", "each", "mark", "closing" or "closed"
          batch,     \* what EachRecord has still to visit
          out,       \* the channel
          hand,      \* per worker: the record it is processing
          buffer,    \* bulk indexer: documents in memory
          stored,    \* Elasticsearch: documents written
          today,     \* the day of time.Now(), in UTC
          ctxDone,   \* gCtx has been cancelled
          sent,      \* history: records ever sent on the channel
          skipped,   \* history: records the cancelled callback gave up
          passed,    \* history: records a start at the end of the log has passed over
          crashes, rebalances

broker  == <<initialOffset, produced>>
client  == <<position, marked, committed>>
workers == <<hand, buffer, stored, today>>
history == <<sent, skipped>>
faults  == <<broker, passed, crashes, rebalances>>
vars    == <<client, pc, batch, out, workers, ctxDone, history, faults>>

SeqToSet(s) == {s[k] : k \in DOMAIN s}
RecordsOf(documents) == {d[2] : d \in documents}
Below(offsets) == {r \in Records : r[2] < offsets[r[1]]}
InFlight == SeqToSet(batch) \cup SeqToSet(out) \cup {hand[w] : w \in Workers}

\* Mutant: a group without a committed offset starts at the end, whatever is configured.
StartAtEnd(p, offset) == IF offset # NoOffset THEN offset ELSE produced[p]

\* Where a partition is fetched from, given the offset the group has committed.
Start(p, offset) == IF offset # NoOffset THEN offset
                    ELSE IF initialOffset = "newest" THEN produced[p] ELSE 0

Init ==
    /\ initialOffset \in InitialOffsets
    /\ produced \in [Partitions -> 0 .. LogLen]
    /\ committed = [p \in Partitions |-> NoOffset] /\ marked = committed
    /\ position = [p \in Partitions |-> Start(p, NoOffset)]
    /\ passed = Below(position)
    /\ pc = "poll" /\ batch = <<>> /\ out = <<>>
    /\ hand = [w \in Workers |-> None]
    /\ buffer = {} /\ stored = {} /\ today = 0
    /\ ctxDone = FALSE
    /\ sent = {} /\ skipped = {}
    /\ crashes = 0 /\ rebalances = 0

-----------------------------------------------------------------------------
(* Consumer.Run *)

\* Mutant: polled records are marked at once, as plain auto-commit does.
PollMarks ==
    /\ pc = "poll" /\ ~ctxDone
    /\ \E p \in Partitions : \E n \in 1 .. MaxPoll :
         /\ position[p] + n <= produced[p]
         /\ batch' = [k \in 1 .. n |-> <<p, position[p] + k - 1>>]
         /\ position' = [position EXCEPT ![p] = @ + n]
         /\ marked' = [marked EXCEPT ![p] = position[p] + n]
    /\ pc' = "each"
    /\ UNCHANGED <<committed, out, workers, ctxDone, history, faults>>

\* PollFetches returns some records of a partition, in order.
Poll ==
    /\ pc = "poll" /\ ~ctxDone
    /\ \E p \in Partitions : \E n \in 1 .. MaxPoll :
         /\ position[p] + n <= produced[p]
         /\ batch' = [k \in 1 .. n |-> <<p, position[p] + k - 1>>]
         /\ position' = [position EXCEPT ![p] = @ + n]
    /\ pc' = "each"
    /\ UNCHANGED <<marked, committed, out, workers, ctxDone, history, faults>>

\* Mutant: the loop does not look at ctx and polls again.
PollAgain == pc = "poll" /\ ctxDone /\ UNCHANGED vars

\* ctx.Err() is set: Run returns, and its deferred calls begin.
PollCancelled ==
    /\ pc = "poll" /\ ctxDone
    /\ pc' = "closing"
    /\ UNCHANGED <<client, batch, out, workers, ctxDone, history, faults>>

\* Mutant: the channel takes records beyond its capacity.
SendBeyondCapacity ==
    /\ pc = "each" /\ batch # <<>>
    /\ out' = Append(out, Head(batch))
    /\ sent' = sent \cup {Head(batch)}
    /\ pc' = "mark"
    /\ UNCHANGED <<client, batch, workers, ctxDone, skipped, faults>>

Send ==
    /\ pc = "each" /\ batch # <<>> /\ Len(out) < OutCap
    /\ out' = Append(out, Head(batch))
    /\ sent' = sent \cup {Head(batch)}
    /\ pc' = "mark"
    /\ UNCHANGED <<client, batch, workers, ctxDone, skipped, faults>>

\* Mutant: the mark follows the record, backwards too.
MarkBack ==
    /\ pc = "mark"
    /\ marked' = [marked EXCEPT ![Head(batch)[1]] = Head(batch)[2] + 1]
    /\ batch' = Tail(batch)
    /\ pc' = "each"
    /\ UNCHANGED <<position, committed, out, workers, ctxDone, history, faults>>

\* MarkCommitRecords only ever moves a partition's mark forward.
Mark ==
    /\ pc = "mark"
    /\ LET p == Head(batch)[1]
           o == Head(batch)[2]
       IN  marked' = [marked EXCEPT ![p] = IF o + 1 > @ THEN o + 1 ELSE @]
    /\ batch' = Tail(batch)
    /\ pc' = "each"
    /\ UNCHANGED <<position, committed, out, workers, ctxDone, history, faults>>

\* Mutant: a default case gives the record up when the channel is full.
SkipWhenFull ==
    /\ pc = "each" /\ batch # <<>> /\ (ctxDone \/ Len(out) = OutCap)
    /\ batch' = Tail(batch)
    /\ skipped' = IF ctxDone THEN skipped \cup {Head(batch)} ELSE skipped
    /\ UNCHANGED <<client, pc, out, workers, ctxDone, sent, faults>>

\* The return in the callback leaves the callback: EachRecord goes on to the next
\* record, and with room in the channel select may choose either case.
Skip ==
    /\ pc = "each" /\ batch # <<>> /\ ctxDone
    /\ batch' = Tail(batch)
    /\ skipped' = skipped \cup {Head(batch)}
    /\ UNCHANGED <<client, pc, out, workers, ctxDone, sent, faults>>

EndEach ==
    /\ pc = "each" /\ batch = <<>>
    /\ pc' = "poll"
    /\ UNCHANGED <<client, batch, out, workers, ctxDone, history, faults>>

\* The deferred calls: client.Close leaves the group, which runs onRevoked and
\* commits what is marked unless the commit fails; then the channel is closed.
Close ==
    /\ pc = "closing"
    /\ committed' \in {committed, marked}
    /\ pc' = "closed"
    /\ UNCHANGED <<position, marked, batch, out, workers, ctxDone, history, faults>>

-----------------------------------------------------------------------------
(* The client's own goroutines, the workers, the bulk indexer *)

\* Somebody logs.
Arrive(p) ==
    /\ produced[p] < LogLen
    /\ produced' = [produced EXCEPT ![p] = @ + 1]
    /\ UNCHANGED <<client, pc, batch, out, workers, ctxDone, history, initialOffset,
                   passed, crashes, rebalances>>

AutoCommit ==
    /\ pc # "closed"
    /\ committed' = marked
    /\ UNCHANGED <<position, marked, pc, batch, out, workers, ctxDone, history, faults>>

\* onRevoked commits the marks, or fails to; the partition is then fetched again
\* from what is committed.  The batch in hand is not recalled.
Rebalance(p) ==
    /\ pc # "closed" /\ rebalances < MaxRebalances
    /\ rebalances' = rebalances + 1
    /\ committed' \in {committed, [committed EXCEPT ![p] = marked[p]]}
    /\ position' = [position EXCEPT ![p] = Start(p, committed'[p])]
    /\ marked' = [marked EXCEPT ![p] = committed'[p]]
    /\ passed' = passed \cup
                   {r \in Below(position') \ (InFlight \cup RecordsOf(buffer \cup stored)) :
                      r[1] = p /\ committed'[p] = NoOffset}
    /\ UNCHANGED <<pc, batch, out, workers, ctxDone, history, broker, crashes>>

\* Mutant: workers stop reading when the context is cancelled.
TakeUntilDone(w) ==
    /\ hand[w] = None /\ out # <<>> /\ ~ctxDone
    /\ hand' = [hand EXCEPT ![w] = Head(out)]
    /\ out' = Tail(out)
    /\ UNCHANGED <<client, pc, batch, buffer, stored, today, ctxDone, history, faults>>

Take(w) ==
    /\ hand[w] = None /\ out # <<>>
    /\ hand' = [hand EXCEPT ![w] = Head(out)]
    /\ out' = Tail(out)
    /\ UNCHANGED <<client, pc, batch, buffer, stored, today, ctxDone, history, faults>>

\* Mutant: the index of the day the record is processed.
IndexOfToday(r) == today

\* The day of entry.Timestamp.  Parse takes the record's own time stamp, here of the
\* first day; a record without one, or that is no JSON object, gets time.Now().
IndexDay(r) == IF r[2] \in Dated THEN 0 ELSE today

\* A document is its index and its id; the id is the hash of partition and offset.
Document(r) == <<IndexDay(r), r>>

\* Mutant: an entry may be refused at any time, and is not tried again.
ProcessOrDrop(w) ==
    /\ hand[w] # None
    /\ hand' = [hand EXCEPT ![w] = None]
    /\ buffer' \in {buffer, buffer \cup {Document(hand[w])}}
    /\ UNCHANGED <<client, pc, batch, out, stored, today, ctxDone, history, faults>>

\* IndexLog hands the entry to the bulk indexer; once ctx is done Add may refuse it
\* instead, which the worker only logs.
Process(w) ==
    /\ hand[w] # None
    /\ hand' = [hand EXCEPT ![w] = None]
    /\ \/ buffer' = buffer \cup {Document(hand[w])}
       \/ ctxDone /\ UNCHANGED buffer
    /\ UNCHANGED <<client, pc, batch, out, stored, today, ctxDone, history, faults>>

Flush ==
    /\ buffer # {}
    /\ stored' = stored \cup buffer
    /\ buffer' = {}
    /\ UNCHANGED <<client, pc, batch, out, hand, today, ctxDone, history, faults>>

\* Midnight, UTC.
NextDay ==
    /\ today < MaxDay
    /\ today' = today + 1
    /\ UNCHANGED <<client, pc, batch, out, hand, buffer, stored, ctxDone, history,
                   faults>>

Cancel ==
    /\ MayCancel /\ ~ctxDone
    /\ ctxDone' = TRUE
    /\ UNCHANGED <<client, pc, batch, out, workers, history, faults>>

\* The process dies and a new one takes over from the committed offsets.
Crash ==
    /\ crashes < MaxCrashes
    /\ crashes' = crashes + 1
    /\ position' = [p \in Partitions |-> Start(p, committed[p])]
    /\ marked' = committed
    /\ passed' = passed \cup {r \in Below(position') \ RecordsOf(stored) :
                                 committed[r[1]] = NoOffset}
    /\ pc' = "poll" /\ batch' = <<>> /\ out' = <<>>
    /\ hand' = [w \in Workers |-> None] /\ buffer' = {}
    /\ ctxDone' = FALSE
    /\ UNCHANGED <<committed, stored, today, history, broker, rebalances>>

RunStep == Poll \/ PollCancelled \/ Send \/ Mark \/ Skip \/ EndEach \/ Close

Next == \/ RunStep \/ AutoCommit \/ Flush \/ NextDay \/ Cancel \/ Crash
        \/ \E p \in Partitions : Rebalance(p) \/ Arrive(p)
        \/ \E w \in Workers : Take(w) \/ Process(w)

\* The goroutines run, the indexer's flush ticker fires.
Fairness == /\ WF_vars(RunStep) /\ WF_vars(Flush)
            /\ \A w \in Workers : WF_vars(Take(w) \/ Process(w))

Spec     == Init /\ [][Next]_vars
FairSpec == Spec /\ Fairness

-----------------------------------------------------------------------------
(* Properties *)

Offsets == [Partitions -> 0 .. LogLen]
Commits == [Partitions -> {NoOffset} \cup 0 .. LogLen]

TypeOK ==
    /\ initialOffset \in InitialOffsets /\ produced \in Offsets
    /\ position \in Offsets /\ marked \in Commits /\ committed \in Commits
    /\ passed \subseteq Records
    /\ pc \in {"poll", "each", "mark", "closing", "closed"}
    /\ batch \in Seq(Records) /\ Len(batch) <= MaxPoll
    /\ pc = "mark" => batch # <<>>
    /\ pc \in {"poll", "closing", "closed"} => batch = <<>>
    /\ out \in Seq(Records) /\ Len(out) <= OutCap
    /\ hand \in [Workers -> Records \cup {None}]
    /\ buffer \cup stored \subseteq Days \X Records
    /\ today \in Days
    /\ ctxDone \in BOOLEAN
    /\ sent \subseteq Records /\ skipped \subseteq Records
    /\ crashes \in 0 .. MaxCrashes /\ rebalances \in 0 .. MaxRebalances

\* A crash or a rebalance makes the group resume at or below what has been sent;
\* the broker's offset never goes back, so no committed record is read twice.
CommittedNeverRewinds ==
    [][\A p \in Partitions : committed'[p] >= committed[p]]_vars

\* consumer.go:62 "Offsets are marked for commit only after a record is successfully
\* sent to the channel", with its one exception: below the committed offset, through
\* crashes and rebalances, there are only records that were sent and records that the
\* callback skipped on cancellation before it sent a later one, and those a start at
\* the end of the log has passed over.
MarkedWasSent ==
    Below(marked) \cup Below(committed) \subseteq sent \cup skipped \cup passed

\* Without crash and cancellation a record the client has moved past is still on its
\* way or stored: back-pressure of the full channel delays records, it loses none.  Only
\* initial_offset newest, which is read again as long as nothing is committed, makes
\* the group start above a record.
NothingSkipped ==
    /\ crashes = 0 /\ ~ctxDone =>
         Below(position) \subseteq InFlight \cup RecordsOf(buffer \cup stored) \cup passed
    /\ passed # {} => initialOffset = "newest"

\* log_indexer.go:52 "The document ID is sha256(partition:offset), ensuring idempotent
\* reprocessing", as far as that goes: however often a record is processed there is one
\* document of it, except of a record without a time stamp that a crash or a rebalance
\* made the group read again on another day, which is then in two indices.
ReprocessingIsIdempotent ==
    \A d, e \in stored :
        d # e /\ d[2] = e[2] => d[2][2] \notin Dated /\ crashes + rebalances > 0

\* INGEST-01, at least once: every record the topic gets reaches Elasticsearch, except
\* those a crash has overtaken, committed and still in the memory of the old process,
\* those a cancellation comes before, and those below the end from which a group
\* starts that has not committed: what it had before the first start, and what arrived
\* until a crash or a rebalance that came before the first commit.
EveryRecordStored ==
    \A r \in Records :
        r \in Below(produced) ~>
            \/ r \in RecordsOf(stored) \cup passed
            \/ ctxDone
            \/ crashes > 0 /\ r \in Below(committed)

\* SIGTERM ends Run, whatever is left of the batch and whatever the channel holds,
\* unless a crash comes first.
CancelEndsRun == ctxDone ~> (pc = "closed" \/ ~ctxDone)

\* INGEST-03: once the channel is closed the workers empty it and finish what they
\* hold, though not every record they hold is still indexed.
ClosedChannelDrains ==
    (pc = "closed") ~> (out = <<>> /\ \A w \in Workers : hand[w] = None)

\* INGEST-02: "Consumer commits offsets only after successful downstream processing
\* (no silent data loss on crash)": a committed record is stored, or still held.
NoSilentLoss == Below(committed) \subseteq InFlight \cup RecordsOf(buffer \cup stored)
=============================================================================
