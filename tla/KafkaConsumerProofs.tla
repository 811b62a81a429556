------------------------- MODULE KafkaConsumerProofs -------------------------
(***************************************************************************)
(* Proofs about KafkaConsumer, for any partitions, workers, capacities and *)
(* numbers of crashes and rebalances: types, what is committed, what is    *)
(* not skipped, and which records become more than one document.           *)
(***************************************************************************)
EXTENDS KafkaConsumer, FiniteSetTheorems, TLAPS

-----------------------------------------------------------------------------
(* The inductive invariant *)

Known == sent \cup skipped \cup passed
Docs  == buffer \cup stored
Hands == {hand[w] : w \in Workers} \ {None}

\* Nothing is committed that is not marked.
Ordered == \A p \in Partitions : committed[p] <= marked[p]

\* What is on its way, or a document, was sent; so was the record to be marked.
Traced ==
    /\ SeqToSet(out) \cup Hands \cup RecordsOf(Docs) \subseteq sent
    /\ pc = "mark" => batch[1] \in sent

\* The client has moved past nothing that is neither known nor in the batch,
Reached == Below(position) \subseteq Known \cup SeqToSet(batch)

\* and a record of the batch follows all those before it in its partition.
Ahead ==
    \A k \in 1 .. Len(batch) : \A r \in Records :
        r[1] = batch[k][1] /\ r[2] < batch[k][2] =>
            r \in Known \/ \E j \in 1 .. k - 1 : batch[j] = r

\* Without crash and cancellation nothing that was sent is lost.
Kept ==
    crashes = 0 /\ ~ctxDone =>
        skipped = {} /\ sent \subseteq SeqToSet(out) \cup Hands \cup RecordsOf(Docs)

PassedIfNewest == passed # {} => initialOffset = "newest"

DatedOnDay0 == \A d \in Docs : d[2][2] \in Dated => d[1] = 0

\* Without crash and rebalance every record takes its way once.
Once ==
    crashes = 0 /\ rebalances = 0 =>
        /\ sent \cup SeqToSet(batch) \subseteq Below(position)
        /\ \A j, k \in 1 .. Len(batch) : j < k => batch[j] # batch[k]
        /\ \A k \in 1 .. Len(batch) : batch[k] \in sent => k = 1 /\ pc = "mark"
        /\ \A j, k \in 1 .. Len(out) : j # k => out[j] # out[k]
        /\ Hands \cap SeqToSet(out) = {}
        /\ \A v, w \in Workers : v # w /\ hand[v] = hand[w] => hand[v] = None
        /\ RecordsOf(Docs) \cap (SeqToSet(out) \cup Hands) = {}
        /\ \A d, e \in Docs : d[2] = e[2] => d = e

IInv == /\ TypeOK /\ Ordered /\ Traced /\ Reached /\ Ahead /\ Kept
        /\ PassedIfNewest /\ DatedOnDay0 /\ Once /\ MarkedWasSent

-----------------------------------------------------------------------------
(* Records and sequences of them *)

LEMMA RecordIs ==
    /\ \A r \in Records : r = <<r[1], r[2]>> /\ r[1] \in Partitions /\ r[2] \in 0 .. LogLen - 1
    /\ \A p \in Partitions, o \in 0 .. LogLen - 1 :
         <<p, o>> \in Records /\ <<p, o>>[1] = p /\ <<p, o>>[2] = o
    /\ None \notin Records
BY DEF Records, None

LEMMA TailIs ==
    ASSUME NEW s \in Seq(Records), s # <<>>
    PROVE  /\ Len(s) >= 1 /\ Head(s) = s[1] /\ s[1] \in Records
           /\ Tail(s) \in Seq(Records) /\ Len(Tail(s)) = Len(s) - 1
           /\ \A k \in 1 .. Len(s) - 1 : Tail(s)[k] = s[k + 1]
OBVIOUS

LEMMA AppendIs ==
    ASSUME NEW s \in Seq(Records), NEW r \in Records
    PROVE  /\ Append(s, r) \in Seq(Records) /\ Len(Append(s, r)) = Len(s) + 1
           /\ \A k \in 1 .. Len(s) : Append(s, r)[k] = s[k]
           /\ Append(s, r)[Len(s) + 1] = r
OBVIOUS

LEMMA SetIs ==
    ASSUME NEW s \in Seq(Records)
    PROVE  SeqToSet(s) = {s[k] : k \in 1 .. Len(s)} /\ SeqToSet(s) \subseteq Records
BY DEF SeqToSet

LEMMA SetOfTail ==
    ASSUME NEW s \in Seq(Records), s # <<>>
    PROVE  SeqToSet(s) = {s[1]} \cup SeqToSet(Tail(s))
<1>1. SeqToSet(s) = {s[k] : k \in 1 .. Len(s)}
  BY SetIs
<1>2. SeqToSet(Tail(s)) = {s[k] : k \in 2 .. Len(s)}
  <2>1. SeqToSet(Tail(s)) = {Tail(s)[k] : k \in 1 .. Len(s) - 1}
    BY TailIs, SetIs
  <2>2. \A x \in SeqToSet(Tail(s)) : x \in {s[k] : k \in 2 .. Len(s)}
    BY <2>1, TailIs
  <2>3. \A k \in 2 .. Len(s) : s[k] = Tail(s)[k - 1] /\ k - 1 \in 1 .. Len(s) - 1
    BY TailIs
  <2>4. QED
    BY <2>1, <2>2, <2>3
<1>3. QED
  BY <1>1, <1>2, TailIs

LEMMA SetOfAppend ==
    ASSUME NEW s \in Seq(Records), NEW r \in Records
    PROVE  SeqToSet(Append(s, r)) = SeqToSet(s) \cup {r}
<1>1. SeqToSet(s) = {s[k] : k \in 1 .. Len(s)}
  BY SetIs
<1> DEFINE t == Append(s, r)
<1>2. /\ Len(s) \in Nat /\ t \in Seq(Records) /\ Len(t) = Len(s) + 1
      /\ t[Len(s) + 1] = r /\ \A k \in 1 .. Len(s) : t[k] = s[k]
  BY AppendIs
<1> HIDE DEF t
<1>3. SeqToSet(t) = {t[k] : k \in 1 .. Len(s) + 1}
  BY <1>2, SetIs
<1>4. {t[k] : k \in 1 .. Len(s) + 1} = {t[k] : k \in 1 .. Len(s)} \cup {t[Len(s) + 1]}
  BY <1>2
<1>5. {t[k] : k \in 1 .. Len(s)} = {s[k] : k \in 1 .. Len(s)}
  BY <1>2
<1>6. QED
  BY <1>1, <1>2, <1>3, <1>4, <1>5 DEF t

LEMMA EmptyIs ==
    SeqToSet(<<>>) = {} /\ <<>> \in Seq(Records) /\ Len(<<>>) = 0
BY DEF SeqToSet

\* The offset a partition starts from is that of a record, or the end of the log.
LEMMA StartIs ==
    ASSUME NEW p \in Partitions, produced \in Offsets,
           NEW offset \in {NoOffset} \cup 0 .. LogLen
    PROVE  Start(p, offset) \in 0 .. LogLen
BY ConsumerAssumption DEF Start, Offsets, NoOffset

-----------------------------------------------------------------------------
(* Types *)

LEMMA InitTypes == Init => TypeOK
<1> SUFFICES ASSUME Init PROVE TypeOK
  OBVIOUS
<1> USE ConsumerAssumption
<1>1. produced \in Offsets /\ committed \in Commits /\ marked \in Commits
  BY DEF Init, Offsets, Commits
<1>2. position \in Offsets
  BY <1>1, StartIs DEF Init, Offsets, NoOffset
<1>3. passed \subseteq Records /\ pc = "poll"
  BY DEF Init, Below
<1>4. /\ batch \in Seq(Records) /\ Len(batch) = 0 /\ batch = <<>>
      /\ out \in Seq(Records) /\ Len(out) = 0
  BY EmptyIs DEF Init
<1>5. hand \in [Workers -> Records \cup {None}]
  BY DEF Init
<1>6. buffer \cup stored \subseteq Days \X Records /\ today \in Days
  BY DEF Init, Days
<1>7. /\ initialOffset \in InitialOffsets
      /\ sent \subseteq Records /\ skipped \subseteq Records
      /\ crashes \in 0 .. MaxCrashes /\ rebalances \in 0 .. MaxRebalances
  BY DEF Init
<1>8. ctxDone \in BOOLEAN
  BY DEF Init
<1>9. QED
  BY <1>1, <1>2, <1>3, <1>4, <1>5, <1>6, <1>7, <1>8 DEF TypeOK

LEMMA StepTypes == TypeOK /\ [Next]_vars => TypeOK'
<1> SUFFICES ASSUME TypeOK, [Next]_vars PROVE TypeOK'
  OBVIOUS
<1> USE ConsumerAssumption
<1>1. CASE Poll
  <2>1. PICK p \in Partitions, n \in 1 .. MaxPoll :
            /\ position[p] + n <= produced[p]
            /\ batch' = [k \in 1 .. n |-> <<p, position[p] + k - 1>>]
            /\ position' = [position EXCEPT ![p] = @ + n]
    BY <1>1 DEF Poll
  <2>2. position' \in Offsets
    BY <2>1 DEF TypeOK, Offsets
  <2>3. \A k \in 1 .. n : <<p, position[p] + k - 1>> \in Records
    <3>1. \A k \in 1 .. n : position[p] + k - 1 \in 0 .. LogLen - 1
      BY <2>1 DEF TypeOK, Offsets
    <3>2. QED
      BY <3>1, RecordIs
  <2>4. batch' \in Seq(Records) /\ Len(batch') = n
    BY <2>1, <2>3
  <2>5. QED
    BY <1>1, <2>2, <2>4
    DEF Poll, TypeOK, workers, history, faults, broker
<1>2. CASE PollCancelled \/ EndEach
  BY <1>2 DEF PollCancelled, EndEach, TypeOK, client, workers, history, faults, broker
<1>3. CASE Send
  <2>1. batch[1] \in Records /\ Head(batch) = batch[1]
    BY <1>3, TailIs DEF Send, TypeOK
  <2>2. out' \in Seq(Records) /\ Len(out') = Len(out) + 1
    BY <1>3, <2>1, AppendIs DEF Send, TypeOK
  <2>3. QED
    BY <1>3, <2>1, <2>2 DEF Send, TypeOK, client, workers, history, faults, broker
<1>4. CASE Mark
  <2>1. batch[1] \in Records /\ Head(batch) = batch[1]
        /\ batch' \in Seq(Records) /\ Len(batch') = Len(batch) - 1
    BY <1>4, TailIs DEF Mark, TypeOK
  <2>2. batch[1][1] \in Partitions /\ batch[1][2] + 1 \in 0 .. LogLen
    BY <2>1, RecordIs
  <2>3. marked' \in Commits
    BY <1>4, <2>1, <2>2 DEF Mark, TypeOK, Commits, NoOffset
  <2>4. QED
    BY <1>4, <2>1, <2>3 DEF Mark, TypeOK, workers, history, faults, broker
<1>5. CASE Skip
  <2>1. batch[1] \in Records /\ Head(batch) = batch[1]
        /\ batch' \in Seq(Records) /\ Len(batch') = Len(batch) - 1
    BY <1>5, TailIs DEF Skip, TypeOK
  <2>2. QED
    BY <1>5, <2>1 DEF Skip, TypeOK, client, workers, history, faults, broker
<1>6. CASE Close \/ AutoCommit
  BY <1>6 DEF Close, AutoCommit, TypeOK, workers, history, faults, broker
<1>7. CASE Flush \/ NextDay \/ Cancel
  <2>1. CASE Flush
    BY <2>1 DEF Flush, TypeOK, client, history, faults, broker
  <2>2. CASE NextDay
    BY <2>2 DEF NextDay, TypeOK, Days, client, history, faults, broker
  <2>3. CASE Cancel
    BY <2>3 DEF Cancel, TypeOK, client, workers, history, faults, broker
  <2>4. QED
    BY <1>7, <2>1, <2>2, <2>3
<1>8. ASSUME NEW p \in Partitions, Arrive(p) PROVE TypeOK'
  BY <1>8 DEF Arrive, TypeOK, Offsets, client, workers, history
<1>9. ASSUME NEW w \in Workers, Take(w) PROVE TypeOK'
  <2>1. out[1] \in Records /\ Head(out) = out[1]
        /\ out' \in Seq(Records) /\ Len(out') = Len(out) - 1
    BY <1>9, TailIs DEF Take, TypeOK
  <2>2. QED
    BY <1>9, <2>1 DEF Take, TypeOK, client, history, faults, broker
<1>10. ASSUME NEW w \in Workers, Process(w) PROVE TypeOK'
  <2>1. hand[w] \in Records
    BY <1>10 DEF Process, TypeOK
  <2>2. Document(hand[w]) \in Days \X Records
    BY <2>1 DEF Document, IndexDay, Days, TypeOK
  <2>3. hand' \in [Workers -> Records \cup {None}]
    BY <1>10 DEF Process, TypeOK
  <2>4. QED
    BY <1>10, <2>2, <2>3 DEF Process, TypeOK, client, history, faults, broker
<1>11. ASSUME NEW p \in Partitions, Rebalance(p) PROVE TypeOK'
  <2>1. committed' \in Commits
    BY <1>11 DEF Rebalance, TypeOK, Commits
  <2>2. Start(p, committed'[p]) \in 0 .. LogLen
    BY <2>1, StartIs DEF TypeOK, Commits
  <2>3. position' \in Offsets /\ marked' \in Commits
    BY <1>11, <2>1, <2>2 DEF Rebalance, TypeOK, Offsets, Commits
  <2>4. passed' \subseteq Records
    BY <1>11 DEF Rebalance, TypeOK, Below
  <2>5. rebalances' \in 0 .. MaxRebalances
    BY <1>11 DEF Rebalance, TypeOK
  <2>6. UNCHANGED <<pc, batch, out, workers, ctxDone, history, broker, crashes>>
    BY <1>11 DEF Rebalance
  <2>7. QED
    BY <2>1, <2>3, <2>4, <2>5, <2>6 DEF TypeOK, workers, history, broker
<1>12. CASE Crash
  <2>1. \A p \in Partitions : Start(p, committed[p]) \in 0 .. LogLen
    BY StartIs DEF TypeOK, Commits
  <2>2. position' \in Offsets
    BY <1>12, <2>1 DEF Crash, Offsets
  <2>3. passed' \subseteq Records
    BY <1>12 DEF Crash, TypeOK, Below
  <2>4. /\ batch' = <<>> /\ out' = <<>> /\ pc' = "poll"
        /\ buffer' = {} /\ marked' = committed
    BY <1>12 DEF Crash
  <2>5. hand' \in [Workers -> Records \cup {None}] /\ crashes' \in 0 .. MaxCrashes
    BY <1>12 DEF Crash, TypeOK
  <2>6. UNCHANGED <<committed, stored, today, history, broker, rebalances>>
    BY <1>12 DEF Crash
  <2>7. /\ batch' \in Seq(Records) /\ Len(batch') = 0
        /\ out' \in Seq(Records) /\ Len(out') = 0
    BY <2>4, EmptyIs
  <2>8. ctxDone' \in BOOLEAN
    BY <1>12 DEF Crash
  <2>9. QED
    BY <2>2, <2>3, <2>4, <2>5, <2>6, <2>7, <2>8 DEF TypeOK, history, broker
<1>13. CASE UNCHANGED vars
  BY <1>13 DEF vars, TypeOK, client, workers, history, faults, broker
<1>14. QED
  BY <1>1, <1>2, <1>3, <1>4, <1>5, <1>6, <1>7, <1>8, <1>9, <1>10, <1>11, <1>12, <1>13
  DEF Next, RunStep

-----------------------------------------------------------------------------
(* Consumer.Run preserves the rest of the invariant *)

\* What Known, Docs and the sets built from the variables depend on.
LEMMA BelowIs ==
    \A offsets : /\ Below(offsets) \subseteq Records
                 /\ \A r \in Records : r \in Below(offsets) <=> r[2] < offsets[r[1]]
BY DEF Below

LEMMA InitIInv == Init => IInv
<1> SUFFICES ASSUME Init PROVE IInv
  OBVIOUS
<1> USE ConsumerAssumption
<1>1. TypeOK
  BY InitTypes
<1>2. /\ \A p \in Partitions : committed[p] = NoOffset /\ marked[p] = NoOffset
      /\ sent = {} /\ skipped = {} /\ passed = Below(position)
      /\ batch = <<>> /\ out = <<>> /\ pc = "poll"
      /\ buffer = {} /\ stored = {}
  BY DEF Init
<1>3. /\ SeqToSet(batch) = {} /\ SeqToSet(out) = {} /\ Len(batch) = 0 /\ Len(out) = 0
  BY <1>2, EmptyIs
<1>4. Hands = {} /\ Docs = {} /\ RecordsOf(Docs) = {}
  BY <1>2 DEF Init, Hands, Docs, RecordsOf
<1>5. Below(marked) = {} /\ Below(committed) = {}
  BY <1>2, BelowIs, RecordIs DEF NoOffset
<1>6. PassedIfNewest
  <2>1. ASSUME initialOffset # "newest", NEW r \in Below(position) PROVE FALSE
    <3>1. r \in Records /\ r[2] < position[r[1]]
      BY <2>1, BelowIs
    <3>2. r[1] \in Partitions /\ r[2] >= 0
      BY <3>1, RecordIs
    <3>3. position[r[1]] = 0
      BY <2>1, <3>2 DEF Init, Start
    <3>4. QED
      BY <3>1, <3>2, <3>3, RecordIs
  <2>2. QED
    BY <1>2, <2>1 DEF PassedIfNewest
<1>7. Ordered /\ MarkedWasSent /\ DatedOnDay0
  BY <1>2, <1>4, <1>5 DEF Ordered, MarkedWasSent, DatedOnDay0, NoOffset
<1>8. Traced /\ Reached /\ Ahead /\ Kept
  BY <1>2, <1>3, <1>4 DEF Traced, Reached, Ahead, Kept, Known
<1>9. Once
  BY <1>2, <1>3, <1>4, EmptyIs DEF Once, Init
<1>10. QED
  BY <1>1, <1>6, <1>7, <1>8, <1>9 DEF IInv

LEMMA PollIInv == IInv /\ TypeOK' /\ Poll => IInv'
<1> SUFFICES ASSUME IInv, TypeOK', Poll PROVE IInv'
  OBVIOUS
<1> USE ConsumerAssumption
<1>1. PICK p \in Partitions, n \in 1 .. MaxPoll :
          /\ position[p] + n <= produced[p]
          /\ batch' = [k \in 1 .. n |-> <<p, position[p] + k - 1>>]
          /\ position' = [position EXCEPT ![p] = @ + n]
  BY DEF Poll
<1>2. /\ pc = "poll" /\ batch = <<>> /\ pc' = "each"
      /\ UNCHANGED <<marked, committed, out, workers, ctxDone, history, faults>>
  BY DEF Poll, IInv, TypeOK
<1>3. SeqToSet(batch) = {}
  BY <1>2, EmptyIs
<1>4. /\ UNCHANGED <<Known, Docs, Hands, sent, skipped, passed, out, marked, committed,
                     crashes, rebalances, ctxDone, initialOffset>>
      /\ UNCHANGED <<SeqToSet(out), RecordsOf(Docs)>>
  BY <1>2 DEF workers, history, faults, broker, Known, Docs, Hands
<1>5. position \in Offsets /\ position' \in Offsets
      /\ position'[p] = position[p] + n
      /\ \A q \in Partitions : q # p => position'[q] = position[q]
  BY <1>1 DEF IInv, TypeOK, Offsets
<1>6. \A k \in 1 .. n : position[p] + k - 1 \in 0 .. LogLen - 1
  <2>1. produced[p] \in 0 .. LogLen /\ position[p] \in 0 .. LogLen
    BY DEF IInv, TypeOK, Offsets
  <2>2. QED
    BY <1>1, <2>1
<1>7. /\ Len(batch') = n /\ batch' \in Seq(Records)
      /\ \A k \in 1 .. n : /\ batch'[k] = <<p, position[p] + k - 1>>
                           /\ batch'[k] \in Records
                           /\ batch'[k][1] = p /\ batch'[k][2] = position[p] + k - 1
  BY <1>1, <1>6, RecordIs DEF TypeOK
<1>8. SeqToSet(batch') = {batch'[k] : k \in 1 .. n}
  BY <1>7, SetIs
<1>9. Below(position) \subseteq Known
  BY <1>3 DEF IInv, Reached
<1>10. ASSUME NEW r \in Records, r[1] = p, r[2] < position[p] + n, r \notin Known
       PROVE  /\ r[2] - position[p] + 1 \in 1 .. n
              /\ batch'[r[2] - position[p] + 1] = r
  <2>1. r[2] >= position[p] /\ r[2] \in Int
    BY <1>9, <1>10, <1>5, BelowIs, RecordIs DEF Offsets
  <2>2. r[2] - position[p] + 1 \in 1 .. n
    BY <2>1, <1>10, <1>5 DEF Offsets
  <2>3. batch'[r[2] - position[p] + 1] = <<p, position[p] + (r[2] - position[p] + 1) - 1>>
    BY <2>2, <1>7
  <2>4. position[p] + (r[2] - position[p] + 1) - 1 = r[2]
    BY <2>1, <1>5 DEF Offsets
  <2>5. QED
    BY <2>2, <2>3, <2>4, <1>10, RecordIs
<1>11. Reached'
  <2> SUFFICES ASSUME NEW r \in Below(position)', r \notin Known
               PROVE  r \in SeqToSet(batch')
    BY <1>4 DEF Reached
  <2>1. r \in Records /\ r[1] \in Partitions /\ r[2] < position'[r[1]]
    BY BelowIs, RecordIs
  <2>2. r[1] = p
    BY <2>1, <1>5, <1>9, BelowIs
  <2>3. QED
    BY <2>1, <2>2, <1>5, <1>8, <1>10
<1>12. Ahead'
  <2> SUFFICES ASSUME NEW k \in 1 .. n, NEW r \in Records,
                      r[1] = batch'[k][1], r[2] < batch'[k][2], r \notin Known
               PROVE  \E j \in 1 .. k - 1 : batch'[j] = r
    BY <1>4, <1>7 DEF Ahead
  <2>1. r[1] = p /\ r[2] < position[p] + k - 1 /\ r[2] \in Int
    BY <1>7, RecordIs
  <2>2. r[2] < position[p] + n
    BY <2>1, <1>5 DEF Offsets
  <2>3. r[2] - position[p] + 1 \in 1 .. n /\ batch'[r[2] - position[p] + 1] = r
    BY <1>10, <2>1, <2>2
  <2>4. r[2] - position[p] + 1 \in 1 .. k - 1
    BY <2>1, <2>3, <1>5 DEF Offsets
  <2>5. QED
    BY <2>3, <2>4
<1>13. Once'
  <2> SUFFICES ASSUME crashes = 0 /\ rebalances = 0 PROVE Once'
    BY <1>4 DEF Once
  <2>1. Below(position) \subseteq Below(position')
    <3> SUFFICES ASSUME NEW r \in Below(position) PROVE r \in Below(position')
      OBVIOUS
    <3>1. r \in Records /\ r[1] \in Partitions /\ r[2] \in Int /\ r[2] < position[r[1]]
      BY BelowIs, RecordIs
    <3>2. position'[r[1]] >= position[r[1]]
      BY <3>1, <1>5 DEF Offsets
    <3>3. QED
      BY <3>1, <3>2, <1>5, BelowIs DEF Offsets
  <2>2. SeqToSet(batch') \subseteq Below(position')
    <3> SUFFICES ASSUME NEW k \in 1 .. n PROVE batch'[k] \in Below(position')
      BY <1>8
    <3>1. batch'[k][2] < position'[batch'[k][1]]
      BY <1>5, <1>7 DEF Offsets
    <3>2. QED
      BY <3>1, <1>7, BelowIs
  <2>3. sent \subseteq Below(position)
    BY DEF IInv, Once
  <2>4. \A k \in 1 .. n : batch'[k] \notin sent
    <3> SUFFICES ASSUME NEW k \in 1 .. n, batch'[k] \in Below(position) PROVE FALSE
      BY <2>3
    <3>1. batch'[k][2] < position[p]
      BY <1>7, BelowIs
    <3>2. QED
      BY <3>1, <1>5, <1>7 DEF Offsets
  <2>5. \A j, k \in 1 .. n : j < k => batch'[j] # batch'[k]
    BY <1>5, <1>7 DEF Offsets
  <2>6. sent' \cup SeqToSet(batch') \subseteq Below(position')
    BY <1>4, <2>1, <2>2, <2>3
  <2>7. \A k \in 1 .. Len(batch') : batch'[k] \notin sent'
    BY <1>4, <1>7, <2>4
  <2>8. QED
    BY <1>4, <1>7, <2>5, <2>6, <2>7, <1>2 DEF IInv, Once, workers
<1>14. Ordered' /\ Traced' /\ Kept' /\ PassedIfNewest' /\ DatedOnDay0' /\ MarkedWasSent'
  BY <1>2, <1>4
  DEF IInv, Ordered, Traced, Kept, PassedIfNewest, DatedOnDay0, MarkedWasSent
<1>15. QED
  BY <1>11, <1>12, <1>13, <1>14 DEF IInv

LEMMA SendIInv == IInv /\ TypeOK' /\ Send => IInv'
<1> SUFFICES ASSUME IInv, TypeOK', Send PROVE IInv'
  OBVIOUS
<1>1. /\ pc = "each" /\ pc' = "mark" /\ batch # <<>>
      /\ out' = Append(out, Head(batch)) /\ sent' = sent \cup {Head(batch)}
      /\ UNCHANGED <<client, batch, workers, ctxDone, skipped, faults>>
  BY DEF Send
<1>2. batch \in Seq(Records) /\ out \in Seq(Records)
  BY DEF IInv, TypeOK
<1>3. /\ Head(batch) = batch[1] /\ batch[1] \in Records
      /\ Len(batch) >= 1 /\ Len(batch) \in Nat
  BY <1>1, <1>2, TailIs
<1>4. SeqToSet(out') = SeqToSet(out) \cup {batch[1]}
  BY <1>1, <1>2, <1>3, SetOfAppend
<1>5. /\ Known' = Known \cup {batch[1]}
      /\ UNCHANGED <<Docs, Hands, position, marked, committed, passed, skipped, hand, batch,
                     crashes, rebalances, ctxDone, initialOffset>>
      /\ UNCHANGED <<RecordsOf(Docs), SeqToSet(batch), Below(position)>>
  BY <1>1, <1>3 DEF client, workers, faults, broker, Known, Docs, Hands
<1>6. Traced' /\ Kept'
  BY <1>1, <1>3, <1>4, <1>5 DEF IInv, Traced, Kept
<1>7. Reached' /\ Ahead'
  BY <1>5 DEF IInv, Reached, Ahead
<1>8. Ordered' /\ PassedIfNewest' /\ DatedOnDay0'
  BY <1>5 DEF IInv, Ordered, PassedIfNewest, DatedOnDay0
<1>9. MarkedWasSent'
  BY <1>1, <1>5 DEF IInv, MarkedWasSent
<1>10. Once'
  <2> SUFFICES ASSUME crashes = 0 /\ rebalances = 0 PROVE Once'
    BY <1>5 DEF Once
  <2>1. batch[1] \in SeqToSet(batch)
    BY <1>2, <1>3, SetIs
  <2>2. batch[1] \notin sent
    BY <1>1, <1>3 DEF IInv, Once
  <2>3. batch[1] \notin SeqToSet(out) \cup Hands \cup RecordsOf(Docs)
    BY <2>2 DEF IInv, Traced
  <2>4. sent' \cup SeqToSet(batch)' \subseteq Below(position)'
    BY <2>1, <1>1, <1>3, <1>5 DEF IInv, Once
  <2>5. \A k \in 1 .. Len(batch) : batch[k] \in sent' => k = 1
    BY <1>1, <1>3 DEF IInv, Once
  <2>6. \A j, k \in 1 .. Len(out') : j # k => out'[j] # out'[k]
    <3>1. /\ Len(out') = Len(out) + 1 /\ out'[Len(out) + 1] = batch[1] /\ Len(out) \in Nat
          /\ \A k \in 1 .. Len(out) : out'[k] = out[k]
      BY <1>1, <1>2, <1>3, AppendIs
    <3>2. \A k \in 1 .. Len(out) : out[k] # batch[1]
      BY <2>3, <1>2, SetIs
    <3>3. QED
      BY <3>1, <3>2 DEF IInv, Once
  <2>7. Hands' \cap SeqToSet(out') = {} /\ RecordsOf(Docs)' \cap (SeqToSet(out') \cup Hands') = {}
    BY <1>4, <1>5, <2>3 DEF IInv, Once
  <2>8. QED
    BY <1>1, <1>5, <2>4, <2>5, <2>6, <2>7 DEF IInv, Once
<1>11. QED
  BY <1>6, <1>7, <1>8, <1>9, <1>10 DEF IInv

\* The head of the batch becomes known and leaves it.
LEMMA LeavesBatch ==
    ASSUME IInv, batch # <<>>, pc' = "each", batch' = Tail(batch),
           Known' = Known \cup {batch[1]}, UNCHANGED position,
           crashes = 0 /\ rebalances = 0 =>
               UNCHANGED <<sent, out, hand, buffer, stored, crashes, rebalances>>,
           crashes' = crashes, rebalances' = rebalances
    PROVE  Reached' /\ Ahead' /\ Once'
<1>1. batch \in Seq(Records)
  BY DEF IInv, TypeOK
<1>2. /\ Len(batch) \in Nat /\ Len(batch) >= 1 /\ Len(batch') = Len(batch) - 1
      /\ batch' \in Seq(Records)
      /\ \A k \in 1 .. Len(batch) - 1 : batch'[k] = batch[k + 1]
  BY <1>1, TailIs
<1>3. SeqToSet(batch) = {batch[1]} \cup SeqToSet(batch')
  BY <1>1, SetOfTail
<1>4. Reached'
  BY <1>3 DEF IInv, Reached, Below
<1>5. Ahead'
  <2> SUFFICES ASSUME NEW k \in 1 .. Len(batch'), NEW r \in Records,
                      r[1] = batch'[k][1], r[2] < batch'[k][2], r \notin Known'
               PROVE  \E j \in 1 .. k - 1 : batch'[j] = r
    BY DEF Ahead
  <2>1. k + 1 \in 1 .. Len(batch) /\ batch'[k] = batch[k + 1]
    BY <1>2
  <2>2. PICK j \in 1 .. (k + 1) - 1 : batch[j] = r
    BY <2>1 DEF IInv, Ahead
  <2>3. j # 1
    BY <2>2
  <2>4. j - 1 \in 1 .. k - 1 /\ batch'[j - 1] = batch[j]
    BY <1>2, <2>2, <2>3
  <2>5. QED
    BY <2>2, <2>4
<1>6. Once'
  <2> SUFFICES ASSUME crashes = 0 /\ rebalances = 0 PROVE Once'
    BY DEF Once
  <2>1. UNCHANGED <<sent, out, hand, Docs, Hands, SeqToSet(out), RecordsOf(Docs),
                    Below(position)>>
    BY DEF Docs, Hands
  <2>2. sent' \cup SeqToSet(batch') \subseteq Below(position)
    BY <2>1, <1>3 DEF IInv, Once
  <2>3. \A j, k \in 1 .. Len(batch') : j < k => batch'[j] # batch'[k]
    BY <1>2 DEF IInv, Once
  <2>4. \A k \in 1 .. Len(batch') : batch'[k] \notin sent
    <3> SUFFICES ASSUME NEW k \in 1 .. Len(batch'), batch[k + 1] \in sent PROVE FALSE
      BY <1>2
    <3>1. k + 1 \in 1 .. Len(batch) /\ k + 1 # 1
      BY <1>2
    <3>2. QED
      BY <3>1 DEF IInv, Once
  <2>5. QED
    BY <2>1, <2>2, <2>3, <2>4 DEF IInv, Once
<1>7. QED
  BY <1>4, <1>5, <1>6

LEMMA MarkIInv == IInv /\ TypeOK' /\ Mark => IInv'
<1> SUFFICES ASSUME IInv, TypeOK', Mark PROVE IInv'
  OBVIOUS
<1>1. /\ pc = "mark" /\ batch # <<>> /\ batch \in Seq(Records) /\ batch[1] \in sent
      /\ pc' = "each" /\ batch' = Tail(batch)
      /\ UNCHANGED <<position, committed, out, workers, ctxDone, history, faults>>
  BY DEF Mark, IInv, TypeOK, Traced
<1>2. /\ Head(batch) = batch[1] /\ batch[1] \in Records /\ Len(batch) \in Nat
      /\ 1 \in 1 .. Len(batch)
  BY <1>1, TailIs
<1> DEFINE p == batch[1][1]
           o == batch[1][2]
<1>3. /\ p \in Partitions /\ o \in Nat /\ batch[1] = <<p, o>>
      /\ marked \in Commits /\ marked' \in Commits /\ committed \in Commits
      /\ \A q \in Partitions : marked[q] \in Int
  <2>1. p \in Partitions /\ o \in Nat /\ batch[1] = <<p, o>>
    BY <1>2, RecordIs
  <2>2. marked \in Commits /\ marked' \in Commits /\ committed \in Commits
    BY DEF IInv, TypeOK
  <2>3. \A q \in Partitions : marked[q] \in Int
    BY <2>2 DEF Commits, NoOffset
  <2>4. QED
    BY <2>1, <2>2, <2>3
<1>4. /\ marked'[p] = IF o + 1 > marked[p] THEN o + 1 ELSE marked[p]
      /\ \A q \in Partitions : q # p => marked'[q] = marked[q]
  BY <1>2, <1>3 DEF Mark, Commits
<1>5. /\ UNCHANGED <<Known, Docs, Hands, sent, skipped, passed, out, hand, buffer, stored,
                     crashes, rebalances, ctxDone, initialOffset>>
      /\ UNCHANGED <<SeqToSet(out), RecordsOf(Docs), Below(committed)>>
  BY <1>1 DEF workers, history, faults, broker, Known, Docs, Hands
<1>6. Known' = Known \cup {batch[1]}
  BY <1>1, <1>5 DEF Known
<1> HIDE DEF p, o
<1>7. Reached' /\ Ahead' /\ Once'
  BY <1>1, <1>5, <1>6, LeavesBatch
<1>8. Ordered'
  <2>1. \A q \in Partitions : committed[q] \in Int /\ committed[q] <= marked[q]
    BY DEF IInv, TypeOK, Commits, NoOffset, Ordered
  <2>2. QED
    BY <1>1, <1>3, <1>4, <2>1 DEF Ordered
<1>9. MarkedWasSent'
  <2> SUFFICES ASSUME NEW r \in Below(marked') PROVE r \in Known
    BY <1>5 DEF MarkedWasSent, IInv, Known
  <2>1. r \in Records /\ r[1] \in Partitions /\ r[2] \in Int /\ r[2] < marked'[r[1]]
        /\ r = <<r[1], r[2]>>
    BY BelowIs, RecordIs
  <2>2. CASE r \in Below(marked)
    BY <2>2 DEF IInv, MarkedWasSent, Known
  <2>3. CASE r \notin Below(marked)
    <3>1. r[1] = p /\ r[2] <= o
      BY <2>1, <2>3, <1>3, <1>4, BelowIs
    <3>2. CASE r[2] = o
      BY <3>1, <3>2, <2>1, <1>1, <1>3 DEF Known
    <3>3. CASE r[2] < o
      BY <3>1, <3>3, <2>1, <1>2 DEF p, o, IInv, Ahead
    <3>4. QED
      BY <3>1, <3>2, <3>3, <2>1, <1>3
  <2>4. QED
    BY <2>2, <2>3
<1>10. Traced' /\ Kept' /\ PassedIfNewest' /\ DatedOnDay0'
  BY <1>1, <1>5 DEF IInv, Traced, Kept, PassedIfNewest, DatedOnDay0
<1>11. QED
  BY <1>7, <1>8, <1>9, <1>10 DEF IInv

LEMMA SkipIInv == IInv /\ TypeOK' /\ Skip => IInv'
<1> SUFFICES ASSUME IInv, TypeOK', Skip PROVE IInv'
  OBVIOUS
<1>1. /\ pc = "each" /\ pc' = "each" /\ batch # <<>> /\ ctxDone
      /\ batch \in Seq(Records) /\ batch' = Tail(batch)
      /\ skipped' = skipped \cup {Head(batch)}
      /\ UNCHANGED <<client, pc, out, workers, ctxDone, sent, faults>>
  BY DEF Skip, IInv, TypeOK
<1>2. Head(batch) = batch[1]
  BY <1>1, TailIs
<1>3. /\ UNCHANGED <<Docs, Hands, sent, passed, out, hand, buffer, stored, position, marked,
                     committed, crashes, rebalances, ctxDone, initialOffset>>
      /\ UNCHANGED <<SeqToSet(out), RecordsOf(Docs), Below(committed), Below(marked)>>
  BY <1>1 DEF client, workers, faults, broker, Docs, Hands
<1>4. Known' = Known \cup {batch[1]}
  BY <1>1, <1>2, <1>3 DEF Known
<1>5. Reached' /\ Ahead' /\ Once'
  BY <1>1, <1>3, <1>4, LeavesBatch
<1>6. Ordered' /\ Traced' /\ Kept' /\ PassedIfNewest' /\ DatedOnDay0' /\ MarkedWasSent'
  BY <1>1, <1>3
  DEF IInv, Ordered, Traced, Kept, PassedIfNewest, DatedOnDay0, MarkedWasSent
<1>7. QED
  BY <1>5, <1>6 DEF IInv

\* Steps that move no record: the loop's control, commits, flushes, the clock, the log.
LEMMA QuietIInv ==
    IInv /\ TypeOK' /\ (\/ PollCancelled \/ EndEach \/ Close \/ AutoCommit \/ Flush
                        \/ NextDay \/ Cancel \/ \E p \in Partitions : Arrive(p)) => IInv'
<1> SUFFICES ASSUME IInv, TypeOK',
                    \/ PollCancelled \/ EndEach \/ Close \/ AutoCommit \/ Flush
                    \/ NextDay \/ Cancel \/ \E p \in Partitions : Arrive(p)
             PROVE IInv'
  OBVIOUS
<1>1. /\ UNCHANGED <<position, marked, batch, out, hand, sent, skipped, passed, crashes,
                     rebalances, initialOffset>>
      /\ committed' = committed \/ committed' = marked
      /\ Docs' = Docs
      /\ pc = "mark" => pc' = "mark"
      /\ pc' = "mark" => pc = "mark"
      /\ ~ctxDone' => ~ctxDone
  BY DEF PollCancelled, EndEach, Close, AutoCommit, Flush, NextDay, Cancel, Arrive, client,
     workers, history, faults, broker, Docs
<1>2. UNCHANGED <<Known, Hands, SeqToSet(out), SeqToSet(batch), RecordsOf(Docs),
                  Below(position), Below(marked)>>
  BY <1>1 DEF Known, Hands
<1>3. Ordered'
  BY <1>1 DEF IInv, TypeOK, Commits, NoOffset, Ordered
<1>4. MarkedWasSent'
  BY <1>1, <1>2 DEF IInv, MarkedWasSent
<1>5. Traced' /\ Reached' /\ Ahead' /\ PassedIfNewest' /\ DatedOnDay0'
  BY <1>1, <1>2 DEF IInv, Traced, Reached, Ahead, PassedIfNewest, DatedOnDay0
<1>6. Kept'
  BY <1>1, <1>2 DEF IInv, Kept
<1>7. Once'
  BY <1>1, <1>2 DEF IInv, Once
<1>8. QED
  BY <1>3, <1>4, <1>5, <1>6, <1>7 DEF IInv

-----------------------------------------------------------------------------
(* Workers *)

LEMMA TakeIInv == ASSUME NEW w \in Workers PROVE IInv /\ TypeOK' /\ Take(w) => IInv'
<1> SUFFICES ASSUME IInv, TypeOK', Take(w) PROVE IInv'
  OBVIOUS
<1>1. /\ hand[w] = None /\ out # <<>> /\ out \in Seq(Records)
      /\ hand' = [hand EXCEPT ![w] = Head(out)] /\ out' = Tail(out)
      /\ UNCHANGED <<client, pc, batch, buffer, stored, today, ctxDone, history, faults>>
      /\ hand \in [Workers -> Records \cup {None}]
  BY DEF Take, IInv, TypeOK
<1>2. /\ Head(out) = out[1] /\ out[1] \in Records /\ Len(out) \in Nat /\ Len(out) >= 1
      /\ Len(out') = Len(out) - 1 /\ out' \in Seq(Records)
      /\ \A k \in 1 .. Len(out) - 1 : out'[k] = out[k + 1]
  BY <1>1, TailIs
<1>3. SeqToSet(out) = {out[1]} \cup SeqToSet(out')
  BY <1>1, SetOfTail
<1>4. /\ hand'[w] = out[1] /\ out[1] # None
      /\ \A v \in Workers : v # w => hand'[v] = hand[v]
  BY <1>1, <1>2, RecordIs
<1>5. Hands' = Hands \cup {out[1]}
  BY <1>1, <1>4 DEF Hands
<1>6. /\ UNCHANGED <<Known, Docs, sent, skipped, passed, position, marked, committed, batch,
                     pc, crashes, rebalances, ctxDone, initialOffset>>
      /\ UNCHANGED <<RecordsOf(Docs), SeqToSet(batch), Below(position)>>
  BY <1>1 DEF client, history, faults, broker, Known, Docs
<1>7. Traced' /\ Kept'
  BY <1>3, <1>5, <1>6 DEF IInv, Traced, Kept
<1>8. Ordered' /\ Reached' /\ Ahead' /\ PassedIfNewest' /\ DatedOnDay0' /\ MarkedWasSent'
  BY <1>6 DEF IInv, Ordered, Reached, Ahead, PassedIfNewest, DatedOnDay0, MarkedWasSent
<1>9. Once'
  <2> SUFFICES ASSUME crashes = 0 /\ rebalances = 0 PROVE Once'
    BY <1>6 DEF Once
  <2>1. \A j, k \in 1 .. Len(out') : j # k => out'[j] # out'[k]
    <3>1. \A j, k \in 1 .. Len(out) : j # k => out[j] # out[k]
      BY DEF IInv, Once
    <3>2. \A k \in 1 .. Len(out') : k + 1 \in 1 .. Len(out) /\ out'[k] = out[k + 1]
      BY <1>2
    <3>3. QED
      BY <1>2, <3>1, <3>2
  <2>2. out[1] \notin SeqToSet(out')
    <3>1. SeqToSet(out') = {out'[k] : k \in 1 .. Len(out')}
      BY <1>2, SetIs
    <3>2. \A k \in 1 .. Len(out') : out'[k] # out[1]
      BY <1>2 DEF IInv, Once
    <3>3. QED
      BY <3>1, <3>2
  <2>3. out[1] \notin Hands
    BY <1>3 DEF IInv, Once
  <2>4. Hands' \cap SeqToSet(out') = {}
    BY <1>3, <1>5, <2>2 DEF IInv, Once
  <2>5. \A u, v \in Workers : u # v /\ hand'[u] = hand'[v] => hand'[u] = None
    <3>1. \A v \in Workers : hand[v] # out[1]
      BY <2>3, <1>4 DEF Hands
    <3>2. QED
      BY <3>1, <1>4 DEF IInv, Once
  <2>6. RecordsOf(Docs) \cap (SeqToSet(out') \cup Hands') = {}
    BY <1>3, <1>5 DEF IInv, Once
  <2>7. QED
    BY <1>6, <2>1, <2>4, <2>5, <2>6 DEF IInv, Once
<1>10. QED
  BY <1>7, <1>8, <1>9 DEF IInv

LEMMA ProcessIInv == ASSUME NEW w \in Workers PROVE IInv /\ TypeOK' /\ Process(w) => IInv'
<1> SUFFICES ASSUME IInv, TypeOK', Process(w) PROVE IInv'
  OBVIOUS
<1> DEFINE r == hand[w]
           d == Document(r)
<1>1. /\ r # None /\ hand \in [Workers -> Records \cup {None}]
      /\ hand' = [hand EXCEPT ![w] = None]
      /\ buffer' = buffer \cup {d} \/ (ctxDone /\ buffer' = buffer)
      /\ UNCHANGED <<client, pc, batch, out, stored, today, ctxDone, history, faults>>
  BY DEF Process, IInv, TypeOK
<1>2. /\ hand'[w] = None /\ \A v \in Workers : v # w => hand'[v] = hand[v]
      /\ r \in Records /\ r \in Hands
  BY <1>1 DEF Hands
<1>3. d[2] = r /\ (r[2] \in Dated => d[1] = 0)
  BY DEF Document, IndexDay
<1> HIDE DEF d
<1>4. Docs' = Docs \cup {d} \/ (ctxDone /\ Docs' = Docs)
  BY <1>1 DEF Docs
<1>5. RecordsOf(Docs') = RecordsOf(Docs) \cup {r} \/ (ctxDone /\ Docs' = Docs)
  BY <1>3, <1>4 DEF RecordsOf
<1> HIDE DEF r
<1>6. Hands' \subseteq Hands /\ Hands \subseteq Hands' \cup {r}
  BY <1>1, <1>2 DEF Hands, r
<1>7. /\ UNCHANGED <<Known, sent, skipped, passed, position, marked, committed, batch, out,
                     pc, crashes, rebalances, ctxDone, initialOffset>>
      /\ UNCHANGED <<SeqToSet(out), SeqToSet(batch), Below(position)>>
  BY <1>1 DEF client, history, faults, broker, Known
<1>8. Traced'
  BY <1>2, <1>5, <1>6, <1>7 DEF IInv, Traced
<1>9. Kept'
  BY <1>5, <1>6, <1>7 DEF IInv, Kept
<1>10. DatedOnDay0'
  BY <1>3, <1>4 DEF IInv, DatedOnDay0
<1>11. Ordered' /\ Reached' /\ Ahead' /\ PassedIfNewest' /\ MarkedWasSent'
  BY <1>7 DEF IInv, Ordered, Reached, Ahead, PassedIfNewest, MarkedWasSent
<1>12. Once'
  <2> SUFFICES ASSUME crashes = 0 /\ rebalances = 0 PROVE Once'
    BY <1>7 DEF Once
  <2>1. r \notin SeqToSet(out) /\ r \notin RecordsOf(Docs)
    BY <1>2 DEF IInv, Once
  <2>2. r \notin Hands'
    <3>1. \A v \in Workers : v # w => hand[v] # r
      BY <1>1 DEF IInv, Once, r
    <3>2. QED
      BY <3>1, <1>1, <1>2 DEF Hands
  <2>3. \A e \in Docs : e[2] # r
    BY <2>1 DEF RecordsOf
  <2>4. \A e, f \in Docs' : e[2] = f[2] => e = f
    BY <1>3, <1>4, <2>3 DEF IInv, Once
  <2>5. RecordsOf(Docs') \cap (SeqToSet(out) \cup Hands') = {}
    BY <1>5, <1>6, <2>1, <2>2 DEF IInv, Once
  <2>6. \A u, v \in Workers : u # v /\ hand'[u] = hand'[v] => hand'[u] = None
    BY <1>2 DEF IInv, Once
  <2>7. QED
    BY <1>6, <1>7, <2>4, <2>5, <2>6 DEF IInv, Once
<1>13. QED
  BY <1>8, <1>9, <1>10, <1>11, <1>12 DEF IInv

-----------------------------------------------------------------------------
(* Rebalances and crashes *)

\* What a partition is fetched from: what is committed, or the end of the log.
LEMMA StartsAbove ==
    ASSUME NEW r \in Records, NEW offset \in {NoOffset} \cup 0 .. LogLen,
           r[2] < Start(r[1], offset)
    PROVE  \/ offset # NoOffset /\ r[2] < offset
           \/ offset = NoOffset /\ initialOffset = "newest"
<1>1. r[2] \in 0 .. LogLen - 1
  BY RecordIs
<1>2. CASE offset # NoOffset
  <2>1. Start(r[1], offset) = offset
    BY <1>2 DEF Start
  <2>2. QED
    BY <1>2, <2>1
<1>3. CASE offset = NoOffset /\ initialOffset # "newest"
  <2>1. Start(r[1], offset) = 0
    BY <1>3 DEF Start
  <2>2. QED
    BY <1>1, <2>1, ConsumerAssumption
<1>4. QED
  BY <1>2, <1>3

LEMMA RebalanceIInv ==
    ASSUME NEW p \in Partitions PROVE IInv /\ TypeOK' /\ Rebalance(p) => IInv'
<1> SUFFICES ASSUME IInv, TypeOK', Rebalance(p) PROVE IInv'
  OBVIOUS
<1>1. /\ rebalances' = rebalances + 1 /\ rebalances \in Nat
      /\ committed' = committed \/ committed' = [committed EXCEPT ![p] = marked[p]]
      /\ position' = [position EXCEPT ![p] = Start(p, committed'[p])]
      /\ marked' = [marked EXCEPT ![p] = committed'[p]]
      /\ passed' = passed \cup
           {r \in Below(position') \ (InFlight \cup RecordsOf(buffer \cup stored)) :
              r[1] = p /\ committed'[p] = NoOffset}
      /\ UNCHANGED <<pc, batch, out, workers, ctxDone, history, broker, crashes>>
  BY DEF Rebalance, IInv, TypeOK
<1>2. /\ committed \in Commits /\ committed' \in Commits /\ marked \in Commits
      /\ position \in Offsets
      /\ \A q \in Partitions : committed[q] \in Int /\ marked[q] \in Int
  BY DEF IInv, TypeOK, Commits, NoOffset
<1>3. /\ committed'[p] = committed[p] \/ committed'[p] = marked[p]
      /\ marked'[p] = committed'[p] /\ position'[p] = Start(p, committed'[p])
      /\ \A q \in Partitions : q # p =>
           /\ committed'[q] = committed[q] /\ marked'[q] = marked[q]
           /\ position'[q] = position[q]
  BY <1>1, <1>2 DEF Commits, Offsets
<1>4. /\ UNCHANGED <<Docs, Hands, sent, skipped, batch, out, hand, pc, crashes, ctxDone,
                     initialOffset>>
      /\ UNCHANGED <<SeqToSet(out), SeqToSet(batch), RecordsOf(Docs)>>
      /\ Known \subseteq Known' /\ Known' = Known \cup passed'
  BY <1>1 DEF workers, history, broker, Docs, Hands, Known
<1>5. Ordered'
  BY <1>2, <1>3 DEF IInv, Ordered
<1>6. Below(committed') \cup Below(marked') \subseteq Below(committed) \cup Below(marked)
  BY <1>3, BelowIs, RecordIs
<1>7. MarkedWasSent'
  BY <1>4, <1>6 DEF IInv, MarkedWasSent, Known
<1>8. ASSUME NEW r \in Records, r[1] = p, r \in Below(position')
      PROVE  \/ committed'[p] # NoOffset /\ r \in Below(committed')
             \/ committed'[p] = NoOffset /\ initialOffset = "newest"
  <2>1. r[2] < Start(p, committed'[p])
    BY <1>3, <1>8, BelowIs
  <2>2. committed'[p] \in {NoOffset} \cup 0 .. LogLen
    BY <1>2 DEF Commits
  <2>3. QED
    BY <1>8, <2>1, <2>2, StartsAbove, BelowIs
<1>9. PassedIfNewest'
  <2> SUFFICES ASSUME passed' # {} PROVE initialOffset = "newest"
    BY <1>4 DEF PassedIfNewest
  <2>1. CASE passed = {}
    <3>1. PICK r \in Below(position') : r[1] = p /\ committed'[p] = NoOffset
      BY <1>1, <2>1
    <3>2. QED
      BY <3>1, <1>8, BelowIs
  <2>2. QED
    BY <2>1 DEF IInv, PassedIfNewest
<1>10. Reached'
  <2> SUFFICES ASSUME NEW r \in Below(position') PROVE r \in Known' \cup SeqToSet(batch)
    BY <1>4 DEF Reached
  <2>1. r \in Records /\ r[1] \in Partitions /\ r # None
    BY BelowIs, RecordIs
  <2>2. CASE r[1] # p
    <3>1. r \in Below(position)
      BY <1>3, <2>1, <2>2, BelowIs
    <3>2. QED
      BY <3>1, <1>4 DEF IInv, Reached
  <2>3. CASE r[1] = p /\ committed'[p] # NoOffset
    <3>1. r \in Below(committed) \cup Below(marked)
      BY <1>6, <1>8, <2>1, <2>3
    <3>2. QED
      BY <3>1, <1>4 DEF IInv, MarkedWasSent, Known
  <2>4. CASE r[1] = p /\ committed'[p] = NoOffset
    <3>1. r \in passed' \/ r \in InFlight \cup RecordsOf(buffer \cup stored)
      BY <1>1, <2>4
    <3>2. r \in InFlight \cup RecordsOf(buffer \cup stored) => r \in SeqToSet(batch) \cup sent
      BY <2>1 DEF InFlight, IInv, Traced, Hands, Docs
    <3>3. QED
      BY <3>1, <3>2, <1>4 DEF Known
  <2>5. QED
    BY <2>2, <2>3, <2>4
<1>11. Traced' /\ Ahead' /\ DatedOnDay0'
  BY <1>4 DEF IInv, Traced, Ahead, DatedOnDay0
<1>12. Kept' /\ Once'
  BY <1>1, <1>4 DEF IInv, Kept, Once
<1>13. QED
  BY <1>5, <1>7, <1>9, <1>10, <1>11, <1>12 DEF IInv

LEMMA CrashIInv == IInv /\ TypeOK' /\ Crash => IInv'
<1> SUFFICES ASSUME IInv, TypeOK', Crash PROVE IInv'
  OBVIOUS
<1>1. /\ crashes' = crashes + 1 /\ crashes \in Nat
      /\ position' = [p \in Partitions |-> Start(p, committed[p])]
      /\ marked' = committed
      /\ passed' = passed \cup {r \in Below(position') \ RecordsOf(stored) :
                                  committed[r[1]] = NoOffset}
      /\ pc' = "poll" /\ batch' = <<>> /\ out' = <<>>
      /\ hand' = [w \in Workers |-> None] /\ buffer' = {}
      /\ UNCHANGED <<committed, stored, today, history, broker, rebalances>>
  BY DEF Crash, IInv, TypeOK
<1>2. committed \in Commits /\ \A q \in Partitions : committed[q] \in Int
  BY DEF IInv, TypeOK, Commits, NoOffset
<1>3. /\ Docs' \subseteq Docs /\ Docs' = stored /\ Hands' = {}
      /\ SeqToSet(out') = {} /\ SeqToSet(batch') = {} /\ Len(batch') = 0
      /\ UNCHANGED <<sent, skipped, initialOffset>>
      /\ Known \subseteq Known' /\ Known' = Known \cup passed'
  BY <1>1, EmptyIs DEF history, broker, Docs, Hands, Known
<1>4. RecordsOf(Docs') \subseteq RecordsOf(Docs)
  BY <1>3 DEF RecordsOf
<1>5. Ordered' /\ Traced' /\ Ahead' /\ DatedOnDay0'
  BY <1>1, <1>2, <1>3, <1>4 DEF IInv, Ordered, Traced, Ahead, DatedOnDay0
<1>6. MarkedWasSent'
  BY <1>1, <1>3 DEF IInv, MarkedWasSent, Known
<1>7. ASSUME NEW r \in Below(position')
      PROVE  /\ r \in Records /\ r[1] \in Partitions
             /\ \/ committed[r[1]] # NoOffset /\ r \in Below(committed)
                \/ committed[r[1]] = NoOffset /\ initialOffset = "newest"
  <2>1. r \in Records /\ r[1] \in Partitions
    BY BelowIs, RecordIs
  <2>2. r[2] < Start(r[1], committed[r[1]])
    BY <1>1, <2>1, BelowIs
  <2>3. committed[r[1]] \in {NoOffset} \cup 0 .. LogLen
    BY <1>2, <2>1 DEF Commits
  <2>4. QED
    BY <2>1, <2>2, <2>3, StartsAbove, BelowIs
<1>8. PassedIfNewest'
  BY <1>1, <1>3, <1>7 DEF IInv, PassedIfNewest
<1>9. Reached'
  <2> SUFFICES ASSUME NEW r \in Below(position') PROVE r \in Known'
    BY DEF Reached
  <2>1. CASE committed[r[1]] # NoOffset
    BY <1>3, <1>7, <2>1 DEF IInv, MarkedWasSent, Known
  <2>2. CASE committed[r[1]] = NoOffset /\ r \in RecordsOf(stored)
    BY <1>3, <1>4, <2>2 DEF IInv, Traced, Known
  <2>3. CASE committed[r[1]] = NoOffset /\ r \notin RecordsOf(stored)
    BY <1>1, <1>3, <2>3
  <2>4. QED
    BY <2>1, <2>2, <2>3
<1>10. Kept' /\ Once'
  BY <1>1 DEF Kept, Once
<1>11. QED
  BY <1>5, <1>6, <1>8, <1>9, <1>10 DEF IInv

-----------------------------------------------------------------------------
(* The theorems *)

LEMMA StepIInv == IInv /\ [Next]_vars => IInv'
<1> SUFFICES ASSUME IInv, [Next]_vars PROVE IInv'
  OBVIOUS
<1>1. TypeOK'
  BY StepTypes DEF IInv
<1>2. CASE Poll \/ Send \/ Mark \/ Skip \/ Crash
  BY <1>1, <1>2, PollIInv, SendIInv, MarkIInv, SkipIInv, CrashIInv
<1>3. CASE \/ PollCancelled \/ EndEach \/ Close \/ AutoCommit \/ Flush
           \/ NextDay \/ Cancel \/ \E p \in Partitions : Arrive(p)
  BY <1>1, <1>3, QuietIInv
<1>4. CASE \E p \in Partitions : Rebalance(p)
  BY <1>1, <1>4, RebalanceIInv
<1>5. CASE \E w \in Workers : Take(w) \/ Process(w)
  BY <1>1, <1>5, TakeIInv, ProcessIInv
<1>6. CASE UNCHANGED vars
  <2>1. UNCHANGED <<position, marked, committed, pc, batch, out, hand, buffer, stored,
                    ctxDone, sent, skipped, passed, initialOffset, crashes, rebalances>>
    BY <1>6 DEF vars, client, workers, history, faults, broker
  <2>2. UNCHANGED <<Known, Docs, Hands>>
    BY <2>1 DEF Known, Docs, Hands
  <2>3. QED
    BY <1>1, <2>1, <2>2
    DEF IInv, Ordered, Traced, Reached, Ahead, Kept, PassedIfNewest, DatedOnDay0, Once,
        MarkedWasSent
<1>7. QED
  BY <1>2, <1>3, <1>4, <1>5, <1>6 DEF Next, RunStep

THEOREM Inductive == Spec => []IInv
BY InitIInv, StepIInv, PTL DEF Spec

\* Types: the channel never holds more than its capacity, the worker and the loop only
\* records of the log.
THEOREM TypeCorrect == Spec => []TypeOK
<1>1. IInv => TypeOK
  BY DEF IInv
<1>2. QED
  BY Inductive, <1>1, PTL

\* Run marks a record after it has sent it: whatever crashes and rebalances do, what is
\* committed was sent, skipped on cancellation, or below the end the group started from.
THEOREM CommitsHold == Spec => []MarkedWasSent
<1>1. IInv => MarkedWasSent
  BY DEF IInv
<1>2. QED
  BY Inductive, <1>1, PTL

\* Without crash and cancellation what the client has moved past is on its way or stored.
THEOREM BackPressureHolds == Spec => []NothingSkipped
<1>1. IInv => NothingSkipped
  BY DEF IInv, NothingSkipped, Reached, Kept, PassedIfNewest, Known, Docs, Hands, InFlight
<1>2. QED
  BY Inductive, <1>1, PTL

\* A record with a time stamp is one document for ever, and any record is as long as
\* nothing makes the group read it again.
THEOREM IdempotenceHolds == Spec => []ReprocessingIsIdempotent
<1>1. IInv => ReprocessingIsIdempotent
  <2> SUFFICES ASSUME IInv, NEW d \in stored, NEW e \in stored, d # e, d[2] = e[2]
               PROVE  d[2][2] \notin Dated /\ crashes + rebalances > 0
    BY DEF ReprocessingIsIdempotent
  <2>1. d \in Docs /\ e \in Docs
    BY DEF Docs
  <2>2. crashes \in Nat /\ rebalances \in Nat
    BY DEF IInv, TypeOK
  <2>3. ~(crashes = 0 /\ rebalances = 0)
    BY <2>1 DEF IInv, Once
  <2>4. d \in Days \X Records /\ e \in Days \X Records
    BY DEF IInv, TypeOK
  <2>5. d = <<d[1], d[2]>> /\ e = <<e[1], e[2]>>
    BY <2>4
  <2>6. d[1] # e[1]
    BY <2>5
  <2>7. d[2][2] \notin Dated
    BY <2>1, <2>6 DEF IInv, DatedOnDay0
  <2>8. QED
    BY <2>2, <2>3, <2>7
<1>2. QED
  BY Inductive, <1>1, PTL

\* No commit, on a timer, on revocation or on close, is below the last one.
THEOREM CommitsGrow == Spec => CommittedNeverRewinds
<1>1. IInv /\ [Next]_vars => [\A p \in Partitions : committed'[p] >= committed[p]]_vars
  <2> SUFFICES ASSUME IInv, Next PROVE \A p \in Partitions : committed'[p] >= committed[p]
    OBVIOUS
  <2>1. \A p \in Partitions : committed[p] \in Int /\ committed[p] <= marked[p]
    BY DEF IInv, TypeOK, Commits, NoOffset, Ordered
  <2>2. \/ committed' = committed \/ committed' = marked
        \/ \E p \in Partitions : committed' = [committed EXCEPT ![p] = marked[p]]
    BY DEF Next, RunStep, Poll, PollCancelled, Send, Mark, Skip, EndEach, Close, AutoCommit,
       Flush, NextDay, Cancel, Crash, Rebalance, Arrive, Take, Process, client
  <2>3. committed \in Commits
    BY DEF IInv, TypeOK
  <2>4. QED
    BY <2>1, <2>2, <2>3 DEF Commits
<1>2. QED
  BY Inductive, <1>1, PTL DEF Spec, CommittedNeverRewinds

-----------------------------------------------------------------------------
(* How cancellation comes to its end *)

\* How many steps Run is from having closed its channel, once it polls no more.
RunLeft == IF pc = "closed" THEN 0 ELSE IF pc = "closing" THEN 1
           ELSE IF pc = "poll" THEN 2
           ELSE IF pc = "mark" THEN 2 * Len(batch) + 2 ELSE 2 * Len(batch) + 3

\* consumer.go:67: after cancellation nothing sends Run back, neither a rebalance nor a
\* full or an empty channel, and each of its steps brings it nearer to its end: to the
\* end of the batch, which it sends or skips, out of the loop, and to the closed channel.
THEOREM CancelledRunWindsDown ==
    Spec => /\ [](RunLeft \in Nat)
            /\ [][ctxDone /\ ctxDone' => /\ RunLeft' <= RunLeft
                                         /\ RunStep => RunLeft' < RunLeft]_vars
<1>1. TypeOK => RunLeft \in Nat
  BY DEF TypeOK, RunLeft
<1>2. TypeOK /\ [Next]_vars =>
        [ctxDone /\ ctxDone' => /\ RunLeft' <= RunLeft
                                /\ RunStep => RunLeft' < RunLeft]_vars
  <2> SUFFICES ASSUME TypeOK, Next, ctxDone, ctxDone'
               PROVE  /\ RunLeft' <= RunLeft
                      /\ RunStep => RunLeft' < RunLeft
    OBVIOUS
  <2>0. batch \in Seq(Records) /\ Len(batch) \in Nat /\ RunLeft \in Nat
    BY <1>1 DEF TypeOK
  <2>1. CASE Mark \/ Skip
    <3>1. pc \in {"mark", "each"} /\ batch # <<>> /\ batch' = Tail(batch) /\ pc' = "each"
      BY <2>1 DEF Mark, Skip, TypeOK
    <3>2. Len(batch') = Len(batch) - 1
      BY <2>0, <3>1, TailIs
    <3>3. RunLeft' = 2 * Len(batch) + 1 /\ RunLeft \in {2 * Len(batch) + 2, 2 * Len(batch) + 3}
      BY <2>0, <3>1, <3>2 DEF RunLeft
    <3>4. QED
      BY <2>0, <3>3
  <2>2. CASE Send
    <3>1. pc = "each" /\ pc' = "mark" /\ batch' = batch
      BY <2>2 DEF Send
    <3>2. RunLeft' = 2 * Len(batch) + 2 /\ RunLeft = 2 * Len(batch) + 3
      BY <3>1 DEF RunLeft
    <3>3. QED
      BY <2>0, <3>2
  <2>3. CASE EndEach \/ PollCancelled \/ Close
    <3>1. \/ pc = "each" /\ batch = <<>> /\ pc' = "poll"
          \/ pc = "poll" /\ pc' = "closing"
          \/ pc = "closing" /\ pc' = "closed"
      BY <2>3 DEF EndEach, PollCancelled, Close
    <3>2. QED
      BY <3>1 DEF RunLeft
  <2>4. ~Poll /\ ~Crash
    BY DEF Poll, Crash
  <2>5. CASE ~RunStep
    <3>1. pc' = pc /\ batch' = batch
      BY <2>4, <2>5 DEF Next, AutoCommit, Flush, NextDay, Cancel, Rebalance, Arrive, Take,
         Process
    <3>2. QED
      BY <2>0, <2>5, <3>1 DEF RunLeft
  <2>6. QED
    BY <2>1, <2>2, <2>3, <2>4, <2>5 DEF RunStep
<1>3. QED
  BY TypeCorrect, <1>1, <1>2, PTL DEF Spec

\* How many steps the workers are from having emptied the channel and their hands.
Busy == {w \in Workers : hand[w] # None}
DrainLeft == 2 * Len(out) + Cardinality(Busy)

\* consumer.go:65 and wire.go:98: once Run has closed the channel nothing is put into it,
\* and whatever a worker does, taking a record or finishing one, is a step towards the
\* empty channel and empty hands.
THEOREM ClosedChannelWindsDown ==
    ASSUME IsFiniteSet(Workers)
    PROVE  Spec => /\ [](DrainLeft \in Nat)
                   /\ [][pc = "closed" /\ pc' = "closed" =>
                           /\ DrainLeft' <= DrainLeft
                           /\ (\E w \in Workers : Take(w) \/ Process(w))
                                => DrainLeft' < DrainLeft]_vars
<1>0. IsFiniteSet(Busy) /\ Cardinality(Busy) \in Nat
  BY FS_Subset, FS_CardinalityType DEF Busy
<1>1. TypeOK => DrainLeft \in Nat /\ Len(out) \in Nat
  BY <1>0 DEF TypeOK, DrainLeft
<1>2. TypeOK /\ [Next]_vars =>
        [pc = "closed" /\ pc' = "closed" =>
           /\ DrainLeft' <= DrainLeft
           /\ (\E w \in Workers : Take(w) \/ Process(w)) => DrainLeft' < DrainLeft]_vars
  <2> SUFFICES ASSUME TypeOK, Next, pc = "closed", pc' = "closed"
               PROVE  /\ DrainLeft' <= DrainLeft
                      /\ (\E w \in Workers : Take(w) \/ Process(w)) => DrainLeft' < DrainLeft
    OBVIOUS
  <2>1. ASSUME NEW w \in Workers, Take(w) PROVE DrainLeft' = DrainLeft - 1
    <3>1. /\ out \in Seq(Records) /\ out # <<>> /\ out' = Tail(out)
          /\ hand' = [hand EXCEPT ![w] = Head(out)] /\ hand[w] = None
          /\ hand \in [Workers -> Records \cup {None}]
      BY <2>1 DEF Take, TypeOK
    <3>2. Len(out') = Len(out) - 1 /\ Head(out) # None
      BY <3>1, TailIs, RecordIs
    <3>3. Busy' = Busy \cup {w} /\ w \notin Busy
      BY <3>1, <3>2 DEF Busy
    <3>4. Cardinality(Busy') = Cardinality(Busy) + 1
      BY <1>0, <3>3, FS_AddElement
    <3>5. QED
      BY <1>0, <1>1, <3>2, <3>4 DEF DrainLeft
  <2>2. ASSUME NEW w \in Workers, Process(w) PROVE DrainLeft' = DrainLeft - 1
    <3>1. /\ out' = out /\ hand' = [hand EXCEPT ![w] = None] /\ hand[w] # None
          /\ hand \in [Workers -> Records \cup {None}]
      BY <2>2 DEF Process, TypeOK
    <3>2. Busy' = Busy \ {w} /\ w \in Busy
      BY <3>1 DEF Busy
    <3>3. Cardinality(Busy') = Cardinality(Busy) - 1
      BY <1>0, <3>2, FS_RemoveElement
    <3>4. QED
      BY <1>0, <1>1, <3>1, <3>3 DEF DrainLeft
  <2>3. CASE ~ \E w \in Workers : Take(w) \/ Process(w)
    <3>1. out' = out /\ hand' = hand
      BY <2>3 DEF Next, RunStep, Poll, PollCancelled, Send, Mark, Skip, EndEach, Close,
         AutoCommit, Flush, NextDay, Cancel, Crash, Rebalance, Arrive, workers
    <3>2. DrainLeft' = DrainLeft
      BY <3>1 DEF DrainLeft, Busy
    <3>3. QED
      BY <1>1, <2>3, <3>2
  <2>4. QED
    BY <1>1, <2>1, <2>2, <2>3
<1>3. QED
  BY TypeCorrect, <1>1, <1>2, PTL DEF Spec
=============================================================================
