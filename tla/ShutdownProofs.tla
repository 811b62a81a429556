---------------------------- MODULE ShutdownProofs ----------------------------
(***************************************************************************)
(* Proofs about Shutdown, for any number of workers and messages and any   *)
(* capacity of the channels, with an alert channel and without: what an    *)
(* indexer has accepted is stored, and nothing is lost before gCtx is      *)
(* done.                                                                   *)
(***************************************************************************)
EXTENDS Shutdown, SequenceTheorems, FiniteSetTheorems, TLAPS

\* Where the goroutines are.
Places == /\ worker \in [Workers -> {"range", "index", "evaluate", "done"}]
          /\ dispatcher \in {"select", "index", "send", "done"}
          /\ watcher \in {"wait", "api", "metrics", "stop", "close_log", "log",
                          "close_anomaly", "anomaly", "done"}

\* A worker, or the dispatcher, has something in hand exactly when it is about to use it.
Hands == /\ \A w \in Workers : entry[w] = Nothing <=> worker[w] \in {"range", "done"}
         /\ anomaly = Nothing <=> dispatcher \in {"select", "done"}
         /\ anomaly # Nothing => anomaly \in taken

IInv == TypeOK /\ Places /\ Hands

-----------------------------------------------------------------------------
(* Types *)

\* What the bulk indexer does with a document leaves its types alone.
LEMMA AddType ==
    ASSUME TypeOK, NEW x \in Indexers, NEW doc \in Messages, Add(x, doc)
    PROVE  buffer' \in [Indexers -> SUBSET Messages] /\ panicked' \in BOOLEAN
BY DEF Add, TypeOK

\* A receive takes the first element and leaves a channel with room for one more.
LEMMA ReceiveType ==
    ASSUME NEW S, NEW q \in Seq(S), q # <<>>
    PROVE  /\ Head(q) \in S /\ Tail(q) \in Seq(S) /\ Len(Tail(q)) <= Len(q)
           /\ SeqToSet(q) = {Head(q)} \cup SeqToSet(Tail(q))
<1>1. /\ Head(q) \in S /\ Tail(q) \in Seq(S) /\ Len(Tail(q)) = Len(q) - 1
      /\ Head(q) = q[1] /\ Len(q) \in Nat \ {0}
      /\ \A k \in 1 .. Len(q) - 1 : Tail(q)[k] = q[k + 1]
  BY HeadTailProperties, EmptySeq
<1>2. DOMAIN q = 1 .. Len(q) /\ DOMAIN Tail(q) = 1 .. Len(q) - 1
  BY <1>1
<1>3. \A k \in 1 .. Len(q) : k = 1 \/ (k - 1 \in 1 .. Len(q) - 1 /\ q[k] = Tail(q)[k - 1])
  BY <1>1
<1>4. \A k \in 1 .. Len(q) - 1 : k + 1 \in 1 .. Len(q)
  BY <1>1
<1>5. 1 \in 1 .. Len(q)
  BY <1>1
<1>6. SeqToSet(q) = {Head(q)} \cup SeqToSet(Tail(q))
  <2>1. ASSUME NEW k \in 1 .. Len(q) PROVE q[k] \in {Head(q)} \cup SeqToSet(Tail(q))
    BY <1>1, <1>2, <1>3 DEF SeqToSet
  <2>2. {Head(q)} \cup SeqToSet(Tail(q)) \subseteq SeqToSet(q)
    BY <1>1, <1>2, <1>4, <1>5 DEF SeqToSet
  <2> QED
    BY <1>2, <2>1, <2>2 DEF SeqToSet
<1> QED
  BY <1>1, <1>6

\* A send puts an element behind the others.
LEMMA SendType ==
    ASSUME NEW S, NEW q \in Seq(S), NEW e \in S
    PROVE  /\ Append(q, e) \in Seq(S) /\ Len(Append(q, e)) = Len(q) + 1
           /\ SeqToSet(Append(q, e)) = SeqToSet(q) \cup {e}
<1>1. /\ Append(q, e) \in Seq(S) /\ Len(Append(q, e)) = Len(q) + 1
      /\ \A k \in 1 .. Len(q) : Append(q, e)[k] = q[k]
      /\ Append(q, e)[Len(q) + 1] = e
  BY AppendProperties
<1>2. /\ DOMAIN q = 1 .. Len(q) /\ DOMAIN Append(q, e) = 1 .. Len(q) + 1
      /\ Len(q) \in Nat
  BY <1>1
<1>3. 1 .. Len(q) + 1 = (1 .. Len(q)) \cup {Len(q) + 1}
  BY <1>2
<1> QED
  BY <1>1, <1>2, <1>3 DEF SeqToSet

\* The order of the watcher's calls.
LEMMA AfterIs ==
    /\ After["wait"] = "api" /\ After["api"] = "metrics" /\ After["metrics"] = "stop"
    /\ After["stop"] = "close_log" /\ After["log"] = "close_anomaly"
    /\ After["anomaly"] = "done"
BY DEF After

LEMMA InitIInv == Init => IInv
<1> SUFFICES ASSUME Init PROVE IInv
  OBVIOUS
<1>1. <<>> \in Seq(Messages) /\ Len(<<>>) = 0
  OBVIOUS
<1>2. TypeOK
  <2>1. /\ 0 \in 0 .. MaxMsgs /\ 0 <= RawCap /\ 0 <= OutCap
    BY ShutdownAssumption
  <2>2. /\ entry \in [Workers -> Messages \cup {Nothing}]
        /\ buffer \in [Indexers -> SUBSET Messages]
        /\ stored \in [Indexers -> SUBSET Messages]
    BY DEF Init
  <2> QED
    BY <1>1, <2>1, <2>2 DEF Init, TypeOK
<1>3. Places /\ Hands
  BY DEF Init, Places, Hands, Nothing
<1> QED
  BY <1>2, <1>3 DEF IInv

LEMMA NextIInv == IInv /\ [Next]_vars => IInv'
<1> SUFFICES ASSUME IInv, [Next]_vars PROVE IInv'
  OBVIOUS
<1> USE DEF IInv, pipe, work, disp, watch, docs
<1>0. /\ MaxMsgs \in Nat /\ RawCap \in Nat \ {0} /\ OutCap \in Nat \ {0}
      /\ Nothing \notin Messages /\ Nothing = 0
  BY ShutdownAssumption DEF Nothing, Messages
<1>1. CASE Deliver
  <2>1. delivered' \in 0 .. MaxMsgs /\ delivered' \in Messages
    BY <1>0, <1>1 DEF Deliver, TypeOK, Messages
  <2>2. raw' \in Seq(Messages) /\ Len(raw') <= RawCap
    BY <1>0, <1>1, <2>1, SendType DEF Deliver, TypeOK
  <2> QED
    BY <1>1, <2>1, <2>2 DEF Deliver, TypeOK, Places, Hands
<1>2. CASE StopPolling \/ CloseRaw
  BY <1>2 DEF StopPolling, CloseRaw, TypeOK, Places, Hands
<1>3. ASSUME NEW w \in Workers, Receive(w) PROVE IInv'
  <2>1. Head(raw) \in Messages /\ raw' \in Seq(Messages) /\ Len(raw') <= RawCap
    BY <1>0, <1>3, ReceiveType DEF Receive, TypeOK
  <2>2. entry' \in [Workers -> Messages \cup {Nothing}]
    BY <1>3, <2>1 DEF Receive, TypeOK
  <2>3. TypeOK'
    BY <1>3, <2>1, <2>2 DEF Receive, TypeOK
  <2>4. Places' /\ Hands'
    BY <1>0, <1>3, <2>1 DEF Receive, TypeOK, Places, Hands
  <2> QED
    BY <2>3, <2>4
<1>4. ASSUME NEW w \in Workers, EndRange(w) PROVE IInv'
  BY <1>4 DEF EndRange, TypeOK, Places, Hands
<1>5. ASSUME NEW w \in Workers, IndexLog(w) PROVE IInv'
  <2>1. entry[w] \in Messages
    BY <1>5 DEF IndexLog, TypeOK, Hands
  <2>2. buffer' \in [Indexers -> SUBSET Messages] /\ panicked' \in BOOLEAN
    BY <1>5, <2>1, AddType DEF IndexLog, Indexers
  <2>3. TypeOK'
    BY <1>5, <2>2 DEF IndexLog, TypeOK
  <2>4. Places' /\ Hands'
    BY <1>5 DEF IndexLog, Places, Hands
  <2> QED
    BY <2>3, <2>4
<1>6. ASSUME NEW w \in Workers, Evaluate(w) PROVE IInv'
  <2>1. entry[w] \in Messages
    BY <1>6 DEF Evaluate, TypeOK, Hands
  <2>2. out' \in Seq(Messages) /\ Len(out') <= OutCap
    <3>1. CASE out' = out
      BY <3>1 DEF TypeOK
    <3>2. CASE out' = Append(out, entry[w]) /\ Len(out) < OutCap
      <4>1. Append(out, entry[w]) \in Seq(Messages) /\ Len(Append(out, entry[w])) = Len(out) + 1
        BY <2>1, SendType DEF TypeOK
      <4>2. Len(out) \in Nat
        BY DEF TypeOK
      <4> QED
        BY <1>0, <3>2, <4>1, <4>2
    <3> QED
      BY <1>6, <3>1, <3>2 DEF Evaluate
  <2>3. TypeOK'
    BY <1>6, <2>2 DEF Evaluate, TypeOK
  <2>4. Places' /\ Hands'
    BY <1>6 DEF Evaluate, TypeOK, Places, Hands
  <2> QED
    BY <2>3, <2>4
<1>7. CASE TakeAnomaly
  <2>1. Head(out) \in Messages /\ out' \in Seq(Messages) /\ Len(out') <= OutCap
    BY <1>0, <1>7, ReceiveType DEF TakeAnomaly, TypeOK
  <2>2. TypeOK'
    BY <1>7, <2>1 DEF TakeAnomaly, TypeOK
  <2>3. Places' /\ Hands'
    BY <1>0, <1>7, <2>1 DEF TakeAnomaly, Places, Hands
  <2> QED
    BY <2>2, <2>3
<1>8. CASE IndexAnomaly
  <2>1. anomaly \in Messages
    BY <1>8 DEF IndexAnomaly, TypeOK, Hands
  <2>2. buffer' \in [Indexers -> SUBSET Messages] /\ panicked' \in BOOLEAN
    BY <1>8, <2>1, AddType DEF IndexAnomaly, Indexers
  <2>3. TypeOK'
    BY <1>8, <2>2 DEF IndexAnomaly, TypeOK
  <2>4. Places' /\ Hands'
    BY <1>8 DEF IndexAnomaly, Places, Hands
  <2> QED
    BY <2>3, <2>4
<1>9. CASE SendAlert
  BY <1>9 DEF SendAlert, TypeOK, Places, Hands
<1>10. CASE EndDispatch
  BY <1>10 DEF EndDispatch, TypeOK, Places, Hands
<1>11. CASE WatcherStep
  <2>1. CASE WatcherWakes \/ StopEngine
    BY <2>1, AfterIs DEF WatcherWakes, StopEngine, TypeOK, Places, Hands
  <2>2. ASSUME NEW s \in {"api", "metrics"}, ShutdownServer(s) PROVE IInv'
    <3>1. watcher' \in {"metrics", "stop"}
      BY <2>2, AfterIs DEF ShutdownServer
    <3> QED
      BY <2>2, <3>1 DEF ShutdownServer, TypeOK, Places, Hands
  <2>3. ASSUME NEW x \in Indexers, CloseIndexer(x) PROVE IInv'
    BY <2>3 DEF CloseIndexer, Indexers, TypeOK, Places, Hands
  <2>4. ASSUME NEW x \in Indexers, IndexerClosed(x) PROVE IInv'
    <3>1. watcher' \in {"close_anomaly", "done"}
      BY <2>4, AfterIs DEF IndexerClosed, Indexers
    <3> QED
      BY <2>4, <3>1 DEF IndexerClosed, TypeOK, Places, Hands
  <2> QED
    BY <1>11, <2>1, <2>2, <2>3, <2>4 DEF WatcherStep
<1>12. ASSUME NEW x \in Indexers, Flush(x) PROVE IInv'
  BY <1>12 DEF Flush, TypeOK, Places, Hands
<1>13. CASE Signal \/ Expire \/ \E s \in servers : ServerFails(s)
  BY <1>13 DEF Signal, Expire, ServerFails, TypeOK, Places, Hands
<1>14. CASE UNCHANGED vars
  BY <1>14 DEF vars, TypeOK, Places, Hands
<1> QED
  BY <1>1, <1>2, <1>3, <1>4, <1>5, <1>6, <1>7, <1>8, <1>9, <1>10, <1>11, <1>12, <1>13,
     <1>14
  DEF Next, ConsumerStep, DispatcherStep, WorkerStep

\* Every channel stays within its capacity, and nothing but messages reaches an indexer,
\* the anomaly channel or the alert channel.
THEOREM TypeCorrect == Spec => []TypeOK
<1>1. IInv => TypeOK
  BY DEF IInv
<1> QED
  BY <1>1, InitIInv, NextIInv, PTL DEF Spec

-----------------------------------------------------------------------------
(* What an indexer has accepted *)

\* The watcher has closed what it has passed, and nothing before gCtx was done.
Closing == /\ watcher # "wait" => done
           /\ "log" \in closed <=> watcher \in {"log", "close_anomaly", "anomaly", "done"}
           /\ "anomaly" \in closed <=> watcher \in {"anomaly", "done"}

\* An indexer whose Close has returned in time is empty, and as it is closed stays so.
Drained == ~expired =>
    /\ watcher \in {"close_anomaly", "anomaly", "done"} => buffer["log"] = {}
    /\ watcher = "done" => buffer["anomaly"] = {}

CInv == Closing /\ Drained

\* The document is new in the buffer only if the indexer is open.
LEMMA AddEffect ==
    ASSUME TypeOK, NEW x \in Indexers, NEW doc, Add(x, doc)
    PROVE  /\ \A y \in Indexers : y # x => buffer'[y] = buffer[y]
           /\ buffer[x] \subseteq buffer'[x]
           /\ x \in closed => buffer'[x] = buffer[x]
           /\ ~done /\ x \notin closed => doc \in buffer'[x]
BY DEF Add, TypeOK

LEMMA IndexersAre == "log" \in Indexers /\ "anomaly" \in Indexers
BY DEF Indexers

LEMMA InitCInv == Init => CInv
BY IndexersAre DEF Init, CInv, Closing, Drained

LEMMA NextCInv == IInv /\ CInv /\ [Next]_vars => CInv'
<1> SUFFICES ASSUME IInv, CInv, [Next]_vars PROVE CInv'
  OBVIOUS
<1> USE DEF CInv, pipe, work, disp, watch, docs
<1>1. ASSUME UNCHANGED <<done, watch, buffer>> PROVE CInv'
  BY <1>1 DEF Closing, Drained
<1>2. ASSUME NEW x \in Indexers, NEW doc, Add(x, doc), UNCHANGED <<done, watch>>
      PROVE  CInv'
  <2>1. Closing'
    BY <1>2 DEF Closing
  <2>2. Drained'
    BY <1>2, AddEffect, IndexersAre DEF IInv, Closing, Drained, Indexers
  <2> QED
    BY <2>1, <2>2
<1>3. CASE ConsumerStep
  BY <1>1, <1>3 DEF ConsumerStep, Deliver, StopPolling, CloseRaw
<1>4. ASSUME NEW w \in Workers, WorkerStep(w) PROVE CInv'
  <2>1. CASE IndexLog(w)
    BY <1>2, <2>1, IndexersAre DEF IndexLog
  <2> QED
    BY <1>1, <1>4, <2>1 DEF WorkerStep, Receive, EndRange, Evaluate
<1>5. CASE DispatcherStep \/ EndDispatch
  <2>1. CASE IndexAnomaly
    BY <1>2, <2>1, IndexersAre DEF IndexAnomaly
  <2> QED
    BY <1>1, <1>5, <2>1 DEF DispatcherStep, TakeAnomaly, SendAlert, EndDispatch
<1>6. CASE WatcherStep
  <2>1. CASE WatcherWakes \/ StopEngine
    BY <2>1, AfterIs DEF WatcherWakes, StopEngine, Closing, Drained
  <2>2. ASSUME NEW s \in {"api", "metrics"}, ShutdownServer(s) PROVE CInv'
    <3>1. watcher = s /\ watcher' \in {"metrics", "stop"}
      BY <2>2, AfterIs DEF ShutdownServer
    <3> QED
      BY <2>2, <3>1 DEF ShutdownServer, Closing, Drained
  <2>3. ASSUME NEW x \in Indexers, CloseIndexer(x) PROVE CInv'
    BY <2>3 DEF CloseIndexer, Indexers, Closing, Drained
  <2>4. ASSUME NEW x \in Indexers, IndexerClosed(x) PROVE CInv'
    <3>1. \/ x = "log" /\ watcher = "log" /\ watcher' = "close_anomaly"
          \/ x = "anomaly" /\ watcher = "anomaly" /\ watcher' = "done"
      BY <2>4, AfterIs DEF IndexerClosed, Indexers
    <3> QED
      BY <2>4, <3>1 DEF IndexerClosed, Closing, Drained
  <2> QED
    BY <1>6, <2>1, <2>2, <2>3, <2>4 DEF WatcherStep
<1>7. ASSUME NEW x \in Indexers, Flush(x) PROVE CInv'
  <2>1. \A y \in Indexers : buffer[y] = {} => buffer'[y] = {}
    BY <1>7 DEF Flush, IInv, TypeOK
  <2> QED
    BY <1>7, <2>1, IndexersAre DEF Flush, Closing, Drained
<1>8. CASE Signal \/ Expire \/ \E s \in servers : ServerFails(s)
  BY <1>8 DEF Signal, Expire, ServerFails, Closing, Drained
<1>9. CASE UNCHANGED vars
  BY <1>1, <1>9 DEF vars
<1> QED
  BY <1>3, <1>4, <1>5, <1>6, <1>7, <1>8, <1>9 DEF Next

\* A shutdown whose deadline has not passed ends with empty indexers: whatever workers
\* and dispatcher still hand over meets a queue that is closed.
THEOREM AcceptedHolds == Spec => []AcceptedIsStored
<1>1. CInv => AcceptedIsStored
  BY DEF CInv, Drained, AcceptedIsStored, Exited, Indexers
<1>2. IInv /\ CInv /\ [Next]_vars => (IInv /\ CInv)'
  BY NextIInv, NextCInv
<1> QED
  BY <1>1, <1>2, InitIInv, InitCInv, PTL DEF Spec

-----------------------------------------------------------------------------
(* What is lost *)

\* A worker that goes on to evaluate, or the dispatcher to send, leaves behind what the
\* indexer has accepted, unless gCtx is done.
Accepted == ~done =>
    /\ \A w \in Workers : worker[w] = "evaluate" => entry[w] \in buffer["log"] \cup stored["log"]
    /\ dispatcher = "send" => anomaly \in buffer["anomaly"] \cup stored["anomaly"]

NInv == Accepted /\ NothingLostWhileRunning

\* While gCtx is not done both indexers accept.
LEMMA AddAccepts ==
    ASSUME TypeOK, Closing, ~done, NEW x \in Indexers, NEW doc, Add(x, doc)
    PROVE  doc \in buffer'[x] /\ \A y \in Indexers : buffer[y] \subseteq buffer'[y]
<1>1. x \notin closed
  BY DEF Closing, Indexers
<1> QED
  BY <1>1, AddEffect

\* A flush moves documents and loses none.
LEMMA FlushKeeps ==
    ASSUME TypeOK, NEW x \in Indexers, Flush(x)
    PROVE  \A y \in Indexers : buffer'[y] \cup stored'[y] = buffer[y] \cup stored[y]
BY DEF Flush, TypeOK, docs

LEMMA InitNInv == Init => NInv
<1> SUFFICES ASSUME Init PROVE NInv
  OBVIOUS
<1>1. 1 .. delivered = {} /\ taken = {}
  BY DEF Init
<1> QED
  BY <1>1 DEF Init, NInv, Accepted, NothingLostWhileRunning

LEMMA NextNInv == IInv /\ Closing /\ NInv /\ [Next]_vars => NInv'
<1> SUFFICES ASSUME IInv, Closing, NInv, [Next]_vars PROVE NInv'
  OBVIOUS
<1> DEFINE Forwarded == SeqToSet(raw) \cup {entry[w] : w \in Workers}
                          \cup buffer["log"] \cup stored["log"]
           Found == {anomaly} \cup buffer["anomaly"] \cup stored["anomaly"]
<1> USE DEF IInv, NInv, pipe, work, disp, watch, docs
<1>0. Nothing \notin Messages /\ Nothing = 0
  BY DEF Nothing, Messages
<1>1. CASE Deliver
  <2>1. delivered \in Nat /\ delivered + 1 \in Messages
    BY <1>1, ShutdownAssumption DEF Deliver, TypeOK, Messages
  <2>2. SeqToSet(raw') = SeqToSet(raw) \cup {delivered + 1}
    BY <1>1, <2>1, SendType DEF Deliver, TypeOK
  <2>3. 1 .. delivered' = 1 .. delivered \cup {delivered + 1}
    BY <1>1, <2>1 DEF Deliver
  <2> QED
    BY <1>1, <2>2, <2>3 DEF Deliver, Accepted, NothingLostWhileRunning
<1>2. CASE StopPolling \/ CloseRaw \/ EndDispatch \/ UNCHANGED vars
  BY <1>2 DEF StopPolling, CloseRaw, EndDispatch, vars, Accepted, NothingLostWhileRunning
<1>3. ASSUME NEW w \in Workers, Receive(w) PROVE NInv'
  <2>1. SeqToSet(raw) = {Head(raw)} \cup SeqToSet(raw')
    BY <1>3, ReceiveType DEF Receive, TypeOK
  <2>2. entry[w] = Nothing /\ entry'[w] = Head(raw)
    BY <1>3 DEF Receive, TypeOK, Hands
  <2>3. \A v \in Workers : v # w => entry'[v] = entry[v]
    BY <1>3 DEF Receive, TypeOK
  <2>4. Forwarded \subseteq Forwarded' \cup {Nothing}
    BY <1>3, <2>1, <2>2, <2>3 DEF Receive
  <2>5. 0 \notin 1 .. delivered
    OBVIOUS
  <2>6. \A v \in Workers : worker'[v] = "evaluate" => v # w /\ worker[v] = "evaluate"
    BY <1>3 DEF Receive, Places
  <2>7. Accepted'
    BY <1>3, <2>3, <2>6 DEF Receive, Accepted
  <2>8. UNCHANGED <<done, delivered, disp, docs>>
    BY <1>3 DEF Receive
  <2>9. ~done => 1 .. delivered \subseteq Forwarded
    BY DEF NothingLostWhileRunning
  <2>10. ~done => 1 .. delivered \subseteq Forwarded'
    BY <1>0, <2>4, <2>5, <2>9
  <2> QED
    BY <2>7, <2>8, <2>10 DEF NothingLostWhileRunning
<1>4. ASSUME NEW w \in Workers, EndRange(w) PROVE NInv'
  BY <1>4 DEF EndRange, Places, Accepted, NothingLostWhileRunning
<1>5. ASSUME NEW w \in Workers, IndexLog(w) PROVE NInv'
  <2>1. CASE done
    BY <1>5, <2>1 DEF IndexLog, Accepted, NothingLostWhileRunning
  <2>2. CASE ~done
    <3>1. /\ entry[w] \in buffer'["log"]
          /\ \A y \in Indexers : buffer[y] \subseteq buffer'[y]
      BY <1>5, <2>2, AddAccepts, IndexersAre DEF IndexLog
    <3> QED
      BY <1>5, <3>1, IndexersAre DEF IndexLog, Places, Accepted, NothingLostWhileRunning
  <2> QED
    BY <2>1, <2>2
<1>6. ASSUME NEW w \in Workers, Evaluate(w) PROVE NInv'
  <2>1. \A v \in Workers : v # w => entry'[v] = entry[v]
    BY <1>6 DEF Evaluate, TypeOK
  <2>2. /\ ~done => entry[w] \in buffer["log"] \cup stored["log"]
        /\ UNCHANGED <<done, raw, delivered, disp, docs>>
    BY <1>6 DEF Evaluate, Accepted
  <2>3. ~done => Forwarded \subseteq Forwarded'
    <3>1. \A v \in Workers : entry[v] = entry[w] \/ entry[v] = entry'[v]
      BY <2>1
    <3> QED
      BY <2>2, <3>1
  <2>4. \A v \in Workers : worker'[v] = "evaluate" => v # w /\ worker[v] = "evaluate"
    BY <1>6 DEF Evaluate, Places
  <2>5. Accepted'
    BY <2>1, <2>2, <2>4 DEF Accepted
  <2>6. ~done => 1 .. delivered \subseteq Forwarded
    BY DEF NothingLostWhileRunning
  <2> QED
    BY <2>2, <2>3, <2>5, <2>6 DEF NothingLostWhileRunning
<1>7. CASE TakeAnomaly
  <2>1. anomaly = Nothing /\ anomaly \notin taken
    BY <1>0, <1>7 DEF TakeAnomaly, TypeOK, Hands
  <2> QED
    BY <1>7, <2>1 DEF TakeAnomaly, Accepted, NothingLostWhileRunning
<1>8. CASE IndexAnomaly
  <2>1. HasAlertChannel => taken \subseteq {anomaly} \cup notified
    BY DEF NothingLostWhileRunning
  <2>2. CASE done
    BY <1>8, <2>1, <2>2 DEF IndexAnomaly, Accepted, NothingLostWhileRunning
  <2>3. CASE ~done
    <3>1. /\ anomaly \in buffer'["anomaly"]
          /\ \A y \in Indexers : buffer[y] \subseteq buffer'[y]
      BY <1>8, <2>3, AddAccepts, IndexersAre DEF IndexAnomaly
    <3> QED
      BY <1>8, <2>1, <3>1, IndexersAre DEF IndexAnomaly, Accepted, NothingLostWhileRunning
  <2> QED
    BY <2>2, <2>3
<1>9. CASE SendAlert
  BY <1>9 DEF SendAlert, Accepted, NothingLostWhileRunning
<1>10. CASE WatcherStep \/ Signal \/ Expire \/ \E s \in servers : ServerFails(s)
  <2>1. UNCHANGED <<pipe, work, out, disp, docs>> /\ (done => done')
    <3>1. CASE WatcherWakes \/ StopEngine
      BY <3>1 DEF WatcherWakes, StopEngine
    <3>2. ASSUME NEW s \in {"api", "metrics"}, ShutdownServer(s)
          PROVE  UNCHANGED <<done, pipe, work, out, disp, docs>>
      BY <3>2 DEF ShutdownServer
    <3>3. ASSUME NEW x \in Indexers, CloseIndexer(x) \/ IndexerClosed(x)
          PROVE  UNCHANGED <<done, pipe, work, out, disp, docs>>
      BY <3>3 DEF CloseIndexer, IndexerClosed
    <3> QED
      BY <1>10, <3>1, <3>2, <3>3 DEF WatcherStep, Signal, Expire, ServerFails
  <2> QED
    BY <2>1 DEF Accepted, NothingLostWhileRunning
<1>11. ASSUME NEW x \in Indexers, Flush(x) PROVE NInv'
  <2>1. /\ buffer'["log"] \cup stored'["log"] = buffer["log"] \cup stored["log"]
        /\ buffer'["anomaly"] \cup stored'["anomaly"] = buffer["anomaly"] \cup stored["anomaly"]
        /\ UNCHANGED <<done, pipe, work, disp>>
    BY <1>11, FlushKeeps, IndexersAre DEF Flush
  <2>2. Forwarded' = Forwarded /\ Found' = Found
    BY <2>1
  <2>3. Accepted'
    BY <2>1 DEF Accepted
  <2> QED
    BY <2>1, <2>2, <2>3 DEF NothingLostWhileRunning
<1> QED
  BY <1>1, <1>2, <1>3, <1>4, <1>5, <1>6, <1>7, <1>8, <1>9, <1>10, <1>11
  DEF Next, ConsumerStep, DispatcherStep, WorkerStep

\* Until gCtx is done no message and no anomaly is lost between channel and indexer, and
\* the alert channel misses none even then.
THEOREM NothingLostHolds == Spec => []NothingLostWhileRunning
<1>1. NInv => NothingLostWhileRunning
  BY DEF NInv
<1>2. IInv /\ CInv /\ NInv /\ [Next]_vars => (IInv /\ CInv /\ NInv)'
  BY NextIInv, NextCInv, NextNInv DEF CInv
<1> QED
  BY <1>1, <1>2, InitIInv, InitCInv, InitNInv, PTL DEF Spec

-----------------------------------------------------------------------------
(* Shutdown comes to its end *)

\* consumer has its three values, and the watcher has passed the servers that it stopped.
Gone == /\ consumer \in {"run", "return", "done"}
        /\ servers \subseteq {"api", "metrics"}
        /\ watcher \notin {"wait", "api"} => "api" \notin servers
        /\ watcher \notin {"wait", "api", "metrics"} => "metrics" \notin servers

LEMMA InitGone == Init => Gone
BY DEF Init, Gone

LEMMA NextGone == IInv /\ Gone /\ [Next]_vars => Gone'
<1> SUFFICES ASSUME IInv, Gone, [Next]_vars PROVE Gone'
  OBVIOUS
<1> USE DEF Gone, pipe, work, disp, watch, docs
<1>1. ASSUME UNCHANGED <<consumer, watch>> PROVE Gone'
  BY <1>1
<1>2. CASE ConsumerStep
  BY <1>2 DEF ConsumerStep, Deliver, StopPolling, CloseRaw
<1>3. ASSUME NEW w \in Workers, WorkerStep(w) PROVE Gone'
  BY <1>1, <1>3 DEF WorkerStep, Receive, EndRange, IndexLog, Evaluate
<1>4. CASE DispatcherStep \/ EndDispatch
  BY <1>1, <1>4 DEF DispatcherStep, TakeAnomaly, IndexAnomaly, SendAlert, EndDispatch
<1>5. CASE WatcherStep
  <2>1. CASE WatcherWakes \/ StopEngine
    BY <2>1, AfterIs DEF WatcherWakes, StopEngine
  <2>2. ASSUME NEW s \in {"api", "metrics"}, ShutdownServer(s) PROVE Gone'
    BY <2>2, AfterIs DEF ShutdownServer
  <2>3. ASSUME NEW x \in Indexers, CloseIndexer(x) PROVE Gone'
    BY <2>3 DEF CloseIndexer, Indexers
  <2>4. ASSUME NEW x \in Indexers, IndexerClosed(x) PROVE Gone'
    BY <2>4, AfterIs DEF IndexerClosed, Indexers
  <2> QED
    BY <1>5, <2>1, <2>2, <2>3, <2>4 DEF WatcherStep
<1>6. ASSUME NEW x \in Indexers, Flush(x) PROVE Gone'
  BY <1>1, <1>6 DEF Flush
<1>7. ASSUME NEW s \in servers, ServerFails(s) PROVE Gone'
  BY <1>7 DEF ServerFails
<1>8. CASE Signal \/ Expire \/ UNCHANGED vars
  BY <1>8 DEF Signal, Expire, vars
<1> QED
  BY <1>2, <1>3, <1>4, <1>5, <1>6, <1>7, <1>8 DEF Next

\* The guards of what Fairness makes run: a goroutine that has not ended, and waits for
\* nobody, or an indexer with something to flush.
CanMove ==
    \/ consumer \in {"run", "return"}
    \/ \E w \in Workers : \/ worker[w] \in {"index", "evaluate"}
                          \/ worker[w] = "range" /\ (raw # <<>> \/ consumer = "done")
    \/ dispatcher \in {"select", "index", "send"}
    \/ watcher \in {"wait", "api", "metrics", "stop", "close_log", "close_anomaly"}
    \/ \E x \in Indexers : watcher = x /\ (buffer[x] = {} \/ expired)
    \/ \E x \in Indexers : buffer[x] # {}

\* wire.go:147 and wire.go:170: once gCtx is done the process has ended, or somebody can
\* move on.  No worker waits for a consumer that is gone without having closed its
\* channel, the watcher for no indexer that nobody flushes, and no server is left that
\* nobody stops.
THEOREM NobodyWaitsForever == Spec => [](done => panicked \/ Exited \/ CanMove)
<1>1. IInv /\ Gone => (done => panicked \/ Exited \/ CanMove)
  <2> SUFFICES ASSUME IInv, Gone, ~CanMove PROVE Exited
    OBVIOUS
  <2>1. consumer = "done" /\ dispatcher = "done"
    BY DEF CanMove, Gone, IInv, Places
  <2>2. \A w \in Workers : worker[w] = "done"
    BY <2>1 DEF CanMove, IInv, Places
  <2>3. watcher = "done"
    BY DEF CanMove, IInv, Places, Indexers
  <2> QED
    BY <2>1, <2>2, <2>3 DEF Exited, Gone
<1>2. IInv /\ Gone /\ [Next]_vars => (IInv /\ Gone)'
  BY NextIInv, NextGone
<1> QED
  BY <1>1, <1>2, InitIInv, InitGone, PTL DEF Spec

\* How many steps are left at most: each message may still be sent, taken, indexed,
\* flushed, evaluated and found an anomaly, which is taken, indexed, flushed and alerted.
Indexing == {w \in Workers : worker[w] = "index"}
Working  == {w \in Workers : worker[w] \in {"index", "evaluate"}}
Running  == {w \in Workers : worker[w] # "done"}

MessagesLeft  == 9 * (MaxMsgs - delivered) + 8 * Len(raw)
WorkersLeft   == 2 * Cardinality(Indexing) + 5 * Cardinality(Working) + Cardinality(Running)
AnomaliesLeft == 4 * Len(out)
                 + (IF dispatcher = "index" THEN 4 ELSE IF dispatcher = "send" THEN 2
                    ELSE IF dispatcher = "select" THEN 1 ELSE 0)
FlushesLeft   == (IF buffer["log"] = {} THEN 0 ELSE 1)
                 + (IF buffer["anomaly"] = {} THEN 0 ELSE 1)
ConsumerLeft  == IF consumer = "run" THEN 2 ELSE IF consumer = "return" THEN 1 ELSE 0
WatcherLeft   ==
    IF watcher = "wait" THEN 8 ELSE IF watcher = "api" THEN 7
    ELSE IF watcher = "metrics" THEN 6 ELSE IF watcher = "stop" THEN 5
    ELSE IF watcher = "close_log" THEN 4 ELSE IF watcher = "log" THEN 3
    ELSE IF watcher = "close_anomaly" THEN 2 ELSE IF watcher = "anomaly" THEN 1 ELSE 0
ServersLeft == (IF "api" \in servers THEN 1 ELSE 0) + (IF "metrics" \in servers THEN 1 ELSE 0)
StopLeft    == (IF done THEN 0 ELSE 1) + (IF expired THEN 0 ELSE 1) + ServersLeft

StepsLeft == MessagesLeft + WorkersLeft + AnomaliesLeft + FlushesLeft + ConsumerLeft
             + WatcherLeft + StopLeft

\* The parts are natural numbers.
LEMMA LeftTypes ==
    ASSUME IInv, IsFiniteSet(Workers)
    PROVE  /\ MessagesLeft \in Nat /\ WorkersLeft \in Nat /\ AnomaliesLeft \in Nat
           /\ FlushesLeft \in Nat /\ ConsumerLeft \in Nat
           /\ WatcherLeft \in Nat /\ StopLeft \in Nat
           /\ Len(raw) \in Nat /\ Len(out) \in Nat
<1>1. Len(raw) \in Nat /\ Len(out) \in Nat
  BY DEF IInv, TypeOK
<1>2. /\ Cardinality(Indexing) \in Nat /\ Cardinality(Working) \in Nat
      /\ Cardinality(Running) \in Nat
  BY FS_Subset, FS_CardinalityType DEF Indexing, Working, Running
<1>3. MessagesLeft \in Nat
  BY <1>1, ShutdownAssumption DEF MessagesLeft, IInv, TypeOK
<1>4. WorkersLeft \in Nat
  BY <1>2 DEF WorkersLeft
<1>5. AnomaliesLeft \in Nat
  BY <1>1 DEF AnomaliesLeft
<1> QED
  BY <1>1, <1>3, <1>4, <1>5 DEF FlushesLeft, ConsumerLeft, WatcherLeft, StopLeft, ServersLeft

\* A worker that moves on from one place to the next.
LEMMA WorkerMoves ==
    ASSUME IInv, IsFiniteSet(Workers), NEW w \in Workers, NEW place,
           worker' = [worker EXCEPT ![w] = place]
    PROVE  /\ worker[w] = "range" /\ place = "index" => WorkersLeft' = WorkersLeft + 7
           /\ worker[w] = "index" /\ place = "evaluate" => WorkersLeft' = WorkersLeft - 2
           /\ worker[w] = "evaluate" /\ place = "range" => WorkersLeft' = WorkersLeft - 5
           /\ worker[w] = "range" /\ place = "done" => WorkersLeft' = WorkersLeft - 1
<1>1. worker \in [Workers -> {"range", "index", "evaluate", "done"}]
  BY DEF IInv, Places
<1>2. worker'[w] = place /\ \A v \in Workers : v # w => worker'[v] = worker[v]
  BY <1>1
<1>3. IsFiniteSet(Indexing) /\ IsFiniteSet(Working) /\ IsFiniteSet(Running)
  BY FS_Subset DEF Indexing, Working, Running
<1>4. /\ Cardinality(Indexing) \in Nat /\ Cardinality(Working) \in Nat
      /\ Cardinality(Running) \in Nat
  BY <1>3, FS_CardinalityType
<1>5. ASSUME worker[w] = "range", place = "index" PROVE WorkersLeft' = WorkersLeft + 7
  <2>1. /\ Indexing' = Indexing \cup {w} /\ w \notin Indexing
        /\ Working' = Working \cup {w} /\ w \notin Working
        /\ Running' = Running
    BY <1>2, <1>5 DEF Indexing, Working, Running
  <2>2. /\ Cardinality(Indexing') = Cardinality(Indexing) + 1
        /\ Cardinality(Working') = Cardinality(Working) + 1
    BY <1>3, <2>1, FS_AddElement
  <2> QED
    BY <1>4, <2>1, <2>2 DEF WorkersLeft
<1>6. ASSUME worker[w] = "index", place = "evaluate" PROVE WorkersLeft' = WorkersLeft - 2
  <2>1. /\ Indexing' = Indexing \ {w} /\ w \in Indexing
        /\ Working' = Working /\ Running' = Running
    BY <1>2, <1>6 DEF Indexing, Working, Running
  <2>2. Cardinality(Indexing') = Cardinality(Indexing) - 1
    BY <1>3, <2>1, FS_RemoveElement
  <2> QED
    BY <1>4, <2>1, <2>2 DEF WorkersLeft
<1>7. ASSUME worker[w] = "evaluate", place = "range" PROVE WorkersLeft' = WorkersLeft - 5
  <2>1. /\ Indexing' = Indexing
        /\ Working' = Working \ {w} /\ w \in Working
        /\ Running' = Running
    BY <1>2, <1>7 DEF Indexing, Working, Running
  <2>2. Cardinality(Working') = Cardinality(Working) - 1
    BY <1>3, <2>1, FS_RemoveElement
  <2> QED
    BY <1>4, <2>1, <2>2 DEF WorkersLeft
<1>8. ASSUME worker[w] = "range", place = "done" PROVE WorkersLeft' = WorkersLeft - 1
  <2>1. /\ Indexing' = Indexing /\ Working' = Working
        /\ Running' = Running \ {w} /\ w \in Running
    BY <1>2, <1>8 DEF Indexing, Working, Running
  <2>2. Cardinality(Running') = Cardinality(Running) - 1
    BY <1>3, <2>1, FS_RemoveElement
  <2> QED
    BY <1>4, <2>1, <2>2 DEF WorkersLeft
<1> QED
  BY <1>5, <1>6, <1>7, <1>8

\* What an indexer accepts is one flush more, or none.
LEMMA AddLeft ==
    ASSUME IInv, NEW x \in Indexers, NEW doc, Add(x, doc)
    PROVE  FlushesLeft' = FlushesLeft \/ FlushesLeft' = FlushesLeft + 1
<1>1. /\ \A y \in Indexers : y # x => buffer'[y] = buffer[y]
      /\ buffer[x] \subseteq buffer'[x]
  BY AddEffect DEF IInv
<1> QED
  BY <1>1, IndexersAre DEF FlushesLeft, Indexers

\* The parts that a step leaves alone.
LEMMA SamePart ==
    /\ delivered' = delivered /\ raw' = raw => MessagesLeft' = MessagesLeft
    /\ worker' = worker => WorkersLeft' = WorkersLeft
    /\ out' = out /\ dispatcher' = dispatcher => AnomaliesLeft' = AnomaliesLeft
    /\ buffer' = buffer => FlushesLeft' = FlushesLeft
    /\ consumer' = consumer => ConsumerLeft' = ConsumerLeft
    /\ watcher' = watcher => WatcherLeft' = WatcherLeft
    /\ done' = done /\ expired' = expired /\ servers' = servers => StopLeft' = StopLeft
<1>1. worker' = worker => WorkersLeft' = WorkersLeft
  BY DEF WorkersLeft, Indexing, Working, Running
<1>2. out' = out /\ dispatcher' = dispatcher => AnomaliesLeft' = AnomaliesLeft
  BY DEF AnomaliesLeft
<1>3. delivered' = delivered /\ raw' = raw => MessagesLeft' = MessagesLeft
  BY DEF MessagesLeft
<1>4. watcher' = watcher => WatcherLeft' = WatcherLeft
  BY DEF WatcherLeft
<1>5. done' = done /\ expired' = expired /\ servers' = servers => StopLeft' = StopLeft
  BY DEF StopLeft, ServersLeft
<1> QED
  BY <1>1, <1>2, <1>3, <1>4, <1>5 DEF FlushesLeft, ConsumerLeft

LEMMA PipelineCounts ==
    ASSUME IInv, IsFiniteSet(Workers),
           ConsumerStep \/ \E w \in Workers : WorkerStep(w)
    PROVE  StepsLeft' < StepsLeft
<1> USE DEF StepsLeft
<1>t. /\ MessagesLeft \in Nat /\ WorkersLeft \in Nat /\ AnomaliesLeft \in Nat
      /\ FlushesLeft \in Nat /\ ConsumerLeft \in Nat
      /\ WatcherLeft \in Nat /\ StopLeft \in Nat
      /\ Len(raw) \in Nat /\ Len(out) \in Nat
  BY LeftTypes
<1>0. raw \in Seq(Messages) /\ out \in Seq(Messages) /\ delivered \in Nat /\ MaxMsgs \in Nat
  BY ShutdownAssumption DEF IInv, TypeOK
<1>1. CASE Deliver
  <2>1. Len(raw') = Len(raw) + 1 /\ delivered' = delivered + 1
    BY <1>0, <1>1 DEF Deliver
  <2>2. MessagesLeft' = MessagesLeft - 1
    BY <1>0, <2>1 DEF MessagesLeft
  <2>3. /\ WorkersLeft' = WorkersLeft /\ AnomaliesLeft' = AnomaliesLeft
        /\ FlushesLeft' = FlushesLeft /\ ConsumerLeft' = ConsumerLeft
        /\ WatcherLeft' = WatcherLeft /\ StopLeft' = StopLeft
    BY SamePart, <1>1 DEF Deliver, pipe, work, disp, watch, docs
  <2> QED
    BY <1>t, <2>2, <2>3
<1>2. CASE StopPolling \/ CloseRaw
  <2>1. ConsumerLeft' = ConsumerLeft - 1
    BY <1>2 DEF StopPolling, CloseRaw, ConsumerLeft
  <2>2. /\ MessagesLeft' = MessagesLeft /\ WorkersLeft' = WorkersLeft
        /\ AnomaliesLeft' = AnomaliesLeft /\ FlushesLeft' = FlushesLeft
        /\ WatcherLeft' = WatcherLeft /\ StopLeft' = StopLeft
    BY SamePart, <1>2 DEF StopPolling, CloseRaw, pipe, work, disp, watch, docs
  <2> QED
    BY <1>t, <2>1, <2>2
<1>3. ASSUME NEW w \in Workers, Receive(w) PROVE StepsLeft' < StepsLeft
  <2>1. Len(raw') = Len(raw) - 1 /\ delivered' = delivered
    BY <1>0, <1>3 DEF Receive
  <2>2. MessagesLeft' = MessagesLeft - 8
    BY <1>0, <2>1 DEF MessagesLeft
  <2>3. WorkersLeft' = WorkersLeft + 7
    BY <1>3, WorkerMoves DEF Receive
  <2>4. /\ AnomaliesLeft' = AnomaliesLeft /\ FlushesLeft' = FlushesLeft
        /\ ConsumerLeft' = ConsumerLeft /\ WatcherLeft' = WatcherLeft
        /\ StopLeft' = StopLeft
    BY SamePart, <1>3 DEF Receive, pipe, work, disp, watch, docs
  <2> QED
    BY <1>t, <2>2, <2>3, <2>4
<1>4. ASSUME NEW w \in Workers, EndRange(w) PROVE StepsLeft' < StepsLeft
  <2>1. WorkersLeft' = WorkersLeft - 1
    BY <1>4, WorkerMoves DEF EndRange
  <2>2. /\ MessagesLeft' = MessagesLeft /\ AnomaliesLeft' = AnomaliesLeft
        /\ FlushesLeft' = FlushesLeft /\ ConsumerLeft' = ConsumerLeft
        /\ WatcherLeft' = WatcherLeft /\ StopLeft' = StopLeft
    BY SamePart, <1>4 DEF EndRange, pipe, work, disp, watch, docs
  <2> QED
    BY <1>t, <2>1, <2>2
<1>5. ASSUME NEW w \in Workers, IndexLog(w) PROVE StepsLeft' < StepsLeft
  <2>1. WorkersLeft' = WorkersLeft - 2
    BY <1>5, WorkerMoves DEF IndexLog
  <2>2. FlushesLeft' = FlushesLeft \/ FlushesLeft' = FlushesLeft + 1
    BY <1>5, AddLeft, IndexersAre DEF IndexLog
  <2>3. /\ MessagesLeft' = MessagesLeft /\ AnomaliesLeft' = AnomaliesLeft
        /\ ConsumerLeft' = ConsumerLeft /\ WatcherLeft' = WatcherLeft
        /\ StopLeft' = StopLeft
    BY SamePart, <1>5 DEF IndexLog, pipe, work, disp, watch, docs
  <2> QED
    BY <1>t, <2>1, <2>2, <2>3
<1>6. ASSUME NEW w \in Workers, Evaluate(w) PROVE StepsLeft' < StepsLeft
  <2>1. WorkersLeft' = WorkersLeft - 5
    BY <1>6, WorkerMoves DEF Evaluate
  <2>2. Len(out') \in {Len(out), Len(out) + 1} /\ dispatcher' = dispatcher
    <3>1. entry[w] \in Messages
      BY <1>6 DEF Evaluate, IInv, TypeOK, Hands
    <3>2. Len(Append(out, entry[w])) = Len(out) + 1
      BY <1>0, <3>1
    <3>3. out' = out \/ out' = Append(out, entry[w])
      BY <1>6 DEF Evaluate
    <3>4. dispatcher' = dispatcher
      BY <1>6 DEF Evaluate, disp
    <3> QED
      BY <3>2, <3>3, <3>4
  <2>3. AnomaliesLeft' = AnomaliesLeft \/ AnomaliesLeft' = AnomaliesLeft + 4
    BY <2>2 DEF AnomaliesLeft
  <2>4. /\ MessagesLeft' = MessagesLeft /\ FlushesLeft' = FlushesLeft
        /\ ConsumerLeft' = ConsumerLeft /\ WatcherLeft' = WatcherLeft
        /\ StopLeft' = StopLeft
    BY SamePart, <1>6 DEF Evaluate, pipe, work, disp, watch, docs
  <2> QED
    BY <1>t, <2>1, <2>3, <2>4
<1> QED
  BY <1>1, <1>2, <1>3, <1>4, <1>5, <1>6 DEF ConsumerStep, WorkerStep

LEMMA DispatcherCounts ==
    ASSUME IInv, IsFiniteSet(Workers), DispatcherStep \/ EndDispatch
    PROVE  StepsLeft' < StepsLeft
<1> USE DEF StepsLeft
<1>t. /\ MessagesLeft \in Nat /\ WorkersLeft \in Nat /\ AnomaliesLeft \in Nat
      /\ FlushesLeft \in Nat /\ ConsumerLeft \in Nat
      /\ WatcherLeft \in Nat /\ StopLeft \in Nat
      /\ Len(raw) \in Nat /\ Len(out) \in Nat
  BY LeftTypes
<1>1. CASE TakeAnomaly
  <2>1. Len(out') = Len(out) - 1
    BY <1>1 DEF TakeAnomaly, IInv, TypeOK
  <2>2. AnomaliesLeft' = AnomaliesLeft - 1
    BY <1>1, <2>1 DEF TakeAnomaly, AnomaliesLeft
  <2>3. /\ MessagesLeft' = MessagesLeft /\ WorkersLeft' = WorkersLeft
        /\ FlushesLeft' = FlushesLeft /\ ConsumerLeft' = ConsumerLeft
        /\ WatcherLeft' = WatcherLeft /\ StopLeft' = StopLeft
    BY SamePart, <1>1 DEF TakeAnomaly, pipe, work, disp, watch, docs
  <2> QED
    BY <1>t, <2>2, <2>3
<1>2. CASE IndexAnomaly
  <2>1. AnomaliesLeft' = AnomaliesLeft - 2 \/ AnomaliesLeft' = AnomaliesLeft - 3
    <3>1. dispatcher = "index" /\ dispatcher' \in {"send", "select"} /\ out' = out
      BY <1>2 DEF IndexAnomaly
    <3>2. AnomaliesLeft = 4 * Len(out) + 4
      BY <3>1 DEF AnomaliesLeft
    <3>3. AnomaliesLeft' = 4 * Len(out) + 2 \/ AnomaliesLeft' = 4 * Len(out) + 1
      BY <3>1 DEF AnomaliesLeft
    <3> QED
      BY <1>t, <3>2, <3>3
  <2>2. FlushesLeft' = FlushesLeft \/ FlushesLeft' = FlushesLeft + 1
    BY <1>2, AddLeft, IndexersAre DEF IndexAnomaly
  <2>3. /\ MessagesLeft' = MessagesLeft /\ WorkersLeft' = WorkersLeft
        /\ ConsumerLeft' = ConsumerLeft /\ WatcherLeft' = WatcherLeft
        /\ StopLeft' = StopLeft
    BY SamePart, <1>2 DEF IndexAnomaly, pipe, work, disp, watch, docs
  <2> QED
    BY <1>t, <2>1, <2>2, <2>3
<1>3. CASE SendAlert \/ EndDispatch
  <2>1. AnomaliesLeft' = AnomaliesLeft - 1
    BY <1>3 DEF SendAlert, EndDispatch, AnomaliesLeft
  <2>2. /\ MessagesLeft' = MessagesLeft /\ WorkersLeft' = WorkersLeft
        /\ FlushesLeft' = FlushesLeft /\ ConsumerLeft' = ConsumerLeft
        /\ WatcherLeft' = WatcherLeft /\ StopLeft' = StopLeft
    BY SamePart, <1>3 DEF SendAlert, EndDispatch, pipe, work, disp, watch, docs
  <2> QED
    BY <1>t, <2>1, <2>2
<1> QED
  BY <1>1, <1>2, <1>3 DEF DispatcherStep

\* The watcher's next call, whichever it is.
LEMMA WatcherMoves ==
    ASSUME \/ watcher = "wait" /\ watcher' = "api"
           \/ watcher = "api" /\ watcher' = "metrics"
           \/ watcher = "metrics" /\ watcher' = "stop"
           \/ watcher = "stop" /\ watcher' = "close_log"
           \/ watcher = "close_log" /\ watcher' = "log"
           \/ watcher = "log" /\ watcher' = "close_anomaly"
           \/ watcher = "close_anomaly" /\ watcher' = "anomaly"
           \/ watcher = "anomaly" /\ watcher' = "done"
    PROVE  WatcherLeft' = WatcherLeft - 1
BY DEF WatcherLeft

LEMMA ShutdownCounts ==
    ASSUME IInv, IsFiniteSet(Workers),
           \/ WatcherStep \/ Signal \/ Expire
           \/ \E x \in Indexers : Flush(x)
           \/ \E s \in servers : ServerFails(s) /\ s \in {"api", "metrics"}
    PROVE  StepsLeft' < StepsLeft
<1> USE DEF StepsLeft
<1>t. /\ MessagesLeft \in Nat /\ WorkersLeft \in Nat /\ AnomaliesLeft \in Nat
      /\ FlushesLeft \in Nat /\ ConsumerLeft \in Nat
      /\ WatcherLeft \in Nat /\ StopLeft \in Nat
      /\ Len(raw) \in Nat /\ Len(out) \in Nat
  BY LeftTypes
<1>1. ASSUME NEW x \in Indexers, Flush(x) PROVE StepsLeft' < StepsLeft
  <2>1. buffer'[x] = {} /\ \A y \in Indexers : y # x => buffer'[y] = buffer[y]
    BY <1>1 DEF Flush, IInv, TypeOK
  <2>2. FlushesLeft' = FlushesLeft - 1
    BY <1>1, <2>1, IndexersAre DEF Flush, FlushesLeft, Indexers
  <2>3. /\ MessagesLeft' = MessagesLeft /\ WorkersLeft' = WorkersLeft
        /\ AnomaliesLeft' = AnomaliesLeft /\ ConsumerLeft' = ConsumerLeft
        /\ WatcherLeft' = WatcherLeft /\ StopLeft' = StopLeft
    BY SamePart, <1>1 DEF Flush, pipe, work, disp, watch, docs
  <2> QED
    BY <1>t, <2>2, <2>3
<1>2. CASE Signal \/ Expire
  <2>1. Signal => StopLeft' = StopLeft - 1
    <3> HAVE Signal
    <3>1. ~done /\ done' /\ expired' = expired /\ servers' = servers
      BY DEF Signal, watch
    <3>2. ServersLeft \in Nat /\ ServersLeft' = ServersLeft
      BY <3>1 DEF ServersLeft
    <3>3. CASE expired
      BY <3>1, <3>2, <3>3 DEF StopLeft
    <3>4. CASE ~expired
      BY <3>1, <3>2, <3>4 DEF StopLeft
    <3> QED
      BY <3>3, <3>4
  <2>2. Expire => StopLeft' = StopLeft - 1
    <3> HAVE Expire
    <3>1. ~expired /\ expired' /\ done' = done /\ servers' = servers
      BY DEF Expire
    <3>2. ServersLeft \in Nat /\ ServersLeft' = ServersLeft
      BY <3>1 DEF ServersLeft
    <3>3. CASE done
      BY <3>1, <3>2, <3>3 DEF StopLeft
    <3>4. CASE ~done
      BY <3>1, <3>2, <3>4 DEF StopLeft
    <3> QED
      BY <3>3, <3>4
  <2>3. /\ MessagesLeft' = MessagesLeft /\ WorkersLeft' = WorkersLeft
        /\ AnomaliesLeft' = AnomaliesLeft /\ FlushesLeft' = FlushesLeft
        /\ ConsumerLeft' = ConsumerLeft /\ WatcherLeft' = WatcherLeft
    BY SamePart, <1>2 DEF Signal, Expire, pipe, work, disp, watch, docs
  <2> QED
    BY <1>t, <2>1, <2>2, <2>3, <1>2
<1>3. ASSUME NEW s \in servers, ServerFails(s), s \in {"api", "metrics"}
      PROVE  StepsLeft' < StepsLeft
  <2>1. StopLeft' = StopLeft - 1 \/ StopLeft' = StopLeft - 2
    BY <1>3 DEF ServerFails, StopLeft, ServersLeft, IInv, TypeOK
  <2>2. /\ MessagesLeft' = MessagesLeft /\ WorkersLeft' = WorkersLeft
        /\ AnomaliesLeft' = AnomaliesLeft /\ FlushesLeft' = FlushesLeft
        /\ ConsumerLeft' = ConsumerLeft /\ WatcherLeft' = WatcherLeft
    BY SamePart, <1>3 DEF ServerFails, pipe, work, disp, watch, docs
  <2> QED
    BY <1>t, <2>1, <2>2
<1>4. CASE WatcherWakes \/ StopEngine
  <2>1. WatcherLeft' = WatcherLeft - 1
    BY <1>4, WatcherMoves, AfterIs DEF WatcherWakes, StopEngine
  <2>2. /\ MessagesLeft' = MessagesLeft /\ WorkersLeft' = WorkersLeft
        /\ AnomaliesLeft' = AnomaliesLeft /\ FlushesLeft' = FlushesLeft
        /\ ConsumerLeft' = ConsumerLeft /\ StopLeft' = StopLeft
    BY SamePart, <1>4 DEF WatcherWakes, StopEngine, pipe, work, disp, watch, docs
  <2> QED
    BY <1>t, <2>1, <2>2
<1>5. ASSUME NEW s \in {"api", "metrics"}, ShutdownServer(s) PROVE StepsLeft' < StepsLeft
  <2>1. WatcherLeft' = WatcherLeft - 1
    BY <1>5, WatcherMoves, AfterIs DEF ShutdownServer
  <2>2. StopLeft' = StopLeft \/ StopLeft' = StopLeft - 1
    BY <1>5 DEF ShutdownServer, StopLeft, ServersLeft
  <2>3. /\ MessagesLeft' = MessagesLeft /\ WorkersLeft' = WorkersLeft
        /\ AnomaliesLeft' = AnomaliesLeft /\ FlushesLeft' = FlushesLeft
        /\ ConsumerLeft' = ConsumerLeft
    BY SamePart, <1>5 DEF ShutdownServer, pipe, work, disp, watch, docs
  <2> QED
    BY <1>t, <2>1, <2>2, <2>3
<1>6. ASSUME NEW x \in Indexers, CloseIndexer(x) \/ IndexerClosed(x)
      PROVE  StepsLeft' < StepsLeft
  <2>1. WatcherLeft' = WatcherLeft - 1
    BY <1>6, WatcherMoves, AfterIs DEF CloseIndexer, IndexerClosed, Indexers
  <2>2. /\ MessagesLeft' = MessagesLeft /\ WorkersLeft' = WorkersLeft
        /\ AnomaliesLeft' = AnomaliesLeft /\ FlushesLeft' = FlushesLeft
        /\ ConsumerLeft' = ConsumerLeft /\ StopLeft' = StopLeft
    BY SamePart, <1>6 DEF CloseIndexer, IndexerClosed, pipe, work, disp, watch, docs
  <2> QED
    BY <1>t, <2>1, <2>2
<1> QED
  BY <1>1, <1>2, <1>3, <1>4, <1>5, <1>6 DEF WatcherStep

\* wire.go: with finitely many workers and messages no goroutine goes round in a circle.
\* Every step of every behaviour, faults included, is one of finitely many that were left;
\* so with NobodyWaitsForever, once gCtx is done whatever order the goroutines run in
\* brings the process to its end.
THEOREM EveryStepCounts ==
    ASSUME IsFiniteSet(Workers)
    PROVE  Spec => /\ [](StepsLeft \in Nat)
                   /\ [][StepsLeft' < StepsLeft]_vars
<1>1. IInv => StepsLeft \in Nat
  BY LeftTypes DEF StepsLeft
<1>2. IInv /\ Gone /\ [Next]_vars => [StepsLeft' < StepsLeft]_vars
  BY PipelineCounts, DispatcherCounts, ShutdownCounts DEF Next, Gone
<1>3. IInv /\ Gone /\ [Next]_vars => (IInv /\ Gone)'
  BY NextIInv, NextGone
<1> QED
  BY <1>1, <1>2, <1>3, InitIInv, InitGone, PTL DEF Spec
=============================================================================
