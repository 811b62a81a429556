------------------------------ MODULE SearchApi ------------------------------
(***************************************************************************)
(* The read side: internal/api/logs.go and anomalies.go over the searches  *)
(* of internal/elasticsearch.  A handler is an operator from what an index *)
(* holds and from the raw query parameters to the answer; there is no      *)
(* state.  An index is the sequence of its documents in the order in which *)
(* Elasticsearch returns them: the searches name no sort and only filter,  *)
(* so every hit scores the same and that order is the index's own.         *)
(***************************************************************************)
EXTENDS Integers, Sequences, FiniteSets

CONSTANTS Absent, Malformed,    \* a parameter that is missing, or does not parse
          MaxPage,              \* 10000
          DefaultSize, MaxSize, \* 20, 1000
          ResultWindow,         \* external: index.max_result_window, 10000
          Unit                  \* instants in a second

ASSUME SearchAssumption ==
    /\ MaxPage \in Nat \ {0} /\ MaxSize \in Nat \ {0} /\ DefaultSize \in 1 .. MaxSize
    /\ ResultWindow \in Nat \ {0} /\ Unit \in Nat \ {0}
    /\ Absent \notin Int /\ Malformed \notin Int /\ Absent # Malformed

\* Formatting with time.RFC3339 drops what is below a second.
Second(t) == t - (t % Unit)

-----------------------------------------------------------------------------
(* Parameters *)

Clamp(v, min, max) == IF v < min THEN min ELSE IF v > max THEN max ELSE v

parseIntParam(raw, def, min, max) ==
    CASE raw = Absent    -> def
      [] raw = Malformed -> Malformed
      [] OTHER           -> Clamp(raw, min, max)

PageParam(r) == parseIntParam(r.page, 1, 1, MaxPage)
SizeParam(r) == parseIntParam(r.size, DefaultSize, 1, MaxSize)

\* Of the times only that they do not parse matters here; Absent is the zero time.
BadRequest(r) == Malformed \in {PageParam(r), SizeParam(r), r.from, r.to}

-----------------------------------------------------------------------------
(* Searches *)

\* The instant a range ends at loses its fraction, so the rest of that second is outside.
InRange(t, r) == /\ r.from # Absent => t >= Second(r.from)
                 /\ r.to # Absent   => t <= Second(r.to)

Asked(value, wanted) == wanted # Absent => value = wanted

LogMatches(d, r) == /\ Asked(d.service, r.service)
                    /\ Asked(d.level, r.level)
                    /\ InRange(d.time, r)

AnomalyMatches(a, r) == /\ Asked(a.rule_id, r.type)
                        /\ Asked(a.service, r.service)
                        /\ Asked(a.severity, r.severity)
                        /\ InRange(a.detected_at, r)

\* The indexers clamp once more what the handlers have clamped.
PageOf(page) == IF page < 1 THEN 1 ELSE page
SizeOf(size) == IF size < 1 THEN DefaultSize ELSE IF size > MaxSize THEN MaxSize ELSE size

\* Mutant: pages are counted from zero.
OffsetFromZero(page, size) == PageOf(page) * SizeOf(size)

Offset(page, size) == (PageOf(page) - 1) * SizeOf(size)

\* What Elasticsearch returns for From and Size: it refuses to look beyond its window.
Refused(page, size) == Offset(page, size) + SizeOf(size) > ResultWindow
Hits(matching, page, size) ==
    LET from == Offset(page, size)
        last == Clamp(from + SizeOf(size), 0, Len(matching))
    IN  SubSeq(matching, from + 1, last)

-----------------------------------------------------------------------------
(* Answers *)

\* An error has no total, which a client that decodes one reads as zero.
writeError(status) == [status |-> status, data |-> <<>>, total |-> 0]

\* The total is of all that match, whatever the page shows (TrackTotalHits).
Search(matching, page, size) ==
    IF Refused(page, size)
      THEN writeError(500)
      ELSE [status |-> 200, data |-> Hits(matching, page, size), total |-> Len(matching)]

\* What docs holds at the positions P, in order: the k-th of them has k up to itself.
Nth(P, k)   == CHOOSE i \in P : Cardinality({j \in P : j <= i}) = k
At(docs, P) == [k \in 1 .. Cardinality(P) |-> docs[Nth(P, k)]]

SearchLogs(logs, r) ==
    Search(At(logs, {i \in DOMAIN logs : LogMatches(logs[i], r)}),
           PageParam(r), SizeParam(r))

\* The index exists from its first document on; until then a search of it fails.
SearchAnomalies(anomalies, r) ==
    IF anomalies = <<>> THEN writeError(500)
    ELSE Search(At(anomalies, {i \in DOMAIN anomalies : AnomalyMatches(anomalies[i], r)}),
                PageParam(r), SizeParam(r))

handleListLogs(logs, r) == IF BadRequest(r) THEN writeError(400) ELSE SearchLogs(logs, r)

handleListAnomalies(anomalies, r) ==
    IF BadRequest(r) THEN writeError(400) ELSE SearchAnomalies(anomalies, r)

\* One id may be found in the indices of two days.
GetLog(logs, id)          == At(logs, {i \in DOMAIN logs : logs[i].id = id})
GetAnomaly(anomalies, id) == At(anomalies, {i \in DOMAIN anomalies : anomalies[i].id = id})

FirstOf(found) == IF found = <<>> THEN writeError(404)
                  ELSE [status |-> 200, data |-> <<Head(found)>>, total |-> 1]

handleGetLog(logs, id) == FirstOf(GetLog(logs, id))

handleGetAnomaly(anomalies, id) == FirstOf(GetAnomaly(anomalies, id))
=============================================================================
