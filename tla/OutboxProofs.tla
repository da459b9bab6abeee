---------------------------- MODULE OutboxProofs ----------------------------
(***************************************************************************)
(* What OutboxRelay guarantees of the table outbox_events, for any events, *)
(* relays, limits and number of rollbacks.                                 *)
(***************************************************************************)
EXTENDS OutboxRelay, TLAPS

Timestamptzs == {NULL, Time("some time")}

Rows == [status : Statuses, attempts : 0 .. MaxAttempts,
         last_attempt_at : Timestamptzs, published_at : Timestamptzs]

RowsTyped == rows \in [Stored -> Rows]

\* FOR UPDATE SKIP LOCKED: no event is in the hands of two relays.
HeldOnce == \A v, w \in Relays : v # w => Found(v) \cap Found(w) = {}

\* o is what the aggregate made of the event in this row.
Follows(row, o) ==
  \/ /\ row.status = "PENDING"
     /\ o \in {Publish(ToOutboxDomain(row)).val, MarkFailed(ToOutboxDomain(row)).val}
  \/ /\ row.status = "FAILED" /\ row.attempts < MaxAttempts
     /\ o = Retry(ToOutboxDomain(row)).val

\* What a relay has in memory is the row, or one step of the aggregate ahead of it.
MemoryFollowsRow ==
  \A w \in Relays : \A e \in Found(w) :
    /\ e \in Stored
    /\ step[w][e] = "found" => outbox[w][e] = ToOutboxDomain(rows[e])
    /\ step[w][e] \in {"changed", "updated"} => Follows(rows[e], outbox[w][e])

\* An event that is not stored has no history.
HistoryStartsWithRow == \A e \in Events \ Stored : failures[e] = 0

\* The inductive invariant.
IndInv ==
  /\ TypeOK
  /\ RowsTyped
  /\ HeldOnce
  /\ MemoryFollowsRow
  /\ AttemptsCountFailures
  /\ HistoryStartsWithRow
  /\ TimesTellHistory

----------------------------------------------------------------------------
\* The aggregate and the conversions.

\* The three transitions of validStateMachine (outbox.go:41-45), and no other.
LEMMA Transitions ==
  \A s, t : CanTransition(s, t) <=> \/ s = "PENDING" /\ t \in {"FAILED", "SUCCESS"}
                                    \/ s = "FAILED" /\ t = "PENDING"
BY DEF CanTransition, validStateMachine, Statuses

\* A nil time and a set one survive the table (helper.go:9-21).
LEMMA TimesSurvive ==
  /\ \A t \in Times : ToTimestamptz(t) \in Timestamptzs /\ ToTimePtr(ToTimestamptz(t)) = t
  /\ \A z \in Timestamptzs : ToTimePtr(z) \in Times /\ ToTimestamptz(ToTimePtr(z)) = z
BY DEF Times, Timestamptzs, ToTimestamptz, ToTimePtr, Time, NULL

\* What is read from a row is an Outbox.
LEMMA DomainType ==
  ASSUME NEW row \in Rows
  PROVE  /\ ToOutboxDomain(row) \in Outboxes
         /\ ToOutboxDomain(row).Status = row.status
         /\ ToOutboxDomain(row).Attempts = row.attempts
BY TimesSurvive DEF Rows, Outboxes, ToOutboxDomain

\* The values that a relay may write, spelled out.
LEMMA FollowsValue ==
  ASSUME NEW row \in Rows, NEW o, Follows(row, o),
         row.status = "PENDING" => row.attempts < MaxAttempts
  PROVE  /\ o \in Outboxes
         /\ CanTransition(row.status, o.Status)
         /\ o.Attempts = IF o.Status = "FAILED" THEN row.attempts + 1 ELSE row.attempts
         /\ o.LastAttemptAt = IF o.Status = "FAILED" THEN "some time"
                              ELSE ToTimePtr(row.last_attempt_at)
         /\ o.PublishedAt = IF o.Status = "SUCCESS" THEN "some time"
                            ELSE ToTimePtr(row.published_at)
         /\ o.Status = "PENDING" => o.Attempts < MaxAttempts
<1> DEFINE d == ToOutboxDomain(row)
<1>1. /\ d \in Outboxes /\ d.Status = row.status /\ d.Attempts = row.attempts
      /\ d.LastAttemptAt = ToTimePtr(row.last_attempt_at)
      /\ d.PublishedAt = ToTimePtr(row.published_at)
  BY DomainType DEF ToOutboxDomain
<1>2. row.attempts \in 0 .. 3 /\ MaxAttempts = 3
  BY DEF Rows, MaxAttempts
<1> HIDE DEF d
\* Each case: the four fields, and then their types and the transition.
<1>3. CASE row.status = "PENDING" /\ o = Publish(d).val
  <2>1. o = [d EXCEPT !.Status = "SUCCESS", !.PublishedAt = "some time"]
    BY <1>1, <1>3, Transitions DEF Publish, Result
  <2>2. /\ o = [Status |-> "SUCCESS", Attempts |-> d.Attempts,
                LastAttemptAt |-> d.LastAttemptAt, PublishedAt |-> "some time"]
        /\ o.Status = "SUCCESS" /\ o.Attempts = row.attempts
        /\ o.LastAttemptAt = ToTimePtr(row.last_attempt_at) /\ o.PublishedAt = "some time"
    BY <1>1, <2>1 DEF Outboxes
  <2>3. o \in Outboxes
    BY <1>1, <2>2 DEF Outboxes, Times, Statuses
  <2>4. CanTransition(row.status, o.Status)
    BY <1>3, <2>2, Transitions
  <2> QED
    BY <2>2, <2>3, <2>4
<1>4. CASE row.status = "PENDING" /\ o = MarkFailed(d).val
  <2>1. o = [d EXCEPT !.Status = "FAILED", !.Attempts = @ + 1, !.LastAttemptAt = "some time"]
    BY <1>1, <1>4, Transitions DEF MarkFailed, Result
  <2>2. /\ o = [Status |-> "FAILED", Attempts |-> d.Attempts + 1,
                LastAttemptAt |-> "some time", PublishedAt |-> d.PublishedAt]
        /\ o.Status = "FAILED" /\ o.Attempts = row.attempts + 1
        /\ o.LastAttemptAt = "some time" /\ o.PublishedAt = ToTimePtr(row.published_at)
    BY <1>1, <2>1 DEF Outboxes
  <2>3. o \in Outboxes
    <3>1. d.Attempts + 1 \in 0 .. MaxAttempts
      BY <1>1, <1>2, <1>4
    <3> QED
      BY <1>1, <2>2, <3>1 DEF Outboxes, Times, Statuses
  <2>4. CanTransition(row.status, o.Status)
    BY <1>4, <2>2, Transitions
  <2> QED
    BY <2>2, <2>3, <2>4
<1>5. CASE row.status = "FAILED" /\ row.attempts < MaxAttempts /\ o = Retry(d).val
  <2>1. o = [d EXCEPT !.Status = "PENDING"]
    <3>1. ~ (d.Attempts >= MaxAttempts)
      BY <1>1, <1>2, <1>5
    <3> QED
      BY <1>1, <1>5, <3>1, Transitions DEF Retry, Result
  <2>2. /\ o = [Status |-> "PENDING", Attempts |-> d.Attempts,
                LastAttemptAt |-> d.LastAttemptAt, PublishedAt |-> d.PublishedAt]
        /\ o.Status = "PENDING" /\ o.Attempts = row.attempts
        /\ o.LastAttemptAt = ToTimePtr(row.last_attempt_at)
        /\ o.PublishedAt = ToTimePtr(row.published_at)
    BY <1>1, <2>1 DEF Outboxes
  <2>3. o \in Outboxes
    BY <1>1, <2>2 DEF Outboxes, Times, Statuses
  <2>4. CanTransition(row.status, o.Status)
    BY <1>5, <2>2, Transitions
  <2> QED
    BY <1>5, <2>2, <2>3, <2>4
<1> QED BY <1>3, <1>4, <1>5 DEF Follows, d

\* The row after the UPDATE of what a relay has in memory.
LEMMA UpdatedRow ==
  ASSUME NEW row \in Rows, NEW o, Follows(row, o),
         row.status = "PENDING" => row.attempts < MaxAttempts,
         NEW new, new = UpdateOutboxData(row, o)
  PROVE  /\ new \in Rows
         /\ CanTransition(row.status, new.status)
         /\ new.status = o.Status
         /\ new.attempts = IF new.status = "FAILED" THEN row.attempts + 1 ELSE row.attempts
         /\ new.last_attempt_at = IF new.status = "FAILED" THEN Time("some time")
                                  ELSE row.last_attempt_at
         /\ new.published_at = IF new.status = "SUCCESS" THEN Time("some time")
                               ELSE row.published_at
         /\ new.status = "PENDING" => new.attempts < MaxAttempts
<1>1. /\ new.status = o.Status /\ new.attempts = o.Attempts
      /\ new.last_attempt_at = ToTimestamptz(o.LastAttemptAt)
      /\ new.published_at = ToTimestamptz(o.PublishedAt)
  BY DEF UpdateOutboxData, Rows
<1>2. new = [status |-> o.Status, attempts |-> o.Attempts,
             last_attempt_at |-> ToTimestamptz(o.LastAttemptAt),
             published_at |-> ToTimestamptz(o.PublishedAt)]
  BY DEF UpdateOutboxData, Rows
<1>3. o \in Outboxes
  BY FollowsValue
<1>4. new \in Rows
  BY <1>2, <1>3, TimesSurvive DEF Outboxes, Rows
<1>5. ToTimestamptz("some time") = Time("some time")
  BY DEF ToTimestamptz
<1>6. row.last_attempt_at \in Timestamptzs /\ row.published_at \in Timestamptzs
  BY DEF Rows
<1>7. /\ CanTransition(row.status, o.Status)
      /\ o.Attempts = IF o.Status = "FAILED" THEN row.attempts + 1 ELSE row.attempts
      /\ o.LastAttemptAt = IF o.Status = "FAILED" THEN "some time"
                           ELSE ToTimePtr(row.last_attempt_at)
      /\ o.PublishedAt = IF o.Status = "SUCCESS" THEN "some time"
                         ELSE ToTimePtr(row.published_at)
      /\ o.Status = "PENDING" => o.Attempts < MaxAttempts
  BY FollowsValue
<1>8. /\ ToTimestamptz(ToTimePtr(row.last_attempt_at)) = row.last_attempt_at
      /\ ToTimestamptz(ToTimePtr(row.published_at)) = row.published_at
  BY <1>6, TimesSurvive
<1> QED
  BY <1>1, <1>4, <1>5, <1>7, <1>8

----------------------------------------------------------------------------
\* The invariant.

\* The table starts empty and no relay has anything in memory.
LEMMA Initially == Init => IndInv
<1> SUFFICES ASSUME Init PROVE IndInv
  OBVIOUS
<1>1. Stored = {} /\ \A w \in Relays : Found(w) = {}
  BY DEF Init, NoRows, Stored, Found
<1>2. NewOutbox \in Outboxes
  BY DEF NewOutbox, Outboxes, Statuses, Times, MaxAttempts
<1>3. TypeOK
  BY <1>1, <1>2, RelayAssumption DEF Init, TypeOK, MaxFailures, MaxAttempts
<1>4. RowsTyped
  BY <1>1 DEF Init, NoRows, RowsTyped, Stored
<1> QED
  BY <1>1, <1>3, <1>4
     DEF Init, IndInv, HeldOnce, MemoryFollowsRow, AttemptsCountFailures, TimesTellHistory,
         HistoryStartsWithRow

\* A posting adds a row that no relay has in its hands.
LEMMA SaveStep ==
  ASSUME IndInv, NEW e \in Events, Save(e)
  PROVE  IndInv'
<1> DEFINE new == ToOutboxModel(NewOutbox)
<1>1. /\ new \in Rows /\ new.status = "PENDING" /\ new.attempts = 0
      /\ new.last_attempt_at.Valid = FALSE /\ new.published_at.Valid = FALSE
  <2>1. ToTimestamptz("nil") = NULL /\ NULL.Valid = FALSE
    BY DEF ToTimestamptz, NULL
  <2>2. new = [status |-> "PENDING", attempts |-> 0,
               last_attempt_at |-> NULL, published_at |-> NULL]
    BY <2>1 DEF ToOutboxModel, NewOutbox
  <2> QED
    BY <2>1, <2>2 DEF Rows, Statuses, MaxAttempts, Timestamptzs
<1> HIDE DEF new
<1>2. /\ e \notin Stored /\ Stored' = Stored \cup {e}
      /\ \A d \in Stored : rows'[d] = rows[d]
      /\ rows'[e] = new
      /\ rows' \in [Stored' -> Rows]
      /\ UNCHANGED <<outbox, step, delivered, failures, faults>>
  BY <1>1 DEF Save, Stored, memory, new, IndInv, RowsTyped
<1>3. failures[e] = 0
  BY <1>2 DEF IndInv, HistoryStartsWithRow
<1>4. \A w \in Relays : Found(w)' = Found(w)
  BY <1>2 DEF Found
<1>5. RowsTyped'
  BY <1>2 DEF RowsTyped
<1>6. TypeOK'
  <2>1. \A d \in Stored' : ToOutboxDomain(rows[d])' \in Outboxes
    BY <1>2, DomainType DEF Stored
  <2>2. \A d \in Stored' : rows'[d].status = "PENDING" => rows'[d].attempts < MaxAttempts
    BY <1>1, <1>2 DEF IndInv, TypeOK, MaxAttempts
  <2>3. Stored' \subseteq Events /\ delivered' \subseteq Stored'
    BY <1>2 DEF IndInv, TypeOK
  <2> QED
    BY <1>2, <2>1, <2>2, <2>3 DEF IndInv, TypeOK
<1>7. HeldOnce'
  BY <1>4 DEF IndInv, HeldOnce
<1>8. MemoryFollowsRow'
  BY <1>2, <1>4 DEF IndInv, MemoryFollowsRow
<1>9. AttemptsCountFailures' /\ HistoryStartsWithRow'
  BY <1>1, <1>2, <1>3 DEF IndInv, AttemptsCountFailures, HistoryStartsWithRow
<1>10. TimesTellHistory'
  BY <1>1, <1>2, <1>3 DEF IndInv, TimesTellHistory
<1> QED
  BY <1>5, <1>6, <1>7, <1>8, <1>9, <1>10 DEF IndInv

\* A step of the relays' memories alone keeps what the invariant says of the table.
LEMMA TableStays ==
  ASSUME IndInv, UNCHANGED <<rows, failures>>
  PROVE  /\ RowsTyped' /\ AttemptsCountFailures' /\ HistoryStartsWithRow' /\ TimesTellHistory'
         /\ Stored' = Stored
         /\ Stored' \subseteq Events
         /\ \A e \in Stored' : /\ ToOutboxDomain(rows[e])' \in Outboxes
                              /\ rows'[e].status = "PENDING" => rows'[e].attempts < MaxAttempts
         /\ failures' \in [Events -> 0 .. MaxFailures]
<1>1. Stored' = Stored
  BY DEF Stored
<1>2. RowsTyped' /\ AttemptsCountFailures' /\ HistoryStartsWithRow' /\ TimesTellHistory'
  BY <1>1 DEF IndInv, RowsTyped, AttemptsCountFailures, HistoryStartsWithRow, TimesTellHistory
<1> QED
  BY <1>1, <1>2 DEF IndInv, TypeOK

\* The query finds rows that no relay holds.
LEMMA FindStep ==
  ASSUME IndInv, NEW w \in Relays, NEW status \in {"PENDING", "FAILED"}, NEW limit \in Limits,
         FindAllByStatusForUpdateSkipLocked(w, status, limit)
  PROVE  IndInv'
<1>1. PICK S \in SUBSET Matching(status) :
        /\ outbox' = [outbox EXCEPT ![w] =
             [e \in Events |-> IF e \in S THEN ToOutboxDomain(rows[e]) ELSE outbox[w][e]]]
        /\ step' = [step EXCEPT ![w] = [e \in Events |-> IF e \in S THEN "found" ELSE "none"]]
  BY DEF FindAllByStatusForUpdateSkipLocked
<1>2. UNCHANGED <<rows, delivered, failures, faults>>
  BY DEF FindAllByStatusForUpdateSkipLocked
<1>3. S \subseteq Stored /\ S \subseteq Events /\ \A e \in S, v \in Relays : e \notin Found(v)
  BY DEF Matching, Locked, IndInv, TypeOK
<1>4. /\ outbox \in [Relays -> [Events -> Outboxes]]
      /\ step \in [Relays -> [Events -> {"none", "found", "changed", "left", "updated"}]]
  BY DEF IndInv, TypeOK
<1>5. Found(w)' = S /\ \A v \in Relays \ {w} : Found(v)' = Found(v)
  BY <1>1, <1>3, <1>4 DEF Found
<1>6. TypeOK'
  <2>1. \A e \in S : ToOutboxDomain(rows[e]) \in Outboxes
    BY <1>3 DEF IndInv, TypeOK
  <2>2. outbox' \in [Relays -> [Events -> Outboxes]]
    BY <1>1, <1>4, <2>1
  <2>3. step' \in [Relays -> [Events -> {"none", "found", "changed", "left", "updated"}]]
    BY <1>1, <1>4
  <2> QED
    BY <1>2, <2>2, <2>3, TableStays DEF IndInv, TypeOK
<1>7. HeldOnce'
  BY <1>3, <1>5 DEF IndInv, HeldOnce
<1>8. MemoryFollowsRow'
  <2>1. \A e \in S : step'[w][e] = "found" /\ outbox'[w][e] = ToOutboxDomain(rows[e])
    BY <1>1, <1>3, <1>4
  <2>2. \A v \in Relays \ {w} : step'[v] = step[v] /\ outbox'[v] = outbox[v]
    BY <1>1, <1>4
  <2>3. \A e : ToOutboxDomain(rows[e])' = ToOutboxDomain(rows[e])
    BY <1>2
  <2>4. ASSUME NEW v \in Relays, NEW e \in Found(v)'
        PROVE  /\ e \in Stored'
               /\ step'[v][e] = "found" => outbox'[v][e] = ToOutboxDomain(rows[e])'
               /\ step'[v][e] \in {"changed", "updated"} => Follows(rows[e], outbox[v][e])'
    <3>1. CASE v = w
      BY <1>2, <1>3, <1>5, <2>1, <2>3, <2>4, <3>1, TableStays
    <3>2. CASE v # w
      BY <1>2, <1>5, <2>2, <2>3, <2>4, <3>2, TableStays DEF IndInv, MemoryFollowsRow
    <3> QED
      BY <3>1, <3>2
  <2> QED
    BY <2>4 DEF MemoryFollowsRow
<1> QED
  BY <1>2, <1>6, <1>7, <1>8, TableStays DEF IndInv

\* A relay takes one step of the aggregate, or leaves the event.
LEMMA TakeStep ==
  ASSUME IndInv, NEW w \in Relays, NEW e \in Events, NEW result,
         step[w][e] = "found", Take(w, e, result),
         UNCHANGED <<rows, failures, faults>>, delivered' \subseteq Stored,
         result.val \in Outboxes,
         result.err = NoError => Follows(rows[e], result.val)
  PROVE  IndInv'
<1>1. /\ outbox \in [Relays -> [Events -> Outboxes]]
      /\ step \in [Relays -> [Events -> {"none", "found", "changed", "left", "updated"}]]
  BY DEF IndInv, TypeOK
<1>2. /\ \A v \in Relays, d \in Events :
           /\ step'[v][d] = IF v = w /\ d = e
                            THEN IF result.err = NoError THEN "changed" ELSE "left"
                            ELSE step[v][d]
           /\ outbox'[v][d] = IF v = w /\ d = e THEN result.val ELSE outbox[v][d]
      /\ outbox' \in [Relays -> [Events -> Outboxes]]
      /\ step' \in [Relays -> [Events -> {"none", "found", "changed", "left", "updated"}]]
  BY <1>1 DEF Take
<1>3. \A v \in Relays : Found(v)' = Found(v)
  BY <1>2 DEF Found
<1>4. TypeOK'
  BY <1>2, TableStays DEF IndInv, TypeOK
<1>5. HeldOnce'
  BY <1>3 DEF IndInv, HeldOnce
<1>6. MemoryFollowsRow'
  <2>1. ASSUME NEW v \in Relays, NEW d \in Found(v)'
        PROVE  /\ d \in Stored'
               /\ step'[v][d] = "found" => outbox'[v][d] = ToOutboxDomain(rows[d])'
               /\ step'[v][d] \in {"changed", "updated"} => Follows(rows[d], outbox[v][d])'
    <3>1. d \in Events /\ d \in Found(v) /\ d \in Stored'
      BY <1>3, <2>1, TableStays DEF Found, IndInv, MemoryFollowsRow
    <3>2. CASE v = w /\ d = e
      BY <1>2, <3>1, <3>2
    <3>3. CASE ~ (v = w /\ d = e)
      BY <1>2, <3>1, <3>3 DEF IndInv, MemoryFollowsRow
    <3> QED
      BY <3>1, <3>2, <3>3
  <2> QED
    BY <2>1 DEF MemoryFollowsRow
<1> QED
  BY <1>4, <1>5, <1>6, TableStays DEF IndInv

\* What the aggregate answers to a relay that holds a PENDING event ...
LEMMA PendingAnswers ==
  ASSUME NEW row \in Rows, row.status = "PENDING", row.attempts < MaxAttempts,
         NEW o, o = ToOutboxDomain(row)
  PROVE  \A result \in {Publish(o), MarkFailed(o)} :
           result.err = NoError /\ Follows(row, result.val) /\ result.val \in Outboxes
<1>1. CanTransition(o.Status, "SUCCESS") /\ CanTransition(o.Status, "FAILED")
  BY DomainType, Transitions
<1>2. Publish(o).err = NoError /\ MarkFailed(o).err = NoError
  BY <1>1 DEF Publish, MarkFailed, Result
<1>3. Follows(row, Publish(o).val) /\ Follows(row, MarkFailed(o).val)
  BY DEF Follows
<1> QED
  BY <1>2, <1>3, FollowsValue

\* ... and to one that holds a FAILED event.
LEMMA FailedAnswer ==
  ASSUME NEW row \in Rows, row.status = "FAILED", NEW o, o = ToOutboxDomain(row)
  PROVE  /\ Retry(o).err = NoError => Follows(row, Retry(o).val)
         /\ Retry(o).val \in Outboxes
<1>1. o \in Outboxes /\ o.Attempts = row.attempts
  BY DomainType
<1>2. CASE o.Attempts >= MaxAttempts
  <2>1. Retry(o) = Result("ErrMaxAttemptsExceeded", o)
    BY <1>2 DEF Retry
  <2> QED
    BY <1>1, <2>1 DEF Result, NoError
<1>3. CASE ~ (o.Attempts >= MaxAttempts)
  <2>1. row.attempts < MaxAttempts
    BY <1>1, <1>3 DEF MaxAttempts, Rows
  <2>2. Follows(row, Retry(o).val)
    BY <2>1 DEF Follows
  <2> QED
    BY <2>2, FollowsValue
<1> QED
  BY <1>2, <1>3

\* The three things that a relay can do with an event it has found.
LEMMA HandleStep ==
  ASSUME IndInv, NEW w \in Relays, NEW e \in Events,
         Deliver(w, e) \/ DeliveryFails(w, e) \/ RetryLater(w, e)
  PROVE  IndInv'
<1>1. /\ step[w][e] = "found" /\ UNCHANGED <<rows, failures, faults>>
  BY DEF Deliver, DeliveryFails, RetryLater
<1>2. e \in Stored /\ rows[e] \in Rows /\ outbox[w][e] = ToOutboxDomain(rows[e])
  BY <1>1 DEF Found, IndInv, MemoryFollowsRow, RowsTyped
<1>3. outbox[w][e].Status = rows[e].status
  BY <1>2, DomainType
<1>4. delivered \subseteq Stored
  BY DEF IndInv, TypeOK
<1>5. CASE Deliver(w, e) \/ DeliveryFails(w, e)
  <2>1. rows[e].status = "PENDING" /\ rows[e].attempts < MaxAttempts
    BY <1>2, <1>3, <1>5 DEF Deliver, DeliveryFails, IndInv, TypeOK
  <2>2. delivered' \subseteq Stored
    BY <1>2, <1>4, <1>5 DEF Deliver, DeliveryFails
  <2>3. PICK result \in {Publish(outbox[w][e]), MarkFailed(outbox[w][e])} : Take(w, e, result)
    BY <1>5 DEF Deliver, DeliveryFails
  <2>4. result.err = NoError /\ Follows(rows[e], result.val) /\ result.val \in Outboxes
    BY <1>2, <2>1, <2>3, PendingAnswers
  <2> QED
    BY <1>1, <2>2, <2>3, <2>4, TakeStep
<1>6. CASE RetryLater(w, e)
  <2> DEFINE result == Retry(outbox[w][e])
  <2>1. /\ result.err = NoError => Follows(rows[e], result.val)
        /\ result.val \in Outboxes
    BY <1>2, <1>3, <1>6, FailedAnswer DEF RetryLater
  <2>2. Take(w, e, result) /\ delivered' \subseteq Stored
    BY <1>4, <1>6 DEF RetryLater
  <2> HIDE DEF result
  <2> QED
    BY <1>1, <2>1, <2>2, TakeStep
<1> QED
  BY <1>5, <1>6

\* The UPDATE is not seen before the commit.
LEMMA UpdateStep ==
  ASSUME IndInv, NEW w \in Relays, NEW e \in Events, Update(w, e)
  PROVE  IndInv'
<1>1. step \in [Relays -> [Events -> {"none", "found", "changed", "left", "updated"}]]
  BY DEF IndInv, TypeOK
<1>2. /\ step[w][e] = "changed"
      /\ \A v \in Relays, d \in Events :
           step'[v][d] = IF v = w /\ d = e THEN "updated" ELSE step[v][d]
      /\ step' \in [Relays -> [Events -> {"none", "found", "changed", "left", "updated"}]]
      /\ UNCHANGED <<rows, outbox, delivered, failures, faults>>
  BY <1>1 DEF Update
<1>3. \A v \in Relays : Found(v)' = Found(v)
  BY <1>2 DEF Found
<1>4. TypeOK'
  BY <1>2, TableStays DEF IndInv, TypeOK
<1>5. HeldOnce'
  BY <1>3 DEF IndInv, HeldOnce
<1>6. MemoryFollowsRow'
  <2>1. ASSUME NEW v \in Relays, NEW d \in Found(v)'
        PROVE  /\ d \in Stored'
               /\ step'[v][d] = "found" => outbox'[v][d] = ToOutboxDomain(rows[d])'
               /\ step'[v][d] \in {"changed", "updated"} => Follows(rows[d], outbox[v][d])'
    <3>1. d \in Events /\ d \in Found(v) /\ d \in Stored'
      BY <1>3, <2>1, TableStays, <1>2 DEF Found, IndInv, MemoryFollowsRow
    <3>2. CASE v = w /\ d = e
      BY <1>2, <3>1, <3>2 DEF IndInv, MemoryFollowsRow
    <3>3. CASE ~ (v = w /\ d = e)
      BY <1>2, <3>1, <3>3 DEF IndInv, MemoryFollowsRow
    <3> QED
      BY <3>1, <3>2, <3>3
  <2> QED
    BY <2>1 DEF MemoryFollowsRow
<1> QED
  BY <1>2, <1>4, <1>5, <1>6, TableStays DEF IndInv

\* The memory of a relay whose transaction has ended.
LEMMA Forgotten ==
  ASSUME IndInv, NEW w \in Relays, Forget(w)
  PROVE  /\ outbox' \in [Relays -> [Events -> Outboxes]]
         /\ step' \in [Relays -> [Events -> {"none", "found", "changed", "left", "updated"}]]
         /\ Found(w)' = {}
         /\ \A v \in Relays \ {w} :
              Found(v)' = Found(v) /\ step'[v] = step[v] /\ outbox'[v] = outbox[v]
         /\ HeldOnce'
<1>1. /\ outbox \in [Relays -> [Events -> Outboxes]]
      /\ step \in [Relays -> [Events -> {"none", "found", "changed", "left", "updated"}]]
  BY DEF IndInv, TypeOK
<1>2. NewOutbox \in Outboxes
  BY DEF NewOutbox, Outboxes, Statuses, Times, MaxAttempts
<1>3. /\ outbox' \in [Relays -> [Events -> Outboxes]]
      /\ step' \in [Relays -> [Events -> {"none", "found", "changed", "left", "updated"}]]
      /\ step'[w] = [e \in Events |-> "none"]
      /\ \A v \in Relays \ {w} : step'[v] = step[v] /\ outbox'[v] = outbox[v]
  BY <1>1, <1>2 DEF Forget
<1>4. Found(w)' = {} /\ \A v \in Relays \ {w} : Found(v)' = Found(v)
  BY <1>3 DEF Found
<1>5. HeldOnce'
  BY <1>4 DEF IndInv, HeldOnce
<1> QED
  BY <1>3, <1>4, <1>5

\* A rollback leaves the table as it was.
LEMMA AbortStep ==
  ASSUME IndInv, NEW w \in Relays, Abort(w)
  PROVE  IndInv'
<1>1. /\ Forget(w) /\ UNCHANGED <<rows, delivered, failures>>
      /\ faults < MaxFaults /\ faults' = faults + 1
  BY DEF Abort
<1>2. faults' \in 0 .. MaxFaults
  BY <1>1, RelayAssumption DEF IndInv, TypeOK
<1>3. TypeOK'
  BY <1>1, <1>2, Forgotten, TableStays DEF IndInv, TypeOK
<1>4. MemoryFollowsRow'
  <2>1. \A d : ToOutboxDomain(rows[d])' = ToOutboxDomain(rows[d])
    BY <1>1
  <2> QED
    BY <1>1, <2>1, Forgotten, TableStays DEF IndInv, MemoryFollowsRow
<1> QED
  BY <1>1, <1>3, <1>4, Forgotten, TableStays DEF IndInv

\* A commit takes the rows that the relay has updated one step ahead, and counts
\* their failures; nobody else had them in memory.
LEMMA CommittedRows ==
  ASSUME IndInv, NEW w \in Relays, Commit(w)
  PROVE  /\ Stored' = Stored
         /\ \A e \in Stored \ Updated(w) : rows'[e] = rows[e] /\ failures'[e] = failures[e]
         /\ \A e \in Updated(w) :
              /\ e \in Stored
              /\ rows'[e] \in Rows
              /\ CanTransition(rows[e].status, rows'[e].status)
              /\ failures'[e] = IF rows'[e].status = "FAILED" THEN failures[e] + 1 ELSE failures[e]
              /\ rows'[e].attempts = failures'[e]
              /\ rows'[e].last_attempt_at = IF rows'[e].status = "FAILED" THEN Time("some time")
                                            ELSE rows[e].last_attempt_at
              /\ rows'[e].published_at = IF rows'[e].status = "SUCCESS" THEN Time("some time")
                                         ELSE rows[e].published_at
              /\ rows'[e].status = "PENDING" => rows'[e].attempts < MaxAttempts
<1>1. /\ rows' = [e \in Stored |-> IF e \in Updated(w)
                                   THEN UpdateOutboxData(rows[e], outbox[w][e]) ELSE rows[e]]
      /\ failures' = [e \in Events |-> CountFailure(e, w)]
  BY DEF Commit
<1>2. Stored' = Stored /\ Stored \subseteq Events
  BY <1>1 DEF Stored, IndInv, TypeOK
<1>3. \A e \in Stored \ Updated(w) : rows'[e] = rows[e] /\ failures'[e] = failures[e]
  BY <1>1, <1>2 DEF CountFailure
<1>4. ASSUME NEW e \in Updated(w)
      PROVE  /\ e \in Stored
             /\ rows'[e] \in Rows
             /\ CanTransition(rows[e].status, rows'[e].status)
             /\ failures'[e] = IF rows'[e].status = "FAILED" THEN failures[e] + 1
                               ELSE failures[e]
             /\ rows'[e].attempts = failures'[e]
             /\ rows'[e].last_attempt_at = IF rows'[e].status = "FAILED" THEN Time("some time")
                                           ELSE rows[e].last_attempt_at
             /\ rows'[e].published_at = IF rows'[e].status = "SUCCESS" THEN Time("some time")
                                        ELSE rows[e].published_at
             /\ rows'[e].status = "PENDING" => rows'[e].attempts < MaxAttempts
  <2> DEFINE new == UpdateOutboxData(rows[e], outbox[w][e])
  <2>1. e \in Events /\ step[w][e] = "updated" /\ e \in Found(w)
    BY DEF Updated, Found
  <2>2. e \in Stored /\ Follows(rows[e], outbox[w][e])
    BY <2>1 DEF IndInv, MemoryFollowsRow
  <2>3. /\ rows[e] \in Rows /\ rows[e].attempts = failures[e]
        /\ rows[e].status = "PENDING" => rows[e].attempts < MaxAttempts
    BY <2>2 DEF IndInv, TypeOK, RowsTyped, AttemptsCountFailures
  <2>4. rows'[e] = new
    BY <1>1, <2>2
  <2>5. /\ new \in Rows
        /\ CanTransition(rows[e].status, new.status)
        /\ new.status = outbox[w][e].Status
        /\ new.attempts = IF new.status = "FAILED" THEN rows[e].attempts + 1
                          ELSE rows[e].attempts
        /\ new.last_attempt_at = IF new.status = "FAILED" THEN Time("some time")
                                 ELSE rows[e].last_attempt_at
        /\ new.published_at = IF new.status = "SUCCESS" THEN Time("some time")
                              ELSE rows[e].published_at
        /\ new.status = "PENDING" => new.attempts < MaxAttempts
    BY <2>2, <2>3, UpdatedRow
  <2> HIDE DEF new
  <2>6. failures[e] \in 0 .. 3 /\ MaxFailures = 4
    BY <2>3 DEF Rows, MaxAttempts, MaxFailures
  <2>7. failures'[e] = IF new.status = "FAILED" THEN failures[e] + 1 ELSE failures[e]
    <3>1. failures'[e] = CountFailure(e, w)
      BY <1>1, <2>1
    <3>2. e \in Updated(w) /\ failures[e] < MaxFailures
      BY <2>6
    <3>3. CASE new.status = "FAILED"
      BY <2>5, <3>1, <3>2, <3>3 DEF CountFailure
    <3>4. CASE new.status # "FAILED"
      BY <2>5, <3>1, <3>4 DEF CountFailure
    <3> QED
      BY <3>3, <3>4
  <2> QED
    BY <2>2, <2>3, <2>4, <2>5, <2>7
<1> QED
  BY <1>2, <1>3, <1>4

\* A commit keeps the invariant.
LEMMA CommitStep ==
  ASSUME IndInv, NEW w \in Relays, Commit(w)
  PROVE  IndInv'
<1>1. /\ Forget(w) /\ UNCHANGED <<delivered, faults>>
      /\ rows' = [e \in Stored |-> IF e \in Updated(w)
                                   THEN UpdateOutboxData(rows[e], outbox[w][e]) ELSE rows[e]]
      /\ failures' = [e \in Events |-> CountFailure(e, w)]
  BY DEF Commit
<1>2. Stored' = Stored /\ Stored \subseteq Events
  BY CommittedRows DEF IndInv, TypeOK
<1>3. RowsTyped'
  <2>1. \A e \in Stored : rows'[e] \in Rows
    BY CommittedRows DEF IndInv, RowsTyped
  <2> QED
    BY <1>1, <1>2, <2>1 DEF RowsTyped
<1>4. failures' \in [Events -> 0 .. MaxFailures]
  <2>1. \A e \in Events : failures[e] \in 0 .. MaxFailures
    BY DEF IndInv, TypeOK
  <2>2. \A e \in Events : CountFailure(e, w) \in 0 .. MaxFailures
    BY <2>1 DEF CountFailure, MaxFailures, MaxAttempts
  <2> QED
    BY <1>1, <2>2
<1>5. AttemptsCountFailures'
  BY <1>2, CommittedRows DEF IndInv, AttemptsCountFailures
<1>6. HistoryStartsWithRow'
  <2>1. \A e \in Events \ Stored : e \notin Updated(w)
    BY CommittedRows
  <2> QED
    BY <1>1, <1>2, <2>1 DEF IndInv, HistoryStartsWithRow, CountFailure
<1>7. TimesTellHistory'
  <2>1. ASSUME NEW e \in Stored
        PROVE  /\ rows'[e].published_at.Valid <=> rows'[e].status = "SUCCESS"
               /\ rows'[e].last_attempt_at.Valid <=> failures'[e] > 0
    <3>1. /\ rows[e].published_at.Valid <=> rows[e].status = "SUCCESS"
          /\ rows[e].last_attempt_at.Valid <=> failures[e] > 0
          /\ failures[e] \in Nat
      BY <1>2 DEF IndInv, TimesTellHistory, TypeOK
    <3>2. CASE e \notin Updated(w)
      <4>1. rows'[e] = rows[e] /\ failures'[e] = failures[e]
        BY <3>2, CommittedRows
      <4> QED
        BY <3>1, <4>1
    <3>3. CASE e \in Updated(w)
      <4>1. Time("some time").Valid = TRUE
        BY DEF Time
      <4>2. rows[e].status # "SUCCESS"
        BY <3>3, CommittedRows, Transitions
      <4>3. rows'[e].published_at.Valid <=> rows'[e].status = "SUCCESS"
        BY <3>1, <3>3, <4>1, <4>2, CommittedRows
      <4>4. rows'[e].last_attempt_at.Valid <=> failures'[e] > 0
        <5>1. CASE rows'[e].status = "FAILED"
          <6>1. failures'[e] = failures[e] + 1
            BY <3>3, <5>1, CommittedRows
          <6>2. rows'[e].last_attempt_at = Time("some time")
            BY <3>3, <5>1, CommittedRows
          <6>3. failures[e] \in Nat
            BY <3>1
          <6>4. failures'[e] > 0
            BY <6>1, <6>3
          <6> QED
            BY <4>1, <6>2, <6>4
        <5>2. CASE rows'[e].status # "FAILED"
          <6>1. /\ failures'[e] = failures[e]
                /\ rows'[e].last_attempt_at = rows[e].last_attempt_at
            BY <3>3, <5>2, CommittedRows
          <6> QED
            BY <3>1, <6>1
        <5> QED
          BY <5>1, <5>2
      <4> QED
        BY <4>3, <4>4
    <3> QED
      BY <3>2, <3>3
  <2> QED
    BY <1>2, <2>1 DEF TimesTellHistory
<1>8. TypeOK'
  <2>1. \A e \in Stored' : ToOutboxDomain(rows'[e]) \in Outboxes
    BY <1>3, DomainType DEF RowsTyped
  <2>2. \A e \in Stored' : rows'[e].status = "PENDING" => rows'[e].attempts < MaxAttempts
    BY <1>2, CommittedRows DEF IndInv, TypeOK
  <2>3. /\ outbox' \in [Relays -> [Events -> Outboxes]]
        /\ step' \in [Relays -> [Events -> {"none", "found", "changed", "left", "updated"}]]
    BY <1>1, Forgotten
  <2>4. delivered' \subseteq Stored' /\ faults' \in 0 .. MaxFaults
    BY <1>1, <1>2 DEF IndInv, TypeOK
  <2> QED
    BY <1>2, <1>4, <2>1, <2>2, <2>3, <2>4 DEF TypeOK, ToOutboxDomain
<1>9. MemoryFollowsRow'
  <2>1. ASSUME NEW v \in Relays, NEW e \in Found(v)'
        PROVE  /\ e \in Stored'
               /\ step'[v][e] = "found" => outbox'[v][e] = ToOutboxDomain(rows'[e])
               /\ step'[v][e] \in {"changed", "updated"} => Follows(rows'[e], outbox'[v][e])
    <3>1. v # w /\ e \in Found(v) /\ step'[v] = step[v] /\ outbox'[v] = outbox[v]
      BY <1>1, <2>1, Forgotten
    <3>2. e \notin Updated(w)
      BY <3>1 DEF IndInv, HeldOnce, Found, Updated
    <3>3. e \in Stored /\ rows'[e] = rows[e]
      BY <3>1, <3>2, CommittedRows DEF IndInv, MemoryFollowsRow
    <3> QED
      BY <1>2, <3>1, <3>3 DEF IndInv, MemoryFollowsRow
  <2> QED
    BY <2>1 DEF MemoryFollowsRow, Follows, ToOutboxDomain
<1> QED
  BY <1>1, <1>3, <1>5, <1>6, <1>7, <1>8, <1>9, Forgotten DEF IndInv

----------------------------------------------------------------------------
\* The theorems.

\* Every state satisfies the invariant.
THEOREM Invariance == Spec => []IndInv
<1>1. IndInv /\ [Next]_vars => IndInv'
  <2> SUFFICES ASSUME IndInv, [Next]_vars PROVE IndInv'
    OBVIOUS
  <2>1. CASE \E e \in Events : Save(e)
    BY <2>1, SaveStep
  <2>2. CASE \E w \in Relays : \E status \in {"PENDING", "FAILED"}, limit \in Limits :
               FindAllByStatusForUpdateSkipLocked(w, status, limit)
    BY <2>2, FindStep
  <2>3. CASE \E w \in Relays : \E e \in Events :
               Deliver(w, e) \/ DeliveryFails(w, e) \/ RetryLater(w, e)
    BY <2>3, HandleStep
  <2>4. CASE \E w \in Relays : \E e \in Events : Update(w, e)
    BY <2>4, UpdateStep
  <2>5. CASE \E w \in Relays : Commit(w)
    BY <2>5, CommitStep
  <2>6. CASE \E w \in Relays : Abort(w)
    BY <2>6, AbortStep
  <2>7. CASE UNCHANGED vars
    <3>1. UNCHANGED <<rows, outbox, step, delivered, failures, faults>>
      BY <2>7 DEF vars, memory
    <3>2. TypeOK' /\ RowsTyped'
      BY <3>1 DEF IndInv, TypeOK, RowsTyped, Stored, ToOutboxDomain
    <3>3. HeldOnce' /\ HistoryStartsWithRow' /\ AttemptsCountFailures' /\ TimesTellHistory'
      BY <3>1 DEF IndInv, HeldOnce, HistoryStartsWithRow, AttemptsCountFailures,
                  TimesTellHistory, Stored, Found
    <3>4. MemoryFollowsRow'
      BY <3>1 DEF IndInv, MemoryFollowsRow, Stored, Found, Follows, ToOutboxDomain
    <3> QED
      BY <3>2, <3>3, <3>4 DEF IndInv
  <2> QED
    BY <2>1, <2>2, <2>3, <2>4, <2>5, <2>6, <2>7 DEF Next, Work, Settled
<1> QED
  BY <1>1, Initially, PTL DEF Spec

\* The types; an event that is still tried has an attempt left (outbox.go:121-133).
THEOREM TypeCorrect == Spec => []TypeOK
<1>1. IndInv => TypeOK
  BY DEF IndInv
<1> QED
  BY <1>1, Invariance, PTL

\* attempts is the number of failures recorded: SKIP LOCKED lets no relay overwrite
\* the count of another (repository/outbox.go:57-130).
THEOREM FailuresAreCounted == Spec => []AttemptsCountFailures
<1>1. IndInv => AttemptsCountFailures
  BY DEF IndInv
<1> QED
  BY <1>1, Invariance, PTL

\* The two times of a row are set exactly when its history says so, however often it
\* was read and written back (helper.go:9-21).
THEOREM TimesAreTrue == Spec => []TimesTellHistory
<1>1. IndInv => TimesTellHistory
  BY DEF IndInv
<1> QED
  BY <1>1, Invariance, PTL

\* Whatever the relays do, a committed row moves by validStateMachine and is never
\* lost (outbox.go:41-45).
THEOREM RowsMoveByTheMachine == Spec => RowsFollowStateMachine
<1> DEFINE Follow == \A e \in Stored :
                       /\ e \in Stored'
                       /\ rows'[e] # rows[e] => CanTransition(rows[e].status, rows'[e].status)
<1>1. IndInv /\ [Next]_vars => Follow
  <2> SUFFICES ASSUME IndInv, [Next]_vars PROVE Follow
    OBVIOUS
  <2>1. CASE \E e \in Events : Save(e)
    BY <2>1 DEF Save, Stored
  <2>2. CASE \E w \in Relays : Commit(w)
    BY <2>2, CommittedRows
  <2>3. CASE UNCHANGED rows
    BY <2>3 DEF Stored
  <2> QED
    BY <2>1, <2>2, <2>3
       DEF Next, Work, Settled, vars, FindAllByStatusForUpdateSkipLocked,
           Deliver, DeliveryFails, RetryLater, Update, Abort
<1> QED
  BY <1>1, Invariance, PTL DEF Spec, RowsFollowStateMachine

============================================================================
