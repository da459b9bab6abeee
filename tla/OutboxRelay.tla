----------------------------- MODULE OutboxRelay -----------------------------
(***************************************************************************)
(* The events in table outbox_events: the aggregate outbox.Outbox and the  *)
(* two statements that OutBoxRepository has for a relay.  The relay itself *)
(* is not in the repository; it is what README:150-155 says it does: in    *)
(* one transaction it finds events of a status, tries to deliver or to     *)
(* retry each, and writes back what the aggregate made of it.              *)
(***************************************************************************)
EXTENDS Naturals, FiniteSets

CONSTANTS
  Events,    \* ids of the events that postings save
  Relays,    \* relays, on several connections
  Limits,    \* the limits that a relay gives to its query
  MaxFaults  \* how many transactions of relays are rolled back

ASSUME RelayAssumption ==
  /\ IsFiniteSet(Events)
  /\ Limits \subseteq Nat \ {0}
  /\ MaxFaults \in Nat

VARIABLES
  rows,       \* the committed rows, by id
  outbox,     \* what each relay has in memory, by relay and id
  step,       \* how far it is with it
  delivered,  \* events that Kafka has
  failures,   \* history: how often a failure was recorded of an event
  faults

memory == <<outbox, step>>
vars == <<rows, memory, delivered, failures, faults>>

----------------------------------------------------------------------------
\* domain/outbox.

NoError == "nil"

MaxAttempts == 3

Statuses == {"PENDING", "FAILED", "SUCCESS"}

validStateMachine ==
  [s \in Statuses |-> CASE s = "PENDING" -> {"FAILED", "SUCCESS"}
                        [] s = "FAILED"  -> {"PENDING"}
                        [] s = "SUCCESS" -> {}]

CanTransition(from, to) == from \in Statuses /\ to \in validStateMachine[from]

\* The two values of a *time.Time that matter.
Times == {"nil", "some time"}

Outboxes == [Status : Statuses, Attempts : 0 .. MaxAttempts,
             LastAttemptAt : Times, PublishedAt : Times]

NewOutbox ==
  [Status |-> "PENDING", Attempts |-> 0, LastAttemptAt |-> "nil", PublishedAt |-> "nil"]

Result(err, val) == [err |-> err, val |-> val]

Publish(o) ==
  IF ~ CanTransition(o.Status, "SUCCESS") THEN Result("ErrTransitionStatus", o)
  ELSE Result(NoError, [o EXCEPT !.Status = "SUCCESS", !.PublishedAt = "some time"])

\* Faulty variant: MarkFailed without Attempts++.
MarkFailedUncounted(o) ==
  IF ~ CanTransition(o.Status, "FAILED") THEN Result("ErrTransitionStatus", o)
  ELSE Result(NoError, [o EXCEPT !.Status = "FAILED", !.LastAttemptAt = "some time"])

MarkFailed(o) ==
  IF ~ CanTransition(o.Status, "FAILED") THEN Result("ErrTransitionStatus", o)
  ELSE Result(NoError, [o EXCEPT !.Status = "FAILED", !.Attempts = @ + 1,
                                 !.LastAttemptAt = "some time"])

\* Faulty variant: one attempt more.
RetryOnceMore(o) ==
  IF o.Attempts > MaxAttempts THEN Result("ErrMaxAttemptsExceeded", o)
  ELSE IF ~ CanTransition(o.Status, "PENDING") THEN Result("ErrTransitionStatus", o)
  ELSE Result(NoError, [o EXCEPT !.Status = "PENDING"])

Retry(o) ==
  IF o.Attempts >= MaxAttempts THEN Result("ErrMaxAttemptsExceeded", o)
  ELSE IF ~ CanTransition(o.Status, "PENDING") THEN Result("ErrTransitionStatus", o)
  ELSE Result(NoError, [o EXCEPT !.Status = "PENDING"])

----------------------------------------------------------------------------
\* postgres/model and postgres/database: a nil time is a NULL.

Time(t) == [Valid |-> TRUE, Time |-> t]

NULL == [Valid |-> FALSE, Time |-> "zero time"]

\* Faulty variant: every time is valid.
TimeOfNil(t) == Time(t)

ToTimestamptz(t) == IF t = "nil" THEN NULL ELSE Time(t)

ToTimePtr(t) == IF t.Valid THEN t.Time ELSE "nil"

ToOutboxModel(o) ==
  [status |-> o.Status, attempts |-> o.Attempts,
   last_attempt_at |-> ToTimestamptz(o.LastAttemptAt),
   published_at |-> ToTimestamptz(o.PublishedAt)]

ToOutboxDomain(row) ==
  [Status |-> row.status, Attempts |-> row.attempts,
   LastAttemptAt |-> ToTimePtr(row.last_attempt_at),
   PublishedAt |-> ToTimePtr(row.published_at)]

\* Faulty variant: attempts is not among the columns that are set.
UpdateAllButAttempts(row, o) ==
  [row EXCEPT !.status = o.Status,
              !.last_attempt_at = ToTimestamptz(o.LastAttemptAt),
              !.published_at = ToTimestamptz(o.PublishedAt)]

\* What the UPDATE makes of the event's row.
UpdateOutboxData(row, o) ==
  [row EXCEPT !.status = o.Status, !.attempts = o.Attempts,
              !.last_attempt_at = ToTimestamptz(o.LastAttemptAt),
              !.published_at = ToTimestamptz(o.PublishedAt)]

----------------------------------------------------------------------------

NoRows == [e \in {} |-> ToOutboxModel(NewOutbox)]

Init ==
  /\ rows = NoRows
  /\ outbox = [w \in Relays |-> [e \in Events |-> NewOutbox]]
  /\ step = [w \in Relays |-> [e \in Events |-> "none"]]
  /\ delivered = {}
  /\ failures = [e \in Events |-> 0]
  /\ faults = 0

Stored == DOMAIN rows
Found(w) == {e \in Events : step[w][e] # "none"}
Updated(w) == {e \in Events : step[w][e] = "updated"}
Idle(w) == Found(w) = {}

\* A posting commits with its event (module Ledger).
Save(e) ==
  /\ e \notin Stored
  /\ rows' = [d \in Stored \cup {e} |-> IF d = e THEN ToOutboxModel(NewOutbox) ELSE rows[d]]
  /\ UNCHANGED <<memory, delivered, failures, faults>>

\* Faulty variant: the query without FOR UPDATE.
NotLocked(e) == FALSE

\* The lock of FOR UPDATE, which lasts as long as the transaction.
Locked(e) == \E w \in Relays : e \in Found(w)

Matching(status) == {e \in Stored : rows[e].status = status /\ ~ Locked(e)}

\* LIMIT
BatchSize(S, limit) == IF Cardinality(S) < limit THEN Cardinality(S) ELSE limit

\* No ORDER BY: any of the rows, but not those that are locked.
FindAllByStatusForUpdateSkipLocked(w, status, limit) ==
  /\ Idle(w)
  /\ Matching(status) # {}
  /\ \E S \in SUBSET Matching(status) :
       /\ Cardinality(S) = BatchSize(Matching(status), limit)
       /\ outbox' = [outbox EXCEPT ![w] =
                       [e \in Events |-> IF e \in S THEN ToOutboxDomain(rows[e]) ELSE @[e]]]
       /\ step' = [step EXCEPT ![w] =
                     [e \in Events |-> IF e \in S THEN "found" ELSE "none"]]
  /\ UNCHANGED <<rows, delivered, failures, faults>>

\* The relay takes what the aggregate answers; an error leaves the row alone.
Take(w, e, result) ==
  /\ outbox' = [outbox EXCEPT ![w][e] = result.val]
  /\ step' = [step EXCEPT ![w][e] = IF result.err = NoError THEN "changed" ELSE "left"]

\* Kafka acknowledges the event.
Deliver(w, e) ==
  /\ step[w][e] = "found" /\ outbox[w][e].Status = "PENDING"
  /\ delivered' = delivered \cup {e}
  /\ Take(w, e, Publish(outbox[w][e]))
  /\ UNCHANGED <<rows, failures, faults>>

\* It does not, though it may have the event.
DeliveryFails(w, e) ==
  /\ step[w][e] = "found" /\ outbox[w][e].Status = "PENDING"
  /\ delivered' \in {delivered, delivered \cup {e}}
  /\ Take(w, e, MarkFailed(outbox[w][e]))
  /\ UNCHANGED <<rows, failures, faults>>

RetryLater(w, e) ==
  /\ step[w][e] = "found" /\ outbox[w][e].Status = "FAILED"
  /\ Take(w, e, Retry(outbox[w][e]))
  /\ UNCHANGED <<rows, delivered, failures, faults>>

\* The UPDATE, in the relay's transaction.
Update(w, e) ==
  /\ step[w][e] = "changed"
  /\ step' = [step EXCEPT ![w][e] = "updated"]
  /\ UNCHANGED <<rows, outbox, delivered, failures, faults>>

Forget(w) ==
  /\ outbox' = [outbox EXCEPT ![w] = [e \in Events |-> NewOutbox]]
  /\ step' = [step EXCEPT ![w] = [e \in Events |-> "none"]]

\* One more than an event can have: a bound of the history, not of the code.
MaxFailures == MaxAttempts + 1

CountFailure(e, w) ==
  IF e \in Updated(w) /\ outbox[w][e].Status = "FAILED" /\ failures[e] < MaxFailures
  THEN failures[e] + 1 ELSE failures[e]

Commit(w) ==
  /\ ~ Idle(w)
  /\ \A e \in Found(w) : step[w][e] \in {"updated", "left"}
  /\ rows' = [e \in Stored |-> IF e \in Updated(w) THEN UpdateOutboxData(rows[e], outbox[w][e])
                               ELSE rows[e]]
  /\ failures' = [e \in Events |-> CountFailure(e, w)]
  /\ Forget(w)
  /\ UNCHANGED <<delivered, faults>>

\* The relay crashes, its context ends or a statement fails: ROLLBACK.
Abort(w) ==
  /\ ~ Idle(w)
  /\ faults < MaxFaults
  /\ faults' = faults + 1
  /\ Forget(w)
  /\ UNCHANGED <<rows, delivered, failures>>

----------------------------------------------------------------------------

Work(w) ==
  \/ \E e \in Events : Deliver(w, e) \/ DeliveryFails(w, e) \/ RetryLater(w, e) \/ Update(w, e)
  \/ Commit(w)

\* Nothing is left to do.
Settled ==
  /\ Stored = Events
  /\ \A e \in Events : rows[e].status = "SUCCESS"
  /\ \A w \in Relays : Idle(w)
  /\ UNCHANGED vars

Next ==
  \/ \E e \in Events : Save(e)
  \/ \E w \in Relays :
       \/ \E status \in {"PENDING", "FAILED"}, limit \in Limits :
            FindAllByStatusForUpdateSkipLocked(w, status, limit)
       \/ Work(w)
       \/ Abort(w)
  \/ Settled

Spec == Init /\ [][Next]_vars

\* The relays go on with what they found, and one or another asks again and again for
\* events of either status, with any limit it has.  What such a query finds is left
\* open, as there is no ORDER BY.  No delivery is assumed to succeed, and no event to
\* be saved.
Fairness ==
  /\ \A w \in Relays : WF_vars(Work(w))
  /\ \A status \in {"PENDING", "FAILED"} :
       SF_vars(\E w \in Relays, limit \in Limits :
                 FindAllByStatusForUpdateSkipLocked(w, status, limit))

FairSpec == Spec /\ Fairness

----------------------------------------------------------------------------

\* The types, and that no event is tried more than MaxAttempts times
\* (outbox.go:121-133): one that may be tried has an attempt left.
TypeOK ==
  /\ Stored \subseteq Events
  /\ \A e \in Stored : ToOutboxDomain(rows[e]) \in Outboxes
  /\ \A e \in Stored : rows[e].status = "PENDING" => rows[e].attempts < MaxAttempts
  /\ outbox \in [Relays -> [Events -> Outboxes]]
  /\ step \in [Relays -> [Events -> {"none", "found", "changed", "left", "updated"}]]
  /\ delivered \subseteq Stored
  /\ failures \in [Events -> 0 .. MaxFailures]
  /\ faults \in 0 .. MaxFaults

\* README:152-155 and outbox.go:41-45: however many relays work, what a commit does
\* to a row is one step of the state machine; an event that was published stays so
\* and none is lost.
RowsFollowStateMachine ==
  [][\A e \in Stored :
       /\ e \in Stored'
       /\ rows'[e] # rows[e] => CanTransition(rows[e].status, rows'[e].status)]_vars

\* outbox.go:109-119, repository/outbox.go:112-130: attempts is the number of
\* failures that relays have recorded; none overwrites the count of another.
AttemptsCountFailures == \A e \in Stored : rows[e].attempts = failures[e]

\* helper.go:9-21: the two times of a row survive being read and written back by a
\* relay that does not set them: published_at is set exactly when the event was
\* published, last_attempt_at when an attempt has failed.
TimesTellHistory ==
  \A e \in Stored :
    /\ rows[e].published_at.Valid <=> rows[e].status = "SUCCESS"
    /\ rows[e].last_attempt_at.Valid <=> failures[e] > 0

DeadLetters == {e \in Stored : rows[e].status = "FAILED" /\ rows[e].attempts = MaxAttempts}

Published == {e \in Stored : rows[e].status = "SUCCESS" /\ e \in delivered}

\* e could be retried, but there are dead letters enough to fill a batch, and the
\* query may find those every time.
Starves(e) ==
  /\ rows[e].status = "FAILED"
  /\ \E limit \in Limits : Cardinality(DeadLetters) >= limit

\* README:178: every event of a committed posting gets to Kafka and is marked so in the
\* end, or has failed MaxAttempts times - unless it starves, which README:178 does not
\* say: repository/outbox.go:74-88 has a LIMIT (50, README:289), no ORDER BY and no
\* condition on attempts.  Nothing else keeps an event back.
EventSettles == <>[](\A e \in Stored : e \in Published \cup DeadLetters \/ Starves(e))

============================================================================
