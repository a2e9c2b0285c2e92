------------------------------- MODULE Outbox -------------------------------
(***************************************************************************)
(* The transactional outbox of apps/api/src/platform/outbox: events that   *)
(* business transactions commit to evt.outbox_events, and the publishers   *)
(* that lease them, record the domain event and its notification intent,   *)
(* enqueue the dispatch job and mark the event published.                  *)
(*                                                                         *)
(* The publisher works on the pool, outside any transaction, so every      *)
(* statement is a step of its own and a publisher may die between any two. *)
(* Each event type has one notification intent.                            *)
(*                                                                         *)
(* Time is a set of countdown timers.  Without "stall", a batch takes at   *)
(* most BatchTime ticks from its claim.                                    *)
(***************************************************************************)
EXTENDS Integers, FiniteSets

CONSTANTS
  Event,          \* idempotency keys of outbox events
  Publisher,      \* publisher processes (both the API and the worker run one)
  NULL,
  OrderingKey,    \* ordering_key of an event, as a rank
  BatchSize,      \* OUTBOX_BATCH_SIZE
  MaxAttempts,    \* OUTBOX_DEFAULT_MAX_ATTEMPTS
  MaxClaims,      \* model bound on attempts
  BatchTime,      \* longest time from a claim to the end of its batch
  LeaseDuration,  \* OUTBOX_LEASE_DURATION_MS, in ticks
  PollInterval,   \* OUTBOX_POLL_INTERVAL_MS, in ticks
  Backoff,        \* computeOutboxBackoffDelayMs by attempt, in ticks
  Faults,         \* kinds of fault that may happen, a subset of FaultKind
  MaxFaults,      \* model bound on the number of faults
  MaxStops        \* model bound on the number of orderly shutdowns

\* crash:     a publisher process dies
\* dberror:   a statement fails and has no effect
\* lostclaim: a claim commits but its answer is lost
\* lostack:   a later write commits but its answer is lost
\* stall:     a tick passes that a batch has no time for
FaultKind == {"crash", "dberror", "lostclaim", "lostack", "stall"}

Attempt == 1 .. MaxClaims

ASSUME ConstantsAssumption ==
  /\ IsFiniteSet(Event)
  /\ NULL \notin Publisher
  /\ NULL \notin Event \X Attempt
  /\ NULL \notin Nat
  /\ OrderingKey \in [Event -> Nat]
  /\ BatchSize \in Nat \ {0}
  /\ MaxAttempts \in Nat \ {0}
  /\ MaxClaims \in Nat
  /\ BatchTime \in Nat \ {0}
  /\ LeaseDuration \in Nat \ {0}
  /\ PollInterval \in Nat \ {0}
  /\ Backoff \in [Attempt -> Nat \ {0}]
  /\ Faults \subseteq FaultKind
  /\ MaxFaults \in Nat
  /\ MaxStops \in Nat

VARIABLES
  \* a row of evt.outbox_events, named by its idempotency key
  status,        \* "ABSENT" until appended, then the column's value
  leaseOwner,    \* lease_owner
  lease,         \* ticks until lease_expires_at, 0 when it is past or NULL
  attempts,      \* attempts
  wait,          \* ticks until available_at
  earlier,       \* pairs of events of which the first has the earlier available_at
  sequence,      \* sequence_number, 0 when absent
  \* what the publisher writes outside the outbox
  domainEvents,  \* events that evt.domain_events has
  intents,       \* events whose row in evt.notification_intents exists
  jobs,          \* events whose dispatch job exists in plt.background_jobs
  \* a publisher process
  pc,            \* where pollCycle stands
  pollTimer,     \* ticks until the next poll, NULL when not armed
  held,          \* <<event, attempts>> of the claimed rows still to publish
  current,       \* the one that publishClaimedEvent is at, or NULL
  budget,        \* ticks that the batch may still take
  stopping,      \* publishers that were told to stop
  faults, stops

rowVars == <<status, leaseOwner, lease, attempts, wait, earlier>>
effectVars == <<domainEvents, intents, jobs>>
publisherVars == <<pc, pollTimer, held, current, budget, stopping>>
bounds == <<faults, stops>>
vars == <<rowVars, sequence, effectVars, publisherVars, bounds>>

Status == {"ABSENT", "PENDING", "PROCESSING", "PUBLISHED", "FAILED"}
Final == {"PUBLISHED", "FAILED"}

\* publishClaimedEvent, by the statement that comes next
Publishing == {"lookup", "lookupIntents", "insertEvent", "insertIntent",
               "enqueue", "markPublished", "failed"}
PC == {"down", "idle", "releasing", "claiming", "batch"} \union Publishing

Init ==
  /\ status = [e \in Event |-> "ABSENT"]
  /\ leaseOwner = [e \in Event |-> NULL]
  /\ lease = [e \in Event |-> 0]
  /\ attempts = [e \in Event |-> 0]
  /\ wait = [e \in Event |-> 0]
  /\ sequence = [e \in Event |-> 0]
  /\ earlier = {}
  /\ domainEvents = {}
  /\ intents = {}
  /\ jobs = {}
  /\ pc = [p \in Publisher |-> "idle"]
  /\ pollTimer = [p \in Publisher |-> 0]
  /\ held = [p \in Publisher |-> {}]
  /\ current = [p \in Publisher |-> NULL]
  /\ budget = [p \in Publisher |-> 0]
  /\ stopping = {}
  /\ faults = 0
  /\ stops = 0

Fault(kind) ==
  /\ kind \in Faults
  /\ faults < MaxFaults
  /\ faults' = faults + 1
  /\ UNCHANGED stops

Goto(p, label) == pc' = [pc EXCEPT ![p] = label]

Appended == {e \in Event : status[e] # "ABSENT"}

\* available_at is set to a time so many ticks ahead.  Of two equal waits the
\* one that is written later ends later.
AvailableIn(e, delay) ==
  LET others == Appended \ {e}
      sooner == {f \in others : wait[f] <= delay}
  IN
  /\ wait' = [wait EXCEPT ![e] = delay]
  /\ earlier' = {c \in earlier : c[1] # e /\ c[2] # e}
                  \union (sooner \X {e}) \union ({e} \X (others \ sooner))

-----------------------------------------------------------------------------
\* A business transaction commits with the event it appended; one that rolls
\* back appends nothing.  The sequence number is the next of a bigserial.
AppendEvent(e) ==
  /\ status[e] = "ABSENT"
  /\ status' = [status EXCEPT ![e] = "PENDING"]
  /\ sequence' = [sequence EXCEPT ![e] = Cardinality(Appended) + 1]
  /\ AvailableIn(e, 0)
  /\ UNCHANGED <<leaseOwner, lease, attempts, effectVars, publisherVars, bounds>>

-----------------------------------------------------------------------------
\* The poll cycle

Poll(p) ==
  /\ pc[p] = "idle"
  /\ pollTimer[p] = 0
  /\ p \notin stopping
  /\ Goto(p, "releasing")
  /\ pollTimer' = [pollTimer EXCEPT ![p] = NULL]
  /\ UNCHANGED <<rowVars, sequence, effectVars, held, current, budget, stopping, bounds>>

\* mutant: a lease counts as expired a tick too soon
ExpiredEarly(e) == status[e] = "PROCESSING" /\ lease[e] <= 1

Expired(e) == status[e] = "PROCESSING" /\ lease[e] = 0

ReleaseExpired(p) ==
  /\ pc[p] = "releasing"
  /\ status' = [e \in Event |-> IF Expired(e) THEN "PENDING" ELSE status[e]]
  /\ leaseOwner' = [e \in Event |-> IF Expired(e) THEN NULL ELSE leaseOwner[e]]
  /\ Goto(p, "claiming")
  /\ UNCHANGED <<lease, attempts, wait, earlier, sequence, effectVars,
                 pollTimer, held, current, budget, stopping, bounds>>

Due == {e \in Event : /\ status[e] = "PENDING"
                      /\ wait[e] = 0
                      /\ attempts[e] < MaxClaims}

\* ORDER BY ordering_key, available_at; no two events are available at the very
\* same time, so sequence_number decides nothing.
Before(e, f) ==
  \/ OrderingKey[e] < OrderingKey[f]
  \/ OrderingKey[e] = OrderingKey[f] /\ <<e, f>> \in earlier

\* The rows that claimPending selects: the first BatchSize of the due ones.
Selected(S) ==
  /\ S \subseteq Due
  /\ Cardinality(S) <= BatchSize
  /\ S = Due \/ Cardinality(S) = BatchSize
  /\ \A e \in S, f \in Due \ S : Before(e, f)

LeaseRows(p, S) ==
  /\ status' = [e \in Event |-> IF e \in S THEN "PROCESSING" ELSE status[e]]
  /\ leaseOwner' = [e \in Event |-> IF e \in S THEN p ELSE leaseOwner[e]]
  /\ lease' = [e \in Event |-> IF e \in S THEN LeaseDuration ELSE lease[e]]
  /\ attempts' = [e \in Event |-> IF e \in S THEN attempts[e] + 1 ELSE attempts[e]]
  /\ UNCHANGED <<wait, earlier>>

Claim(p) ==
  /\ pc[p] = "claiming"
  /\ \E S \in SUBSET Event :
       /\ Selected(S)
       /\ LeaseRows(p, S)
       /\ held' = [held EXCEPT ![p] = {<<e, attempts[e] + 1>> : e \in S}]
  /\ budget' = [budget EXCEPT ![p] = BatchTime]
  /\ Goto(p, "batch")
  /\ UNCHANGED <<sequence, effectVars, pollTimer, current, stopping, bounds>>

\* publishBatch takes the claimed rows one after the other.  RETURNING has no
\* order, so any of them may be next.
NextEvent(p) ==
  /\ pc[p] = "batch"
  /\ \E c \in held[p] : /\ current' = [current EXCEPT ![p] = c]
                        /\ held' = [held EXCEPT ![p] = @ \ {c}]
  /\ Goto(p, "lookup")
  /\ UNCHANGED <<rowVars, sequence, effectVars, pollTimer, budget, stopping, bounds>>

\* mutant: the next poll is not armed
LeaveCycleUnarmed(p) ==
  /\ Goto(p, "idle")
  /\ held' = [held EXCEPT ![p] = {}]
  /\ current' = [current EXCEPT ![p] = NULL]
  /\ budget' = [budget EXCEPT ![p] = 0]
  /\ UNCHANGED <<stopping, pollTimer>>

\* The cycle ends, with the batch or with an error, and arms the next poll
\* unless the publisher is stopping.
LeaveCycle(p) ==
  /\ Goto(p, "idle")
  /\ pollTimer' = IF p \in stopping THEN pollTimer
                  ELSE [pollTimer EXCEPT ![p] = PollInterval]
  /\ held' = [held EXCEPT ![p] = {}]
  /\ current' = [current EXCEPT ![p] = NULL]
  /\ budget' = [budget EXCEPT ![p] = 0]
  /\ UNCHANGED stopping

EndBatch(p) ==
  /\ pc[p] = "batch"
  /\ held[p] = {}
  /\ LeaveCycle(p)
  /\ UNCHANGED <<rowVars, sequence, effectVars, bounds>>

\* releaseExpiredLeases or claimPending fails: pollCycle catches and re-arms.
CycleError(p) ==
  /\ pc[p] \in {"releasing", "claiming"}
  /\ Fault("dberror")
  /\ LeaveCycle(p)
  /\ UNCHANGED <<rowVars, sequence, effectVars>>

\* The claim commits, its rows never arrive: they stay leased.
ClaimLost(p) ==
  /\ pc[p] = "claiming"
  /\ Fault("lostclaim")
  /\ \E S \in SUBSET Event : Selected(S) /\ LeaseRows(p, S)
  /\ LeaveCycle(p)
  /\ UNCHANGED <<sequence, effectVars>>

-----------------------------------------------------------------------------
\* publishClaimedEvent, a statement at a time

At(p, label, e, a) == pc[p] = label /\ current[p] = <<e, a>>

\* mutant: an event that is found counts as published
LookUpFoundIsDone(p) ==
  /\ \E e \in Event, a \in Attempt :
       /\ At(p, "lookup", e, a)
       /\ Goto(p, IF e \in domainEvents THEN "markPublished" ELSE "insertEvent")
  /\ UNCHANGED <<rowVars, sequence, effectVars, pollTimer, held, current, budget,
                 stopping, bounds>>

\* recordDomainEvent looks for the event, and for the intents of one it finds;
\* without intents there is nothing to enqueue.
LookUp(p) ==
  /\ \E e \in Event, a \in Attempt :
       \/ /\ At(p, "lookup", e, a)
          /\ Goto(p, IF e \in domainEvents THEN "lookupIntents" ELSE "insertEvent")
       \/ /\ At(p, "lookupIntents", e, a)
          /\ Goto(p, IF e \in intents THEN "enqueue" ELSE "markPublished")
  /\ UNCHANGED <<rowVars, sequence, effectVars, pollTimer, held, current, budget,
                 stopping, bounds>>

\* The unique index on idempotency_key rejects the insert.
UniqueViolation(p) ==
  /\ \E e \in domainEvents, a \in Attempt : At(p, "insertEvent", e, a)
  /\ Goto(p, "failed")
  /\ UNCHANGED <<rowVars, sequence, effectVars, pollTimer, held, current, budget,
                 stopping, bounds>>

InsertEvent(p, e, a) ==
  /\ At(p, "insertEvent", e, a)
  /\ e \notin domainEvents
  /\ domainEvents' = domainEvents \union {e}
  /\ UNCHANGED <<rowVars, intents, jobs>>

InsertIntent(p, e, a) ==
  /\ At(p, "insertIntent", e, a)
  /\ intents' = intents \union {e}
  /\ UNCHANGED <<rowVars, domainEvents, jobs>>

\* enqueueNotificationDispatch, idempotent by its key
EnqueueDispatch(p, e, a) ==
  /\ At(p, "enqueue", e, a)
  /\ jobs' = jobs \union {e}
  /\ UNCHANGED <<rowVars, domainEvents, intents>>

\* Every verdict is an UPDATE by id: it asks neither who holds the lease nor
\* what the status is.
Release(e, newStatus) ==
  /\ status' = [status EXCEPT ![e] = newStatus]
  /\ leaseOwner' = [leaseOwner EXCEPT ![e] = NULL]
  /\ lease' = [lease EXCEPT ![e] = 0]
  /\ UNCHANGED attempts

MarkPublished(p, e, a) ==
  /\ At(p, "markPublished", e, a)
  /\ Release(e, "PUBLISHED")
  /\ UNCHANGED <<wait, earlier, effectVars>>

\* mutant: the status of the job queue for a spent budget
MarkDead(p, e, a) ==
  /\ At(p, "failed", e, a)
  /\ a >= MaxAttempts
  /\ Release(e, "DEAD")
  /\ UNCHANGED <<wait, earlier, effectVars>>

MarkFailed(p, e, a) ==
  /\ At(p, "failed", e, a)
  /\ a >= MaxAttempts
  /\ Release(e, "FAILED")
  /\ UNCHANGED <<wait, earlier, effectVars>>

ScheduleRetry(p, e, a) ==
  /\ At(p, "failed", e, a)
  /\ a < MaxAttempts
  /\ Release(e, "PENDING")
  /\ AvailableIn(e, Backoff[a])
  /\ UNCHANGED effectVars

Write(p) ==
  \E e \in Event, a \in Attempt :
    \/ InsertEvent(p, e, a) \/ InsertIntent(p, e, a) \/ EnqueueDispatch(p, e, a)
    \/ MarkPublished(p, e, a) \/ MarkFailed(p, e, a) \/ ScheduleRetry(p, e, a)

AfterWrite ==
  [insertEvent |-> "insertIntent", insertIntent |-> "enqueue",
   enqueue |-> "markPublished", markPublished |-> "batch", failed |-> "batch"]

Verdict == {"markPublished", "failed"}

WriteAnswered(p) ==
  /\ pc[p] \in DOMAIN AfterWrite
  /\ Write(p)
  /\ Goto(p, AfterWrite[pc[p]])
  /\ current' = IF pc[p] \in Verdict THEN [current EXCEPT ![p] = NULL] ELSE current
  /\ UNCHANGED <<sequence, pollTimer, held, budget, stopping, bounds>>

\* publishClaimedEvent catches the error of a statement; an error in the catch
\* block ends the batch, and what is left of it stays leased.
StatementRejected(p) ==
  \/ /\ pc[p] \in Publishing \ {"failed"}
     /\ Goto(p, "failed")
     /\ UNCHANGED <<pollTimer, held, current, budget, stopping>>
  \/ /\ pc[p] = "failed"
     /\ LeaveCycle(p)

StatementError(p) ==
  /\ Fault("dberror")
  /\ StatementRejected(p)
  /\ UNCHANGED <<rowVars, sequence, effectVars>>

WriteAckLost(p) ==
  /\ Fault("lostack")
  /\ Write(p)
  /\ StatementRejected(p)
  /\ UNCHANGED sequence

-----------------------------------------------------------------------------
\* The life of a process

\* stop(): no poll is armed any more; the one under way goes on.
Stop(p) ==
  /\ pc[p] # "down"
  /\ p \notin stopping
  /\ stops < MaxStops
  /\ stops' = stops + 1
  /\ stopping' = stopping \union {p}
  /\ pollTimer' = [pollTimer EXCEPT ![p] = NULL]
  /\ UNCHANGED <<rowVars, sequence, effectVars, pc, held, current, budget, faults>>

Gone(p) ==
  /\ Goto(p, "down")
  /\ pollTimer' = [pollTimer EXCEPT ![p] = NULL]
  /\ held' = [held EXCEPT ![p] = {}]
  /\ current' = [current EXCEPT ![p] = NULL]
  /\ budget' = [budget EXCEPT ![p] = 0]
  /\ stopping' = stopping \ {p}
  /\ UNCHANGED <<rowVars, sequence, effectVars>>

\* The process ends once stop() returns, which is when nothing is in flight or
\* when the grace period, of any length, is over.
Exit(p) == p \in stopping /\ Gone(p) /\ UNCHANGED bounds

Crash(p) == pc[p] # "down" /\ Fault("crash") /\ Gone(p)

Start(p) ==
  /\ pc[p] = "down"
  /\ Goto(p, "idle")
  /\ pollTimer' = [pollTimer EXCEPT ![p] = 0]
  /\ UNCHANGED <<rowVars, sequence, effectVars, held, current, budget, stopping, bounds>>

-----------------------------------------------------------------------------
\* Time

Countdown(n) == IF n > 0 THEN n - 1 ELSE n

InBatch(p) == pc[p] \in {"batch"} \union Publishing

Tick ==
  /\ \/ (\A p \in Publisher : InBatch(p) => budget[p] > 0) /\ UNCHANGED bounds
     \/ Fault("stall")
  /\ lease' = [e \in Event |-> Countdown(lease[e])]
  /\ wait' = [e \in Event |-> Countdown(wait[e])]
  /\ budget' = [p \in Publisher |-> Countdown(budget[p])]
  /\ pollTimer' = [p \in Publisher |->
                     IF pollTimer[p] = NULL THEN NULL ELSE Countdown(pollTimer[p])]
  /\ UNCHANGED <<status, leaseOwner, attempts, earlier, sequence, effectVars,
                 pc, held, current, stopping>>

-----------------------------------------------------------------------------
Work(p) ==
  \/ Poll(p)
  \/ ReleaseExpired(p)
  \/ Claim(p)
  \/ NextEvent(p)
  \/ EndBatch(p)
  \/ LookUp(p)
  \/ UniqueViolation(p)
  \/ WriteAnswered(p)

Next ==
  \/ \E e \in Event : AppendEvent(e)
  \/ \E p \in Publisher : \/ Work(p)
                           \/ CycleError(p)
                           \/ ClaimLost(p)
                           \/ StatementError(p)
                           \/ WriteAckLost(p)
                           \/ Stop(p)
                           \/ Exit(p)
                           \/ Crash(p)
                           \/ Start(p)
  \/ Tick

Spec == Init /\ [][Next]_vars

\* Timers fire, statements are answered, a supervisor restarts the process.
Fairness ==
  /\ WF_vars(Tick)
  /\ \A p \in Publisher : WF_vars(Work(p)) /\ WF_vars(Exit(p)) /\ WF_vars(Start(p))

FairSpec == Spec /\ Fairness

-----------------------------------------------------------------------------
\* Correctness

TypeOK ==
  /\ status \in [Event -> Status]
  /\ leaseOwner \in [Event -> Publisher \union {NULL}]
  /\ lease \in [Event -> Nat]
  /\ attempts \in [Event -> 0 .. MaxClaims]
  /\ wait \in [Event -> Nat]
  /\ sequence \in [Event -> Nat]
  /\ earlier \subseteq Event \X Event
  /\ domainEvents \subseteq Event
  /\ intents \subseteq Event
  /\ jobs \subseteq Event
  /\ pc \in [Publisher -> PC]
  /\ pollTimer \in [Publisher -> Nat \union {NULL}]
  /\ held \in [Publisher -> SUBSET (Event \X Attempt)]
  /\ current \in [Publisher -> (Event \X Attempt) \union {NULL}]
  /\ budget \in [Publisher -> Nat]
  /\ stopping \subseteq Publisher
  /\ faults \in Nat
  /\ stops \in Nat

\* The circumstances in which the publisher's writes need no fencing: a batch
\* ends within the lease of its claim, and no committed write is reported as an
\* error.  The defaults (10 events, 60 s) make the first likely; nothing
\* enforces it.
Timely ==
  /\ BatchTime < LeaseDuration
  /\ Faults \intersect {"stall", "lostack"} = {}

\* What a publisher has claimed and not yet settled
Claimed(p) == held[p] \union (IF current[p] = NULL THEN {} ELSE {current[p]})

\* Although no write checks it, a publisher holds the lease of every event it
\* has still to publish, the last of a batch included, under the event's latest
\* attempt number.
HolderHoldsLease ==
  \A p \in Publisher : \A c \in Claimed(p) :
    /\ status[c[1]] = "PROCESSING"
    /\ leaseOwner[c[1]] = p
    /\ attempts[c[1]] = c[2]

OutcomesStand == \A e \in Event : status[e] \in Final => status'[e] = status[e]

\* A published or failed event is never leased, retried or judged again.
OutcomeIsFinal == [][OutcomesStand]_vars

\* recordDomainEvent was cut off between its two inserts.
Torn(e) == e \in domainEvents /\ e \notin intents

\* An event is marked published only when its dispatch job exists, unless
\* recordDomainEvent was once cut off between its two inserts.
OnlyTornEventsAreLost ==
  \A e \in Event : status[e] = "PUBLISHED" => e \in jobs \/ Torn(e)

\* Domain events of an aggregate are recorded in the order of the outbox.
OrderedPerAggregate ==
  \A e, f \in Appended :
    /\ OrderingKey[e] = OrderingKey[f]
    /\ sequence[e] < sequence[f]
    /\ f \in domainEvents
    => e \in domainEvents

\* An appended event is in the end published or failed, and stays so: crashes,
\* lost answers, stalls and shutdowns cannot keep it in the outbox.
EveryEventIsSettled ==
  \A e \in Event : status[e] # "ABSENT" ~> [](status[e] \in Final)

-----------------------------------------------------------------------------
\* The outbox implements its contract

ContractState(s) ==
  CASE s = "ABSENT" -> "absent"
    [] s = "PENDING" -> "waiting"
    [] s = "PROCESSING" -> "trying"
    [] s = "PUBLISHED" -> "published"
    [] OTHER -> "failed"

\* A publisher stands between the two inserts.
Recording(e) == \E p \in Publisher, a \in Attempt : At(p, "insertIntent", e, a)

ContractRecord(e) ==
  IF e \in intents THEN "whole"
  ELSE IF Recording(e) THEN "part"
  ELSE IF e \in domainEvents THEN "torn" ELSE "none"

ContractEvent ==
  [e \in Event |-> [state      |-> ContractState(status[e]),
                    tries      |-> attempts[e],
                    record     |-> ContractRecord(e),
                    dispatched |-> e \in jobs]]

Contract == INSTANCE OutboxContract WITH event <- ContractEvent

\* What becomes of an event is what one publisher at a time would do with it:
\* no lease runs out while it is being recorded, a record that was cut in two is
\* never completed, and an outcome is never revised.
KeepsContract == Contract!Spec

=============================================================================
