--------------------------- MODULE BackgroundJobs ---------------------------
(***************************************************************************)
(* The PostgreSQL job queue of apps/api/src/platform/background-jobs: the  *)
(* table plt.background_jobs and the worker processes that poll it, lease  *)
(* rows, run handlers under a timeout and write the verdict back.          *)
(*                                                                         *)
(* Every SQL statement is one atomic step (each runs in its own implicit   *)
(* transaction); whatever happens between two awaits of the worker is      *)
(* another step.  An execution is named by the job and by the attempt      *)
(* number that the claim returned, which no two claims of a job share.     *)
(*                                                                         *)
(* Time is a set of countdown timers driven by Tick.  As long as "stall"   *)
(* is not in Faults, a live process does what it can do before time        *)
(* passes: handlers may be slow, the event loop and the database are not.  *)
(***************************************************************************)
EXTENDS Integers, FiniteSets

CONSTANTS
  Job,            \* idempotency keys that producers submit
  Worker,         \* worker processes (WORKER_ID)
  NULL,           \* SQL NULL, and a poll timer that is not armed
  Concurrency,    \* WORKER_CONCURRENCY
  MaxAttempts,    \* max_attempts of a job
  MaxClaims,      \* model bound on attempt_count
  JobTimeout,     \* WORKER_JOB_TIMEOUT_MS, in ticks
  LeaseDuration,  \* WORKER_LEASE_DURATION_MS, in ticks
  PollInterval,   \* WORKER_POLL_INTERVAL_MS, in ticks
  ShutdownGrace,  \* WORKER_SHUTDOWN_GRACE_MS, in ticks
  Backoff,        \* computeBackoffDelayMs by attempt number, in ticks
  Faults,         \* kinds of fault that may happen, a subset of FaultKind
  MaxFaults,      \* model bound on the number of faults
  MaxStops        \* model bound on the number of orderly shutdowns

\* crash:     a worker process dies
\* dberror:   a statement of a worker fails and has no effect
\* lostclaim: a claim commits but its answer never reaches the worker
\* lostack:   a verdict commits but the worker sees an error
\* stall:     time passes while a live process has work it could do
FaultKind == {"crash", "dberror", "lostclaim", "lostack", "stall"}

Attempt == 1 .. MaxClaims

ASSUME ConstantsAssumption ==
  /\ IsFiniteSet(Job)
  /\ Concurrency \in Nat \ {0}
  /\ MaxAttempts \in Nat \ {0}
  /\ MaxClaims \in Nat
  /\ JobTimeout \in Nat \ {0}
  /\ LeaseDuration \in Nat \ {0}
  /\ PollInterval \in Nat \ {0}
  /\ ShutdownGrace \in Nat
  /\ Backoff \in [Attempt -> Nat]
  /\ Faults \subseteq FaultKind
  /\ MaxFaults \in Nat
  /\ MaxStops \in Nat
  /\ NULL \notin Worker
  /\ NULL \notin Nat

VARIABLES
  \* a row of plt.background_jobs; the idempotency key is unique, so the row
  \* is named by it, and "ABSENT" stands for a key that was never inserted
  status,        \* "PENDING", "RUNNING", "COMPLETED", "FAILED", "DEAD"
  leaseOwner,    \* lease_owner
  lease,         \* ticks until lease_expires_at, 0 when it is past or NULL
  attemptCount,  \* attempt_count
  runAfter,      \* ticks until run_after
  \* executions, by job and attempt
  run,           \* where executeJob stands
  ranBy,         \* the worker whose claim made the attempt
  left,          \* ticks until withTimeout rejects
  handling,      \* attempts whose handler code is still running
  \* a worker process
  phase,         \* where pollCycle stands
  pollTimer,     \* ticks until the poll timer fires, NULL when not armed
  shuttingDown,  \* the flag of stop()
  slots,         \* availableSlots of the cycle under way
  batch,         \* executions that runOnce awaits
  stopCall,      \* where stop() stands
  grace,         \* ticks until the deadline of stop()
  \* history and bounds
  forfeits,      \* attempts of a job that ended without a verdict
  faults,        \* faults so far
  stops          \* orderly shutdowns so far

rowVars == <<status, leaseOwner, lease, attemptCount, runAfter, forfeits>>
runVars == <<run, ranBy, left, handling>>
pollVars == <<phase, pollTimer, slots, batch>>
stopVars == <<shuttingDown, stopCall, grace>>
bounds == <<faults, stops>>
vars == <<rowVars, runVars, pollVars, stopVars, bounds>>

Terminal == {"COMPLETED", "FAILED", "DEAD"}
Status == {"ABSENT", "PENDING", "RUNNING"} \union Terminal

\* the verdict an execution still has to write: ok -> markCompleted,
\* perm -> markFailedPermanent, fail -> markDead or scheduleRetry,
\* yield -> scheduleRetry because the worker is shutting down.
\* "gone" are those that ended with their process, without a verdict.
Verdict == {"ok", "perm", "fail", "yield"}
RunState == {"none", "leased", "running", "done", "gone"} \union Verdict

\* executions whose promise counts in inFlight
InFlightState == {"running", "ok", "perm", "fail"}

\* an execution that will still write to its row
Live(j, a) == run[j][a] \notin {"none", "done", "gone"}

InFlight(w) ==
  {e \in Job \X Attempt : /\ ranBy[e[1]][e[2]] = w
                          /\ run[e[1]][e[2]] \in InFlightState}

Available(w) ==
  LET n == Cardinality(InFlight(w))
  IN  IF n < Concurrency THEN Concurrency - n ELSE 0

Phase == {"down", "idle", "releasing", "claiming", "claimed", "awaiting"}

Init ==
  /\ status = [j \in Job |-> "ABSENT"]
  /\ leaseOwner = [j \in Job |-> NULL]
  /\ lease = [j \in Job |-> 0]
  /\ attemptCount = [j \in Job |-> 0]
  /\ runAfter = [j \in Job |-> 0]
  /\ run = [j \in Job |-> [a \in Attempt |-> "none"]]
  /\ ranBy = [j \in Job |-> [a \in Attempt |-> NULL]]
  /\ left = [j \in Job |-> [a \in Attempt |-> 0]]
  /\ handling = [j \in Job |-> {}]
  /\ phase = [w \in Worker |-> "idle"]
  /\ pollTimer = [w \in Worker |-> 0]
  /\ shuttingDown = [w \in Worker |-> FALSE]
  /\ slots = [w \in Worker |-> 0]
  /\ batch = [w \in Worker |-> {}]
  /\ stopCall = [w \in Worker |-> "none"]
  /\ grace = [w \in Worker |-> 0]
  /\ forfeits = [j \in Job |-> 0]
  /\ faults = 0
  /\ stops = 0

Fault(kind) ==
  /\ kind \in Faults
  /\ faults < MaxFaults
  /\ faults' = faults + 1
  /\ UNCHANGED stops

-----------------------------------------------------------------------------
\* Producers

\* mutant: ON CONFLICT DO UPDATE SET status = 'PENDING'
EnqueueUpserting(j) ==
  /\ status[j] # "RUNNING"
  /\ status' = [status EXCEPT ![j] = "PENDING"]
  /\ UNCHANGED <<leaseOwner, lease, attemptCount, runAfter, forfeits,
                 runVars, pollVars, stopVars, bounds>>

\* enqueueJob: a key that exists, or that a concurrent insert took, leaves
\* the table alone (ON CONFLICT DO NOTHING), whatever the row's status.
Enqueue(j) ==
  /\ status[j] = "ABSENT"
  /\ status' = [status EXCEPT ![j] = "PENDING"]
  /\ UNCHANGED <<leaseOwner, lease, attemptCount, runAfter, forfeits,
                 runVars, pollVars, stopVars, bounds>>

-----------------------------------------------------------------------------
\* The poll cycle of a worker

\* The timer fires: pollCycle clears it and runOnce counts its free slots.
\* With no free slot the cycle ends at once, which changes nothing here.
Poll(w) ==
  /\ phase[w] = "idle"
  /\ pollTimer[w] = 0
  /\ ~shuttingDown[w]
  /\ Available(w) > 0
  /\ phase' = [phase EXCEPT ![w] = "releasing"]
  /\ pollTimer' = [pollTimer EXCEPT ![w] = NULL]
  /\ slots' = [slots EXCEPT ![w] = Available(w)]
  /\ UNCHANGED <<rowVars, runVars, batch, stopVars, bounds>>

\* mutants: every lease is taken for expired; no lease ever is
ExpiredEarly(j) == status[j] = "RUNNING"
ExpiredNever(j) == FALSE

Expired(j) == status[j] = "RUNNING" /\ lease[j] = 0

\* releaseExpiredLeases: a statement of its own, before the claim
ReleaseExpired(w) ==
  /\ phase[w] = "releasing"
  /\ status' = [j \in Job |-> IF Expired(j) THEN "PENDING" ELSE status[j]]
  /\ leaseOwner' = [j \in Job |-> IF Expired(j) THEN NULL ELSE leaseOwner[j]]
  /\ forfeits' = [j \in Job |-> IF Expired(j) THEN forfeits[j] + 1 ELSE forfeits[j]]
  /\ phase' = [phase EXCEPT ![w] = "claiming"]
  /\ UNCHANGED <<lease, attemptCount, runAfter, runVars,
                 pollTimer, slots, batch, stopVars, bounds>>

Due == {j \in Job : /\ status[j] = "PENDING"
                    /\ runAfter[j] = 0
                    /\ attemptCount[j] < MaxClaims}

\* The UPDATE of claimJobs: as many due rows as there are slots, each leased
\* to w under the next attempt number.  attempt_count is not compared with
\* max_attempts here.
LeaseRows(w, S) ==
  /\ S \subseteq Due
  /\ Cardinality(S) <= slots[w]
  /\ S = Due \/ Cardinality(S) = slots[w]
  /\ status' = [j \in Job |-> IF j \in S THEN "RUNNING" ELSE status[j]]
  /\ leaseOwner' = [j \in Job |-> IF j \in S THEN w ELSE leaseOwner[j]]
  /\ lease' = [j \in Job |-> IF j \in S THEN LeaseDuration ELSE lease[j]]
  /\ attemptCount' = [j \in Job |-> IF j \in S THEN attemptCount[j] + 1
                                               ELSE attemptCount[j]]
  /\ UNCHANGED <<runAfter, forfeits>>

\* The attempts that a claim of S makes start in state st.
NewAttempts(w, S, st) ==
  /\ run' = [j \in Job |-> [a \in Attempt |->
               IF j \in S /\ a = attemptCount[j] + 1 THEN st ELSE run[j][a]]]
  /\ ranBy' = [j \in Job |-> [a \in Attempt |->
               IF j \in S /\ a = attemptCount[j] + 1 THEN w ELSE ranBy[j][a]]]
  /\ UNCHANGED <<left, handling>>

Claim(w) ==
  /\ phase[w] = "claiming"
  /\ \E S \in SUBSET Job : LeaseRows(w, S) /\ NewAttempts(w, S, "leased")
  /\ phase' = [phase EXCEPT ![w] = "claimed"]
  /\ UNCHANGED <<pollTimer, slots, batch, stopVars, bounds>>

Leased(w, j, a) == run[j][a] = "leased" /\ ranBy[j][a] = w

\* The claimed rows reach runOnce.  Its loop starts every execution, or, when
\* stop() has set the flag, sends every row back; then it awaits them all.
BeginBatch(w) ==
  /\ phase[w] = "claimed"
  /\ run' = [j \in Job |-> [a \in Attempt |->
               IF ~Leased(w, j, a) THEN run[j][a]
               ELSE IF shuttingDown[w] THEN "yield" ELSE "running"]]
  /\ left' = [j \in Job |-> [a \in Attempt |->
               IF Leased(w, j, a) THEN JobTimeout ELSE left[j][a]]]
  /\ handling' = [j \in Job |-> handling[j] \union
               {a \in Attempt : Leased(w, j, a) /\ ~shuttingDown[w]}]
  /\ batch' = [batch EXCEPT ![w] =
               {e \in Job \X Attempt : Leased(w, e[1], e[2])}]
  /\ phase' = [phase EXCEPT ![w] = "awaiting"]
  /\ UNCHANGED <<rowVars, ranBy, pollTimer, slots, stopVars, bounds>>

\* pollCycle's finally: the next poll is armed unless the worker shuts down.
Rearm(w) ==
  /\ phase' = [phase EXCEPT ![w] = "idle"]
  /\ pollTimer' = IF shuttingDown[w] THEN pollTimer
                  ELSE [pollTimer EXCEPT ![w] = PollInterval]
  /\ batch' = [batch EXCEPT ![w] = {}]
  /\ slots' = [slots EXCEPT ![w] = 0]

EndCycle(w) ==
  /\ phase[w] = "awaiting"
  /\ \A e \in batch[w] : run[e[1]][e[2]] = "done"
  /\ Rearm(w)
  /\ UNCHANGED <<rowVars, runVars, stopVars, bounds>>

\* A statement of the cycle fails: pollCycle logs it and re-arms.
PollError(w) ==
  /\ phase[w] \in {"releasing", "claiming"}
  /\ Fault("dberror")
  /\ Rearm(w)
  /\ UNCHANGED <<rowVars, runVars, stopVars>>

\* The claim commits but its answer is lost: rows are leased to a worker
\* that does not know it.
ClaimLost(w) ==
  /\ phase[w] = "claiming"
  /\ Fault("lostclaim")
  /\ \E S \in SUBSET Job : LeaseRows(w, S) /\ NewAttempts(w, S, "done")
  /\ Rearm(w)
  /\ UNCHANGED stopVars

-----------------------------------------------------------------------------
\* Executions

\* The handler settles in time.  A missing handler is "perm" as well.
HandlerReturns(j, a) ==
  /\ run[j][a] = "running"
  /\ \E v \in {"ok", "perm", "fail"} : run' = [run EXCEPT ![j][a] = v]
  /\ left' = [left EXCEPT ![j][a] = 0]
  /\ handling' = [handling EXCEPT ![j] = @ \ {a}]
  /\ UNCHANGED <<rowVars, ranBy, pollVars, stopVars, bounds>>

\* withTimeout rejects, but nothing aborts the handler: it goes on.
TimeOut(j, a) ==
  /\ run[j][a] = "running"
  /\ left[j][a] = 0
  /\ run' = [run EXCEPT ![j][a] = "fail"]
  /\ UNCHANGED <<rowVars, ranBy, left, handling, pollVars, stopVars, bounds>>

\* A handler that timed out ends; nobody awaits its promise any more.
AbandonedHandlerEnds(j, a) ==
  /\ a \in handling[j]
  /\ run[j][a] # "running"
  /\ handling' = [handling EXCEPT ![j] = @ \ {a}]
  /\ UNCHANGED <<rowVars, run, ranBy, left, pollVars, stopVars, bounds>>

\* What each verdict writes to the row.  No statement looks at the status, the
\* owner or the attempt that the row has by now.
Release(j, s, delay) ==
  /\ status' = [status EXCEPT ![j] = s]
  /\ leaseOwner' = [leaseOwner EXCEPT ![j] = NULL]
  /\ lease' = [lease EXCEPT ![j] = 0]
  /\ runAfter' = [runAfter EXCEPT ![j] = delay]
  /\ UNCHANGED attemptCount

MarkCompleted(j, a) ==
  run[j][a] = "ok" /\ Release(j, "COMPLETED", runAfter[j]) /\ UNCHANGED forfeits

MarkFailedPermanent(j, a) ==
  run[j][a] = "perm" /\ Release(j, "FAILED", runAfter[j]) /\ UNCHANGED forfeits

\* mutant: a status that the column's enumeration does not have
MarkDeadLetter(j, a) ==
  /\ run[j][a] = "fail"
  /\ a >= MaxAttempts
  /\ Release(j, "DEAD_LETTER", runAfter[j])
  /\ UNCHANGED forfeits

\* The claimed row's attempt_count is compared with its max_attempts.
MarkDead(j, a) ==
  /\ run[j][a] = "fail"
  /\ a >= MaxAttempts
  /\ Release(j, "DEAD", runAfter[j])
  /\ UNCHANGED forfeits

\* mutant: an attempt too many
ScheduleRetryOffByOne(j, a) ==
  /\ run[j][a] = "fail"
  /\ a <= MaxAttempts
  /\ Release(j, "PENDING", Backoff[a])
  /\ UNCHANGED forfeits

ScheduleRetry(j, a) ==
  /\ run[j][a] = "fail"
  /\ a < MaxAttempts
  /\ Release(j, "PENDING", Backoff[a])
  /\ UNCHANGED forfeits

YieldRow(j, a) ==
  /\ run[j][a] = "yield"
  /\ Release(j, "PENDING", 0)
  /\ forfeits' = [forfeits EXCEPT ![j] = @ + 1]

WriteVerdict(j, a) ==
  \/ MarkCompleted(j, a)
  \/ MarkFailedPermanent(j, a)
  \/ MarkDead(j, a)
  \/ ScheduleRetry(j, a)
  \/ YieldRow(j, a)

Settle(j, a) ==
  /\ WriteVerdict(j, a)
  /\ run' = [run EXCEPT ![j][a] = "done"]
  /\ UNCHANGED <<ranBy, left, handling, pollVars, stopVars, bounds>>

\* The worker sees its verdict fail.  A failed markCompleted lands in the catch
\* block and becomes a failure of the job.  Any other rejects runOnce: a batch
\* of rows to send back is dropped, and executions lose their waiter.
VerdictRejected(j, a) ==
  LET w == ranBy[j][a]
      waiters == IF <<j, a>> \in batch[w] THEN [batch EXCEPT ![w] = {}] ELSE batch
  IN
  /\ \/ /\ run[j][a] = "ok"
        /\ run' = [run EXCEPT ![j][a] = "fail"]
        /\ UNCHANGED batch
     \/ /\ run[j][a] \in {"perm", "fail"}
        /\ run' = [run EXCEPT ![j][a] = "done"]
        /\ batch' = waiters
     \/ /\ run[j][a] = "yield"
        /\ run' = [k \in Job |-> [b \in Attempt |->
                     IF run[k][b] = "yield" /\ ranBy[k][b] = w
                     THEN "done" ELSE run[k][b]]]
        /\ batch' = waiters
  /\ UNCHANGED <<ranBy, left, handling, phase, pollTimer, slots, stopVars>>

VerdictError(j, a) ==
  VerdictRejected(j, a) /\ Fault("dberror") /\ UNCHANGED rowVars

VerdictAckLost(j, a) ==
  VerdictRejected(j, a) /\ Fault("lostack") /\ WriteVerdict(j, a)

-----------------------------------------------------------------------------
\* The life of a process

\* stop() when the process gets SIGTERM.  With no timer armed and nothing in
\* flight it returns at once, and leaves the flag as it is.
Stop(w) ==
  /\ phase[w] # "down"
  /\ stopCall[w] = "none"
  /\ stops < MaxStops
  /\ stops' = stops + 1
  /\ IF pollTimer[w] = NULL /\ InFlight(w) = {}
     THEN /\ stopCall' = [stopCall EXCEPT ![w] = "drained"]
          /\ UNCHANGED <<shuttingDown, pollTimer, grace>>
     ELSE /\ stopCall' = [stopCall EXCEPT ![w] = "waiting"]
          /\ shuttingDown' = [shuttingDown EXCEPT ![w] = TRUE]
          /\ pollTimer' = [pollTimer EXCEPT ![w] = NULL]
          /\ grace' = [grace EXCEPT ![w] = ShutdownGrace]
  /\ UNCHANGED <<rowVars, runVars, phase, slots, batch, faults>>

\* mutant: stop() does not wait
StopReturnsAtOnce(w) ==
  /\ stopCall[w] = "waiting"
  /\ stopCall' = [stopCall EXCEPT ![w] = "drained"]
  /\ UNCHANGED <<rowVars, runVars, pollVars, shuttingDown, grace, bounds>>

\* The wait of stop() ends because nothing is in flight, or at the deadline.
StopReturns(w) ==
  /\ stopCall[w] = "waiting"
  /\ InFlight(w) = {} \/ grace[w] = 0
  /\ stopCall' = [stopCall EXCEPT ![w] =
                    IF InFlight(w) = {} THEN "drained" ELSE "gaveup"]
  /\ UNCHANGED <<rowVars, runVars, pollVars, shuttingDown, grace, bounds>>

\* The process is gone, with every execution and handler it had.
ProcessGone(w) ==
  /\ phase' = [phase EXCEPT ![w] = "down"]
  /\ pollTimer' = [pollTimer EXCEPT ![w] = NULL]
  /\ batch' = [batch EXCEPT ![w] = {}]
  /\ stopCall' = [stopCall EXCEPT ![w] = "none"]
  /\ run' = [j \in Job |-> [a \in Attempt |->
               IF ranBy[j][a] = w /\ Live(j, a) THEN "gone" ELSE run[j][a]]]
  /\ left' = [j \in Job |-> [a \in Attempt |->
               IF ranBy[j][a] = w THEN 0 ELSE left[j][a]]]
  /\ handling' = [j \in Job |-> {a \in handling[j] : ranBy[j][a] # w}]
  /\ slots' = [slots EXCEPT ![w] = 0]
  /\ shuttingDown' = [shuttingDown EXCEPT ![w] = FALSE]
  /\ grace' = [grace EXCEPT ![w] = 0]
  /\ UNCHANGED <<rowVars, ranBy>>

\* process.exit(0) after app.close()
Exit(w) ==
  stopCall[w] \in {"drained", "gaveup"} /\ ProcessGone(w) /\ UNCHANGED bounds

Crash(w) ==
  phase[w] # "down" /\ Fault("crash") /\ ProcessGone(w)

\* A new process: start() arms the first poll.
Start(w) ==
  /\ phase[w] = "down"
  /\ phase' = [phase EXCEPT ![w] = "idle"]
  /\ pollTimer' = [pollTimer EXCEPT ![w] = 0]
  /\ UNCHANGED <<rowVars, runVars, slots, batch, stopVars, bounds>>

-----------------------------------------------------------------------------
\* Time

Countdown(n) == IF n > 0 THEN n - 1 ELSE n

\* Work that a live, responsive process does before time passes.
Prompt ==
  /\ \A w \in Worker : /\ phase[w] \notin {"releasing", "claiming", "claimed"}
                       /\ stopCall[w] \in {"none", "waiting"}
  /\ \A j \in Job, a \in Attempt :
       /\ Live(j, a) => run[j][a] = "running"
       /\ run[j][a] = "running" => left[j][a] > 0

Tick ==
  /\ Prompt \/ "stall" \in Faults
  /\ lease' = [j \in Job |-> Countdown(lease[j])]
  /\ runAfter' = [j \in Job |-> Countdown(runAfter[j])]
  /\ left' = [j \in Job |-> [a \in Attempt |->
                IF run[j][a] = "running" THEN Countdown(left[j][a]) ELSE left[j][a]]]
  /\ pollTimer' = [w \in Worker |->
                     IF pollTimer[w] = NULL THEN NULL ELSE Countdown(pollTimer[w])]
  /\ grace' = [w \in Worker |->
                 IF stopCall[w] = "waiting" THEN Countdown(grace[w]) ELSE grace[w]]
  /\ UNCHANGED <<status, leaseOwner, attemptCount, forfeits, run, ranBy, handling,
                 phase, slots, batch, shuttingDown, stopCall, bounds>>

-----------------------------------------------------------------------------
Cycle(w) ==
  \/ Poll(w)
  \/ ReleaseExpired(w)
  \/ Claim(w)
  \/ BeginBatch(w)
  \/ EndCycle(w)

Next ==
  \/ \E j \in Job : Enqueue(j)
  \/ \E w \in Worker : \/ Cycle(w)
                       \/ PollError(w)
                       \/ ClaimLost(w)
                       \/ Stop(w)
                       \/ StopReturns(w)
                       \/ Exit(w)
                       \/ Crash(w)
                       \/ Start(w)
  \/ \E j \in Job, a \in Attempt : \/ HandlerReturns(j, a)
                                   \/ TimeOut(j, a)
                                   \/ AbandonedHandlerEnds(j, a)
                                   \/ Settle(j, a)
                                   \/ VerdictError(j, a)
                                   \/ VerdictAckLost(j, a)
  \/ Tick

Spec == Init /\ [][Next]_vars

\* Timers fire, statements are answered, a supervisor restarts the process.
\* Handlers owe nothing: one that never returns is cut off by TimeOut.
Fairness ==
  /\ WF_vars(Tick)
  /\ \A w \in Worker : /\ WF_vars(Cycle(w))
                       /\ WF_vars(StopReturns(w))
                       /\ WF_vars(Exit(w))
                       /\ WF_vars(Start(w))
  /\ \A j \in Job, a \in Attempt : /\ WF_vars(TimeOut(j, a))
                                   /\ WF_vars(Settle(j, a))

FairSpec == Spec /\ Fairness

-----------------------------------------------------------------------------
\* Correctness

TypeOK ==
  /\ status \in [Job -> Status]
  /\ leaseOwner \in [Job -> Worker \union {NULL}]
  /\ lease \in [Job -> Nat]
  /\ attemptCount \in [Job -> 0 .. MaxClaims]
  /\ runAfter \in [Job -> Nat]
  /\ run \in [Job -> [Attempt -> RunState]]
  /\ ranBy \in [Job -> [Attempt -> Worker \union {NULL}]]
  /\ left \in [Job -> [Attempt -> Nat]]
  /\ handling \in [Job -> SUBSET Attempt]
  /\ phase \in [Worker -> Phase]
  /\ pollTimer \in [Worker -> Nat \union {NULL}]
  /\ shuttingDown \in [Worker -> BOOLEAN]
  /\ slots \in [Worker -> Nat]
  /\ batch \in [Worker -> SUBSET (Job \X Attempt)]
  /\ stopCall \in [Worker -> {"none", "waiting", "drained", "gaveup"}]
  /\ grace \in [Worker -> Nat]
  /\ forfeits \in [Job -> Nat]
  /\ faults \in Nat
  /\ stops \in Nat

\* The circumstances in which verdicts need no fencing: the lease outlasts the
\* handler's timeout, nothing stalls, and no committed verdict is reported as
\* an error.  The defaults (60 s, 30 s) meet the first; nothing checks it.
Timely ==
  /\ JobTimeout < LeaseDuration
  /\ Faults \intersect {"stall", "lostack"} = {}

\* Although no verdict checks it, an execution that will still write to its row
\* holds the row's lease, under the row's latest attempt number.
WriterHoldsLease ==
  \A j \in Job, a \in Attempt :
    Live(j, a) => /\ status[j] = "RUNNING"
                  /\ leaseOwner[j] = ranBy[j][a]
                  /\ attemptCount[j] = a

VerdictsStand == \A j \in Job : status[j] \in Terminal => status'[j] = status[j]

\* A job with a final verdict is never run, retried or judged again.
TerminalIsFinal == [][VerdictsStand]_vars

\* claimJobs does not compare attempt_count with max_attempts; even so a job
\* exceeds max_attempts only by the attempts that ended without a verdict, and
\* a job that waits for its next attempt has not used its budget up.
RetryBudget ==
  \A j \in Job :
    /\ attemptCount[j] <= MaxAttempts + forfeits[j]
    /\ status[j] = "PENDING" => attemptCount[j] < MaxAttempts + forfeits[j]

\* When stop() waits and returns before its deadline, it leaves no row leased to
\* the worker: one that is was left by an earlier process of the same WORKER_ID,
\* or by a fault.  A stop() that comes while a claim is under way does not wait,
\* and of it this cannot be said.
WaitedStopDrains ==
  faults = 0 =>
    \A w \in Worker :
      stopCall[w] = "drained" /\ shuttingDown[w] =>
        \A j \in Job : leaseOwner[j] = w => run[j][attemptCount[j]] = "gone"

\* A submitted job gets a verdict: crashes, lost answers and handlers that
\* never return cannot keep it in the queue.
EveryJobIsJudged ==
  \A j \in Job : status[j] # "ABSENT" ~> status[j] \in Terminal

-----------------------------------------------------------------------------
\* The queue implements its contract

ContractState(s) ==
  CASE s = "ABSENT" -> "absent"
    [] s = "PENDING" -> "waiting"
    [] s = "RUNNING" -> "trying"
    [] s = "COMPLETED" -> "completed"
    [] s = "FAILED" -> "failed"
    [] OTHER -> "dead"

ContractJob ==
  [j \in Job |-> [state |-> ContractState(status[j]),
                  tries |-> attemptCount[j],
                  lost  |-> forfeits[j]]]

Contract == INSTANCE JobContract WITH job <- ContractJob

\* Producers see the contract's jobs, whatever workers, leases and faults do.
KeepsContract == Contract!Spec

=============================================================================
