----------------------- MODULE BackgroundJobs_proofs -----------------------
(***************************************************************************)
(* Theorems about the job queue, for any jobs, workers, bounds and faults: *)
(* its types, that a writer holds its row's lease when the lease outlasts  *)
(* the timeout, the retry budget, that verdicts are final, that the queue  *)
(* implements JobContract, and that a shutdown that waits leaves no lease. *)
(***************************************************************************)
EXTENDS BackgroundJobs, FiniteSetTheorems, TLAPS

\* Executions in flight are finitely many, so a poll has a number of slots.
LEMMA AvailableNat == \A w \in Worker : Available(w) \in Nat
<1> SUFFICES ASSUME NEW w \in Worker PROVE Available(w) \in Nat
  OBVIOUS
<1>1. IsFiniteSet(Attempt)
  BY FS_Interval, ConstantsAssumption DEF Attempt
<1>2. IsFiniteSet(Job \X Attempt)
  BY <1>1, FS_Product, ConstantsAssumption
<1>3. IsFiniteSet(InFlight(w))
  BY <1>2, FS_Subset DEF InFlight
<1>4. Cardinality(InFlight(w)) \in Nat
  BY <1>3, FS_CardinalityType
<1>5. Concurrency \in Nat
  BY ConstantsAssumption
<1> QED BY <1>4, <1>5 DEF Available

\* A counter that runs down stays a natural number.
LEMMA CountdownNat == \A n \in Nat : Countdown(n) \in Nat /\ Countdown(n) <= n
BY DEF Countdown

LEMMA InitType == Init => TypeOK
BY ConstantsAssumption DEF Init, TypeOK, Status, RunState, Phase

LEMMA StepType == TypeOK /\ [Next]_vars => TypeOK'
<1> SUFFICES ASSUME TypeOK, [Next]_vars PROVE TypeOK'
  OBVIOUS
<1> USE DEF TypeOK, Status, Terminal, RunState, Verdict, Phase,
            rowVars, runVars, pollVars, stopVars, bounds
<1>1. ASSUME NEW j \in Job, Enqueue(j) PROVE TypeOK'
  BY <1>1 DEF Enqueue
<1>2. ASSUME NEW w \in Worker, Poll(w) PROVE TypeOK'
  BY <1>2, AvailableNat DEF Poll
<1>3. ASSUME NEW w \in Worker, ReleaseExpired(w) PROVE TypeOK'
  BY <1>3 DEF ReleaseExpired
<1>4. ASSUME NEW w \in Worker, NEW S \in SUBSET Job, LeaseRows(w, S)
      PROVE /\ status' \in [Job -> Status]
            /\ leaseOwner' \in [Job -> Worker \union {NULL}]
            /\ lease' \in [Job -> Nat]
            /\ attemptCount' \in [Job -> 0 .. MaxClaims]
            /\ runAfter' \in [Job -> Nat]
            /\ forfeits' \in [Job -> Nat]
  BY <1>4, ConstantsAssumption DEF LeaseRows, Due
<1>5. ASSUME NEW w \in Worker, NEW S \in SUBSET Job, NEW st \in RunState,
             NewAttempts(w, S, st)
      PROVE /\ run' \in [Job -> [Attempt -> RunState]]
            /\ ranBy' \in [Job -> [Attempt -> Worker \union {NULL}]]
            /\ left' \in [Job -> [Attempt -> Nat]]
            /\ handling' \in [Job -> SUBSET Attempt]
  BY <1>5 DEF NewAttempts
<1>6. ASSUME NEW w \in Worker, Claim(w) PROVE TypeOK'
  BY <1>4, <1>5, <1>6 DEF Claim
<1>7. ASSUME NEW w \in Worker, BeginBatch(w) PROVE TypeOK'
  BY <1>7, ConstantsAssumption DEF BeginBatch
<1>8. ASSUME NEW w \in Worker, Rearm(w)
      PROVE /\ phase' \in [Worker -> Phase]
            /\ pollTimer' \in [Worker -> Nat \union {NULL}]
            /\ batch' \in [Worker -> SUBSET (Job \X Attempt)]
            /\ slots' \in [Worker -> Nat]
  BY <1>8, ConstantsAssumption DEF Rearm
<1>9. ASSUME NEW w \in Worker, EndCycle(w) PROVE TypeOK'
  BY <1>8, <1>9 DEF EndCycle
<1>10. ASSUME NEW w \in Worker, PollError(w) PROVE TypeOK'
  BY <1>8, <1>10 DEF PollError, Fault
<1>11. ASSUME NEW w \in Worker, ClaimLost(w) PROVE TypeOK'
  BY <1>4, <1>5, <1>8, <1>11 DEF ClaimLost, Fault
<1>12. ASSUME NEW w \in Worker, Stop(w) PROVE TypeOK'
  <2>1. stopCall' \in [Worker -> {"none", "waiting", "drained", "gaveup"}]
    BY <1>12 DEF Stop
  <2>2. shuttingDown' \in [Worker -> BOOLEAN]
    BY <1>12, Zenon DEF Stop
  <2>3. pollTimer' \in [Worker -> Nat \union {NULL}]
    BY <1>12 DEF Stop
  <2>4. grace' \in [Worker -> Nat]
    BY <1>12, ConstantsAssumption DEF Stop
  <2>5. stops' \in Nat /\ UNCHANGED <<rowVars, runVars, phase, slots, batch, faults>>
    BY <1>12 DEF Stop
  <2> QED BY <2>1, <2>2, <2>3, <2>4, <2>5
<1>13. ASSUME NEW w \in Worker, StopReturns(w) PROVE TypeOK'
  BY <1>13 DEF StopReturns
<1>14. ASSUME NEW w \in Worker, Exit(w) \/ Crash(w) PROVE TypeOK'
  <2>1. ProcessGone(w)
    BY <1>14 DEF Exit, Crash
  <2>2. faults' \in Nat /\ stops' \in Nat
    BY <1>14 DEF Exit, Crash, Fault
  <2>3. /\ run' \in [Job -> [Attempt -> RunState]]
        /\ left' \in [Job -> [Attempt -> Nat]]
        /\ handling' \in [Job -> SUBSET Attempt]
    BY <2>1 DEF ProcessGone
  <2>4. shuttingDown' \in [Worker -> BOOLEAN]
    BY <2>1, Zenon DEF ProcessGone
  <2>5. /\ phase' \in [Worker -> Phase]
        /\ pollTimer' \in [Worker -> Nat \union {NULL}]
        /\ slots' \in [Worker -> Nat]
        /\ batch' \in [Worker -> SUBSET (Job \X Attempt)]
        /\ stopCall' \in [Worker -> {"none", "waiting", "drained", "gaveup"}]
        /\ grace' \in [Worker -> Nat]
    BY <2>1 DEF ProcessGone
  <2>6. UNCHANGED <<rowVars, ranBy>>
    BY <2>1 DEF ProcessGone
  <2> QED BY <2>2, <2>3, <2>4, <2>5, <2>6
<1>15. ASSUME NEW w \in Worker, Start(w) PROVE TypeOK'
  BY <1>15 DEF Start
<1>16. ASSUME NEW j \in Job, NEW a \in Attempt, HandlerReturns(j, a) PROVE TypeOK'
  BY <1>16 DEF HandlerReturns
<1>17. ASSUME NEW j \in Job, NEW a \in Attempt, TimeOut(j, a) PROVE TypeOK'
  BY <1>17 DEF TimeOut
<1>18. ASSUME NEW j \in Job, NEW a \in Attempt, AbandonedHandlerEnds(j, a) PROVE TypeOK'
  BY <1>18 DEF AbandonedHandlerEnds
<1>19. ASSUME NEW j \in Job, NEW a \in Attempt, WriteVerdict(j, a)
       PROVE /\ status' \in [Job -> Status]
             /\ leaseOwner' \in [Job -> Worker \union {NULL}]
             /\ lease' \in [Job -> Nat]
             /\ attemptCount' \in [Job -> 0 .. MaxClaims]
             /\ runAfter' \in [Job -> Nat]
             /\ forfeits' \in [Job -> Nat]
  <2>1. Backoff[a] \in Nat
    BY ConstantsAssumption
  <2>2. ASSUME NEW s \in Status, NEW d \in Nat, Release(j, s, d)
        PROVE /\ status' \in [Job -> Status]
              /\ leaseOwner' \in [Job -> Worker \union {NULL}]
              /\ lease' \in [Job -> Nat]
              /\ attemptCount' \in [Job -> 0 .. MaxClaims]
              /\ runAfter' \in [Job -> Nat]
    BY <2>2 DEF Release
  <2>3. \E s \in Status, d \in Nat : Release(j, s, d)
    BY <1>19, <2>1 DEF WriteVerdict, MarkCompleted, MarkFailedPermanent, MarkDead,
                       ScheduleRetry, YieldRow
  <2>4. forfeits' \in [Job -> Nat]
    BY <1>19 DEF WriteVerdict, MarkCompleted, MarkFailedPermanent, MarkDead,
                 ScheduleRetry, YieldRow
  <2> QED BY <2>2, <2>3, <2>4
<1>20. ASSUME NEW j \in Job, NEW a \in Attempt, Settle(j, a) PROVE TypeOK'
  BY <1>19, <1>20 DEF Settle
<1>21. ASSUME NEW j \in Job, NEW a \in Attempt, VerdictRejected(j, a)
       PROVE /\ run' \in [Job -> [Attempt -> RunState]]
             /\ batch' \in [Worker -> SUBSET (Job \X Attempt)]
             /\ UNCHANGED <<ranBy, left, handling, phase, pollTimer, slots, stopVars>>
  <2>1. run' \in [Job -> [Attempt -> RunState]]
    <3>1. CASE run' = [run EXCEPT ![j][a] = "fail"]
      BY <3>1
    <3>2. CASE run' = [run EXCEPT ![j][a] = "done"]
      BY <3>2
    <3>3. CASE run' = [k \in Job |-> [b \in Attempt |->
                         IF run[k][b] = "yield" /\ ranBy[k][b] = ranBy[j][a]
                         THEN "done" ELSE run[k][b]]]
      BY <3>3
    <3> QED BY <1>21, <3>1, <3>2, <3>3, Zenon DEF VerdictRejected
  <2>2. batch' \in [Worker -> SUBSET (Job \X Attempt)]
    <3>1. [batch EXCEPT ![ranBy[j][a]] = {}] \in [Worker -> SUBSET (Job \X Attempt)]
      OBVIOUS
    <3> QED BY <1>21, <3>1, Zenon DEF VerdictRejected
  <2>3. UNCHANGED <<ranBy, left, handling, phase, pollTimer, slots, stopVars>>
    BY <1>21, Zenon DEF VerdictRejected
  <2> QED BY <2>1, <2>2, <2>3
<1>22. ASSUME NEW j \in Job, NEW a \in Attempt, VerdictError(j, a) PROVE TypeOK'
  BY <1>21, <1>22 DEF VerdictError, Fault
<1>23. ASSUME NEW j \in Job, NEW a \in Attempt, VerdictAckLost(j, a) PROVE TypeOK'
  BY <1>19, <1>21, <1>23 DEF VerdictAckLost, Fault
<1>24. ASSUME Tick PROVE TypeOK'
  BY <1>24, CountdownNat, ConstantsAssumption DEF Tick
<1>25. ASSUME UNCHANGED vars PROVE TypeOK'
  BY <1>25 DEF vars
<1> HIDE DEF TypeOK, rowVars, runVars, pollVars, stopVars, bounds
<1>26. ASSUME NEW w \in Worker, Cycle(w) PROVE TypeOK'
  BY <1>2, <1>3, <1>6, <1>7, <1>9, <1>26 DEF Cycle
<1>27. ASSUME NEW j \in Job, NEW a \in Attempt,
              \/ HandlerReturns(j, a) \/ TimeOut(j, a) \/ AbandonedHandlerEnds(j, a)
              \/ Settle(j, a) \/ VerdictError(j, a) \/ VerdictAckLost(j, a)
       PROVE TypeOK'
  BY <1>16, <1>17, <1>18, <1>20, <1>22, <1>23, <1>27
<1>28. ASSUME NEW w \in Worker,
              \/ PollError(w) \/ ClaimLost(w) \/ Stop(w) \/ StopReturns(w)
              \/ Exit(w) \/ Crash(w) \/ Start(w)
       PROVE TypeOK'
  BY <1>10, <1>11, <1>12, <1>13, <1>14, <1>15, <1>28
<1> QED
  BY <1>1, <1>24, <1>25, <1>26, <1>27, <1>28 DEF Next

\* Every variable keeps its type, whatever the constants and the faults.
THEOREM TypeCorrect == Spec => []TypeOK
BY InitType, StepType, PTL DEF Spec

-----------------------------------------------------------------------------
\* Leases

\* What LeaseInv says of one execution.
Holds(j, a) ==
  /\ status[j] = "RUNNING"
  /\ leaseOwner[j] = ranBy[j][a]
  /\ attemptCount[j] = a
  /\ lease[j] > 0
  /\ run[j][a] = "leased" => lease[j] = LeaseDuration
  /\ run[j][a] = "running" => left[j][a] < lease[j]

\* WriterHoldsLease with the time that is left, which makes it inductive: the
\* lease of a running execution lasts longer than its timer.
LeaseInv == \A j \in Job, a \in Attempt : Live(j, a) => Holds(j, a)

\* A write to a row by the one execution that may write to it leaves no live
\* execution of that job, and does not touch the other jobs.
LEMMA WriteKeepsLeaseInv ==
  ASSUME TypeOK, LeaseInv, NEW j \in Job, NEW a \in Attempt, Settle(j, a)
  PROVE  LeaseInv'
<1> SUFFICES ASSUME NEW k \in Job, NEW b \in Attempt, Live(k, b)' PROVE Holds(k, b)'
  BY DEF LeaseInv, Holds
<1>1. Live(j, a)
  BY DEF Settle, WriteVerdict, MarkCompleted, MarkFailedPermanent, MarkDead,
         ScheduleRetry, YieldRow, Live
<1>2. attemptCount[j] = a
  BY <1>1 DEF LeaseInv, Holds
<1>3. run' = [run EXCEPT ![j][a] = "done"] /\ UNCHANGED <<ranBy, left>>
  BY DEF Settle
<1>4. run'[k][b] = run[k][b] /\ Live(k, b) /\ ~(k = j /\ b = a)
  BY <1>3 DEF TypeOK, Live
<1>5. k # j
  BY <1>2, <1>4 DEF LeaseInv, Holds
<1>6. \E s \in Status : \E d : Release(j, s, d)
  BY DEF Settle, WriteVerdict, MarkCompleted, MarkFailedPermanent, MarkDead,
         ScheduleRetry, YieldRow, Status, Terminal
<1>7. /\ status'[k] = status[k]
      /\ leaseOwner'[k] = leaseOwner[k]
      /\ lease'[k] = lease[k]
      /\ attemptCount'[k] = attemptCount[k]
  BY <1>5, <1>6 DEF Release, TypeOK
<1> QED BY <1>3, <1>4, <1>7 DEF LeaseInv, Holds

LEMMA LeaseStep ==
  ASSUME Timely, TypeOK, LeaseInv, [Next]_vars
  PROVE  LeaseInv'
<1> USE DEF rowVars, runVars, pollVars, stopVars, bounds
<1> SUFFICES ASSUME NEW k \in Job, NEW b \in Attempt, Live(k, b)',
                    ~ \E j \in Job, a \in Attempt : Settle(j, a)
             PROVE  Holds(k, b)'
  BY WriteKeepsLeaseInv DEF LeaseInv, Holds
<1>0. Live(k, b) => Holds(k, b)
  BY DEF LeaseInv, Holds
<1>a. ASSUME UNCHANGED <<status, leaseOwner, lease, attemptCount, run, ranBy, left>>
      PROVE  Holds(k, b)'
  BY <1>0, <1>a DEF Live, Holds
<1>1. ASSUME NEW j \in Job, Enqueue(j) PROVE Holds(k, b)'
  BY <1>0, <1>1 DEF Enqueue, Live, Holds, TypeOK
<1>2. ASSUME NEW w \in Worker, Poll(w) \/ EndCycle(w) \/ PollError(w) PROVE Holds(k, b)'
  BY <1>2, <1>a DEF Poll, EndCycle, PollError
<1>3. ASSUME NEW w \in Worker, ReleaseExpired(w) PROVE Holds(k, b)'
  <2>1. Live(k, b) /\ ~Expired(k)
    BY <1>0, <1>3 DEF ReleaseExpired, Expired, Live, Holds, TypeOK
  <2> QED BY <1>0, <1>3, <2>1 DEF ReleaseExpired, Holds, TypeOK
<1>4. ASSUME NEW w \in Worker, NEW S \in SUBSET Job, NEW st \in {"leased", "done"},
             LeaseRows(w, S), NewAttempts(w, S, st)
      PROVE  Holds(k, b)'
  <2>1. CASE k \in S
    <3>1. status[k] = "PENDING" /\ attemptCount[k] \in Nat
      BY <1>4, <2>1 DEF LeaseRows, Due, TypeOK
    <3>2. ~Live(k, b)
      BY <1>0, <3>1 DEF Holds
    <3>3. b = attemptCount[k] + 1 /\ st = "leased" /\ run'[k][b] = "leased"
      BY <1>4, <2>1, <3>2 DEF NewAttempts, Live, TypeOK
    <3> QED BY <1>4, <2>1, <3>3, ConstantsAssumption DEF LeaseRows, NewAttempts, Holds, TypeOK
  <2>2. CASE k \notin S
    BY <1>0, <1>4, <2>2 DEF LeaseRows, NewAttempts, Holds, Live, TypeOK
  <2> QED BY <2>1, <2>2
<1>5. ASSUME NEW w \in Worker, Claim(w) \/ ClaimLost(w) PROVE Holds(k, b)'
  BY <1>4, <1>5 DEF Claim, ClaimLost
<1>6. ASSUME NEW w \in Worker, BeginBatch(w) PROVE Holds(k, b)'
  <2>1. Live(k, b)
    BY <1>6 DEF BeginBatch, Leased, Live, TypeOK
  <2>2. CASE Leased(w, k, b)
    BY <1>0, <1>6, <2>1, <2>2 DEF BeginBatch, Leased, Holds, TypeOK, Timely
  <2>3. CASE ~Leased(w, k, b)
    BY <1>0, <1>6, <2>1, <2>3 DEF BeginBatch, Holds, TypeOK
  <2> QED BY <2>2, <2>3
<1>7. ASSUME NEW w \in Worker, Stop(w) \/ StopReturns(w) \/ Start(w) PROVE Holds(k, b)'
  BY <1>7, <1>a DEF Stop, StopReturns, Start
<1>8. ASSUME NEW w \in Worker, Exit(w) \/ Crash(w) PROVE Holds(k, b)'
  BY <1>0, <1>8 DEF Exit, Crash, ProcessGone, Holds, Live, TypeOK
<1>9. ASSUME NEW j \in Job, NEW a \in Attempt,
             HandlerReturns(j, a) \/ TimeOut(j, a)
      PROVE  Holds(k, b)'
  <2>1. PICK v \in {"ok", "perm", "fail"} :
          run[j][a] = "running" /\ run' = [run EXCEPT ![j][a] = v]
    BY <1>9 DEF HandlerReturns, TimeOut
  <2>2. UNCHANGED <<status, leaseOwner, lease, attemptCount, ranBy>>
    BY <1>9 DEF HandlerReturns, TimeOut
  <2>3. CASE k = j /\ b = a
    BY <1>0, <2>1, <2>2, <2>3 DEF Holds, Live, TypeOK
  <2>4. CASE ~(k = j /\ b = a)
    <3>1. run'[k][b] = run[k][b]
      BY <2>1, <2>4 DEF TypeOK
    <3>2. left' = left \/ left' = [left EXCEPT ![j][a] = 0]
      BY <1>9 DEF HandlerReturns, TimeOut
    <3>3. left'[k][b] = left[k][b]
      BY <2>4, <3>2 DEF TypeOK
    <3> QED BY <1>0, <2>2, <3>1, <3>3 DEF Holds, Live
  <2> QED BY <2>3, <2>4
<1>10. ASSUME NEW j \in Job, NEW a \in Attempt, AbandonedHandlerEnds(j, a)
       PROVE  Holds(k, b)'
  BY <1>10, <1>a DEF AbandonedHandlerEnds
<1>11. ASSUME NEW j \in Job, NEW a \in Attempt, VerdictError(j, a) PROVE Holds(k, b)'
  <2>1. /\ VerdictRejected(j, a)
        /\ UNCHANGED <<status, leaseOwner, lease, attemptCount>>
    BY <1>11 DEF VerdictError
  <2>2. UNCHANGED <<ranBy, left>>
    BY <2>1 DEF VerdictRejected
  <2>3. run'[k][b] = run[k][b] \/ (run'[k][b] = "fail" /\ run[k][b] = "ok")
    <3>1. CASE run[j][a] = "ok" /\ run' = [run EXCEPT ![j][a] = "fail"]
      BY <3>1 DEF TypeOK
    <3>2. CASE run' = [run EXCEPT ![j][a] = "done"]
      BY <3>2 DEF Live, TypeOK
    <3>3. CASE run' = [i \in Job |-> [c \in Attempt |->
                         IF run[i][c] = "yield" /\ ranBy[i][c] = ranBy[j][a]
                         THEN "done" ELSE run[i][c]]]
      BY <3>3 DEF Live, TypeOK
    <3> QED BY <2>1, <3>1, <3>2, <3>3, Zenon DEF VerdictRejected
  <2> QED BY <1>0, <2>1, <2>2, <2>3 DEF Holds, Live
<1>12. ASSUME NEW j \in Job, NEW a \in Attempt, VerdictAckLost(j, a) PROVE Holds(k, b)'
  BY <1>12 DEF VerdictAckLost, Fault, Timely
<1>13. ASSUME Tick PROVE Holds(k, b)'
  <2>1. Prompt
    BY <1>13 DEF Tick, Timely
  <2>2. run[k][b] = "running" /\ left[k][b] > 0 /\ run' = run
    BY <1>13, <2>1 DEF Tick, Prompt, Live
  <2>3. lease[k] \in Nat /\ left[k][b] \in Nat
    BY DEF TypeOK
  <2>4. lease'[k] = Countdown(lease[k]) /\ left'[k][b] = Countdown(left[k][b])
    BY <1>13, <2>2 DEF Tick
  <2>5. Holds(k, b)
    BY <1>0, <2>2 DEF Live
  <2>6. UNCHANGED <<status, leaseOwner, attemptCount, ranBy>>
    BY <1>13 DEF Tick
  <2> QED BY <2>2, <2>3, <2>4, <2>5, <2>6 DEF Holds, Countdown
<1>14. ASSUME UNCHANGED vars PROVE Holds(k, b)'
  BY <1>14, <1>a DEF vars
<1>15. ASSUME NEW w \in Worker, Cycle(w) PROVE Holds(k, b)'
  BY <1>2, <1>3, <1>5, <1>6, <1>15 DEF Cycle
<1> HIDE DEF rowVars, runVars, pollVars, stopVars, bounds
<1> QED
  BY <1>1, <1>2, <1>5, <1>7, <1>8, <1>9, <1>10, <1>11, <1>12, <1>13, <1>14, <1>15 DEF Next

\* The joint invariant, from the initial state on.
LEMMA LeaseAlways == Timely => (Spec => [](TypeOK /\ LeaseInv))
<1> SUFFICES ASSUME Timely PROVE Spec => [](TypeOK /\ LeaseInv)
  OBVIOUS
<1>1. Init => LeaseInv
  BY DEF Init, LeaseInv, Live
<1>2. TypeOK /\ LeaseInv /\ [Next]_vars => (TypeOK /\ LeaseInv)'
  BY StepType, LeaseStep
<1> QED BY InitType, <1>1, <1>2, PTL DEF Spec

\* When the lease outlasts the timeout and nothing stalls, an execution that will
\* still write to its row holds the row's lease: no verdict comes from a stale
\* worker, although none of the UPDATE statements checks it.
THEOREM WriterAlwaysHoldsLease == Timely => (Spec => []WriterHoldsLease)
<1>1. LeaseInv => WriterHoldsLease
  BY DEF LeaseInv, Holds, WriterHoldsLease
<1> QED BY LeaseAlways, <1>1, PTL

-----------------------------------------------------------------------------
\* Rows

\* The ways in which one step may change the row of job k.
RowStep(k) ==
  \/ UNCHANGED <<status[k], attemptCount[k], forfeits[k]>>
  \/ /\ status[k] = "ABSENT" /\ status'[k] = "PENDING"
     /\ UNCHANGED <<attemptCount[k], forfeits[k]>>
  \/ /\ status[k] = "PENDING" /\ status'[k] = "RUNNING"
     /\ attemptCount'[k] = attemptCount[k] + 1
     /\ forfeits'[k] = forfeits[k]
  \/ /\ status[k] = "RUNNING" /\ status'[k] = "PENDING"
     /\ attemptCount'[k] = attemptCount[k]
     /\ \/ forfeits'[k] = forfeits[k] + 1
        \/ attemptCount[k] < MaxAttempts /\ forfeits'[k] = forfeits[k]
  \/ /\ status[k] = "RUNNING"
     /\ \/ status'[k] \in {"COMPLETED", "FAILED"}
        \/ status'[k] = "DEAD" /\ attemptCount[k] >= MaxAttempts
     /\ UNCHANGED <<attemptCount[k], forfeits[k]>>

LEMMA RowSteps ==
  ASSUME Timely, TypeOK, LeaseInv, [Next]_vars, NEW k \in Job
  PROVE  RowStep(k)
<1> USE DEF rowVars, runVars, pollVars, stopVars, bounds
<1>a. ASSUME UNCHANGED <<status, attemptCount, forfeits>> PROVE RowStep(k)
  BY <1>a DEF RowStep
<1>1. ASSUME NEW j \in Job, Enqueue(j) PROVE RowStep(k)
  BY <1>1 DEF Enqueue, RowStep, TypeOK
<1>2. ASSUME NEW w \in Worker, Poll(w) \/ BeginBatch(w) \/ EndCycle(w) \/ PollError(w)
      PROVE  RowStep(k)
  BY <1>2, <1>a DEF Poll, BeginBatch, EndCycle, PollError
<1>3. ASSUME NEW w \in Worker, ReleaseExpired(w) PROVE RowStep(k)
  BY <1>3 DEF ReleaseExpired, Expired, RowStep, TypeOK
<1>4. ASSUME NEW w \in Worker, NEW S \in SUBSET Job, LeaseRows(w, S) PROVE RowStep(k)
  BY <1>4 DEF LeaseRows, Due, RowStep, TypeOK
<1>5. ASSUME NEW w \in Worker, Claim(w) \/ ClaimLost(w) PROVE RowStep(k)
  BY <1>4, <1>5 DEF Claim, ClaimLost
<1>6. ASSUME NEW w \in Worker,
             \/ Stop(w) \/ StopReturns(w) \/ Exit(w) \/ Crash(w) \/ Start(w)
      PROVE  RowStep(k)
  BY <1>6, <1>a DEF Stop, StopReturns, Exit, Crash, ProcessGone, Start
<1>7. ASSUME NEW j \in Job, NEW a \in Attempt,
             \/ HandlerReturns(j, a) \/ TimeOut(j, a) \/ AbandonedHandlerEnds(j, a)
             \/ VerdictError(j, a)
      PROVE  RowStep(k)
  BY <1>7, <1>a DEF HandlerReturns, TimeOut, AbandonedHandlerEnds, VerdictError
<1>8. ASSUME NEW j \in Job, NEW a \in Attempt, Settle(j, a) PROVE RowStep(k)
  <2>1. WriteVerdict(j, a) /\ Live(j, a)
    BY <1>8 DEF Settle, WriteVerdict, MarkCompleted, MarkFailedPermanent, MarkDead,
                ScheduleRetry, YieldRow, Live
  <2>2. status[j] = "RUNNING" /\ attemptCount[j] = a
    BY <2>1 DEF LeaseInv, Holds
  <2>3. CASE k = j
    <3>1. CASE MarkCompleted(j, a) \/ MarkFailedPermanent(j, a)
      BY <2>2, <2>3, <3>1
      DEF MarkCompleted, MarkFailedPermanent, Release, RowStep, TypeOK
    <3>2. CASE MarkDead(j, a)
      BY <2>2, <2>3, <3>2 DEF MarkDead, Release, RowStep, TypeOK
    <3>3. CASE ScheduleRetry(j, a)
      BY <2>2, <2>3, <3>3 DEF ScheduleRetry, Release, RowStep, TypeOK
    <3>4. CASE YieldRow(j, a)
      BY <2>2, <2>3, <3>4 DEF YieldRow, Release, RowStep, TypeOK
    <3> QED BY <2>1, <3>1, <3>2, <3>3, <3>4 DEF WriteVerdict
  <2>4. CASE k # j
    BY <2>1, <2>4 DEF WriteVerdict, MarkCompleted, MarkFailedPermanent, MarkDead,
                      ScheduleRetry, YieldRow, Release, RowStep, TypeOK
  <2> QED BY <2>3, <2>4
<1>9. ASSUME NEW j \in Job, NEW a \in Attempt, VerdictAckLost(j, a) PROVE RowStep(k)
  BY <1>9 DEF VerdictAckLost, Fault, Timely
<1>10. ASSUME Tick \/ UNCHANGED vars PROVE RowStep(k)
  BY <1>10, <1>a DEF Tick, vars
<1>11. ASSUME NEW w \in Worker, Cycle(w) PROVE RowStep(k)
  BY <1>2, <1>3, <1>5, <1>11 DEF Cycle
<1> HIDE DEF rowVars, runVars, pollVars, stopVars, bounds
<1> QED
  BY <1>1, <1>2, <1>5, <1>6, <1>7, <1>8, <1>9, <1>10, <1>11 DEF Next

\* A final verdict stands: no step changes the status of a job that has one.
THEOREM VerdictsAreFinal == Timely => (Spec => TerminalIsFinal)
<1> SUFFICES ASSUME Timely PROVE Spec => TerminalIsFinal
  OBVIOUS
<1>1. ASSUME TypeOK, LeaseInv, [Next]_vars PROVE VerdictsStand
  BY <1>1, RowSteps DEF RowStep, Terminal, VerdictsStand
<1>2. TypeOK /\ LeaseInv /\ [Next]_vars => [VerdictsStand]_vars
  BY <1>1
<1> QED BY LeaseAlways, <1>2, PTL DEF Spec, TerminalIsFinal

\* RetryBudget with what it needs of jobs that nobody has submitted yet.
BudgetInv ==
  /\ RetryBudget
  /\ \A j \in Job : status[j] = "ABSENT" => attemptCount[j] = 0

LEMMA BudgetAlways == Timely => (Spec => [](TypeOK /\ LeaseInv /\ BudgetInv))
<1> SUFFICES ASSUME Timely PROVE Spec => [](TypeOK /\ LeaseInv /\ BudgetInv)
  OBVIOUS
<1>1. Init => BudgetInv
  BY ConstantsAssumption DEF Init, BudgetInv, RetryBudget
<1>2. ASSUME TypeOK, LeaseInv, BudgetInv, [Next]_vars PROVE BudgetInv'
  <2> SUFFICES ASSUME NEW k \in Job
               PROVE  /\ attemptCount'[k] <= MaxAttempts + forfeits'[k]
                      /\ status'[k] = "PENDING"
                         => attemptCount'[k] < MaxAttempts + forfeits'[k]
                      /\ status'[k] = "ABSENT" => attemptCount'[k] = 0
    BY DEF BudgetInv, RetryBudget
  <2>1. RowStep(k)
    BY <1>2, RowSteps
  <2>2. attemptCount[k] \in Nat /\ forfeits[k] \in Nat /\ MaxAttempts \in Nat \ {0}
    BY <1>2, ConstantsAssumption DEF TypeOK
  <2> QED BY <1>2, <2>1, <2>2 DEF RowStep, BudgetInv, RetryBudget
<1> QED BY LeaseAlways, <1>1, <1>2, PTL DEF Spec

\* Although a claim never looks at max_attempts, the attempts of a job exceed it
\* only by those that ended without a verdict.
THEOREM AttemptsStayInBudget == Timely => (Spec => []RetryBudget)
BY BudgetAlways, PTL DEF BudgetInv

-----------------------------------------------------------------------------
\* The contract

\* Every step of the queue is a step of the contract or leaves its jobs alone.
LEMMA ContractStep ==
  ASSUME Timely, TypeOK, LeaseInv, BudgetInv, [Next]_vars
  PROVE  [Contract!Next]_ContractJob
<1> SUFFICES ASSUME NEW k \in Job
             PROVE  \/ ContractJob'[k] = ContractJob[k]
                    \/ Contract!JobStep(ContractJob[k], ContractJob'[k])
  BY DEF Contract!Next
<1>1. RowStep(k)
  BY RowSteps
<1>2. /\ ContractJob[k] = [state |-> ContractState(status[k]),
                           tries |-> attemptCount[k], lost |-> forfeits[k]]
      /\ ContractJob'[k] = [state |-> ContractState(status'[k]),
                            tries |-> attemptCount'[k], lost |-> forfeits'[k]]
  BY DEF ContractJob
<1>3. /\ ContractState("ABSENT") = "absent"
      /\ ContractState("PENDING") = "waiting"
      /\ ContractState("RUNNING") = "trying"
      /\ ContractState("COMPLETED") = "completed"
      /\ ContractState("FAILED") = "failed"
      /\ ContractState("DEAD") = "dead"
  BY Zenon DEF ContractState
<1>4. status[k] = "PENDING" => attemptCount[k] < MaxAttempts + forfeits[k]
  BY DEF BudgetInv, RetryBudget
<1> HIDE DEF ContractState, ContractJob
<1> QED
  BY <1>1, <1>2, <1>3, <1>4
  DEF RowStep, Contract!JobStep, Contract!Submit, Contract!Try, Contract!Retry,
      Contract!Lose, Contract!Conclude, Contract!Become

\* The job queue implements JobContract: leases, workers, faults and restarts
\* never show in what happens to a job.
THEOREM QueueKeepsContract == Timely => (Spec => KeepsContract)
<1> SUFFICES ASSUME Timely PROVE Spec => Contract!Spec
  BY DEF KeepsContract
<1>1. Init => Contract!Init
  <2>1. ContractState("ABSENT") = "absent"
    BY Zenon DEF ContractState
  <2> HIDE DEF ContractState
  <2> QED BY <2>1 DEF Init, Contract!Init, ContractJob
<1>2. TypeOK /\ LeaseInv /\ BudgetInv /\ [Next]_vars => [Contract!Next]_ContractJob
  BY ContractStep
<1> QED BY BudgetAlways, <1>1, <1>2, PTL DEF Spec, Contract!Spec

-----------------------------------------------------------------------------
\* Orderly shutdown

NoneLive(w) == \A j \in Job, a \in Attempt : ranBy[j][a] = w => ~Live(j, a)

\* Where a worker stands in its cycle, and what it may then have under way
Standing(w) ==
  /\ phase[w] \in {"idle", "releasing", "claiming", "down"} => NoneLive(w)
  /\ phase[w] = "claimed" =>
       \A j \in Job, a \in Attempt : ranBy[j][a] = w /\ Live(j, a) => run[j][a] = "leased"
  /\ phase[w] = "awaiting" =>
       \A j \in Job, a \in Attempt : ranBy[j][a] = w /\ Live(j, a) =>
         run[j][a] \in InFlightState /\ <<j, a>> \in batch[w]
  /\ pollTimer[w] # NULL => phase[w] = "idle"
  /\ shuttingDown[w] => phase[w] \in {"idle", "awaiting"} /\ stopCall[w] # "none"
  /\ stopCall[w] \in {"waiting", "gaveup"} => shuttingDown[w]
  /\ stopCall[w] = "drained" /\ shuttingDown[w] => NoneLive(w)

\* A row that is leased is so for its last attempt, which has not been judged.
OwnedRow(j) ==
  leaseOwner[j] # NULL =>
    LET a == attemptCount[j] IN
    a \in Attempt /\ ranBy[j][a] = leaseOwner[j] /\ (Live(j, a) \/ run[j][a] = "gone")

\* Without faults, where workers and rows stand
DrainInv == faults = 0 => (\A w \in Worker : Standing(w)) /\ (\A j \in Job : OwnedRow(j))

\* A step of others: a worker is where it was, and its executions only end.
LEMMA OthersStand ==
  ASSUME NEW w, Standing(w),
         phase'[w] = phase[w], pollTimer'[w] # NULL => pollTimer[w] # NULL,
         shuttingDown'[w] = shuttingDown[w], stopCall'[w] = stopCall[w], batch'[w] = batch[w],
         \A j \in Job, a \in Attempt :
           ranBy'[j][a] = w /\ Live(j, a)' => ranBy[j][a] = w /\ run'[j][a] = run[j][a]
  PROVE  Standing(w)'
<1>1. \A j \in Job, a \in Attempt :
        ranBy'[j][a] = w /\ Live(j, a)' => ranBy[j][a] = w /\ Live(j, a) /\ run'[j][a] = run[j][a]
  BY DEF Live
<1>2. NoneLive(w) => NoneLive(w)'
  BY <1>1 DEF NoneLive
<1> QED BY <1>1, <1>2 DEF Standing

\* A row that keeps its owner keeps its attempt.
LEMMA RowsStand ==
  ASSUME NEW j, OwnedRow(j),
         \/ leaseOwner'[j] = NULL
         \/ /\ leaseOwner'[j] = leaseOwner[j] /\ attemptCount'[j] = attemptCount[j]
            /\ \A a \in Attempt : ranBy'[j][a] = ranBy[j][a]
            /\ \A a \in Attempt :
                 Live(j, a) \/ run[j][a] = "gone" => Live(j, a)' \/ run'[j][a] = "gone"
  PROVE  OwnedRow(j)'
BY DEF OwnedRow

LEMMA InitDrain == Init => DrainInv
BY DEF Init, DrainInv, Standing, OwnedRow, NoneLive, Live

LEMMA PollStep ==
  ASSUME TypeOK, DrainInv, faults = 0, NEW v \in Worker,
         Poll(v) \/ ReleaseExpired(v) \/ EndCycle(v) \/ Start(v)
  PROVE  DrainInv'
<1> USE DEF rowVars, runVars, pollVars, stopVars, bounds
<1>1. \A w \in Worker : Standing(w)
  BY DEF DrainInv
<1>2. UNCHANGED <<run, ranBy, attemptCount, shuttingDown, stopCall>>
  BY DEF Poll, ReleaseExpired, EndCycle, Start
<1>3. NoneLive(v)
  <2>1. CASE EndCycle(v)
    <3>1. phase[v] = "awaiting" /\ \A e \in batch[v] : run[e[1]][e[2]] = "done"
      BY <2>1 DEF EndCycle
    <3>2. ASSUME NEW j \in Job, NEW a \in Attempt, ranBy[j][a] = v, Live(j, a) PROVE FALSE
      <4>1. <<j, a>> \in batch[v]
        BY <1>1, <3>1, <3>2 DEF Standing
      <4>2. run[j][a] = "done"
        BY <3>1, <4>1
      <4> QED BY <3>2, <4>2 DEF Live
    <3> QED BY <3>2 DEF NoneLive
  <2>2. CASE phase[v] \in {"idle", "releasing", "down"}
    BY <1>1, <2>2 DEF Standing
  <2> QED BY <2>1, <2>2 DEF Poll, ReleaseExpired, Start
<1>4. NoneLive(v)'
  BY <1>2, <1>3 DEF NoneLive, Live
<1>5. Standing(v)'
  <2>1. CASE Poll(v)
    <3>1. ~shuttingDown[v] /\ phase'[v] = "releasing" /\ pollTimer'[v] = NULL
      BY <2>1 DEF Poll, TypeOK
    <3> QED BY <1>1, <1>2, <1>4, <3>1 DEF Standing
  <2>2. CASE ReleaseExpired(v)
    <3>1. phase[v] = "releasing" /\ phase'[v] = "claiming" /\ pollTimer' = pollTimer
      BY <2>2 DEF ReleaseExpired, TypeOK
    <3> QED BY <1>1, <1>2, <1>4, <3>1 DEF Standing
  <2>3. CASE EndCycle(v)
    <3>1. phase[v] = "awaiting" /\ phase'[v] = "idle"
      BY <2>3 DEF EndCycle, Rearm, TypeOK
    <3> QED BY <1>1, <1>2, <1>4, <3>1 DEF Standing
  <2>4. CASE Start(v)
    <3>1. phase[v] = "down" /\ phase'[v] = "idle"
      BY <2>4 DEF Start, TypeOK
    <3> QED BY <1>1, <1>2, <1>4, <3>1 DEF Standing
  <2> QED BY <2>1, <2>2, <2>3, <2>4
<1>6. ASSUME NEW w \in Worker \ {v} PROVE Standing(w)'
  <2>1. phase'[w] = phase[w] /\ batch'[w] = batch[w]
    BY DEF Poll, ReleaseExpired, EndCycle, Start, Rearm, TypeOK
  <2>2. pollTimer'[w] = pollTimer[w]
    BY DEF Poll, ReleaseExpired, EndCycle, Start, Rearm, TypeOK
  <2> QED BY <1>1, <1>2, <2>1, <2>2, OthersStand
<1>7. ASSUME NEW j \in Job PROVE OwnedRow(j)'
  <2>1. leaseOwner'[j] = leaseOwner[j] \/ leaseOwner'[j] = NULL
    BY DEF Poll, ReleaseExpired, EndCycle, Start
  <2>2. OwnedRow(j)
    BY DEF DrainInv
  <2> QED BY <1>2, <2>1, <2>2, RowsStand DEF Live
<1> QED BY <1>5, <1>6, <1>7 DEF DrainInv

LEMMA ClaimStep ==
  ASSUME TypeOK, DrainInv, faults = 0, NEW v \in Worker, Claim(v)
  PROVE  DrainInv'
<1> USE DEF rowVars, runVars, pollVars, stopVars, bounds
<1>1. (\A w \in Worker : Standing(w)) /\ (\A j \in Job : OwnedRow(j))
  BY DEF DrainInv
<1>2. PICK S \in SUBSET Job : LeaseRows(v, S) /\ NewAttempts(v, S, "leased")
  BY DEF Claim
<1>3. /\ phase[v] = "claiming" /\ phase'[v] = "claimed"
      /\ \A w \in Worker \ {v} : phase'[w] = phase[w]
      /\ UNCHANGED <<pollTimer, batch, shuttingDown, stopCall>>
  BY DEF Claim, TypeOK
<1>4. ASSUME NEW j \in Job, NEW a \in Attempt
      PROVE  IF j \in S /\ a = attemptCount[j] + 1
             THEN run'[j][a] = "leased" /\ ranBy'[j][a] = v
             ELSE run'[j][a] = run[j][a] /\ ranBy'[j][a] = ranBy[j][a]
  BY <1>2 DEF NewAttempts
<1>5. Standing(v)'
  <2>1. NoneLive(v)
    BY <1>1, <1>3 DEF Standing
  <2>2. \A j \in Job, a \in Attempt : ranBy'[j][a] = v /\ Live(j, a)' => run'[j][a] = "leased"
    BY <1>4, <2>1 DEF NoneLive, Live
  <2> QED BY <1>1, <1>3, <2>2 DEF Standing
<1>6. ASSUME NEW w \in Worker \ {v} PROVE Standing(w)'
  <2>1. \A j \in Job, a \in Attempt :
          ranBy'[j][a] = w /\ Live(j, a)' => ranBy[j][a] = w /\ run'[j][a] = run[j][a]
    BY <1>4
  <2> QED BY <1>1, <1>3, <2>1, OthersStand
<1>7. ASSUME NEW j \in Job PROVE OwnedRow(j)'
  <2>1. CASE j \in S
    <3>1. leaseOwner'[j] = v /\ attemptCount'[j] = attemptCount[j] + 1
      BY <1>2, <2>1 DEF LeaseRows
    <3>2. attemptCount[j] + 1 \in Attempt
      BY <1>2, <2>1, ConstantsAssumption DEF LeaseRows, Due, TypeOK, Attempt
    <3> QED BY <1>4, <2>1, <3>1, <3>2 DEF OwnedRow, Live
  <2>2. CASE j \notin S
    <3>1. leaseOwner'[j] = leaseOwner[j] /\ attemptCount'[j] = attemptCount[j]
      BY <1>2, <2>2 DEF LeaseRows
    <3> QED BY <1>1, <1>4, <2>2, <3>1, RowsStand DEF Live
  <2> QED BY <2>1, <2>2
<1> QED BY <1>5, <1>6, <1>7 DEF DrainInv

LEMMA BeginBatchStep ==
  ASSUME TypeOK, DrainInv, faults = 0, NEW v \in Worker, BeginBatch(v)
  PROVE  DrainInv'
<1> USE DEF rowVars, runVars, pollVars, stopVars, bounds
<1>1. (\A w \in Worker : Standing(w)) /\ (\A j \in Job : OwnedRow(j))
  BY DEF DrainInv
<1>2. /\ phase[v] = "claimed" /\ phase'[v] = "awaiting"
      /\ batch'[v] = {e \in Job \X Attempt : Leased(v, e[1], e[2])}
      /\ \A w \in Worker \ {v} : phase'[w] = phase[w] /\ batch'[w] = batch[w]
      /\ UNCHANGED <<pollTimer, shuttingDown, stopCall, ranBy, leaseOwner, attemptCount>>
  BY DEF BeginBatch, TypeOK
<1>3. ~shuttingDown[v]
  BY <1>1, <1>2 DEF Standing
<1>4. ASSUME NEW j \in Job, NEW a \in Attempt
      PROVE  run'[j][a] = IF Leased(v, j, a) THEN "running" ELSE run[j][a]
  BY <1>3 DEF BeginBatch
<1>5. Standing(v)'
  <2>1. ASSUME NEW j \in Job, NEW a \in Attempt, ranBy'[j][a] = v, Live(j, a)'
        PROVE  run'[j][a] \in InFlightState /\ <<j, a>> \in batch'[v]
    <3>1. Leased(v, j, a)
      <4>1. CASE Live(j, a)
        BY <1>1, <1>2, <2>1, <4>1 DEF Standing, Leased
      <4>2. CASE ~Live(j, a)
        BY <1>4, <2>1, <4>2 DEF Live
      <4> QED BY <4>1, <4>2
    <3>2. <<j, a>> \in batch'[v]
      BY <1>2, <3>1
    <3> QED BY <1>4, <3>1, <3>2 DEF InFlightState
  <2> QED BY <1>1, <1>2, <1>3, <2>1 DEF Standing
<1>6. ASSUME NEW w \in Worker \ {v} PROVE Standing(w)'
  <2>1. \A j \in Job, a \in Attempt : ranBy'[j][a] = w => run'[j][a] = run[j][a]
    BY <1>2, <1>4 DEF Leased
  <2> QED BY <1>1, <1>2, <2>1, OthersStand
<1>7. ASSUME NEW j \in Job PROVE OwnedRow(j)'
  BY <1>1, <1>2, <1>4, RowsStand DEF Live
<1> QED BY <1>5, <1>6, <1>7 DEF DrainInv

LEMMA StopStep ==
  ASSUME TypeOK, DrainInv, faults = 0, NEW v \in Worker, Stop(v) \/ StopReturns(v)
  PROVE  DrainInv'
<1> USE DEF rowVars, runVars, pollVars, stopVars, bounds
<1>1. (\A w \in Worker : Standing(w)) /\ (\A j \in Job : OwnedRow(j))
  BY DEF DrainInv
<1>2. UNCHANGED <<run, ranBy, leaseOwner, attemptCount, phase, batch>>
  BY DEF Stop, StopReturns
<1>3. NoneLive(v) => NoneLive(v)'
  BY <1>2 DEF NoneLive, Live
<1>4. \A j \in Job, a \in Attempt :
        /\ Live(j, a)' <=> Live(j, a)
        /\ ranBy[j][a] = v /\ run[j][a] \in InFlightState => <<j, a>> \in InFlight(v)
  BY <1>2 DEF Live, InFlight
<1>5. Standing(v)'
  <2>1. CASE Stop(v) /\ pollTimer[v] = NULL /\ InFlight(v) = {}
    <3>1. ~shuttingDown[v] /\ UNCHANGED <<shuttingDown, pollTimer>> /\ stopCall'[v] = "drained"
      <4>1. stopCall[v] = "none" /\ Standing(v)
        BY <1>1, <2>1 DEF Stop
      <4>2. ~shuttingDown[v]
        BY <4>1, Zenon DEF Standing
      <4>3. stopCall' = [stopCall EXCEPT ![v] = "drained"]
        BY <2>1 DEF Stop
      <4>4. stopCall'[v] = "drained"
        BY <4>3 DEF TypeOK
      <4>5. shuttingDown' = shuttingDown /\ pollTimer' = pollTimer
        BY <2>1 DEF Stop
      <4> QED BY <4>2, <4>4, <4>5
    <3>2. ~shuttingDown'[v]
      BY <3>1
    <3>3. stopCall'[v] \notin {"waiting", "gaveup"}
      BY <3>1
    <3>4. phase'[v] \in {"idle", "releasing", "claiming", "down"} => NoneLive(v)'
      BY <1>1, <1>2, <1>3 DEF Standing
    <3>5. phase'[v] = "claimed" =>
            \A j \in Job, a \in Attempt : ranBy'[j][a] = v /\ Live(j, a)' => run'[j][a] = "leased"
      <4>1. ASSUME NEW j \in Job, NEW a \in Attempt, phase'[v] = "claimed", ranBy'[j][a] = v, Live(j, a)'
            PROVE  run'[j][a] = "leased"
        <5>1. phase[v] = "claimed" /\ ranBy[j][a] = v /\ Live(j, a) /\ run'[j][a] = run[j][a]
          BY <1>2, <1>4, <4>1
        <5>2. Standing(v)
          BY <1>1
        <5> QED BY <5>1, <5>2 DEF Standing
      <4> QED BY <4>1
    <3>6. phase'[v] = "awaiting" =>
            \A j \in Job, a \in Attempt : ranBy'[j][a] = v /\ Live(j, a)' =>
              run'[j][a] \in InFlightState /\ <<j, a>> \in batch'[v]
      BY <1>1, <1>2, <1>4 DEF Standing
    <3>7. pollTimer'[v] # NULL => phase'[v] = "idle"
      <4>1. pollTimer' = pollTimer
        BY <3>1
      <4> QED BY <1>1, <1>2, <4>1 DEF Standing
    <3> QED BY <3>2, <3>3, <3>4, <3>5, <3>6, <3>7, Zenon DEF Standing
  <2>2. CASE Stop(v) /\ ~(pollTimer[v] = NULL /\ InFlight(v) = {})
    <3>1. pollTimer'[v] = NULL /\ shuttingDown'[v] /\ stopCall'[v] = "waiting"
      BY <2>2 DEF Stop, TypeOK
    <3>2. phase[v] \in {"idle", "awaiting"}
      <4>1. CASE pollTimer[v] # NULL
        BY <1>1, <4>1 DEF Standing
      <4>2. CASE InFlight(v) # {}
        <5>1. PICK j \in Job, a \in Attempt : ranBy[j][a] = v /\ run[j][a] \in InFlightState
          BY <4>2 DEF InFlight
        <5>2. Live(j, a) /\ run[j][a] # "leased"
          BY <5>1 DEF Live, InFlightState
        <5>3. phase[v] \in Phase
          BY DEF TypeOK
        <5> QED BY <1>1, <5>1, <5>2, <5>3 DEF Standing, NoneLive, Phase
      <4> QED BY <2>2, <4>1, <4>2
    <3> QED BY <1>1, <1>2, <1>3, <1>4, <3>1, <3>2 DEF Standing
  <2>3. CASE StopReturns(v)
    <3>1. /\ stopCall[v] = "waiting" /\ UNCHANGED <<shuttingDown, pollTimer>>
          /\ stopCall'[v] = IF InFlight(v) = {} THEN "drained" ELSE "gaveup"
      BY <2>3 DEF StopReturns, TypeOK
    <3>2. shuttingDown[v] /\ phase[v] \in {"idle", "awaiting"}
      BY <1>1, <3>1 DEF Standing
    <3>3. InFlight(v) = {} => NoneLive(v)
      BY <1>1, <1>4, <3>2 DEF Standing, NoneLive
    <3> QED BY <1>1, <1>2, <1>3, <1>4, <3>1, <3>2, <3>3 DEF Standing
  <2> QED BY <2>1, <2>2, <2>3
<1>6. ASSUME NEW w \in Worker \ {v} PROVE Standing(w)'
  <2>1. stopCall'[w] = stopCall[w] /\ shuttingDown'[w] = shuttingDown[w] /\ pollTimer'[w] = pollTimer[w]
    BY DEF Stop, StopReturns, TypeOK
  <2> QED BY <1>1, <1>2, <2>1, OthersStand
<1>7. ASSUME NEW j \in Job PROVE OwnedRow(j)'
  BY <1>1, <1>2, <1>4, RowsStand
<1> QED BY <1>5, <1>6, <1>7 DEF DrainInv

LEMMA GoneStep ==
  ASSUME TypeOK, DrainInv, faults = 0, NEW v \in Worker, ProcessGone(v)
  PROVE  DrainInv'
<1> USE DEF rowVars, runVars, pollVars, stopVars, bounds
<1>1. (\A w \in Worker : Standing(w)) /\ (\A j \in Job : OwnedRow(j))
  BY DEF DrainInv
<1>2. /\ phase'[v] = "down" /\ pollTimer'[v] = NULL /\ ~shuttingDown'[v] /\ stopCall'[v] = "none"
      /\ \A w \in Worker \ {v} :
           /\ phase'[w] = phase[w] /\ pollTimer'[w] = pollTimer[w] /\ batch'[w] = batch[w]
           /\ stopCall'[w] = stopCall[w]
      /\ UNCHANGED <<ranBy, leaseOwner, attemptCount>>
  BY DEF ProcessGone, TypeOK
<1>3. \A w \in Worker \ {v} : shuttingDown'[w] = shuttingDown[w]
  BY DEF ProcessGone, TypeOK
<1>4. ASSUME NEW j \in Job, NEW a \in Attempt
      PROVE  run'[j][a] = IF ranBy[j][a] = v /\ Live(j, a) THEN "gone" ELSE run[j][a]
  BY DEF ProcessGone
<1>5. Standing(v)'
  <2>1. NoneLive(v)'
    BY <1>2, <1>4 DEF NoneLive, Live
  <2> QED BY <1>2, <2>1 DEF Standing
<1>6. ASSUME NEW w \in Worker \ {v} PROVE Standing(w)'
  BY <1>1, <1>2, <1>3, <1>4, OthersStand
<1>7. ASSUME NEW j \in Job PROVE OwnedRow(j)'
  <2>1. \A a \in Attempt : Live(j, a) \/ run[j][a] = "gone" => Live(j, a)' \/ run'[j][a] = "gone"
    BY <1>4 DEF Live
  <2> QED BY <1>1, <1>2, <2>1, RowsStand
<1> QED BY <1>5, <1>6, <1>7 DEF DrainInv

LEMMA HandlerStep ==
  ASSUME TypeOK, DrainInv, faults = 0, NEW i \in Job, NEW b \in Attempt,
         HandlerReturns(i, b) \/ TimeOut(i, b)
  PROVE  DrainInv'
<1> USE DEF rowVars, runVars, pollVars, stopVars, bounds
<1>1. (\A w \in Worker : Standing(w)) /\ (\A j \in Job : OwnedRow(j))
  BY DEF DrainInv
<1>2. PICK v \in {"ok", "perm", "fail"} :
        run[i][b] = "running" /\ run' = [run EXCEPT ![i][b] = v]
  BY DEF HandlerReturns, TimeOut
<1>3. UNCHANGED <<ranBy, leaseOwner, attemptCount, phase, pollTimer, batch, shuttingDown, stopCall>>
  BY DEF HandlerReturns, TimeOut
<1>4. \A j \in Job, a \in Attempt :
        /\ run'[j][a] = IF j = i /\ a = b THEN v ELSE run[j][a]
        /\ Live(j, a)' <=> Live(j, a)
        /\ run'[j][a] = run[j][a] \/ (run[j][a] = "running" /\ run'[j][a] \in InFlightState)
  BY <1>2 DEF TypeOK, Live, InFlightState
<1>5. ASSUME NEW w \in Worker PROVE Standing(w)'
  <2>1. NoneLive(w) => NoneLive(w)'
    BY <1>3, <1>4 DEF NoneLive
  <2> QED BY <1>1, <1>3, <1>4, <2>1 DEF Standing
<1>6. ASSUME NEW j \in Job PROVE OwnedRow(j)'
  <2>1. \A a \in Attempt : Live(j, a) \/ run[j][a] = "gone" => Live(j, a)' \/ run'[j][a] = "gone"
    BY <1>4
  <2> QED BY <1>1, <1>3, <2>1, RowsStand
<1> QED BY <1>5, <1>6 DEF DrainInv

LEMMA SettleStep ==
  ASSUME TypeOK, DrainInv, faults = 0, NEW i \in Job, NEW b \in Attempt, Settle(i, b)
  PROVE  DrainInv'
<1> USE DEF rowVars, runVars, pollVars, stopVars, bounds
<1>1. (\A w \in Worker : Standing(w)) /\ (\A j \in Job : OwnedRow(j))
  BY DEF DrainInv
<1>2. /\ UNCHANGED <<ranBy, phase, pollTimer, batch, shuttingDown, stopCall>>
      /\ run' = [run EXCEPT ![i][b] = "done"]
  BY DEF Settle
<1>3. \A j \in Job, a \in Attempt :
        run'[j][a] = IF j = i /\ a = b THEN "done" ELSE run[j][a]
  BY <1>2 DEF TypeOK
<1>4. PICK s, delay : Release(i, s, delay)
  BY DEF Settle, WriteVerdict, MarkCompleted, MarkFailedPermanent, MarkDead, ScheduleRetry, YieldRow
<1>5. ASSUME NEW w \in Worker PROVE Standing(w)'
  <2>1. \A j \in Job, a \in Attempt :
          ranBy'[j][a] = w /\ Live(j, a)' => ranBy[j][a] = w /\ run'[j][a] = run[j][a]
    BY <1>2, <1>3 DEF Live
  <2> QED BY <1>1, <1>2, <2>1, OthersStand
<1>6. ASSUME NEW j \in Job PROVE OwnedRow(j)'
  <2>1. CASE j = i
    BY <1>4, <2>1 DEF Release, OwnedRow, TypeOK
  <2>2. CASE j # i
    <3>1. leaseOwner'[j] = leaseOwner[j] /\ attemptCount'[j] = attemptCount[j]
      BY <1>4, <2>2 DEF Release, TypeOK
    <3> QED BY <1>1, <1>2, <1>3, <2>2, <3>1, RowsStand DEF Live
  <2> QED BY <2>1, <2>2
<1> QED BY <1>5, <1>6 DEF DrainInv

LEMMA DrainStep == TypeOK /\ DrainInv /\ [Next]_vars => DrainInv'
<1> SUFFICES ASSUME TypeOK, DrainInv, [Next]_vars, faults' = 0 PROVE DrainInv'
  BY DEF DrainInv
<1> USE DEF rowVars, runVars, pollVars, stopVars, bounds
\* Faults are counted.
<1>1. ASSUME NEW kind, Fault(kind) PROVE FALSE
  BY <1>1 DEF Fault, TypeOK
<1>2. CASE faults = 0
  <2>1. ASSUME UNCHANGED <<run, ranBy, leaseOwner, attemptCount, phase, batch, shuttingDown, stopCall>>,
               \A w \in Worker : pollTimer'[w] # NULL => pollTimer[w] # NULL
        PROVE  DrainInv'
    <3>1. \A w \in Worker : Standing(w)'
      BY <1>2, <2>1, OthersStand DEF DrainInv
    <3>2. \A j \in Job : OwnedRow(j)'
      BY <1>2, <2>1 DEF DrainInv, OwnedRow, Live
    <3> QED BY <3>1, <3>2 DEF DrainInv
  <2>2. ASSUME NEW j \in Job, Enqueue(j) PROVE DrainInv'
    BY <2>1, <2>2 DEF Enqueue
  <2>3. ASSUME NEW w \in Worker, Cycle(w) PROVE DrainInv'
    BY <1>2, <2>3, PollStep, ClaimStep, BeginBatchStep DEF Cycle
  <2>4. ASSUME NEW w \in Worker, PollError(w) \/ ClaimLost(w) \/ Crash(w) PROVE DrainInv'
    BY <1>1, <2>4 DEF PollError, ClaimLost, Crash
  <2>5. ASSUME NEW w \in Worker, Stop(w) \/ StopReturns(w) \/ Exit(w) \/ Start(w) PROVE DrainInv'
    BY <1>2, <2>5, StopStep, GoneStep, PollStep DEF Exit
  <2>6. ASSUME NEW j \in Job, NEW a \in Attempt, HandlerReturns(j, a) \/ TimeOut(j, a) \/ Settle(j, a)
        PROVE  DrainInv'
    BY <1>2, <2>6, HandlerStep, SettleStep
  <2>7. ASSUME NEW j \in Job, NEW a \in Attempt, AbandonedHandlerEnds(j, a) PROVE DrainInv'
    BY <2>1, <2>7 DEF AbandonedHandlerEnds
  <2>8. ASSUME NEW j \in Job, NEW a \in Attempt, VerdictError(j, a) \/ VerdictAckLost(j, a)
        PROVE  DrainInv'
    BY <1>1, <2>8 DEF VerdictError, VerdictAckLost
  <2>9. CASE Tick
    <3>1. \A w \in Worker : pollTimer'[w] # NULL => pollTimer[w] # NULL
      BY <2>9 DEF Tick
    <3> QED BY <2>1, <2>9, <3>1 DEF Tick
  <2>10. CASE UNCHANGED vars
    BY <2>1, <2>10 DEF vars
  <2> QED BY <2>2, <2>3, <2>4, <2>5, <2>6, <2>7, <2>8, <2>9, <2>10 DEF Next
<1>3. CASE faults # 0
  <2>1. faults' = faults \/ \E kind : Fault(kind)
    BY DEF Next, Enqueue, Cycle, Poll, ReleaseExpired, Claim, BeginBatch, EndCycle, PollError, ClaimLost,
           Stop, StopReturns, Exit, Crash, Start, HandlerReturns, TimeOut, AbandonedHandlerEnds, Settle,
           VerdictError, VerdictAckLost, Tick, vars
  <2> QED BY <1>1, <1>3, <2>1
<1> QED BY <1>2, <1>3

\* Unless there was a fault, a stop() that waits and returns before its deadline
\* leaves no row leased to its process.
THEOREM WaitedStopsDrain == Spec => []WaitedStopDrains
<1>1. Init => TypeOK /\ DrainInv
  BY InitType, InitDrain
<1>2. TypeOK /\ DrainInv /\ [Next]_vars => TypeOK' /\ DrainInv'
  BY StepType, DrainStep
<1>3. TypeOK /\ DrainInv => WaitedStopDrains
  BY ConstantsAssumption DEF WaitedStopDrains, DrainInv, Standing, OwnedRow, NoneLive
<1> QED BY <1>1, <1>2, <1>3, PTL DEF Spec

=============================================================================
