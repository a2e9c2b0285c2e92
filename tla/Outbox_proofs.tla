---------------------------- MODULE Outbox_proofs ----------------------------
(***************************************************************************)
(* Theorems about the outbox, for any events, publishers, bounds and       *)
(* faults: its types, that a publisher holds the lease of what it still    *)
(* has to publish when batches end within their lease, that outcomes are   *)
(* final, that only an event whose recording was torn can be published     *)
(* without its dispatch job, and that the outbox implements                *)
(* OutboxContract.                                                         *)
(***************************************************************************)
EXTENDS Outbox, FiniteSetTheorems, TLAPS

\* A counter that runs down stays a natural number.
LEMMA CountdownNat == \A n \in Nat : Countdown(n) \in Nat /\ Countdown(n) <= n
BY DEF Countdown

\* Releasing a row keeps the types of its columns.
LEMMA ReleaseType ==
  ASSUME TypeOK, NEW e \in Event, NEW s \in Status, Release(e, s)
  PROVE  /\ status' \in [Event -> Status]
         /\ leaseOwner' \in [Event -> Publisher \union {NULL}]
         /\ lease' \in [Event -> Nat]
         /\ attempts' \in [Event -> 0 .. MaxClaims]
BY DEF Release, TypeOK

\* A new available_at keeps the types of the columns it stands for.
LEMMA AvailableInType ==
  ASSUME TypeOK, NEW e \in Event, NEW d \in Nat, AvailableIn(e, d)
  PROVE  wait' \in [Event -> Nat] /\ earlier' \subseteq Event \X Event
BY DEF AvailableIn, Appended, TypeOK

\* A statement that writes keeps the types of the tables.
LEMMA WriteType ==
  ASSUME TypeOK, NEW p \in Publisher, Write(p)
  PROVE  /\ status' \in [Event -> Status]
         /\ leaseOwner' \in [Event -> Publisher \union {NULL}]
         /\ lease' \in [Event -> Nat]
         /\ attempts' \in [Event -> 0 .. MaxClaims]
         /\ wait' \in [Event -> Nat]
         /\ earlier' \subseteq Event \X Event
         /\ domainEvents' \subseteq Event
         /\ intents' \subseteq Event
         /\ jobs' \subseteq Event
<1> PICK e \in Event, a \in Attempt :
      \/ InsertEvent(p, e, a) \/ InsertIntent(p, e, a) \/ EnqueueDispatch(p, e, a)
      \/ MarkPublished(p, e, a) \/ MarkFailed(p, e, a) \/ ScheduleRetry(p, e, a)
  BY DEF Write
<1>1. CASE InsertEvent(p, e, a) \/ InsertIntent(p, e, a) \/ EnqueueDispatch(p, e, a)
  BY <1>1 DEF InsertEvent, InsertIntent, EnqueueDispatch, rowVars, TypeOK
<1>2. CASE MarkPublished(p, e, a) \/ MarkFailed(p, e, a)
  <2>1. \E s \in {"PUBLISHED", "FAILED"} : Release(e, s)
    BY <1>2 DEF MarkPublished, MarkFailed
  <2>2. UNCHANGED <<wait, earlier, effectVars>>
    BY <1>2 DEF MarkPublished, MarkFailed
  <2> QED BY <2>1, <2>2, ReleaseType DEF Status, effectVars, TypeOK
<1>3. CASE ScheduleRetry(p, e, a)
  <2>1. Backoff[a] \in Nat
    BY ConstantsAssumption
  <2> QED BY <1>3, <2>1, ReleaseType, AvailableInType
          DEF ScheduleRetry, Status, effectVars, TypeOK
<1> QED BY <1>1, <1>2, <1>3

\* Leaving a poll cycle keeps the types of the publisher's variables.
LEMMA LeaveCycleType ==
  ASSUME TypeOK, NEW p \in Publisher, LeaveCycle(p)
  PROVE  /\ pc' \in [Publisher -> PC]
         /\ pollTimer' \in [Publisher -> Nat \union {NULL}]
         /\ held' \in [Publisher -> SUBSET (Event \X Attempt)]
         /\ current' \in [Publisher -> (Event \X Attempt) \union {NULL}]
         /\ budget' \in [Publisher -> Nat]
         /\ stopping' \subseteq Publisher
BY ConstantsAssumption DEF LeaveCycle, Goto, PC, TypeOK

LEMMA InitType == Init => TypeOK
BY ConstantsAssumption DEF Init, TypeOK, Status, PC

LEMMA StepType == TypeOK /\ [Next]_vars => TypeOK'
<1> SUFFICES ASSUME TypeOK, [Next]_vars PROVE TypeOK'
  OBVIOUS
<1> USE DEF rowVars, effectVars, publisherVars, bounds
<1>1. ASSUME NEW e \in Event, AppendEvent(e) PROVE TypeOK'
  <2>1. sequence' \in [Event -> Nat]
    <3>1. IsFiniteSet(Appended)
      BY FS_Subset, ConstantsAssumption DEF Appended
    <3>2. Cardinality(Appended) + 1 \in Nat
      BY <3>1, FS_CardinalityType
    <3> QED BY <1>1, <3>2 DEF AppendEvent, TypeOK
  <2>2. wait' \in [Event -> Nat] /\ earlier' \subseteq Event \X Event
    BY <1>1, AvailableInType DEF AppendEvent
  <2> QED BY <1>1, <2>1, <2>2 DEF AppendEvent, TypeOK, Status
<1>2. ASSUME NEW p \in Publisher, Poll(p) \/ Start(p) PROVE TypeOK'
  BY <1>2 DEF Poll, Start, Goto, TypeOK, PC
<1>3. ASSUME NEW p \in Publisher, ReleaseExpired(p) PROVE TypeOK'
  BY <1>3 DEF ReleaseExpired, Goto, TypeOK, PC, Status
<1>4. ASSUME NEW p \in Publisher, NEW S \in SUBSET Event, Selected(S), LeaseRows(p, S)
      PROVE /\ status' \in [Event -> Status]
            /\ leaseOwner' \in [Event -> Publisher \union {NULL}]
            /\ lease' \in [Event -> Nat]
            /\ attempts' \in [Event -> 0 .. MaxClaims]
            /\ wait' \in [Event -> Nat]
            /\ earlier' \subseteq Event \X Event
            /\ {<<e, attempts[e] + 1>> : e \in S} \subseteq Event \X Attempt
  <2>1. \A e \in S : attempts[e] + 1 \in Attempt
    BY <1>4, ConstantsAssumption DEF Selected, Due, Attempt, TypeOK
  <2>2. {<<e, attempts[e] + 1>> : e \in S} \subseteq Event \X Attempt
    BY <2>1
  <2>3. attempts' \in [Event -> 0 .. MaxClaims]
    BY <1>4, <2>1 DEF LeaseRows, Attempt, TypeOK
  <2> QED BY <1>4, <2>2, <2>3, ConstantsAssumption DEF LeaseRows, TypeOK, Status
<1>5. ASSUME NEW p \in Publisher, Claim(p) PROVE TypeOK'
  <2>1. PICK S \in SUBSET Event :
          /\ Selected(S)
          /\ LeaseRows(p, S)
          /\ held' = [held EXCEPT ![p] = {<<e, attempts[e] + 1>> : e \in S}]
    BY <1>5 DEF Claim
  <2>2. held' \in [Publisher -> SUBSET (Event \X Attempt)]
    BY <1>4, <2>1 DEF TypeOK
  <2>3. /\ pc' \in [Publisher -> PC]
        /\ budget' \in [Publisher -> Nat]
        /\ UNCHANGED <<sequence, effectVars, pollTimer, current, stopping, bounds>>
    BY <1>5, ConstantsAssumption DEF Claim, Goto, PC, TypeOK
  <2> QED BY <1>4, <2>1, <2>2, <2>3 DEF TypeOK
<1>6. ASSUME NEW p \in Publisher, NextEvent(p) PROVE TypeOK'
  BY <1>6 DEF NextEvent, Goto, TypeOK, PC, Publishing
<1>7. ASSUME NEW p \in Publisher, EndBatch(p) PROVE TypeOK'
  BY <1>7, LeaveCycleType DEF EndBatch, TypeOK
<1>8. ASSUME NEW p \in Publisher, CycleError(p) PROVE TypeOK'
  BY <1>8, LeaveCycleType DEF CycleError, Fault, TypeOK
<1>9. ASSUME NEW p \in Publisher, ClaimLost(p) PROVE TypeOK'
  BY <1>4, <1>9, LeaveCycleType DEF ClaimLost, Fault, TypeOK
<1>10. ASSUME NEW p \in Publisher, LookUp(p) \/ UniqueViolation(p) PROVE TypeOK'
  BY <1>10 DEF LookUp, UniqueViolation, At, Goto, TypeOK, PC, Publishing
<1>11. ASSUME NEW p \in Publisher, WriteAnswered(p) PROVE TypeOK'
  <2>1. pc' \in [Publisher -> PC]
    BY <1>11 DEF WriteAnswered, AfterWrite, Goto, TypeOK, PC, Publishing
  <2>2. current' \in [Publisher -> (Event \X Attempt) \union {NULL}]
    BY <1>11 DEF WriteAnswered, TypeOK
  <2>3. Write(p) /\ UNCHANGED <<sequence, pollTimer, held, budget, stopping, bounds>>
    BY <1>11 DEF WriteAnswered
  <2> QED BY <2>1, <2>2, <2>3, WriteType DEF TypeOK
<1>12. ASSUME NEW p \in Publisher, StatementRejected(p)
       PROVE /\ pc' \in [Publisher -> PC]
             /\ pollTimer' \in [Publisher -> Nat \union {NULL}]
             /\ held' \in [Publisher -> SUBSET (Event \X Attempt)]
             /\ current' \in [Publisher -> (Event \X Attempt) \union {NULL}]
             /\ budget' \in [Publisher -> Nat]
             /\ stopping' \subseteq Publisher
  <2>1. CASE LeaveCycle(p)
    BY <2>1, LeaveCycleType
  <2>2. CASE Goto(p, "failed") /\ UNCHANGED <<pollTimer, held, current, budget, stopping>>
    BY <2>2 DEF Goto, TypeOK, PC, Publishing
  <2> QED BY <1>12, <2>1, <2>2 DEF StatementRejected
<1>13. ASSUME NEW p \in Publisher, StatementError(p) PROVE TypeOK'
  BY <1>12, <1>13 DEF StatementError, Fault, TypeOK
<1>14. ASSUME NEW p \in Publisher, WriteAckLost(p) PROVE TypeOK'
  BY <1>12, <1>14, WriteType DEF WriteAckLost, Fault, TypeOK
<1>15. ASSUME NEW p \in Publisher, Stop(p) PROVE TypeOK'
  BY <1>15 DEF Stop, TypeOK
<1>16. ASSUME NEW p \in Publisher, Exit(p) \/ Crash(p) PROVE TypeOK'
  BY <1>16 DEF Exit, Crash, Gone, Goto, Fault, TypeOK, PC
<1>17. ASSUME Tick PROVE TypeOK'
  BY <1>17, CountdownNat, ConstantsAssumption DEF Tick, Fault, TypeOK
<1>18. ASSUME UNCHANGED vars PROVE TypeOK'
  BY <1>18 DEF vars, TypeOK
<1> QED
  BY <1>1, <1>2, <1>3, <1>5, <1>6, <1>7, <1>8, <1>9, <1>10, <1>11, <1>13, <1>14,
     <1>15, <1>16, <1>17, <1>18
  DEF Next, Work

\* Every variable keeps its type, whatever the constants and the faults.
THEOREM TypeCorrect == Spec => []TypeOK
BY InitType, StepType, PTL DEF Spec

-----------------------------------------------------------------------------
\* Leases

\* What a claimed and unsettled event c of publisher p looks like.
Holds(p, c) ==
  /\ status[c[1]] = "PROCESSING"
  /\ leaseOwner[c[1]] = p
  /\ attempts[c[1]] = c[2]
  /\ budget[p] < lease[c[1]]

\* HolderHoldsLease with the time that is left and the places where events are
\* held, which makes it inductive.
LeaseInv ==
  \A p \in Publisher :
    /\ \A c \in Claimed(p) : Holds(p, c) /\ InBatch(p)
    /\ current[p] \notin held[p]

\* A step of one publisher that neither settles an event nor claims one keeps
\* LeaseInv.
LEMMA QuietStep ==
  ASSUME TypeOK, LeaseInv, NEW q \in Publisher,
         UNCHANGED <<status, leaseOwner, attempts, lease>>,
         \A p \in Publisher \ {q} :
           UNCHANGED <<pc[p], held[p], current[p], budget[p]>>,
         Claimed(q)' \subseteq Claimed(q),
         Claimed(q)' # {} => InBatch(q)' /\ budget'[q] = budget[q],
         current'[q] \notin held'[q]
  PROVE  LeaseInv'
BY DEF LeaseInv, Holds, Claimed, InBatch

\* What a publisher leaves alone of the others.
LEMMA Others ==
  ASSUME TypeOK, NEW q \in Publisher, NEW l, Goto(q, l)
  PROVE  pc'[q] = l /\ \A p \in Publisher \ {q} : pc'[p] = pc[p]
BY DEF Goto, TypeOK

LEMMA LeaveCycleQuiet ==
  ASSUME TypeOK, NEW q \in Publisher, LeaveCycle(q)
  PROVE  /\ \A p \in Publisher \ {q} :
              UNCHANGED <<pc[p], held[p], current[p], budget[p]>>
         /\ Claimed(q)' = {}
         /\ current'[q] \notin held'[q]
BY Others DEF LeaveCycle, Claimed, TypeOK

\* The row of the event at hand is settled: the publisher no longer holds it and
\* nobody else did.
LEMMA VerdictStep ==
  ASSUME TypeOK, LeaseInv, NEW q \in Publisher, NEW e \in Event, NEW a \in Attempt,
         NEW s \in Status, current[q] = <<e, a>>, Release(e, s),
         held' = held, budget' = budget, current' = [current EXCEPT ![q] = NULL],
         Goto(q, "batch")
  PROVE  LeaseInv'
<1>1. current[q] \in Claimed(q) /\ leaseOwner[e] = q /\ attempts[e] = a
  BY ConstantsAssumption DEF LeaseInv, Holds, Claimed
<1>2. /\ current'[q] = NULL /\ \A p \in Publisher \ {q} : current'[p] = current[p]
      /\ pc'[q] = "batch" /\ \A p \in Publisher \ {q} : pc'[p] = pc[p]
  BY Others DEF TypeOK
<1>3. ASSUME NEW p \in Publisher, NEW c \in Claimed(p)'
      PROVE  Holds(p, c)' /\ InBatch(p)'
  <2>1. c \in Claimed(p) /\ Holds(p, c) /\ InBatch(p)
    BY <1>2, <1>3 DEF Claimed, LeaseInv
  <2>2. c[1] # e
    <3>1. CASE p = q
      <4>1. c \in held[q] /\ c \in Event \X Attempt
        BY <1>2, <1>3, <3>1 DEF Claimed, TypeOK
      <4>2. c # <<e, a>>
        BY <4>1 DEF LeaseInv
      <4> QED BY <1>1, <2>1, <4>1, <4>2 DEF Holds
    <3>2. CASE p # q
      BY <1>1, <2>1, <3>2 DEF Holds
    <3> QED BY <3>1, <3>2
  <2>3. c[1] \in Event
    BY <2>1 DEF Claimed, TypeOK
  <2>4. Holds(p, c)'
    BY <2>1, <2>2, <2>3 DEF Release, Holds, TypeOK
  <2>5. InBatch(p)'
    BY <1>2, <2>1 DEF InBatch
  <2> QED BY <2>4, <2>5
<1>4. ASSUME NEW p \in Publisher PROVE current'[p] \notin held'[p]
  BY <1>2, ConstantsAssumption DEF LeaseInv, TypeOK
<1> QED BY <1>3, <1>4 DEF LeaseInv

LEMMA LeaseStep ==
  ASSUME Timely, TypeOK, LeaseInv, [Next]_vars
  PROVE  LeaseInv'
<1> USE DEF rowVars, effectVars, publisherVars, bounds
<1>1. ASSUME NEW e \in Event, AppendEvent(e) PROVE LeaseInv'
  <2>1. \A p \in Publisher : \A c \in Claimed(p) : c[1] \in Event /\ c[1] # e
    BY <1>1 DEF AppendEvent, LeaseInv, Holds, Claimed, TypeOK
  <2> QED BY <1>1, <2>1 DEF AppendEvent, LeaseInv, Holds, Claimed, InBatch, TypeOK
<1>2. ASSUME NEW p \in Publisher, Poll(p) \/ Start(p) PROVE LeaseInv'
  <2>1. ~InBatch(p)
    BY <1>2 DEF Poll, Start, InBatch, Publishing
  <2>2. Claimed(p) = {}
    BY <2>1 DEF LeaseInv
  <2> QED BY <1>2, <2>2, QuietStep, Others DEF Poll, Start, Claimed, LeaseInv
<1>3. ASSUME NEW p \in Publisher, ReleaseExpired(p) PROVE LeaseInv'
  <2>1. Claimed(p) = {}
    BY <1>3 DEF ReleaseExpired, InBatch, Publishing, LeaseInv
  <2>2. \A q \in Publisher : \A c \in Claimed(q) : c[1] \in Event /\ ~Expired(c[1])
    BY DEF LeaseInv, Holds, Expired, Claimed, TypeOK
  <2> QED BY <1>3, <2>1, <2>2, Others DEF ReleaseExpired, LeaseInv, Holds, Claimed, InBatch
<1>4. ASSUME NEW p \in Publisher, NEW S \in SUBSET Event, Selected(S), LeaseRows(p, S),
             NEW q \in Publisher, NEW c \in Claimed(q)
      PROVE  /\ c[1] \notin S
             /\ UNCHANGED <<status[c[1]], leaseOwner[c[1]], attempts[c[1]], lease[c[1]]>>
  BY <1>4 DEF Selected, Due, LeaseRows, LeaseInv, Holds, Claimed, TypeOK
<1>5. ASSUME NEW p \in Publisher, Claim(p) PROVE LeaseInv'
  <2>1. PICK S \in SUBSET Event :
          /\ Selected(S)
          /\ LeaseRows(p, S)
          /\ held' = [held EXCEPT ![p] = {<<e, attempts[e] + 1>> : e \in S}]
    BY <1>5 DEF Claim
  <2>2. /\ budget' = [budget EXCEPT ![p] = BatchTime] /\ current' = current
        /\ Goto(p, "batch")
    BY <1>5 DEF Claim
  <2>3. Claimed(p) = {}
    BY <1>5 DEF Claim, InBatch, Publishing, LeaseInv
  <2>4. current[p] = NULL
    BY <2>3 DEF Claimed
  <2>5. ASSUME NEW q \in Publisher, NEW c \in Claimed(q)'
        PROVE  Holds(q, c)' /\ InBatch(q)'
    <3>1. CASE q = p
      <4>1. PICK e \in S : c = <<e, attempts[e] + 1>>
        BY <2>1, <2>2, <2>4, <2>5, <3>1 DEF Claimed, TypeOK
      <4> QED BY <2>1, <2>2, <3>1, <4>1, ConstantsAssumption, Others
              DEF LeaseRows, Holds, InBatch, Timely, TypeOK
    <3>2. CASE q # p
      <4>1. c \in Claimed(q) /\ budget'[q] = budget[q] /\ pc'[q] = pc[q]
        BY <2>1, <2>2, <2>5, <3>2, Others DEF Claimed, TypeOK
      <4> QED BY <1>4, <2>1, <4>1 DEF LeaseInv, Holds, InBatch
    <3> QED BY <3>1, <3>2
  <2>6. ASSUME NEW q \in Publisher PROVE current'[q] \notin held'[q]
    <3>1. CASE q = p
      <4>1. held'[p] \subseteq Event \X Attempt
        BY <1>5, StepType DEF TypeOK, Next, Work
      <4> QED BY <2>2, <2>4, <3>1, <4>1, ConstantsAssumption
    <3>2. CASE q # p
      BY <2>1, <2>2, <3>2 DEF LeaseInv, TypeOK
    <3> QED BY <3>1, <3>2
  <2> QED BY <2>5, <2>6 DEF LeaseInv
<1>6. ASSUME NEW p \in Publisher, NextEvent(p) PROVE LeaseInv'
  <2>1. PICK c \in held[p] : /\ current' = [current EXCEPT ![p] = c]
                             /\ held' = [held EXCEPT ![p] = @ \ {c}]
    BY <1>6 DEF NextEvent
  <2>2. Claimed(p)' \subseteq Claimed(p)
    BY <2>1 DEF Claimed, TypeOK
  <2>3. InBatch(p)'
    BY <1>6, Others DEF NextEvent, InBatch, Publishing
  <2> QED BY <1>6, <2>1, <2>2, <2>3, Others, QuietStep DEF NextEvent, TypeOK
<1>7. ASSUME NEW p \in Publisher, EndBatch(p) \/ CycleError(p) PROVE LeaseInv'
  <2>1. LeaveCycle(p) /\ UNCHANGED rowVars
    BY <1>7 DEF EndBatch, CycleError
  <2> QED BY <2>1, LeaveCycleQuiet, QuietStep
<1>8. ASSUME NEW p \in Publisher, ClaimLost(p) PROVE LeaseInv'
  <2>1. PICK S \in SUBSET Event : Selected(S) /\ LeaseRows(p, S)
    BY <1>8 DEF ClaimLost
  <2>2. LeaveCycle(p)
    BY <1>8 DEF ClaimLost
  <2>3. \A q \in Publisher : \A c \in Claimed(q)' : c \in Claimed(q) /\ q # p
    BY <2>2, LeaveCycleQuiet DEF Claimed
  <2>4. \A q \in Publisher : current'[q] \notin held'[q]
    BY <2>2, LeaveCycleQuiet DEF LeaseInv
  <2> QED BY <1>4, <2>1, <2>2, <2>3, <2>4, LeaveCycleQuiet DEF LeaseInv, Holds, InBatch
<1>9. ASSUME NEW p \in Publisher, LookUp(p) \/ UniqueViolation(p) PROVE LeaseInv'
  BY <1>9, Others, QuietStep
  DEF LookUp, UniqueViolation, At, InBatch, Publishing, Claimed, LeaseInv
<1>10. ASSUME NEW p \in Publisher, WriteAnswered(p) PROVE LeaseInv'
  <2>1. PICK e \in Event, a \in Attempt :
          \/ InsertEvent(p, e, a) \/ InsertIntent(p, e, a) \/ EnqueueDispatch(p, e, a)
          \/ MarkPublished(p, e, a) \/ MarkFailed(p, e, a) \/ ScheduleRetry(p, e, a)
    BY <1>10 DEF WriteAnswered, Write
  <2>2. CASE InsertEvent(p, e, a) \/ InsertIntent(p, e, a) \/ EnqueueDispatch(p, e, a)
    <3>1. /\ pc[p] \in {"insertEvent", "insertIntent", "enqueue"}
          /\ UNCHANGED rowVars
      BY <2>2 DEF InsertEvent, InsertIntent, EnqueueDispatch, At
    <3>2. Goto(p, AfterWrite[pc[p]]) /\ UNCHANGED <<held, budget, current>>
      BY <1>10, <3>1 DEF WriteAnswered, Verdict
    <3>3. InBatch(p)'
      BY <3>1, <3>2, Others DEF AfterWrite, InBatch, Publishing
    <3> QED BY <3>1, <3>2, <3>3, Others, QuietStep DEF Claimed, LeaseInv
  <2>3. CASE MarkPublished(p, e, a) \/ MarkFailed(p, e, a) \/ ScheduleRetry(p, e, a)
    <3>1. /\ pc[p] \in {"markPublished", "failed"}
          /\ current[p] = <<e, a>>
          /\ \E s \in Status : Release(e, s)
      BY <2>3 DEF MarkPublished, MarkFailed, ScheduleRetry, At, Status
    <3>2. /\ Goto(p, "batch") /\ UNCHANGED <<held, budget>>
          /\ current' = [current EXCEPT ![p] = NULL]
      BY <1>10, <3>1 DEF WriteAnswered, Verdict, AfterWrite
    <3> QED BY <3>1, <3>2, VerdictStep
  <2> QED BY <2>1, <2>2, <2>3
<1>11. ASSUME NEW p \in Publisher, StatementError(p) PROVE LeaseInv'
  <2>1. CASE LeaveCycle(p)
    BY <1>11, <2>1, LeaveCycleQuiet, QuietStep DEF StatementError
  <2>2. CASE Goto(p, "failed") /\ UNCHANGED <<pollTimer, held, current, budget, stopping>>
    BY <1>11, <2>2, Others, QuietStep
    DEF StatementError, InBatch, Publishing, Claimed, LeaseInv
  <2> QED BY <1>11, <2>1, <2>2 DEF StatementError, StatementRejected
<1>12. ASSUME NEW p \in Publisher, WriteAckLost(p) PROVE LeaseInv'
  BY <1>12 DEF WriteAckLost, Fault, Timely
<1>13. ASSUME NEW p \in Publisher, Stop(p) PROVE LeaseInv'
  BY <1>13 DEF Stop, LeaseInv, Holds, Claimed, InBatch
<1>14. ASSUME NEW p \in Publisher, Exit(p) \/ Crash(p) PROVE LeaseInv'
  <2>1. Gone(p)
    BY <1>14 DEF Exit, Crash
  <2>2. Claimed(p)' = {} /\ current'[p] \notin held'[p]
    BY <2>1 DEF Gone, Claimed, TypeOK
  <2> QED BY <2>1, <2>2, Others, QuietStep DEF Gone, TypeOK
<1>15. ASSUME Tick PROVE LeaseInv'
  <2>1. \A p \in Publisher : InBatch(p) => budget[p] > 0
    BY <1>15 DEF Tick, Fault, Timely
  <2>2. ASSUME NEW p \in Publisher, NEW c \in Claimed(p) PROVE Holds(p, c)'
    <3>1. Holds(p, c) /\ budget[p] > 0 /\ c[1] \in Event
      BY <2>1, <2>2 DEF LeaseInv, Claimed, TypeOK
    <3> QED BY <1>15, <3>1 DEF Tick, Countdown, Holds, TypeOK
  <2>3. UNCHANGED <<held, current, pc>>
    BY <1>15 DEF Tick
  <2> QED BY <2>2, <2>3 DEF LeaseInv, Claimed, InBatch
<1>16. ASSUME UNCHANGED vars PROVE LeaseInv'
  BY <1>16 DEF vars, LeaseInv, Holds, Claimed, InBatch
<1> HIDE DEF rowVars, effectVars, publisherVars, bounds
<1> QED
  BY <1>1, <1>2, <1>3, <1>5, <1>6, <1>7, <1>8, <1>9, <1>10, <1>11, <1>12, <1>13,
     <1>14, <1>15, <1>16
  DEF Next, Work

LEMMA LeaseAlways == Timely => (Spec => [](TypeOK /\ LeaseInv))
<1> SUFFICES ASSUME Timely PROVE Spec => [](TypeOK /\ LeaseInv)
  OBVIOUS
<1>1. Init => TypeOK /\ LeaseInv
  <2>1. Init => LeaseInv
    BY ConstantsAssumption DEF Init, LeaseInv, Claimed
  <2> QED BY <2>1, InitType
<1>2. TypeOK /\ LeaseInv /\ [Next]_vars => (TypeOK /\ LeaseInv)'
  BY StepType, LeaseStep
<1> QED BY <1>1, <1>2, PTL DEF Spec

\* When a batch ends within its lease and no committed write is reported as an
\* error, a publisher holds the lease of every event it has still to publish.
THEOREM HoldersAlwaysHoldLease == Timely => (Spec => []HolderHoldsLease)
<1>1. LeaseInv => HolderHoldsLease
  BY DEF LeaseInv, HolderHoldsLease, Holds
<1> QED BY <1>1, LeaseAlways, PTL

-----------------------------------------------------------------------------
\* Outcomes

\* The event that a publisher is at is leased to it alone.
LEMMA AtHolds ==
  ASSUME TypeOK, LeaseInv, NEW p \in Publisher, NEW e \in Event, NEW a \in Attempt,
         current[p] = <<e, a>>
  PROVE  status[e] = "PROCESSING" /\ leaseOwner[e] = p
<1>1. <<e, a>> \in Claimed(p)
  BY ConstantsAssumption DEF Claimed
<1> QED BY <1>1 DEF LeaseInv, Holds

\* A write concerns an event that is leased to the writer.
LEMMA WriteStands ==
  ASSUME TypeOK, LeaseInv, NEW p \in Publisher, Write(p)
  PROVE  \A e \in Event : status[e] # "PROCESSING" => status'[e] = status[e]
<1>1. PICK e \in Event, a \in Attempt :
        \/ InsertEvent(p, e, a) \/ InsertIntent(p, e, a) \/ EnqueueDispatch(p, e, a)
        \/ MarkPublished(p, e, a) \/ MarkFailed(p, e, a) \/ ScheduleRetry(p, e, a)
  BY DEF Write
<1>2. current[p] = <<e, a>> /\ (status' = status \/ \E s \in Status : Release(e, s))
  BY <1>1
  DEF InsertEvent, InsertIntent, EnqueueDispatch, MarkPublished, MarkFailed,
      ScheduleRetry, At, Status, rowVars
<1>3. status[e] = "PROCESSING"
  BY <1>2, AtHolds
<1> QED BY <1>2, <1>3 DEF Release, TypeOK

LEMMA OutcomeStep ==
  ASSUME Timely, TypeOK, LeaseInv, [Next]_vars
  PROVE  OutcomesStand
<1> SUFFICES ASSUME NEW k \in Event, status[k] \in Final PROVE status'[k] = status[k]
  BY DEF OutcomesStand
<1> USE DEF Final, rowVars, effectVars, publisherVars, bounds
<1>1. ASSUME NEW e \in Event, AppendEvent(e) PROVE status'[k] = status[k]
  BY <1>1 DEF AppendEvent, TypeOK
<1>2. ASSUME NEW p \in Publisher, ReleaseExpired(p) PROVE status'[k] = status[k]
  BY <1>2 DEF ReleaseExpired, Expired
<1>3. ASSUME NEW p \in Publisher, Claim(p) \/ ClaimLost(p) PROVE status'[k] = status[k]
  BY <1>3 DEF Claim, ClaimLost, Selected, Due, LeaseRows
<1>4. ASSUME NEW p \in Publisher, WriteAnswered(p) \/ WriteAckLost(p)
      PROVE  status'[k] = status[k]
  BY <1>4, WriteStands DEF WriteAnswered, WriteAckLost
<1>5. ASSUME NEW p \in Publisher,
             \/ Poll(p) \/ NextEvent(p) \/ EndBatch(p) \/ LookUp(p) \/ UniqueViolation(p)
             \/ CycleError(p) \/ StatementError(p) \/ Stop(p) \/ Exit(p) \/ Crash(p)
             \/ Start(p)
      PROVE  status'[k] = status[k]
  BY <1>5
  DEF Poll, NextEvent, EndBatch, LookUp, UniqueViolation, CycleError, StatementError,
      Stop, Exit, Crash, Gone, Start
<1>6. CASE Tick
  BY <1>6 DEF Tick
<1>7. CASE UNCHANGED vars
  BY <1>7 DEF vars
<1> HIDE DEF Final, rowVars, effectVars, publisherVars, bounds
<1> QED BY <1>1, <1>2, <1>3, <1>4, <1>5, <1>6, <1>7 DEF Next, Work

\* An event that is published or failed is never leased, retried or judged
\* again, when batches end within their lease.
THEOREM OutcomesAreFinal == Timely => (Spec => OutcomeIsFinal)
<1> SUFFICES ASSUME Timely PROVE Spec => [][OutcomesStand]_vars
  BY DEF OutcomeIsFinal
<1>1. TypeOK /\ LeaseInv /\ [Next]_vars => [OutcomesStand]_vars
  BY OutcomeStep
<1> QED BY <1>1, LeaseAlways, PTL DEF Spec

-----------------------------------------------------------------------------
\* Losses

\* What a publisher's place in publishClaimedEvent says of what was recorded.
Recorded(p, e, a) ==
  /\ At(p, "lookupIntents", e, a) \/ At(p, "insertIntent", e, a) => e \in domainEvents
  /\ At(p, "enqueue", e, a) => e \in intents
  /\ At(p, "markPublished", e, a) => e \in jobs \/ Torn(e)

LossInv ==
  /\ OnlyTornEventsAreLost
  /\ \A p \in Publisher, e \in Event, a \in Attempt : Recorded(p, e, a)

\* A step that records nothing and publishes nothing keeps LossInv when its
\* publisher ends up where nothing need be recorded.
LEMMA NothingRecorded ==
  ASSUME LossInv, UNCHANGED effectVars,
         \A e \in Event : status'[e] = "PUBLISHED" => status[e] = "PUBLISHED",
         NEW q \in Publisher,
         \A p \in Publisher \ {q} : UNCHANGED <<pc[p], current[p]>>,
         \/ pc'[q] \notin {"lookupIntents", "insertIntent", "enqueue", "markPublished"}
         \/ UNCHANGED <<pc[q], current[q]>>
  PROVE  LossInv'
BY DEF LossInv, OnlyTornEventsAreLost, Recorded, At, Torn, effectVars

LEMMA LossStep ==
  ASSUME Timely, TypeOK, LeaseInv, LossInv, [Next]_vars
  PROVE  LossInv'
<1> USE DEF rowVars, publisherVars, bounds
<1>1. ASSUME NEW e \in Event, AppendEvent(e) PROVE LossInv'
  BY <1>1
  DEF AppendEvent, LossInv, OnlyTornEventsAreLost, Recorded, At, Torn, effectVars, TypeOK
<1>2. ASSUME NEW q \in Publisher, Poll(q) \/ Start(q) \/ NextEvent(q) PROVE LossInv'
  <2>1. /\ pc'[q] \in {"releasing", "idle", "lookup"}
        /\ \A p \in Publisher \ {q} : UNCHANGED <<pc[p], current[p]>>
    BY <1>2, Others DEF Poll, Start, NextEvent, TypeOK
  <2> QED BY <1>2, <2>1, NothingRecorded DEF Poll, Start, NextEvent
<1>3. ASSUME NEW q \in Publisher, ReleaseExpired(q) PROVE LossInv'
  BY <1>3, Others, NothingRecorded DEF ReleaseExpired
<1>4. ASSUME NEW q \in Publisher, NEW S \in SUBSET Event, LeaseRows(q, S)
      PROVE  \A e \in Event : status'[e] = "PUBLISHED" => status[e] = "PUBLISHED"
  BY <1>4 DEF LeaseRows
<1>5. ASSUME NEW q \in Publisher, Claim(q) PROVE LossInv'
  BY <1>4, <1>5, Others, NothingRecorded DEF Claim
<1>6. ASSUME NEW q \in Publisher, LeaveCycle(q)
      PROVE  /\ pc'[q] = "idle"
             /\ \A p \in Publisher \ {q} : UNCHANGED <<pc[p], current[p]>>
  BY <1>6, Others, LeaveCycleQuiet DEF LeaveCycle
<1>7. ASSUME NEW q \in Publisher, EndBatch(q) \/ CycleError(q) PROVE LossInv'
  <2>1. LeaveCycle(q) /\ UNCHANGED <<status, effectVars>>
    BY <1>7 DEF EndBatch, CycleError
  <2> QED BY <1>6, <2>1, NothingRecorded
<1>8. ASSUME NEW q \in Publisher, ClaimLost(q) PROVE LossInv'
  BY <1>4, <1>6, <1>8, NothingRecorded DEF ClaimLost
<1>9. ASSUME NEW q \in Publisher, LookUp(q) PROVE LossInv'
  BY <1>9, Others
  DEF LookUp, LossInv, OnlyTornEventsAreLost, Recorded, At, Torn, effectVars
<1>10. ASSUME NEW q \in Publisher, UniqueViolation(q) PROVE LossInv'
  BY <1>10, Others, NothingRecorded DEF UniqueViolation
<1>11. ASSUME NEW q \in Publisher, WriteAnswered(q) PROVE LossInv'
  <2>1. PICK e \in Event, a \in Attempt :
          \/ InsertEvent(q, e, a) \/ InsertIntent(q, e, a) \/ EnqueueDispatch(q, e, a)
          \/ MarkPublished(q, e, a) \/ MarkFailed(q, e, a) \/ ScheduleRetry(q, e, a)
    BY <1>11 DEF WriteAnswered, Write
  <2>2. /\ current[q] = <<e, a>>
        /\ \A p \in Publisher \ {q} :
             UNCHANGED <<pc[p], current[p]>> /\ \A b \in Attempt : current[p] # <<e, b>>
        /\ status[e] = "PROCESSING"
    <3>1. current[q] = <<e, a>>
      BY <2>1 DEF InsertEvent, InsertIntent, EnqueueDispatch, MarkPublished, MarkFailed,
                  ScheduleRetry, At
    <3>2. \A p \in Publisher \ {q} : UNCHANGED <<pc[p], current[p]>>
      BY <1>11, Others DEF WriteAnswered, TypeOK
    <3> QED BY <3>1, <3>2, AtHolds
  <2>3. pc[q] \in {"insertEvent", "insertIntent", "enqueue"} => current' = current
    BY <1>11 DEF WriteAnswered, Verdict
  <2>4. pc'[q] = AfterWrite[pc[q]]
    BY <1>11, Others DEF WriteAnswered
  <2>5. CASE InsertEvent(q, e, a)
    <3>1. pc'[q] = "insertIntent"
      BY <2>4, <2>5 DEF InsertEvent, At, AfterWrite
    <3> QED BY <2>2, <2>3, <2>5, <3>1
            DEF InsertEvent, LossInv, OnlyTornEventsAreLost, Recorded, At, Torn
  <2>6. CASE InsertIntent(q, e, a)
    <3>1. pc'[q] = "enqueue"
      BY <2>4, <2>6 DEF InsertIntent, At, AfterWrite
    <3> QED BY <2>2, <2>3, <2>6, <3>1
            DEF InsertIntent, LossInv, OnlyTornEventsAreLost, Recorded, At, Torn
  <2>7. CASE EnqueueDispatch(q, e, a)
    <3>1. pc'[q] = "markPublished"
      BY <2>4, <2>7 DEF EnqueueDispatch, At, AfterWrite
    <3> QED BY <2>2, <2>3, <2>7, <3>1
            DEF EnqueueDispatch, LossInv, OnlyTornEventsAreLost, Recorded, At, Torn
  <2>8. CASE MarkPublished(q, e, a)
    <3>1. pc'[q] = "batch"
      BY <2>4, <2>8 DEF MarkPublished, At, AfterWrite
    <3>2. e \in jobs \/ Torn(e)
      BY <2>8 DEF MarkPublished, LossInv, Recorded
    <3>3. /\ UNCHANGED effectVars
          /\ \A f \in Event \ {e} : status'[f] = status[f]
      BY <2>8 DEF MarkPublished, Release, TypeOK
    <3> QED BY <2>2, <3>1, <3>2, <3>3
            DEF LossInv, OnlyTornEventsAreLost, Recorded, At, Torn, effectVars
  <2>9. CASE MarkFailed(q, e, a) \/ ScheduleRetry(q, e, a)
    <3>1. pc'[q] = "batch"
      BY <2>4, <2>9 DEF MarkFailed, ScheduleRetry, At, AfterWrite
    <3>2. /\ UNCHANGED effectVars
          /\ \A f \in Event : status'[f] = "PUBLISHED" => status[f] = "PUBLISHED"
      BY <2>9 DEF MarkFailed, ScheduleRetry, Release, TypeOK
    <3> QED BY <2>2, <3>1, <3>2, NothingRecorded
  <2> QED BY <2>1, <2>5, <2>6, <2>7, <2>8, <2>9
<1>12. ASSUME NEW q \in Publisher, StatementError(q) PROVE LossInv'
  <2>1. UNCHANGED <<status, effectVars>>
    BY <1>12 DEF StatementError
  <2>2. CASE LeaveCycle(q)
    BY <1>6, <2>1, <2>2, NothingRecorded
  <2>3. CASE Goto(q, "failed") /\ UNCHANGED <<pollTimer, held, current, budget, stopping>>
    BY <2>1, <2>3, Others, NothingRecorded
  <2> QED BY <1>12, <2>2, <2>3 DEF StatementError, StatementRejected
<1>13. ASSUME NEW q \in Publisher, WriteAckLost(q) PROVE LossInv'
  BY <1>13 DEF WriteAckLost, Fault, Timely
<1>14. ASSUME NEW q \in Publisher, Exit(q) \/ Crash(q) PROVE LossInv'
  <2>1. Gone(q)
    BY <1>14 DEF Exit, Crash
  <2> QED BY <2>1, Others, NothingRecorded DEF Gone, TypeOK
<1>15. ASSUME NEW q \in Publisher, Stop(q) PROVE LossInv'
  BY <1>15, NothingRecorded DEF Stop
<1>16. ASSUME Tick PROVE LossInv'
  BY <1>16 DEF Tick, LossInv, OnlyTornEventsAreLost, Recorded, At, Torn, effectVars
<1>17. ASSUME UNCHANGED vars PROVE LossInv'
  BY <1>17 DEF vars, LossInv, OnlyTornEventsAreLost, Recorded, At, Torn, effectVars
<1> HIDE DEF rowVars, publisherVars, bounds
<1> QED
  BY <1>1, <1>2, <1>3, <1>5, <1>7, <1>8, <1>9, <1>10, <1>11, <1>12, <1>13, <1>14,
     <1>15, <1>16, <1>17
  DEF Next, Work

LEMMA LossAlways == Timely => (Spec => [](TypeOK /\ LeaseInv /\ LossInv))
<1> SUFFICES ASSUME Timely PROVE Spec => [](TypeOK /\ LeaseInv /\ LossInv)
  OBVIOUS
<1>1. Init => LossInv
  BY ConstantsAssumption DEF Init, LossInv, OnlyTornEventsAreLost, Recorded, At
<1>2. TypeOK /\ LeaseInv /\ LossInv /\ [Next]_vars => LossInv'
  BY LossStep
<1> QED BY <1>1, <1>2, LeaseAlways, PTL DEF Spec

\* When batches end within their lease, the one way for an event to be published
\* without a dispatch job is that recordDomainEvent was cut off between its two
\* inserts.
THEOREM LossNeedsTear == Timely => (Spec => []OnlyTornEventsAreLost)
BY LossAlways, PTL DEF LossInv

-----------------------------------------------------------------------------
\* The contract

\* What the contract has of an event, and what a step may do to it
RecordStep(k) ==
  /\ status[k] = "PROCESSING"
  /\ \/ ContractRecord(k) = "none" /\ ContractRecord(k)' = "part"
     \/ ContractRecord(k) = "part" /\ ContractRecord(k)' \in {"whole", "torn"}

SameRecord(k) == ContractRecord(k)' = ContractRecord(k)

SettleStep(k) ==
  /\ status[k] = "PROCESSING" /\ ContractRecord(k) # "part"
  /\ \/ status'[k] = "PUBLISHED" /\ (k \in jobs \/ ContractRecord(k) = "torn")
     \/ status'[k] = "FAILED" /\ attempts[k] >= MaxAttempts
     \/ status'[k] = "PENDING"

RowChange(k) ==
  \/ /\ SameRecord(k) /\ jobs' = jobs /\ attempts'[k] = attempts[k]
     /\ \/ status'[k] = status[k]
        \/ status[k] = "ABSENT" /\ status'[k] = "PENDING"
        \/ SettleStep(k)
  \/ /\ SameRecord(k) /\ jobs' = jobs /\ attempts'[k] = attempts[k] + 1
     /\ status[k] = "PENDING" /\ status'[k] = "PROCESSING"
  \/ /\ RecordStep(k) /\ jobs' = jobs /\ attempts'[k] = attempts[k] /\ status'[k] = status[k]
  \/ /\ SameRecord(k) /\ attempts'[k] = attempts[k] /\ status'[k] = status[k]
     /\ \/ (k \in jobs') = (k \in jobs)
        \/ ContractRecord(k) = "whole" /\ status[k] = "PROCESSING" /\ k \in jobs'

\* What stands between two inserts is leased, and its first part is written.
LEMMA RecordingLeased ==
  ASSUME TypeOK, LeaseInv, LossInv, NEW k \in Event, Recording(k)
  PROVE  /\ status[k] = "PROCESSING" /\ ~Expired(k) /\ k \in domainEvents
<1>1. PICK p \in Publisher, a \in Attempt : At(p, "insertIntent", k, a)
  BY DEF Recording
<1>2. k \in domainEvents
  BY <1>1 DEF LossInv, Recorded
<1>3. <<k, a>> \in Claimed(p)
  BY <1>1, ConstantsAssumption DEF Claimed, At
<1>4. status[k] = "PROCESSING" /\ budget[p] < lease[k]
  BY <1>3 DEF LeaseInv, Holds
<1>5. lease[k] # 0
  BY <1>4 DEF TypeOK
<1> QED BY <1>2, <1>4, <1>5 DEF Expired

\* A publisher that does not come to stand between two inserts leaves the record
\* of an event as it is, or tears it.
LEMMA CutOff ==
  ASSUME TypeOK, LeaseInv, LossInv, NEW k \in Event, NEW q \in Publisher,
         pc'[q] # "insertIntent",
         \A p \in Publisher \ {q} : pc'[p] = pc[p] /\ current'[p] = current[p],
         UNCHANGED effectVars
  PROVE  /\ SameRecord(k) \/ RecordStep(k)
         /\ ~Recording(k) => SameRecord(k)
<1>1. Recording(k)' => Recording(k)
  BY DEF Recording, At
<1>2. UNCHANGED <<domainEvents, intents>>
  BY DEF effectVars
<1>3. CASE Recording(k)' <=> Recording(k)
  BY <1>2, <1>3 DEF SameRecord, ContractRecord
<1>4. CASE Recording(k) /\ ~Recording(k)'
  BY <1>2, <1>4, RecordingLeased DEF SameRecord, RecordStep, ContractRecord
<1> QED BY <1>1, <1>3, <1>4

\* The publisher that writes is the only one at its event.
LEMMA WriterAlone ==
  ASSUME TypeOK, LeaseInv, NEW q \in Publisher, NEW e \in Event, NEW a \in Attempt,
         current[q] = <<e, a>>, \A p \in Publisher \ {q} : pc'[p] = pc[p] /\ current'[p] = current[p]
  PROVE  /\ Recording(e) <=> pc[q] = "insertIntent"
         /\ current'[q] = current[q] => (Recording(e)' <=> pc'[q] = "insertIntent")
         /\ pc'[q] # "insertIntent" => ~Recording(e)'
         /\ current'[q] = current[q] \/ pc'[q] # "insertIntent" =>
              \A k \in Event \ {e} : Recording(k)' <=> Recording(k)
<1>1. \A p \in Publisher \ {q}, b \in Attempt : current[p] # <<e, b>>
  BY AtHolds
<1>2. \A k \in Event \ {e}, b \in Attempt : current[q] # <<k, b>>
  OBVIOUS
<1> QED BY <1>1, <1>2 DEF Recording, At

LEMMA WriteChange ==
  ASSUME TypeOK, LeaseInv, LossInv, NEW q \in Publisher, WriteAnswered(q), NEW k \in Event
  PROVE  RowChange(k)
<1>1. PICK e \in Event, a \in Attempt :
        \/ InsertEvent(q, e, a) \/ InsertIntent(q, e, a) \/ EnqueueDispatch(q, e, a)
        \/ MarkPublished(q, e, a) \/ MarkFailed(q, e, a) \/ ScheduleRetry(q, e, a)
  BY DEF WriteAnswered, Write
<1>2. current[q] = <<e, a>> /\ status[e] = "PROCESSING" /\ attempts[e] = a
  <2>1. current[q] = <<e, a>>
    BY <1>1 DEF InsertEvent, InsertIntent, EnqueueDispatch, MarkPublished, MarkFailed, ScheduleRetry, At
  <2>2. <<e, a>> \in Claimed(q)
    BY <2>1, ConstantsAssumption DEF Claimed
  <2> QED BY <2>1, <2>2 DEF LeaseInv, Holds
<1>3. /\ \A p \in Publisher \ {q} : pc'[p] = pc[p] /\ current'[p] = current[p]
      /\ pc'[q] = AfterWrite[pc[q]]
      /\ pc[q] \notin Verdict => current'[q] = current[q]
  BY Others DEF WriteAnswered, TypeOK
<1>4. pc'[q] = "insertIntent" => current'[q] = current[q]
  <2>1. pc[q] \in {"insertEvent", "insertIntent", "enqueue", "markPublished", "failed"}
    BY DEF WriteAnswered, AfterWrite
  <2>2. pc'[q] = "insertIntent" => pc[q] = "insertEvent"
    BY <1>3, <2>1 DEF AfterWrite
  <2> QED BY <1>3, <2>2 DEF Verdict
<1>5. /\ Recording(e) <=> pc[q] = "insertIntent"
      /\ Recording(e)' <=> pc'[q] = "insertIntent"
      /\ \A f \in Event \ {e} : Recording(f)' <=> Recording(f)
  BY <1>2, <1>3, <1>4, WriterAlone
<1>6. CASE InsertEvent(q, e, a)
  <2>1. /\ pc[q] = "insertEvent" /\ pc'[q] = "insertIntent"
        /\ e \notin domainEvents /\ domainEvents' = domainEvents \union {e}
        /\ UNCHANGED <<status, attempts, intents, jobs>>
    BY <1>3, <1>6 DEF InsertEvent, At, AfterWrite, rowVars
  <2>2. CASE k = e
    BY <1>2, <1>5, <2>1, <2>2 DEF RowChange, SameRecord, RecordStep, ContractRecord
  <2>3. CASE k # e
    BY <1>5, <2>1, <2>3 DEF RowChange, SameRecord, ContractRecord
  <2> QED BY <2>2, <2>3
<1>7. CASE InsertIntent(q, e, a)
  <2>1. /\ pc[q] = "insertIntent" /\ pc'[q] = "enqueue" /\ intents' = intents \union {e}
        /\ UNCHANGED <<status, attempts, domainEvents, jobs>>
    BY <1>3, <1>7 DEF InsertIntent, At, AfterWrite, rowVars
  <2>2. CASE k = e
    BY <1>2, <1>5, <2>1, <2>2 DEF RowChange, SameRecord, RecordStep, ContractRecord
  <2>3. CASE k # e
    BY <1>5, <2>1, <2>3 DEF RowChange, SameRecord, ContractRecord
  <2> QED BY <2>2, <2>3
<1>8. CASE EnqueueDispatch(q, e, a)
  <2>1. /\ pc[q] = "enqueue" /\ pc'[q] = "markPublished" /\ jobs' = jobs \union {e}
        /\ UNCHANGED <<status, attempts, domainEvents, intents>>
    BY <1>3, <1>8 DEF EnqueueDispatch, At, AfterWrite, rowVars
  <2>2. e \in intents
    BY <1>8 DEF EnqueueDispatch, LossInv, Recorded
  <2>3. CASE k = e
    BY <1>2, <2>1, <2>2, <2>3 DEF RowChange, SameRecord, ContractRecord
  <2>4. CASE k # e
    <3>1. SameRecord(k) /\ (k \in jobs') = (k \in jobs)
      BY <1>5, <2>1, <2>4 DEF SameRecord, ContractRecord
    <3> QED BY <2>1, <3>1 DEF RowChange
  <2> QED BY <2>3, <2>4
<1>9. CASE MarkPublished(q, e, a) \/ MarkFailed(q, e, a) \/ ScheduleRetry(q, e, a)
  <2>1. /\ pc[q] \in Verdict /\ pc'[q] = "batch"
        /\ UNCHANGED <<domainEvents, intents, jobs, attempts>>
    BY <1>3, <1>9 DEF MarkPublished, MarkFailed, ScheduleRetry, At, AfterWrite, Verdict, effectVars, Release
  <2>2. \A f \in Event : SameRecord(f)
    BY <1>5, <2>1 DEF SameRecord, ContractRecord, Verdict
  <2>3. CASE k = e
    <3>1. ~Recording(e) /\ ContractRecord(e) # "part"
      BY <1>5, <2>1 DEF Verdict, ContractRecord
    <3>2. CASE MarkPublished(q, e, a)
      <4>1. status'[e] = "PUBLISHED"
        BY <3>2 DEF MarkPublished, Release, TypeOK
      <4>2. e \in jobs \/ Torn(e)
        BY <3>2 DEF MarkPublished, LossInv, Recorded
      <4>3. Torn(e) => ContractRecord(e) = "torn"
        BY <3>1 DEF Torn, ContractRecord
      <4> QED BY <1>2, <2>1, <2>2, <2>3, <3>1, <4>1, <4>2, <4>3 DEF RowChange, SettleStep
    <3>3. CASE MarkFailed(q, e, a)
      <4>1. status'[e] = "FAILED" /\ a >= MaxAttempts
        BY <3>3 DEF MarkFailed, Release, TypeOK
      <4> QED BY <1>2, <2>1, <2>2, <2>3, <3>1, <4>1 DEF RowChange, SettleStep
    <3>4. CASE ScheduleRetry(q, e, a)
      <4>1. status'[e] = "PENDING"
        BY <3>4 DEF ScheduleRetry, Release, TypeOK
      <4> QED BY <1>2, <2>1, <2>2, <2>3, <3>1, <4>1 DEF RowChange, SettleStep
    <3> QED BY <1>9, <3>2, <3>3, <3>4
  <2>4. CASE k # e
    <3>1. status'[k] = status[k]
      BY <1>9, <2>4 DEF MarkPublished, MarkFailed, ScheduleRetry, Release, TypeOK
    <3> QED BY <2>1, <2>2, <3>1 DEF RowChange
  <2> QED BY <2>3, <2>4
<1> QED BY <1>1, <1>6, <1>7, <1>8, <1>9

LEMMA RowChanges ==
  ASSUME Timely, TypeOK, LeaseInv, LossInv, [Next]_vars, NEW k \in Event
  PROVE  RowChange(k)
<1> USE DEF rowVars, publisherVars, bounds
<1>1. ASSUME UNCHANGED <<status, attempts, effectVars, pc, current>> PROVE RowChange(k)
  <2>1. Recording(k)' <=> Recording(k)
    BY <1>1 DEF Recording, At
  <2>2. SameRecord(k)
    BY <1>1, <2>1 DEF SameRecord, ContractRecord, effectVars
  <2> QED BY <1>1, <2>2 DEF RowChange, effectVars
<1>2. ASSUME NEW e \in Event, AppendEvent(e) PROVE RowChange(k)
  <2>1. UNCHANGED <<attempts, effectVars, pc, current>>
    BY <1>2 DEF AppendEvent
  <2>2. status'[k] = status[k] \/ (status[k] = "ABSENT" /\ status'[k] = "PENDING")
    BY <1>2 DEF AppendEvent, TypeOK
  <2>3. Recording(k)' <=> Recording(k)
    BY <2>1 DEF Recording, At
  <2>4. SameRecord(k)
    BY <2>1, <2>3 DEF SameRecord, ContractRecord, effectVars
  <2> QED BY <2>1, <2>2, <2>4 DEF RowChange, effectVars
\* A publisher moves on, or is stopped, where it does not come to stand between
\* two inserts.
<1>3. ASSUME NEW q \in Publisher, UNCHANGED <<status, attempts, effectVars>>, pc'[q] # "insertIntent",
             \A p \in Publisher \ {q} : pc'[p] = pc[p] /\ current'[p] = current[p]
      PROVE  RowChange(k)
  <2>1. SameRecord(k) \/ RecordStep(k)
    BY <1>3, CutOff
  <2> QED BY <1>3, <2>1 DEF RowChange, effectVars
<1>4. ASSUME NEW q \in Publisher,
             \/ Poll(q) \/ Start(q) \/ NextEvent(q) \/ LookUp(q) \/ UniqueViolation(q)
      PROVE  RowChange(k)
  <2>1. pc'[q] # "insertIntent" /\ \A p \in Publisher \ {q} : pc'[p] = pc[p] /\ current'[p] = current[p]
    BY <1>4, Others DEF Poll, Start, NextEvent, LookUp, UniqueViolation, TypeOK
  <2> QED BY <1>3, <1>4, <2>1 DEF Poll, Start, NextEvent, LookUp, UniqueViolation
<1>5. ASSUME NEW q \in Publisher, LeaveCycle(q) \/ Gone(q) \/ (Goto(q, "failed") /\ UNCHANGED current)
      PROVE  pc'[q] # "insertIntent" /\ \A p \in Publisher \ {q} : pc'[p] = pc[p] /\ current'[p] = current[p]
  BY <1>5, Others DEF LeaveCycle, Gone, TypeOK
<1>6. ASSUME NEW q \in Publisher, EndBatch(q) \/ CycleError(q) \/ StatementError(q) \/ Exit(q) \/ Crash(q)
      PROVE  RowChange(k)
  <2>1. UNCHANGED <<status, attempts, effectVars>>
    BY <1>6 DEF EndBatch, CycleError, StatementError, Exit, Crash, Gone
  <2>2. LeaveCycle(q) \/ Gone(q) \/ (Goto(q, "failed") /\ UNCHANGED current)
    BY <1>6 DEF EndBatch, CycleError, StatementError, StatementRejected, Exit, Crash
  <2>3. pc'[q] # "insertIntent" /\ \A p \in Publisher \ {q} : pc'[p] = pc[p] /\ current'[p] = current[p]
    BY <1>5, <2>2
  <2> QED BY <1>3, <2>1, <2>3
<1>7. ASSUME NEW q \in Publisher, ReleaseExpired(q) PROVE RowChange(k)
  <2>1. /\ pc[q] = "releasing" /\ UNCHANGED <<attempts, effectVars>> /\ pc'[q] # "insertIntent"
        /\ \A p \in Publisher \ {q} : pc'[p] = pc[p] /\ current'[p] = current[p]
        /\ status'[k] = IF Expired(k) THEN "PENDING" ELSE status[k]
    BY <1>7, Others DEF ReleaseExpired
  <2>2. CASE Expired(k)
    <3>1. ~Recording(k)
      BY <2>2, RecordingLeased
    <3>2. SameRecord(k) /\ ContractRecord(k) # "part"
      BY <2>1, <3>1, CutOff DEF ContractRecord
    <3> QED BY <2>1, <2>2, <3>2 DEF RowChange, SettleStep, Expired, effectVars
  <2>3. CASE ~Expired(k)
    <3>1. Recording(k)' <=> Recording(k)
      BY <2>1 DEF Recording, At
    <3>2. SameRecord(k)
      BY <2>1, <3>1 DEF SameRecord, ContractRecord, effectVars
    <3> QED BY <2>1, <2>3, <3>2 DEF RowChange, effectVars
  <2> QED BY <2>2, <2>3
<1>8. ASSUME NEW q \in Publisher, Claim(q) \/ ClaimLost(q) PROVE RowChange(k)
  <2>1. PICK S \in SUBSET Event : Selected(S) /\ LeaseRows(q, S)
    BY <1>8 DEF Claim, ClaimLost
  <2>2. /\ pc[q] = "claiming" /\ UNCHANGED effectVars /\ pc'[q] # "insertIntent"
        /\ \A p \in Publisher \ {q} : pc'[p] = pc[p] /\ current'[p] = current[p]
    <3>1. CASE Claim(q)
      BY <3>1, Others DEF Claim
    <3>2. CASE ClaimLost(q)
      <4>1. LeaveCycle(q) /\ pc[q] = "claiming" /\ UNCHANGED effectVars
        BY <3>2 DEF ClaimLost
      <4> QED BY <1>5, <4>1
    <3> QED BY <1>8, <3>1, <3>2
  <2>3. Recording(k)' <=> Recording(k)
    BY <2>2 DEF Recording, At
  <2>4. SameRecord(k)
    BY <2>2, <2>3 DEF SameRecord, ContractRecord, effectVars
  <2>5. IF k \in S
        THEN status[k] = "PENDING" /\ status'[k] = "PROCESSING" /\ attempts'[k] = attempts[k] + 1
        ELSE status'[k] = status[k] /\ attempts'[k] = attempts[k]
    BY <2>1 DEF Selected, Due, LeaseRows
  <2> QED BY <2>2, <2>4, <2>5 DEF RowChange, effectVars
<1>9. ASSUME NEW q \in Publisher, WriteAckLost(q) PROVE RowChange(k)
  BY <1>9 DEF WriteAckLost, Fault, Timely
<1>10. ASSUME NEW q \in Publisher, Stop(q) PROVE RowChange(k)
  BY <1>1, <1>10 DEF Stop
<1>11. CASE Tick
  BY <1>1, <1>11 DEF Tick
<1>12. CASE UNCHANGED vars
  BY <1>1, <1>12 DEF vars
<1> HIDE DEF rowVars, publisherVars, bounds
<1> QED
  BY <1>2, <1>4, <1>6, <1>7, <1>8, <1>9, <1>10, <1>11, <1>12, WriteChange DEF Next, Work

\* Every step of the outbox is a step of the contract or leaves its events alone.
LEMMA ContractStep ==
  ASSUME Timely, TypeOK, LeaseInv, LossInv, [Next]_vars
  PROVE  [Contract!Next]_ContractEvent
<1> SUFFICES ASSUME NEW k \in Event
             PROVE  \/ ContractEvent'[k] = ContractEvent[k]
                    \/ Contract!EventStep(ContractEvent[k], ContractEvent'[k])
  BY DEF Contract!Next
<1>1. RowChange(k)
  BY RowChanges
<1> DEFINE r == ContractEvent[k]
           n == ContractEvent'[k]
<1>2. /\ r = [state |-> ContractState(status[k]), tries |-> attempts[k],
              record |-> ContractRecord(k), dispatched |-> k \in jobs]
      /\ n = [state |-> ContractState(status'[k]), tries |-> attempts'[k],
              record |-> ContractRecord(k)', dispatched |-> k \in jobs']
  BY DEF ContractEvent
<1>3. /\ ContractState("ABSENT") = "absent"
      /\ ContractState("PENDING") = "waiting"
      /\ ContractState("PROCESSING") = "trying"
      /\ ContractState("PUBLISHED") = "published"
      /\ ContractState("FAILED") = "failed"
  BY Zenon DEF ContractState
<1>4. /\ r.state = ContractState(status[k]) /\ n.state = ContractState(status'[k])
      /\ r.tries = attempts[k] /\ n.tries = attempts'[k]
      /\ r.record = ContractRecord(k) /\ n.record = ContractRecord(k)'
      /\ r.dispatched = (k \in jobs) /\ n.dispatched = (k \in jobs')
  BY <1>2
<1>5. (n = r) \/ Contract!EventStep(r, n)
  <2>1. CASE SameRecord(k) /\ (k \in jobs') = (k \in jobs) /\ attempts'[k] = attempts[k] /\ status'[k] = status[k]
    BY <1>2, <2>1 DEF SameRecord
  <2> HIDE DEF ContractState, r, n
  <2>2. CASE /\ SameRecord(k) /\ jobs' = jobs /\ attempts'[k] = attempts[k]
             /\ status[k] = "ABSENT" /\ status'[k] = "PENDING"
    BY <1>3, <1>4, <2>2 DEF SameRecord, Contract!EventStep, Contract!Append, Contract!Become
  <2>3. CASE SameRecord(k) /\ jobs' = jobs /\ attempts'[k] = attempts[k] /\ SettleStep(k)
    BY <1>3, <1>4, <2>3
       DEF SameRecord, SettleStep, Contract!EventStep, Contract!Settle, Contract!Become
  <2>4. CASE /\ SameRecord(k) /\ jobs' = jobs /\ attempts'[k] = attempts[k] + 1
             /\ status[k] = "PENDING" /\ status'[k] = "PROCESSING"
    BY <1>3, <1>4, <2>4 DEF SameRecord, Contract!EventStep, Contract!Try
  <2>5. CASE RecordStep(k) /\ jobs' = jobs /\ attempts'[k] = attempts[k] /\ status'[k] = status[k]
    BY <1>3, <1>4, <2>5 DEF RecordStep, Contract!EventStep, Contract!Record
  <2>6. CASE /\ SameRecord(k) /\ attempts'[k] = attempts[k] /\ status'[k] = status[k]
             /\ ContractRecord(k) = "whole" /\ status[k] = "PROCESSING" /\ k \in jobs'
    BY <1>3, <1>4, <2>6 DEF SameRecord, Contract!EventStep, Contract!Dispatch
  <2> QED BY <1>1, <2>1, <2>2, <2>3, <2>4, <2>5, <2>6 DEF RowChange
<1> QED BY <1>5

\* The outbox implements OutboxContract, when batches end within their lease: an
\* event fares as if one publisher at a time were at it.
THEOREM OutboxKeepsContract == Timely => (Spec => KeepsContract)
<1> SUFFICES ASSUME Timely PROVE Spec => Contract!Spec
  BY DEF KeepsContract
<1>1. Init => Contract!Init
  <2>1. ContractState("ABSENT") = "absent"
    BY Zenon DEF ContractState
  <2>2. ASSUME Init, NEW e \in Event PROVE ContractRecord(e) = "none" /\ (e \in jobs) = FALSE
    BY <2>2, ConstantsAssumption DEF Init, ContractRecord, Recording, At
  <2>3. ASSUME Init, NEW e \in Event
        PROVE  [state |-> ContractState(status[e]), tries |-> attempts[e],
                record |-> ContractRecord(e), dispatched |-> e \in jobs]
                 = [state |-> "absent", tries |-> 0, record |-> "none", dispatched |-> FALSE]
    <3>1. status[e] = "ABSENT" /\ attempts[e] = 0
      BY <2>3 DEF Init
    <3> HIDE DEF ContractState, ContractRecord
    <3> QED BY <2>1, <2>2, <2>3, <3>1
  <2> HIDE DEF ContractState, ContractRecord
  <2> QED BY <2>3, Zenon DEF Contract!Init, ContractEvent
<1>2. TypeOK /\ LeaseInv /\ LossInv /\ [Next]_vars => [Contract!Next]_ContractEvent
  BY ContractStep
<1> QED BY LossAlways, <1>1, <1>2, PTL DEF Spec, Contract!Spec

=============================================================================
