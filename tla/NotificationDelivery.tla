------------------------ MODULE NotificationDelivery ------------------------
(***************************************************************************)
(* The delivery of one notification intent                                 *)
(* (apps/api/src/notifications): the runs of its dispatch job go through   *)
(* the enabled channels, call each channel's provider and record the       *)
(* attempt; the provider reports deliveries later.                         *)
(*                                                                         *)
(* A run starts when the one before has ended or was abandoned by the job  *)
(* queue's timeout, in which case it goes on beside its successor.         *)
(*                                                                         *)
(* A provider accepts one message per idempotency key, which is the        *)
(* channel and the attempt number.                                         *)
(***************************************************************************)
EXTENDS Integers, FiniteSets, Functions

CONSTANTS
  Channel,  \* the enabled channels
  Instant,  \* channels whose provider delivers at once
  MaxRuns,  \* max_attempts of the dispatch job
  Faults,   \* kinds of fault that may happen, a subset of FaultKind
  MaxFaults \* model bound on the number of faults

\* crash:     the process of a run dies
\* abandon:   the job's timeout passes while a run is under way
\* transient, permanent: the provider refuses the message, with such an error
\* slow:      the provider does not answer in time; it may have accepted
\* readerror: a statement before the provider call fails
\* dberror:   a statement fails and has no effect
\* lostack:   the record of an accepted message commits, its answer is lost
FaultKind == {"crash", "abandon", "transient", "permanent", "slow", "readerror",
              "dberror", "lostack"}

Run == 1 .. MaxRuns

ASSUME ConstantsAssumption ==
  /\ Channel # {} /\ Instant \subseteq Channel
  /\ MaxRuns \in Nat \ {0}
  /\ Faults \subseteq FaultKind
  /\ MaxFaults \in Nat

VARIABLES
  unroutable,    \* channels for which the intent has no valid recipient
  intent,        \* status of the row of evt.notification_intents
  notification,  \* status of a channel's row of ntf.notifications
  attempt,       \* a channel's rows of ntf.delivery_attempts, by number
  accepted,      \* numbers under which the provider accepted a message
  report,        \* channels whose delivery report is half applied
  pc,            \* where a run of dispatchNotificationIntent stands
  todo,          \* channels that a run has still to go through
  channel,       \* the channel it is at
  number,        \* its attemptNumber
  outcome,       \* what it will record of the provider's answer
  transient,     \* runs with transientFailures
  abandoned,     \* runs that the job queue gave up on
  jobDone,       \* the job queue has recorded the job as completed
  faults         \* how often each kind of fault has happened

tables == <<intent, notification, attempt>>
runVars == <<pc, todo, channel, number, outcome, transient>>
queueVars == <<abandoned, jobDone>>
vars == <<unroutable, tables, accepted, report, runVars, queueVars, faults>>

NotificationStatus == {"NONE", "PENDING", "SENT", "DELIVERED", "FAILED"}
Success == {"SENT", "DELIVERED"}
Failure == {"perm", "trans"}  \* FAILED, with the class of its failure_code
AttemptStatus == {"none"} \union Success \union Failure

Reading == {"create", "find", "skip", "count"}
Active == {"next", "dispatch", "record", "show", "recordFailure", "showFailure"}
            \union Reading
PC == {"waiting", "over"} \union Active

NoAnswer == "none"

Init ==
  /\ unroutable \in SUBSET (Channel \ Instant)
  /\ intent = "PENDING"
  /\ notification = [c \in Channel |-> "NONE"]
  /\ attempt = [c \in Channel |-> [n \in Run |-> "none"]]
  /\ accepted = [c \in Channel |-> {}]
  /\ report = {}
  /\ pc = [r \in Run |-> "waiting"]
  /\ todo = [r \in Run |-> {}]
  /\ channel = [r \in Run |-> CHOOSE c \in Channel : TRUE]
  /\ number = [r \in Run |-> 1]
  /\ outcome = [r \in Run |-> NoAnswer]
  /\ transient = {}
  /\ abandoned = {}
  /\ jobDone = FALSE
  /\ faults = [kind \in FaultKind |-> 0]

Happened(kinds) == SumFunctionOnSet(faults, kinds)

Fault(kind) ==
  /\ kind \in Faults
  /\ Happened(FaultKind) < MaxFaults
  /\ faults' = [faults EXCEPT ![kind] = @ + 1]

Goto(r, label) == pc' = [pc EXCEPT ![r] = label]

Recorded(c) == {n \in Run : attempt[c][n] # "none"}

-----------------------------------------------------------------------------
\* A run of the job

\* The queue starts a run when nothing runs that it still waits for.
Begin(r) ==
  /\ pc[r] = "waiting"
  /\ ~jobDone
  /\ \A s \in Run : pc[s] \in Active => s \in abandoned
  /\ \A s \in 1 .. (r - 1) : pc[s] # "waiting"
  /\ IF intent = "PENDING"
     THEN /\ Goto(r, "next")
          /\ todo' = [todo EXCEPT ![r] = Channel]
          /\ UNCHANGED jobDone
     ELSE /\ Goto(r, "over")
          /\ jobDone' = TRUE
          /\ UNCHANGED todo
  /\ UNCHANGED <<tables, accepted, report, channel, number, outcome, transient,
                 abandoned, faults>>

\* The run ends; the queue heeds it unless it has given up on it.
End(r, completed) ==
  /\ Goto(r, "over")
  /\ jobDone' = (jobDone \/ (completed /\ r \notin abandoned))
  /\ UNCHANGED <<todo, channel, number, outcome, transient, abandoned>>

NextChannel(r) ==
  /\ pc[r] = "next"
  /\ \E c \in todo[r] : /\ channel' = [channel EXCEPT ![r] = c]
                        /\ todo' = [todo EXCEPT ![r] = @ \ {c}]
  /\ Goto(r, "create")
  /\ UNCHANGED <<tables, accepted, report, number, outcome, transient, queueVars, faults>>

\* mutant: transient failures do not keep the intent pending
FinishRegardless(r) ==
  /\ pc[r] = "next"
  /\ todo[r] = {}
  /\ intent' = "DISPATCHED"
  /\ End(r, TRUE)
  /\ UNCHANGED <<notification, attempt, accepted, report, faults>>

\* mutant: transient failures do not fail the job
FinishSwallowing(r) ==
  /\ pc[r] = "next"
  /\ todo[r] = {}
  /\ intent' = IF r \in transient THEN intent ELSE "DISPATCHED"
  /\ End(r, TRUE)
  /\ UNCHANGED <<notification, attempt, accepted, report, faults>>

\* All channels are done: the job fails when one failed transiently; otherwise
\* the intent is DISPATCHED, by this run or by another.
Finish(r) ==
  /\ pc[r] = "next"
  /\ todo[r] = {}
  /\ intent' = IF r \in transient THEN intent ELSE "DISPATCHED"
  /\ End(r, r \notin transient)
  /\ UNCHANGED <<notification, attempt, accepted, report, faults>>

\* getOrCreateNotification, findAcceptedAttempt, countAttempts
Create(r) ==
  /\ pc[r] = "create"
  /\ notification' = [notification EXCEPT ![channel[r]] = IF @ = "NONE" THEN "PENDING" ELSE @]
  /\ Goto(r, IF channel[r] \in unroutable THEN "count" ELSE "find")
  /\ UNCHANGED <<intent, attempt, accepted, report, todo, channel, number, outcome,
                 transient, queueVars, faults>>

\* mutant: an accepted attempt is not looked for
FindNothing(r) ==
  /\ pc[r] = "find"
  /\ Goto(r, "count")
  /\ UNCHANGED <<outcome, tables, accepted, report, todo, channel, number, transient,
                 queueVars, faults>>

Find(r) ==
  LET found == {n \in Recorded(channel[r]) : attempt[channel[r]][n] \in Success}
  IN
  /\ pc[r] = "find"
  /\ \/ /\ found = {}
        /\ Goto(r, "count")
        /\ UNCHANGED outcome
     \/ \E n \in found :
          /\ \A m \in found : n <= m
          /\ Goto(r, "skip")
          /\ outcome' = [outcome EXCEPT ![r] = attempt[channel[r]][n]]
  /\ UNCHANGED <<tables, accepted, report, todo, channel, number, transient,
                 queueVars, faults>>

Count(r) ==
  /\ pc[r] = "count"
  /\ number' = [number EXCEPT ![r] = Cardinality(Recorded(channel[r])) + 1]
  /\ \/ /\ channel[r] \in unroutable
        /\ Goto(r, "recordFailure")
        /\ outcome' = [outcome EXCEPT ![r] = "perm"]
     \/ /\ channel[r] \notin unroutable
        /\ Goto(r, "dispatch")
        /\ UNCHANGED outcome
  /\ UNCHANGED <<tables, accepted, report, todo, channel, transient, queueVars, faults>>

\* updateNotificationStatus, after an attempt or for one found accepted
Show(r) ==
  /\ pc[r] \in {"skip", "show"}
  /\ notification' = [notification EXCEPT ![channel[r]] = outcome[r]]
  /\ Goto(r, "next")
  /\ UNCHANGED <<intent, attempt, accepted, report, todo, channel, number, outcome,
                 transient, queueVars, faults>>

-----------------------------------------------------------------------------
\* The provider

AcceptMessage(r) ==
  accepted' = [accepted EXCEPT ![channel[r]] = @ \union {number[r]}]

\* Delivery is reported with the answer or later.
DispatchAccepted(r) ==
  /\ pc[r] = "dispatch"
  /\ AcceptMessage(r)
  /\ outcome' = [outcome EXCEPT ![r] = IF channel[r] \in Instant THEN "DELIVERED" ELSE "SENT"]
  /\ Goto(r, "record")
  /\ UNCHANGED <<tables, report, todo, channel, number, transient, queueVars, faults>>

DispatchRejected(r, class) ==
  /\ pc[r] = "dispatch"
  /\ outcome' = [outcome EXCEPT ![r] = class]
  /\ Goto(r, "recordFailure")
  /\ UNCHANGED <<tables, report, todo, channel, number, transient, queueVars>>

\* A message that the provider knows is not refused.
DispatchRefused(r) ==
  /\ number[r] \notin accepted[channel[r]]
  /\ \/ Fault("transient") /\ DispatchRejected(r, "trans")
     \/ Fault("permanent") /\ DispatchRejected(r, "perm")
  /\ UNCHANGED accepted

\* mutant: a call that is given up counts as sent
DispatchTimedOutAsSent(r) ==
  /\ Fault("slow")
  /\ pc[r] = "dispatch"
  /\ outcome' = [outcome EXCEPT ![r] = "SENT"]
  /\ Goto(r, "record")
  /\ AcceptMessage(r) \/ UNCHANGED accepted
  /\ UNCHANGED <<tables, report, todo, channel, number, transient, queueVars>>

\* executeProviderCall gives up waiting, but nothing aborts the call.
DispatchTimedOut(r) ==
  /\ Fault("slow")
  /\ DispatchRejected(r, "trans")
  /\ AcceptMessage(r) \/ UNCHANGED accepted

\* First statement of applyDeliveryUpdate.  A report for a message without a
\* recorded attempt, or with a delivered one, changes nothing.
ReportDelivery(c) ==
  /\ \E n \in accepted[c] :
       /\ attempt[c][n] = "SENT"
       /\ attempt' = [attempt EXCEPT ![c][n] = "DELIVERED"]
  /\ c \notin report
  /\ report' = report \union {c}
  /\ UNCHANGED <<intent, notification, accepted, runVars, queueVars, faults>>

\* Its second statement.
ShowDelivery(c) ==
  /\ c \in report
  /\ notification' = [notification EXCEPT ![c] = "DELIVERED"]
  /\ report' = report \ {c}
  /\ UNCHANGED <<intent, attempt, accepted, runVars, queueVars, faults>>

-----------------------------------------------------------------------------
\* The record of an attempt

Insert(r) ==
  /\ attempt[channel[r]][number[r]] = "none"
  /\ attempt' = [attempt EXCEPT ![channel[r]][number[r]] = outcome[r]]
  /\ UNCHANGED <<intent, notification>>

\* The unique index on the notification and the attempt number
NumberTaken(r) == attempt[channel[r]][number[r]] # "none"

Record(r) ==
  /\ pc[r] = "record"
  /\ Insert(r)
  /\ Goto(r, "show")
  /\ UNCHANGED <<accepted, report, todo, channel, number, outcome, transient,
                 queueVars, faults>>

\* An error in recording or showing a success enters the catch block, which
\* takes it for a transient failure of the provider.
SuccessRejected(r) ==
  /\ pc[r] \in {"record", "show"}
  /\ outcome' = [outcome EXCEPT ![r] = "trans"]
  /\ Goto(r, "recordFailure")
  /\ UNCHANGED <<accepted, report, todo, channel, number, transient, queueVars>>

RecordError(r) ==
  /\ SuccessRejected(r)
  /\ \/ pc[r] = "record" /\ NumberTaken(r) /\ UNCHANGED <<tables, faults>>
     \/ Fault("dberror") /\ UNCHANGED tables
     \/ pc[r] = "record" /\ Fault("lostack") /\ Insert(r)

RecordFailure(r) ==
  /\ pc[r] = "recordFailure"
  /\ Insert(r)
  /\ Goto(r, "showFailure")
  /\ UNCHANGED <<accepted, report, todo, channel, number, outcome, transient,
                 queueVars, faults>>

\* mutant: the failure class is written for the status
ShowFailureClass(r) ==
  /\ pc[r] = "showFailure"
  /\ notification' = [notification EXCEPT ![channel[r]] = outcome[r]]
  /\ transient' = IF outcome[r] = "trans" THEN transient \union {r} ELSE transient
  /\ Goto(r, "next")
  /\ UNCHANGED <<intent, attempt, accepted, report, todo, channel, number, outcome,
                 queueVars, faults>>

\* The channel has failed; the loop of dispatchNotificationIntent goes on.
ShowFailure(r) ==
  /\ pc[r] = "showFailure"
  /\ notification' = [notification EXCEPT ![channel[r]] = "FAILED"]
  /\ transient' = IF outcome[r] = "trans" THEN transient \union {r} ELSE transient
  /\ Goto(r, "next")
  /\ UNCHANGED <<intent, attempt, accepted, report, todo, channel, number, outcome,
                 queueVars, faults>>

\* Any other error is rethrown out of the loop and fails the job.
RunFails(r) ==
  /\ \/ pc[r] = "recordFailure" /\ NumberTaken(r) /\ UNCHANGED faults
     \/ pc[r] \in Reading /\ Fault("readerror")
     \/ /\ pc[r] \in {"recordFailure", "showFailure"} \/ (pc[r] = "next" /\ todo[r] = {})
        /\ Fault("dberror")
  /\ End(r, FALSE)
  /\ UNCHANGED <<tables, accepted, report>>

Crash(r) ==
  /\ pc[r] \in Active
  /\ Fault("crash")
  /\ End(r, FALSE)
  /\ UNCHANGED <<tables, accepted, report>>

\* The job queue's timeout: the run goes on, the queue tries again.
Abandon(r) ==
  /\ pc[r] \in Active
  /\ r \notin abandoned
  /\ Fault("abandon")
  /\ abandoned' = abandoned \union {r}
  /\ UNCHANGED <<tables, accepted, report, runVars, jobDone>>

-----------------------------------------------------------------------------
Step(r) ==
  \/ Begin(r)
  \/ NextChannel(r)
  \/ Finish(r)
  \/ Create(r)
  \/ Find(r)
  \/ Count(r)
  \/ Show(r)
  \/ DispatchAccepted(r)
  \/ Record(r)
  \/ RecordFailure(r)
  \/ ShowFailure(r)

Next ==
  /\ \/ \E r \in Run : \/ Step(r)
                       \/ DispatchRefused(r)
                       \/ DispatchTimedOut(r)
                       \/ RecordError(r)
                       \/ RunFails(r)
                       \/ Crash(r)
                       \/ Abandon(r)
     \/ \E c \in Channel : ReportDelivery(c) \/ ShowDelivery(c)
  /\ UNCHANGED unroutable

Spec == Init /\ [][Next]_vars

\* The queue retries, statements and providers are answered.
Fairness ==
  \A r \in Run :
    WF_vars((Step(r) \/ RecordError(r) \/ RunFails(r)) /\ UNCHANGED unroutable)

FairSpec == Spec /\ Fairness

-----------------------------------------------------------------------------
\* Correctness

TypeOK ==
  /\ unroutable \subseteq Channel
  /\ intent \in {"PENDING", "DISPATCHED"}
  /\ notification \in [Channel -> NotificationStatus]
  /\ attempt \in [Channel -> [Run -> AttemptStatus]]
  /\ accepted \in [Channel -> SUBSET Run]
  /\ report \subseteq Channel
  /\ pc \in [Run -> PC]
  /\ todo \in [Run -> SUBSET Channel]
  /\ channel \in [Run -> Channel]
  /\ number \in [Run -> Run]
  /\ outcome \in [Run -> AttemptStatus]
  /\ transient \subseteq Run
  /\ abandoned \subseteq Run
  /\ jobDone \in BOOLEAN
  /\ faults \in [FaultKind -> Nat]

\* An intent is DISPATCHED only when every channel has an attempt that the
\* provider accepted or refused for good: no channel is left on a failure that
\* a retry might mend, whichever of the overlapping runs marked the intent.
DispatchedMeansSettled ==
  intent = "DISPATCHED" =>
    \A c \in Channel : \E n \in Run : attempt[c][n] \in Success \union {"perm"}

\* Crashes, refusals, failed reads and lost answers do not make a provider accept
\* a second message for a channel.  It takes a run beside its successor, a call
\* that is given up, or a failed insert of the record: the catch block takes that
\* for a failure of the provider, and the next attempt has another key.
OneMessagePerChannel ==
  (\A kind \in {"abandon", "slow", "dberror"} : faults[kind] = 0) =>
    \A c \in Channel : Cardinality(accepted[c]) <= 1

\* What a notification shows was earned: SENT or DELIVERED stands for a recorded
\* message that the provider accepted, whatever run or report wrote it last.
ShownIsTrue ==
  \A c \in Channel :
    notification[c] \in Success => \E n \in accepted[c] : attempt[c][n] \in Success

\* As long as runs do not overlap and fewer of them fail than the job has
\* attempts, the intent is dispatched, whatever faults made them fail.
EventuallyDispatched ==
  <>(\/ intent = "DISPATCHED"
     \/ Happened({"abandon"}) > 0
     \/ Happened({"crash", "transient", "slow", "readerror", "dberror", "lostack"}) >= MaxRuns)

=============================================================================
