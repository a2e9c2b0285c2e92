--------------------- MODULE NotificationDelivery_proofs ---------------------
(***************************************************************************)
(* Proofs about NotificationDelivery, for every set of channels, every     *)
(* number of runs and any faults.                                          *)
(*                                                                         *)
(* CountInv   a run records one attempt per channel at most, so that the   *)
(*            attempts are fewer than the runs when one is about to record *)
(* RunInv     what a run may rely on where it stands                       *)
(* IInv       these with what attempts and reports say of the provider,    *)
(*            and the two properties of intents and notifications          *)
(* AloneInv   what holds besides as long as runs follow one another        *)
(***************************************************************************)
EXTENDS NotificationDelivery, FiniteSetTheorems, TLAPS

-----------------------------------------------------------------------------
\* Invariants

Settled(c) == \E n \in Run : attempt[c][n] \in Success \union {"perm"}
Succeeded(c) == \E n \in Run : attempt[c][n] \in Success

\* The run has still to record an attempt on the channel.
Pending(r, c) ==
  /\ channel[r] = c
  /\ \/ pc[r] \in {"create", "find", "count", "dispatch", "record"}
     \/ pc[r] = "recordFailure" /\ attempt[c][number[r]] = "none"

\* Runs that will record nothing more on a channel
Done(c) ==
  {r \in Run : pc[r] = "over" \/ (pc[r] # "waiting" /\ c \notin todo[r] /\ ~Pending(r, c))}

CountInv == \A c \in Channel : Cardinality(Recorded(c)) <= Cardinality(Done(c))

RunInv(r) ==
  /\ pc[r] \in {"skip", "show"} => outcome[r] \in Success /\ Succeeded(channel[r])
  /\ pc[r] = "show" => attempt[channel[r]][number[r]] # "none"
  /\ pc[r] = "record" => outcome[r] \in Success /\ number[r] \in accepted[channel[r]]
  /\ pc[r] \in {"recordFailure", "showFailure"} => outcome[r] \in Failure
  /\ pc[r] = "showFailure" => outcome[r] = "trans" \/ Settled(channel[r])
  /\ pc[r] \in Active \ {"next"} => channel[r] \notin todo[r]
  /\ pc[r] \in Active => \A c \in Channel \ todo[r] :
       Settled(c) \/ r \in transient \/ (pc[r] # "next" /\ c = channel[r])

AcceptedInv == \A c \in Channel, n \in Run : attempt[c][n] \in Success => n \in accepted[c]

ReportInv == \A c \in report : Succeeded(c)

IInv ==
  /\ TypeOK
  /\ CountInv
  /\ \A r \in Run : RunInv(r)
  /\ AcceptedInv /\ ReportInv
  /\ DispatchedMeansSettled /\ ShownIsTrue

LEMMA Statuses ==
  /\ Success \subseteq AttemptStatus \ {"none"} /\ Failure \subseteq AttemptStatus \ {"none"}
  /\ Success \intersect Failure = {} /\ "none" \in AttemptStatus
  /\ Success \subseteq NotificationStatus
  /\ "perm" \in Failure /\ "trans" \in Failure /\ "perm" \notin Success /\ "trans" \notin Success
BY DEF Success, Failure, AttemptStatus, NotificationStatus

LEMMA RunFinite ==
  /\ IsFiniteSet(Run) /\ Cardinality(Run) = MaxRuns
  /\ \A S \in SUBSET Run : IsFiniteSet(S) /\ Cardinality(S) \in Nat /\ Cardinality(S) <= MaxRuns
<1>1. IsFiniteSet(Run) /\ Cardinality(Run) = MaxRuns
  BY FS_Interval, ConstantsAssumption DEF Run
<1>2. ASSUME NEW S \in SUBSET Run
      PROVE  IsFiniteSet(S) /\ Cardinality(S) \in Nat /\ Cardinality(S) <= MaxRuns
  BY <1>1, FS_Subset, FS_CardinalityType
<1> QED BY <1>1, <1>2

LEMMA InitInv == Init => IInv
<1> SUFFICES ASSUME Init PROVE IInv
  OBVIOUS
<1>1. TypeOK
  <2>1. (CHOOSE c \in Channel : TRUE) \in Channel
    BY ConstantsAssumption
  <2>2. 1 \in Run
    BY ConstantsAssumption DEF Run
  <2> QED BY <2>1, <2>2, ConstantsAssumption
        DEF Init, TypeOK, NotificationStatus, AttemptStatus, PC, NoAnswer
<1>2. \A c \in Channel : Recorded(c) = {} /\ Done(c) = {}
  BY DEF Init, Recorded, Done
<1>3. CountInv
  BY <1>2, FS_EmptySet DEF CountInv
<1> QED BY <1>1, <1>3, Statuses
      DEF Init, IInv, RunInv, AcceptedInv, ReportInv, DispatchedMeansSettled, ShownIsTrue, Active, Reading,
          Success

-----------------------------------------------------------------------------
\* What all steps have in common

\* What is recorded stays, and a success stays one.
Grows ==
  \A c \in Channel :
    /\ accepted[c] \subseteq accepted'[c]
    /\ \A n \in Run :
         /\ attempt[c][n] # "none" => attempt'[c][n] # "none"
         /\ attempt[c][n] \in Success => attempt'[c][n] \in Success
         /\ attempt[c][n] = "perm" => attempt'[c][n] = "perm"

Others(r) ==
  \A s \in Run \ {r} :
    /\ pc'[s] = pc[s] /\ todo'[s] = todo[s] /\ channel'[s] = channel[s]
    /\ number'[s] = number[s] /\ outcome'[s] = outcome[s]
    /\ s \in transient => s \in transient'

LEMMA GrowsKeeps ==
  ASSUME Grows
  PROVE  \A c \in Channel :
           (Settled(c) => Settled(c)') /\ (Succeeded(c) => Succeeded(c)')
           /\ (\A n \in accepted[c] : n \in Run /\ attempt[c][n] \in Success =>
                 n \in accepted'[c] /\ attempt'[c][n] \in Success)
BY DEF Grows, Settled, Succeeded

LEMMA OthersInv ==
  ASSUME TypeOK, NEW s \in Run, RunInv(s), Grows,
         pc'[s] = pc[s], todo'[s] = todo[s], channel'[s] = channel[s],
         number'[s] = number[s], outcome'[s] = outcome[s], s \in transient => s \in transient'
  PROVE  RunInv(s)'
<1>1. channel[s] \in Channel /\ number[s] \in Run
  BY DEF TypeOK
<1>2. /\ \A c \in Channel : Settled(c) => Settled(c)'
      /\ \A c \in Channel, n \in Run : attempt[c][n] # "none" => attempt'[c][n] # "none"
      /\ \A c \in Channel : Succeeded(c) => Succeeded(c)'
      /\ \A c \in Channel : accepted[c] \subseteq accepted'[c]
  BY GrowsKeeps DEF Grows
<1> QED BY <1>1, <1>2 DEF RunInv

LEMMA OthersDone ==
  ASSUME TypeOK, NEW s \in Run, NEW c \in Channel, Grows,
         pc'[s] = pc[s], todo'[s] = todo[s], channel'[s] = channel[s], number'[s] = number[s],
         s \in Done(c)
  PROVE  s \in Done(c)'
<1>1. number[s] \in Run
  BY DEF TypeOK
<1> QED BY <1>1 DEF Done, Pending, Grows

\* A step of a run that records nothing.
LEMMA QuietStep ==
  ASSUME IInv, NEW r \in Run, TypeOK', Others(r), attempt' = attempt,
         \A c \in Channel : accepted[c] \subseteq accepted'[c],
         \A c \in Channel : r \in Done(c) => r \in Done(c)',
         report' = report, RunInv(r)', DispatchedMeansSettled', ShownIsTrue'
  PROVE  IInv'
<1>1. Grows
  BY DEF Grows
<1>2. \A s \in Run : RunInv(s)'
  BY <1>1, OthersInv DEF IInv, Others
<1>3. ASSUME NEW c \in Channel PROVE Cardinality(Recorded(c)') <= Cardinality(Done(c)')
  <2>1. Recorded(c)' = Recorded(c)
    BY DEF Recorded
  <2>2. Done(c) \subseteq Done(c)'
    BY <1>1, OthersDone DEF IInv, Others, Done
  <2>3. Done(c)' \in SUBSET Run /\ Recorded(c) \in SUBSET Run /\ Done(c) \in SUBSET Run
    BY DEF Done, Recorded
  <2>4. Cardinality(Done(c)) <= Cardinality(Done(c)')
    BY <2>2, <2>3, RunFinite, FS_Subset
  <2> QED BY <2>1, <2>3, <2>4, RunFinite DEF IInv, CountInv
<1>4. AcceptedInv' /\ ReportInv'
  BY DEF IInv, AcceptedInv, ReportInv, Succeeded
<1> QED BY <1>2, <1>3, <1>4 DEF IInv, CountInv

\* A run records its attempt.
LEMMA InsertStep ==
  ASSUME IInv, NEW r \in Run, pc[r] \in {"record", "recordFailure"}, Insert(r), Others(r),
         pc'[r] \in {"show", "recordFailure", "showFailure"},
         UNCHANGED <<accepted, report, todo, channel, number>>, TypeOK',
         \A c \in Channel \ todo[r] : Settled(c) \/ r \in transient' \/ c = channel[r],
         RunInv(r)'
  PROVE  IInv'
<1> DEFINE d == channel[r]
           m == number[r]
<1>0. TypeOK /\ d \in Channel /\ m \in Run /\ outcome[r] \in Success \union Failure
  BY DEF IInv, RunInv, TypeOK
<1>1. /\ attempt[d][m] = "none" /\ attempt'[d][m] = outcome[r]
      /\ \A n \in Run \ {m} : attempt'[d][n] = attempt[d][n]
      /\ \A c \in Channel \ {d} : attempt'[c] = attempt[c]
  BY <1>0 DEF Insert, TypeOK
<1>2. outcome[r] \in Success => m \in accepted[d]
  BY Statuses DEF IInv, RunInv
<1>3. Grows
  BY <1>1, Statuses DEF Grows
<1>4. \A s \in Run : RunInv(s)'
  BY <1>0, <1>3, OthersInv DEF IInv, Others
<1>5. AcceptedInv' /\ ReportInv'
  BY <1>0, <1>1, <1>2, <1>3, GrowsKeeps DEF IInv, AcceptedInv, ReportInv, TypeOK
<1>6. DispatchedMeansSettled' /\ ShownIsTrue'
  BY <1>0, <1>3, GrowsKeeps DEF IInv, DispatchedMeansSettled, ShownIsTrue, Insert, Settled, TypeOK
<1>7. ASSUME NEW c \in Channel PROVE Cardinality(Recorded(c)') <= Cardinality(Done(c)')
  <2>1. \A s \in Run \ {r} : s \in Done(c) => s \in Done(c)'
    BY <1>0, <1>3, OthersDone DEF Others
  <2>2. Done(c)' \in SUBSET Run /\ Done(c) \in SUBSET Run /\ Recorded(c) \in SUBSET Run
    BY DEF Done, Recorded
  <2>3. r \notin Done(d) /\ \A e \in Channel : r \in Done(e) \/ e = d => r \in Done(e)'
    <3>1. r \notin Done(d)
      BY <1>1 DEF Done, Pending
    <3>2. r \in Done(d)'
      <4>1. d \notin todo[r]
        BY DEF IInv, RunInv, Active
      <4> QED BY <1>0, <1>1, <4>1, Statuses DEF Done, Pending
    <3>3. \A e \in Channel \ {d} : r \in Done(e) => r \in Done(e)'
      BY DEF Done, Pending
    <3> QED BY <3>1, <3>2, <3>3
  <2>4. CASE c = d
    <3>1. Recorded(c)' = Recorded(c) \union {m} /\ m \notin Recorded(c)
      BY <1>0, <1>1, <2>4, Statuses DEF Recorded
    <3>2. Done(c) \union {r} \in SUBSET Done(c)' /\ r \notin Done(c)
      BY <2>1, <2>2, <2>3, <2>4
    <3>3. Cardinality(Recorded(c)') = Cardinality(Recorded(c)) + 1
      BY <2>2, <3>1, RunFinite, FS_AddElement
    <3>4. Cardinality(Done(c) \union {r}) = Cardinality(Done(c)) + 1
      BY <2>2, <3>2, RunFinite, FS_AddElement
    <3>5. Cardinality(Done(c) \union {r}) <= Cardinality(Done(c)')
      BY <2>2, <3>2, RunFinite, FS_Subset
    <3>6. Cardinality(Done(c)') \in Nat
      BY <2>2, RunFinite
    <3> QED BY <2>2, <3>3, <3>4, <3>5, <3>6, RunFinite DEF IInv, CountInv
  <2>5. CASE c # d
    <3>1. Recorded(c)' = Recorded(c)
      BY <1>1, <2>5 DEF Recorded
    <3>2. Done(c) \in SUBSET Done(c)'
      BY <2>1, <2>2, <2>3, <2>5
    <3>3. Cardinality(Done(c)) <= Cardinality(Done(c)')
      BY <2>2, <3>2, RunFinite, FS_Subset
    <3> QED BY <2>2, <3>1, <3>3, RunFinite DEF IInv, CountInv
  <2> QED BY <2>4, <2>5
<1> QED BY <1>0, <1>4, <1>5, <1>6, <1>7 DEF IInv, CountInv

-----------------------------------------------------------------------------
\* Runs

\* The changes a step of a run makes to its own variables
Moves(r, label, t, c, n, o) ==
  /\ pc' = [pc EXCEPT ![r] = label] /\ todo' = [todo EXCEPT ![r] = t]
  /\ channel' = [channel EXCEPT ![r] = c] /\ number' = [number EXCEPT ![r] = n]
  /\ outcome' = [outcome EXCEPT ![r] = o]

LEMMA MovesOthers ==
  ASSUME TypeOK, NEW r \in Run, NEW label \in PC, NEW t \in SUBSET Channel, NEW c \in Channel,
         NEW n \in Run, NEW o \in AttemptStatus, Moves(r, label, t, c, n, o),
         transient \subseteq transient'
  PROVE  /\ Others(r)
         /\ pc' \in [Run -> PC] /\ todo' \in [Run -> SUBSET Channel] /\ channel' \in [Run -> Channel]
         /\ number' \in [Run -> Run] /\ outcome' \in [Run -> AttemptStatus]
         /\ pc'[r] = label /\ todo'[r] = t /\ channel'[r] = c /\ number'[r] = n /\ outcome'[r] = o
BY DEF Moves, TypeOK, Others

LEMMA FaultType ==
  ASSUME TypeOK, NEW kind, Fault(kind)
  PROVE  faults' \in [FaultKind -> Nat]
<1>1. kind \in FaultKind
  BY ConstantsAssumption DEF Fault
<1>2. PICK n \in Nat : n = faults[kind]
  BY <1>1 DEF TypeOK
<1> QED BY <1>1, <1>2 DEF Fault, TypeOK

\* Nothing is lost on a channel when a run does not go back on it.
LEMMA Onward ==
  ASSUME NEW r \in Run, pc'[r] # "waiting", \A c \in Channel : c \in todo'[r] => c \in todo[r],
         pc[r] # "over", \A c \in Channel \ todo[r] : Pending(r, c)' => Pending(r, c)
  PROVE  \A c \in Channel : r \in Done(c) => r \in Done(c)'
BY DEF Done

LEMMA BeginInv ==
  ASSUME IInv, NEW r \in Run, Begin(r), unroutable' = unroutable
  PROVE  IInv'
<1>0. TypeOK /\ RunInv(r) /\ todo[r] \in SUBSET Channel /\ channel[r] \in Channel
      /\ number[r] \in Run /\ outcome[r] \in AttemptStatus
  BY DEF IInv, TypeOK
<1>1. PICK label \in {"next", "over"}, t \in {Channel, todo[r]} :
        /\ Moves(r, label, t, channel[r], number[r], outcome[r])
        /\ label = "next" => t = Channel
  <2>1. CASE intent = "PENDING"
    BY <1>0, <2>1 DEF Begin, Goto, Moves, TypeOK
  <2>2. CASE intent # "PENDING"
    BY <1>0, <2>2 DEF Begin, Goto, Moves, TypeOK
  <2> QED BY <2>1, <2>2
<1>2. label \in PC /\ t \in SUBSET Channel
  BY <1>0 DEF PC, Active
<1>3. /\ UNCHANGED <<intent, notification, attempt, accepted, report, transient, abandoned, faults>>
      /\ jobDone' \in BOOLEAN /\ pc[r] = "waiting"
  BY <1>0 DEF Begin, tables, TypeOK
<1>4. /\ Others(r) /\ pc'[r] = label /\ todo'[r] = t
      /\ pc' \in [Run -> PC] /\ todo' \in [Run -> SUBSET Channel] /\ channel' \in [Run -> Channel]
      /\ number' \in [Run -> Run] /\ outcome' \in [Run -> AttemptStatus]
  BY <1>0, <1>1, <1>2, <1>3, MovesOthers
<1>5. TypeOK'
  BY <1>0, <1>3, <1>4 DEF TypeOK
<1>6. RunInv(r)'
  BY <1>1, <1>4 DEF RunInv, Active, Reading
<1>7. \A c \in Channel : r \in Done(c) => r \in Done(c)'
  BY <1>3 DEF Done
<1>8. DispatchedMeansSettled' /\ ShownIsTrue'
  BY <1>3 DEF IInv, DispatchedMeansSettled, ShownIsTrue
<1> QED BY <1>3, <1>4, <1>5, <1>6, <1>7, <1>8, QuietStep

LEMMA NextChannelInv ==
  ASSUME IInv, NEW r \in Run, NextChannel(r), unroutable' = unroutable
  PROVE  IInv'
<1>0. TypeOK /\ RunInv(r) /\ todo[r] \in SUBSET Channel /\ channel[r] \in Channel
      /\ number[r] \in Run /\ outcome[r] \in AttemptStatus
  BY DEF IInv, TypeOK
<1>1. PICK d \in Channel, t \in SUBSET Channel :
        d \in todo[r] /\ t = todo[r] \ {d} /\ Moves(r, "create", t, d, number[r], outcome[r])
  <2>1. PICK d \in todo[r] : channel' = [channel EXCEPT ![r] = d] /\ todo' = [todo EXCEPT ![r] = @ \ {d}]
    BY DEF NextChannel
  <2>2. d \in Channel /\ todo[r] \ {d} \in SUBSET Channel
    BY <1>0
  <2>3. Moves(r, "create", todo[r] \ {d}, d, number[r], outcome[r])
    BY <1>0, <2>1 DEF NextChannel, Goto, Moves, TypeOK
  <2> QED BY <2>2, <2>3
<1>2. "create" \in PC
  BY DEF PC, Active, Reading
<1>3. /\ UNCHANGED <<intent, notification, attempt, accepted, report, transient, abandoned, jobDone, faults>>
      /\ pc[r] = "next"
  BY DEF NextChannel, tables, queueVars
<1>4. /\ Others(r) /\ pc'[r] = "create" /\ todo'[r] = t /\ channel'[r] = d
      /\ pc' \in [Run -> PC] /\ todo' \in [Run -> SUBSET Channel] /\ channel' \in [Run -> Channel]
      /\ number' \in [Run -> Run] /\ outcome' \in [Run -> AttemptStatus]
  <2>1. Moves(r, "create", t, d, number[r], outcome[r])
    BY <1>1
  <2> QED BY <1>0, <1>2, <1>3, <2>1, MovesOthers
<1>5. TypeOK'
  BY <1>0, <1>3, <1>4 DEF TypeOK
<1>6. RunInv(r)'
  BY <1>0, <1>1, <1>3, <1>4 DEF RunInv, Settled, Active, Reading
<1>7. \A c \in Channel : r \in Done(c) => r \in Done(c)'
  BY <1>1, <1>3, <1>4, Onward DEF Pending
<1>8. DispatchedMeansSettled' /\ ShownIsTrue'
  BY <1>3 DEF IInv, DispatchedMeansSettled, ShownIsTrue
<1> QED BY <1>3, <1>4, <1>5, <1>6, <1>7, <1>8, QuietStep

LEMMA FinishInv ==
  ASSUME IInv, NEW r \in Run, Finish(r), unroutable' = unroutable
  PROVE  IInv'
<1>0. TypeOK /\ RunInv(r) /\ todo[r] \in SUBSET Channel /\ channel[r] \in Channel
      /\ number[r] \in Run /\ outcome[r] \in AttemptStatus
  BY DEF IInv, TypeOK
<1>1. Moves(r, "over", todo[r], channel[r], number[r], outcome[r])
  BY <1>0 DEF Finish, End, Goto, Moves, TypeOK
<1>2. "over" \in PC
  BY DEF PC
<1>3. /\ UNCHANGED <<notification, attempt, accepted, report, transient, abandoned, faults>>
      /\ pc[r] = "next" /\ todo[r] = {}
      /\ intent' = IF r \in transient THEN intent ELSE "DISPATCHED"
      /\ intent' \in {"PENDING", "DISPATCHED"} /\ jobDone' \in BOOLEAN
  BY <1>0 DEF Finish, End, TypeOK
<1>4. /\ Others(r) /\ pc'[r] = "over"
      /\ pc' \in [Run -> PC] /\ todo' \in [Run -> SUBSET Channel] /\ channel' \in [Run -> Channel]
      /\ number' \in [Run -> Run] /\ outcome' \in [Run -> AttemptStatus]
  BY <1>0, <1>1, <1>2, <1>3, MovesOthers
<1>5. TypeOK'
  BY <1>0, <1>3, <1>4 DEF TypeOK
<1>6. RunInv(r)'
  BY <1>4 DEF RunInv, Active, Reading
<1>7. \A c \in Channel : r \in Done(c) => r \in Done(c)'
  BY <1>4 DEF Done
<1>8. DispatchedMeansSettled'
  <2>1. CASE r \in transient
    BY <1>3, <2>1 DEF IInv, DispatchedMeansSettled
  <2>2. CASE r \notin transient
    <3>1. \A c \in Channel : Settled(c)
      BY <1>0, <1>3, <2>2 DEF RunInv, Active
    <3> QED BY <1>3, <3>1 DEF DispatchedMeansSettled, Settled
  <2> QED BY <2>1, <2>2
<1>9. ShownIsTrue'
  BY <1>3 DEF IInv, ShownIsTrue
<1> QED BY <1>3, <1>4, <1>5, <1>6, <1>7, <1>8, <1>9, QuietStep

LEMMA CreateInv ==
  ASSUME IInv, NEW r \in Run, Create(r), unroutable' = unroutable
  PROVE  IInv'
<1>0. TypeOK /\ RunInv(r) /\ todo[r] \in SUBSET Channel /\ channel[r] \in Channel
      /\ number[r] \in Run /\ outcome[r] \in AttemptStatus
  BY DEF IInv, TypeOK
<1>1. PICK label \in {"count", "find"} :
        Moves(r, label, todo[r], channel[r], number[r], outcome[r])
  BY <1>0 DEF Create, Goto, Moves, TypeOK
<1>2. label \in PC
  BY DEF PC, Active, Reading
<1>3. /\ UNCHANGED <<intent, attempt, accepted, report, transient, abandoned, jobDone, faults>>
      /\ pc[r] = "create"
  BY DEF Create, queueVars
<1>4. /\ Others(r) /\ pc'[r] = label /\ todo'[r] = todo[r] /\ channel'[r] = channel[r]
      /\ pc' \in [Run -> PC] /\ todo' \in [Run -> SUBSET Channel] /\ channel' \in [Run -> Channel]
      /\ number' \in [Run -> Run] /\ outcome' \in [Run -> AttemptStatus]
  BY <1>0, <1>1, <1>2, <1>3, MovesOthers
<1>5. /\ notification' \in [Channel -> NotificationStatus]
      /\ \A c \in Channel : notification'[c] \in Success => notification[c] = notification'[c]
  BY <1>0 DEF Create, TypeOK, NotificationStatus, Success
<1>6. TypeOK'
  BY <1>0, <1>3, <1>4, <1>5 DEF TypeOK
<1>7. RunInv(r)'
  BY <1>0, <1>3, <1>4 DEF RunInv, Settled, Active, Reading
<1>8. \A c \in Channel : r \in Done(c) => r \in Done(c)'
  BY <1>3, <1>4, Onward DEF Pending
<1>9. DispatchedMeansSettled' /\ ShownIsTrue'
  BY <1>3, <1>5 DEF IInv, DispatchedMeansSettled, ShownIsTrue
<1> QED BY <1>3, <1>4, <1>6, <1>7, <1>8, <1>9, QuietStep

LEMMA FindInv ==
  ASSUME IInv, NEW r \in Run, Find(r), unroutable' = unroutable
  PROVE  IInv'
<1>0. TypeOK /\ RunInv(r) /\ todo[r] \in SUBSET Channel /\ channel[r] \in Channel
      /\ number[r] \in Run /\ outcome[r] \in AttemptStatus
  BY DEF IInv, TypeOK
<1>1. PICK label \in {"count", "skip"}, o \in AttemptStatus :
        /\ Moves(r, label, todo[r], channel[r], number[r], o)
        /\ label = "skip" => o \in Success /\ Succeeded(channel[r])
  <2> DEFINE found == {n \in Recorded(channel[r]) : attempt[channel[r]][n] \in Success}
  <2>1. CASE Goto(r, "count") /\ UNCHANGED outcome
    BY <1>0, <2>1 DEF Find, Goto, Moves, TypeOK
  <2>2. CASE \E n \in found : Goto(r, "skip")
                              /\ outcome' = [outcome EXCEPT ![r] = attempt[channel[r]][n]]
    <3>1. PICK n \in found : Goto(r, "skip")
                              /\ outcome' = [outcome EXCEPT ![r] = attempt[channel[r]][n]]
      BY <2>2
    <3>2. n \in Run /\ attempt[channel[r]][n] \in Success
      BY DEF Recorded
    <3>3. Moves(r, "skip", todo[r], channel[r], number[r], attempt[channel[r]][n])
      BY <1>0, <3>1 DEF Find, Goto, Moves, TypeOK
    <3> QED BY <3>2, <3>3, Statuses DEF Succeeded
  <2> QED BY <2>1, <2>2 DEF Find
<1>2. label \in PC
  BY DEF PC, Active, Reading
<1>3. /\ UNCHANGED <<intent, notification, attempt, accepted, report, transient, abandoned, jobDone, faults>>
      /\ pc[r] = "find"
  BY DEF Find, tables, queueVars
<1>4. /\ Others(r) /\ pc'[r] = label /\ todo'[r] = todo[r] /\ channel'[r] = channel[r] /\ outcome'[r] = o
      /\ pc' \in [Run -> PC] /\ todo' \in [Run -> SUBSET Channel] /\ channel' \in [Run -> Channel]
      /\ number' \in [Run -> Run] /\ outcome' \in [Run -> AttemptStatus]
  BY <1>0, <1>1, <1>2, <1>3, MovesOthers
<1>5. TypeOK'
  BY <1>0, <1>3, <1>4 DEF TypeOK
<1>6. RunInv(r)'
  BY <1>0, <1>1, <1>3, <1>4 DEF RunInv, Settled, Succeeded, Active, Reading
<1>7. \A c \in Channel : r \in Done(c) => r \in Done(c)'
  BY <1>3, <1>4, Onward DEF Pending
<1>8. DispatchedMeansSettled' /\ ShownIsTrue'
  BY <1>3 DEF IInv, DispatchedMeansSettled, ShownIsTrue
<1> QED BY <1>3, <1>4, <1>5, <1>6, <1>7, <1>8, QuietStep

LEMMA CountStepInv ==
  ASSUME IInv, NEW r \in Run, Count(r), unroutable' = unroutable
  PROVE  IInv'
<1>0. TypeOK /\ RunInv(r) /\ todo[r] \in SUBSET Channel /\ channel[r] \in Channel
      /\ number[r] \in Run /\ outcome[r] \in AttemptStatus /\ pc[r] = "count"
  BY DEF IInv, TypeOK, Count
<1>1. PICK n \in Run : n = Cardinality(Recorded(channel[r])) + 1
  <2> DEFINE d == channel[r]
  <2>1. Done(d) \in SUBSET Run /\ Done(d) \union {r} \in SUBSET Run /\ Recorded(d) \in SUBSET Run
    BY DEF Done, Recorded
  <2>2. r \notin Done(d)
    BY <1>0 DEF Done, Pending
  <2>3. Cardinality(Done(d) \union {r}) = Cardinality(Done(d)) + 1
    BY <2>1, <2>2, RunFinite, FS_AddElement
  <2>4. Cardinality(Done(d)) + 1 <= MaxRuns /\ Cardinality(Done(d)) \in Nat
    BY <2>1, <2>3, RunFinite
  <2>5. Cardinality(Recorded(d)) <= Cardinality(Done(d)) /\ Cardinality(Recorded(d)) \in Nat
    BY <1>0, <2>1, RunFinite DEF IInv, CountInv
  <2> QED BY <2>4, <2>5, ConstantsAssumption DEF Run
<1>2. PICK label \in {"recordFailure", "dispatch"}, o \in AttemptStatus :
        /\ Moves(r, label, todo[r], channel[r], n, o)
        /\ label = "recordFailure" => o = "perm"
  <2>1. number' = [number EXCEPT ![r] = n] /\ UNCHANGED <<todo, channel>>
    BY <1>1 DEF Count
  <2>2. CASE Goto(r, "recordFailure") /\ outcome' = [outcome EXCEPT ![r] = "perm"]
    <3>1. Moves(r, "recordFailure", todo[r], channel[r], n, "perm")
      BY <1>0, <2>1, <2>2 DEF Goto, Moves, TypeOK
    <3> QED BY <3>1, Statuses
  <2>3. CASE Goto(r, "dispatch") /\ UNCHANGED outcome
    <3>1. Moves(r, "dispatch", todo[r], channel[r], n, outcome[r])
      BY <1>0, <2>1, <2>3 DEF Goto, Moves, TypeOK
    <3> QED BY <1>0, <3>1
  <2> QED BY <2>2, <2>3 DEF Count
<1>3. label \in PC
  BY DEF PC, Active
<1>4. UNCHANGED <<intent, notification, attempt, accepted, report, transient, abandoned, jobDone, faults>>
  BY DEF Count, tables, queueVars
<1>5. /\ Others(r) /\ pc'[r] = label /\ todo'[r] = todo[r] /\ channel'[r] = channel[r] /\ outcome'[r] = o
      /\ pc' \in [Run -> PC] /\ todo' \in [Run -> SUBSET Channel] /\ channel' \in [Run -> Channel]
      /\ number' \in [Run -> Run] /\ outcome' \in [Run -> AttemptStatus]
  BY <1>0, <1>2, <1>3, <1>4, MovesOthers
<1>6. TypeOK'
  BY <1>0, <1>4, <1>5 DEF TypeOK
<1>7. RunInv(r)'
  BY <1>0, <1>2, <1>4, <1>5, Statuses DEF RunInv, Settled, Active, Reading
<1>8. \A c \in Channel : r \in Done(c) => r \in Done(c)'
  BY <1>0, <1>5, Onward DEF Pending
<1>9. DispatchedMeansSettled' /\ ShownIsTrue'
  BY <1>4 DEF IInv, DispatchedMeansSettled, ShownIsTrue
<1> QED BY <1>4, <1>5, <1>6, <1>7, <1>8, <1>9, QuietStep

LEMMA ShowInv ==
  ASSUME IInv, NEW r \in Run, Show(r), unroutable' = unroutable
  PROVE  IInv'
<1>0. TypeOK /\ RunInv(r) /\ todo[r] \in SUBSET Channel /\ channel[r] \in Channel
      /\ number[r] \in Run /\ outcome[r] \in AttemptStatus /\ pc[r] \in {"skip", "show"}
  BY DEF IInv, TypeOK, Show
<1>1. Moves(r, "next", todo[r], channel[r], number[r], outcome[r]) /\ "next" \in PC
  BY <1>0 DEF Show, Goto, Moves, TypeOK, PC, Active
<1>2. UNCHANGED <<intent, attempt, accepted, report, transient, abandoned, jobDone, faults>>
  BY DEF Show, queueVars
<1>3. /\ Others(r) /\ pc'[r] = "next" /\ todo'[r] = todo[r] /\ channel'[r] = channel[r]
      /\ pc' \in [Run -> PC] /\ todo' \in [Run -> SUBSET Channel] /\ channel' \in [Run -> Channel]
      /\ number' \in [Run -> Run] /\ outcome' \in [Run -> AttemptStatus]
  <2>1. Moves(r, "next", todo[r], channel[r], number[r], outcome[r])
    BY <1>1
  <2>2. "next" \in PC
    BY <1>1
  <2>3. transient \subseteq transient'
    BY <1>2
  <2>4. TypeOK /\ todo[r] \in SUBSET Channel /\ channel[r] \in Channel /\ number[r] \in Run
        /\ outcome[r] \in AttemptStatus
    BY <1>0
  <2> QED BY <2>1, <2>2, <2>3, <2>4, MovesOthers
<1>4. /\ outcome[r] \in Success
      /\ \E n \in accepted[channel[r]] : attempt[channel[r]][n] \in Success
      /\ Settled(channel[r])
  <2>1. outcome[r] \in Success /\ Succeeded(channel[r])
    BY <1>0 DEF RunInv
  <2>2. PICK n \in Run : attempt[channel[r]][n] \in Success
    BY <2>1 DEF Succeeded
  <2>3. n \in accepted[channel[r]]
    BY <1>0, <2>2 DEF IInv, AcceptedInv
  <2> QED BY <2>1, <2>2, <2>3 DEF Settled
<1>5. /\ notification' \in [Channel -> NotificationStatus]
      /\ \A c \in Channel : c = channel[r] \/ notification'[c] = notification[c]
  BY <1>0, <1>4, Statuses DEF Show, TypeOK
<1>6. TypeOK'
  BY <1>0, <1>2, <1>3, <1>5 DEF TypeOK
<1>7. RunInv(r)'
  BY <1>0, <1>2, <1>3, <1>4 DEF RunInv, Settled, Active, Reading
<1>8. \A c \in Channel : r \in Done(c) => r \in Done(c)'
  BY <1>0, <1>3, Onward DEF Pending
<1>9. DispatchedMeansSettled' /\ ShownIsTrue'
  BY <1>2, <1>4, <1>5 DEF IInv, DispatchedMeansSettled, ShownIsTrue
<1> QED BY <1>2, <1>3, <1>6, <1>7, <1>8, <1>9, QuietStep

-----------------------------------------------------------------------------
\* Providers

\* The run has an answer, or gives up waiting for it.
LEMMA Answered ==
  ASSUME IInv, NEW r \in Run, pc[r] = "dispatch", unroutable' = unroutable,
         NEW label \in {"record", "recordFailure"}, NEW o \in Success \union Failure,
         Goto(r, label), outcome' = [outcome EXCEPT ![r] = o],
         UNCHANGED <<tables, report, todo, channel, number, transient, queueVars>>,
         faults' \in [FaultKind -> Nat], AcceptMessage(r) \/ UNCHANGED accepted,
         IF label = "record" THEN o \in Success /\ AcceptMessage(r) ELSE o \in Failure
  PROVE  IInv'
<1>0. TypeOK /\ RunInv(r) /\ todo[r] \in SUBSET Channel /\ channel[r] \in Channel
      /\ number[r] \in Run /\ o \in AttemptStatus /\ label \in PC
  BY Statuses DEF IInv, TypeOK, PC, Active
<1>1. Moves(r, label, todo[r], channel[r], number[r], o)
  BY <1>0 DEF Goto, Moves, TypeOK
<1>2. UNCHANGED <<intent, notification, attempt, report, transient, abandoned, jobDone>>
  BY DEF tables, queueVars
<1>3. /\ Others(r) /\ pc'[r] = label /\ todo'[r] = todo[r] /\ channel'[r] = channel[r]
      /\ number'[r] = number[r] /\ outcome'[r] = o
      /\ pc' \in [Run -> PC] /\ todo' \in [Run -> SUBSET Channel] /\ channel' \in [Run -> Channel]
      /\ number' \in [Run -> Run] /\ outcome' \in [Run -> AttemptStatus]
  BY <1>0, <1>1, <1>2, MovesOthers
<1>4. /\ accepted' \in [Channel -> SUBSET Run]
      /\ \A c \in Channel : accepted[c] \subseteq accepted'[c]
      /\ label = "record" => number[r] \in accepted'[channel[r]]
  <2>1. CASE AcceptMessage(r)
    BY <1>0, <2>1 DEF AcceptMessage, TypeOK
  <2>2. CASE UNCHANGED accepted /\ label # "record"
    BY <1>0, <2>2 DEF TypeOK
  <2> QED BY <2>1, <2>2
<1>5. TypeOK'
  BY <1>0, <1>2, <1>3, <1>4 DEF TypeOK
<1>6. RunInv(r)'
  BY <1>0, <1>2, <1>3, <1>4 DEF RunInv, Settled, Active, Reading
<1>7. \A c \in Channel : r \in Done(c) => r \in Done(c)'
  BY <1>3, Onward DEF Pending
<1>8. DispatchedMeansSettled' /\ ShownIsTrue'
  BY <1>2, <1>4 DEF IInv, DispatchedMeansSettled, ShownIsTrue
<1> QED BY <1>2, <1>3, <1>4, <1>5, <1>6, <1>7, <1>8, QuietStep

LEMMA DispatchInv ==
  ASSUME IInv, NEW r \in Run, unroutable' = unroutable,
         DispatchAccepted(r) \/ DispatchRefused(r) \/ DispatchTimedOut(r)
  PROVE  IInv'
<1>0. TypeOK /\ faults \in [FaultKind -> Nat]
  BY DEF IInv, TypeOK
<1>1. CASE DispatchAccepted(r)
  <2> DEFINE o == IF channel[r] \in Instant THEN "DELIVERED" ELSE "SENT"
  <2>1. /\ pc[r] = "dispatch" /\ Goto(r, "record") /\ AcceptMessage(r)
        /\ outcome' = [outcome EXCEPT ![r] = o]
        /\ UNCHANGED <<tables, report, todo, channel, number, transient, queueVars>>
        /\ faults' \in [FaultKind -> Nat]
    BY <1>0, <1>1 DEF DispatchAccepted
  <2>2. o \in Success
    BY DEF Success
  <2> HIDE DEF o
  <2> QED BY <2>1, <2>2, Answered
<1>2. ASSUME NEW class \in Failure, NEW kind, Fault(kind), DispatchRejected(r, class),
             AcceptMessage(r) \/ UNCHANGED accepted
      PROVE  IInv'
  <2>1. /\ pc[r] = "dispatch" /\ Goto(r, "recordFailure")
        /\ outcome' = [outcome EXCEPT ![r] = class]
        /\ UNCHANGED <<tables, report, todo, channel, number, transient, queueVars>>
    BY <1>2 DEF DispatchRejected
  <2>2. faults' \in [FaultKind -> Nat]
    BY <1>0, <1>2, FaultType
  <2> QED BY <1>2, <2>1, <2>2, Answered
<1>3. CASE DispatchRefused(r)
  BY <1>2, <1>3, Statuses DEF DispatchRefused
<1>4. CASE DispatchTimedOut(r)
  BY <1>2, <1>4, Statuses DEF DispatchTimedOut
<1> QED BY <1>1, <1>3, <1>4

-----------------------------------------------------------------------------
\* Records

LEMMA RecordInv ==
  ASSUME IInv, NEW r \in Run, Record(r), unroutable' = unroutable
  PROVE  IInv'
<1>0. TypeOK /\ RunInv(r) /\ todo[r] \in SUBSET Channel /\ channel[r] \in Channel
      /\ number[r] \in Run /\ outcome[r] \in AttemptStatus /\ pc[r] = "record"
      /\ outcome[r] \in Success
  BY DEF IInv, TypeOK, Record, RunInv
<1>1. Moves(r, "show", todo[r], channel[r], number[r], outcome[r]) /\ "show" \in PC
  BY <1>0 DEF Record, Goto, Moves, TypeOK, PC, Active
<1>2. /\ UNCHANGED <<intent, notification, accepted, report, transient, abandoned, jobDone, faults>>
      /\ UNCHANGED <<todo, channel, number>>
      /\ Insert(r)
  BY DEF Record, queueVars, Insert
<1>3. /\ Others(r) /\ pc'[r] = "show" /\ todo'[r] = todo[r] /\ channel'[r] = channel[r]
      /\ number'[r] = number[r] /\ outcome'[r] = outcome[r]
      /\ pc' \in [Run -> PC] /\ todo' \in [Run -> SUBSET Channel] /\ channel' \in [Run -> Channel]
      /\ number' \in [Run -> Run] /\ outcome' \in [Run -> AttemptStatus]
  <2>1. Moves(r, "show", todo[r], channel[r], number[r], outcome[r])
    BY <1>1
  <2>2. "show" \in PC
    BY <1>1
  <2>3. transient \subseteq transient'
    BY <1>2
  <2>4. TypeOK /\ todo[r] \in SUBSET Channel /\ channel[r] \in Channel /\ number[r] \in Run
        /\ outcome[r] \in AttemptStatus
    BY <1>0
  <2> QED BY <2>1, <2>2, <2>3, <2>4, MovesOthers
<1>4. /\ attempt' \in [Channel -> [Run -> AttemptStatus]]
      /\ attempt'[channel[r]][number[r]] = outcome[r]
      /\ \A c \in Channel \ {channel[r]} : attempt'[c] = attempt[c]
  BY <1>0, <1>2 DEF Insert, TypeOK
<1>5. TypeOK'
  BY <1>0, <1>2, <1>3, <1>4 DEF TypeOK
<1>6. \A c \in Channel \ todo[r] : Settled(c) \/ r \in transient' \/ c = channel[r]
  BY <1>0, <1>2 DEF RunInv, Active
<1>7. RunInv(r)'
  <2>1. Succeeded(channel[r])' /\ attempt'[channel[r]][number[r]] # "none"
    BY <1>0, <1>3, <1>4, Statuses DEF Succeeded
  <2>2. \A c \in Channel \ todo[r] : Settled(c)' \/ r \in transient' \/ c = channel[r]
    BY <1>4, <1>6 DEF Settled
  <2>3. channel[r] \notin todo[r]
    BY <1>0 DEF RunInv, Active
  <2> QED BY <1>0, <1>3, <2>1, <2>2, <2>3 DEF RunInv, Succeeded
<1> QED BY <1>0, <1>2, <1>3, <1>5, <1>6, <1>7, InsertStep

LEMMA RecordErrorInv ==
  ASSUME IInv, NEW r \in Run, RecordError(r), unroutable' = unroutable
  PROVE  IInv'
<1>0. TypeOK /\ RunInv(r) /\ todo[r] \in SUBSET Channel /\ channel[r] \in Channel
      /\ number[r] \in Run /\ pc[r] \in {"record", "show"}
  BY DEF IInv, TypeOK, RecordError, SuccessRejected
<1>1. /\ Moves(r, "recordFailure", todo[r], channel[r], number[r], "trans")
      /\ "recordFailure" \in PC /\ "trans" \in AttemptStatus
  BY <1>0, Statuses DEF RecordError, SuccessRejected, Goto, Moves, TypeOK, PC, Active
<1>2. /\ UNCHANGED <<accepted, report, transient, abandoned, jobDone>>
      /\ UNCHANGED <<todo, channel, number>>
  BY DEF RecordError, SuccessRejected, queueVars
<1>3. /\ Others(r) /\ pc'[r] = "recordFailure" /\ todo'[r] = todo[r] /\ channel'[r] = channel[r]
      /\ number'[r] = number[r] /\ outcome'[r] = "trans"
      /\ pc' \in [Run -> PC] /\ todo' \in [Run -> SUBSET Channel] /\ channel' \in [Run -> Channel]
      /\ number' \in [Run -> Run] /\ outcome' \in [Run -> AttemptStatus]
  BY <1>0, <1>1, <1>2, MovesOthers
<1>4. faults' \in [FaultKind -> Nat]
  <2>1. faults \in [FaultKind -> Nat]
    BY <1>0 DEF TypeOK
  <2> QED BY <1>0, <2>1, FaultType DEF RecordError
<1>5. \A c \in Channel \ todo[r] : Settled(c) \/ r \in transient' \/ c = channel[r]
  BY <1>0, <1>2 DEF RunInv, Active
<1>6. channel[r] \notin todo[r]
  BY <1>0 DEF RunInv, Active
<1>7. CASE UNCHANGED tables
  <2>1. UNCHANGED <<intent, notification, attempt>>
    BY <1>7 DEF tables
  <2>2. TypeOK'
    BY <1>0, <1>2, <1>3, <1>4, <2>1 DEF TypeOK
  <2>3. RunInv(r)'
    BY <1>2, <1>3, <1>5, <1>6, <2>1, Statuses DEF RunInv, Settled
  <2>4. \A c \in Channel : r \in Done(c) => r \in Done(c)'
    <3>1. pc[r] = "show" => attempt[channel[r]][number[r]] # "none"
      BY <1>0 DEF RunInv
    <3> QED BY <1>0, <1>3, <2>1, <3>1, Onward DEF Pending
  <2>5. DispatchedMeansSettled' /\ ShownIsTrue'
    BY <1>2, <2>1 DEF IInv, DispatchedMeansSettled, ShownIsTrue
  <2> QED BY <1>2, <1>3, <2>1, <2>2, <2>3, <2>4, <2>5, QuietStep
<1>8. CASE pc[r] = "record" /\ Insert(r)
  <2>1. outcome[r] \in AttemptStatus /\ UNCHANGED <<intent, notification>>
    BY <1>0, <1>8 DEF TypeOK, Insert
  <2>2. /\ attempt' \in [Channel -> [Run -> AttemptStatus]]
        /\ \A c \in Channel \ {channel[r]} : attempt'[c] = attempt[c]
    BY <1>0, <1>8, <2>1 DEF Insert, TypeOK
  <2>3. TypeOK'
    BY <1>0, <1>2, <1>3, <1>4, <2>1, <2>2 DEF TypeOK
  <2>4. RunInv(r)'
    <3>1. \A c \in Channel \ todo[r] : Settled(c)' \/ r \in transient' \/ c = channel[r]
      BY <1>5, <2>2 DEF Settled
    <3> QED BY <1>3, <1>6, <3>1, Statuses DEF RunInv
  <2> QED BY <1>2, <1>3, <1>5, <1>8, <2>3, <2>4, InsertStep
<1> QED BY <1>7, <1>8 DEF RecordError

LEMMA RecordFailureInv ==
  ASSUME IInv, NEW r \in Run, RecordFailure(r), unroutable' = unroutable
  PROVE  IInv'
<1>0. TypeOK /\ RunInv(r) /\ todo[r] \in SUBSET Channel /\ channel[r] \in Channel
      /\ number[r] \in Run /\ outcome[r] \in AttemptStatus /\ pc[r] = "recordFailure"
      /\ outcome[r] \in Failure
  BY DEF IInv, TypeOK, RecordFailure, RunInv
<1>1. Moves(r, "showFailure", todo[r], channel[r], number[r], outcome[r]) /\ "showFailure" \in PC
  BY <1>0 DEF RecordFailure, Goto, Moves, TypeOK, PC, Active
<1>2. /\ UNCHANGED <<intent, notification, accepted, report, transient, abandoned, jobDone, faults>>
      /\ UNCHANGED <<todo, channel, number>>
      /\ Insert(r)
  BY DEF RecordFailure, queueVars, Insert
<1>3. /\ Others(r) /\ pc'[r] = "showFailure" /\ todo'[r] = todo[r] /\ channel'[r] = channel[r]
      /\ number'[r] = number[r] /\ outcome'[r] = outcome[r]
      /\ pc' \in [Run -> PC] /\ todo' \in [Run -> SUBSET Channel] /\ channel' \in [Run -> Channel]
      /\ number' \in [Run -> Run] /\ outcome' \in [Run -> AttemptStatus]
  <2>1. Moves(r, "showFailure", todo[r], channel[r], number[r], outcome[r])
    BY <1>1
  <2>2. "showFailure" \in PC
    BY <1>1
  <2>3. transient \subseteq transient'
    BY <1>2
  <2>4. TypeOK /\ todo[r] \in SUBSET Channel /\ channel[r] \in Channel /\ number[r] \in Run
        /\ outcome[r] \in AttemptStatus
    BY <1>0
  <2> QED BY <2>1, <2>2, <2>3, <2>4, MovesOthers
<1>4. /\ attempt' \in [Channel -> [Run -> AttemptStatus]]
      /\ attempt'[channel[r]][number[r]] = outcome[r]
      /\ \A c \in Channel \ {channel[r]} : attempt'[c] = attempt[c]
  BY <1>0, <1>2 DEF Insert, TypeOK
<1>5. TypeOK'
  BY <1>0, <1>2, <1>3, <1>4 DEF TypeOK
<1>6. \A c \in Channel \ todo[r] : Settled(c) \/ r \in transient' \/ c = channel[r]
  BY <1>0, <1>2 DEF RunInv, Active
<1>7. RunInv(r)'
  <2>1. outcome[r] = "trans" \/ Settled(channel[r])'
    BY <1>0, <1>3, <1>4 DEF Settled, Failure
  <2>2. \A c \in Channel \ todo[r] : Settled(c)' \/ r \in transient' \/ c = channel[r]
    BY <1>4, <1>6 DEF Settled
  <2>3. channel[r] \notin todo[r]
    BY <1>0 DEF RunInv, Active
  <2> QED BY <1>0, <1>3, <2>1, <2>2, <2>3 DEF RunInv, Settled
<1> QED BY <1>0, <1>2, <1>3, <1>5, <1>6, <1>7, InsertStep

LEMMA ShowFailureInv ==
  ASSUME IInv, NEW r \in Run, ShowFailure(r), unroutable' = unroutable
  PROVE  IInv'
<1>0. TypeOK /\ RunInv(r) /\ todo[r] \in SUBSET Channel /\ channel[r] \in Channel
      /\ number[r] \in Run /\ outcome[r] \in AttemptStatus /\ pc[r] = "showFailure"
  BY DEF IInv, TypeOK, ShowFailure
<1>1. Moves(r, "next", todo[r], channel[r], number[r], outcome[r]) /\ "next" \in PC
  BY <1>0 DEF ShowFailure, Goto, Moves, TypeOK, PC, Active
<1>2. /\ UNCHANGED <<intent, attempt, accepted, report, abandoned, jobDone, faults>>
      /\ transient \subseteq transient' /\ transient' \subseteq Run
      /\ outcome[r] = "trans" => r \in transient'
  BY <1>0 DEF ShowFailure, queueVars, TypeOK
<1>3. /\ Others(r) /\ pc'[r] = "next" /\ todo'[r] = todo[r] /\ channel'[r] = channel[r]
      /\ pc' \in [Run -> PC] /\ todo' \in [Run -> SUBSET Channel] /\ channel' \in [Run -> Channel]
      /\ number' \in [Run -> Run] /\ outcome' \in [Run -> AttemptStatus]
  <2>1. Moves(r, "next", todo[r], channel[r], number[r], outcome[r])
    BY <1>1
  <2>2. "next" \in PC
    BY <1>1
  <2>3. transient \subseteq transient'
    BY <1>2
  <2>4. TypeOK /\ todo[r] \in SUBSET Channel /\ channel[r] \in Channel /\ number[r] \in Run
        /\ outcome[r] \in AttemptStatus
    BY <1>0
  <2> QED BY <2>1, <2>2, <2>3, <2>4, MovesOthers
<1>4. /\ notification' \in [Channel -> NotificationStatus]
      /\ \A c \in Channel : notification'[c] \in Success => notification'[c] = notification[c]
  BY <1>0 DEF ShowFailure, TypeOK, NotificationStatus, Success
<1>5. TypeOK'
  BY <1>0, <1>2, <1>3, <1>4 DEF TypeOK
<1>6. RunInv(r)'
  BY <1>0, <1>2, <1>3 DEF RunInv, Settled, Active, Reading
<1>7. \A c \in Channel : r \in Done(c) => r \in Done(c)'
  BY <1>0, <1>3, Onward DEF Pending
<1>8. DispatchedMeansSettled' /\ ShownIsTrue'
  BY <1>2, <1>4 DEF IInv, DispatchedMeansSettled, ShownIsTrue
<1> QED BY <1>2, <1>3, <1>5, <1>6, <1>7, <1>8, QuietStep

-----------------------------------------------------------------------------
\* Failures, the job queue's timeout and delivery reports

LEMMA EndInv ==
  ASSUME IInv, NEW r \in Run, RunFails(r) \/ Crash(r), unroutable' = unroutable
  PROVE  IInv'
<1>0. TypeOK
  BY DEF IInv
<1>1. End(r, FALSE) /\ UNCHANGED <<tables, accepted, report>>
  BY DEF RunFails, Crash
<1>2. faults' \in [FaultKind -> Nat]
  <2>1. faults \in [FaultKind -> Nat]
    BY <1>0 DEF TypeOK
  <2> QED BY <1>0, <2>1, FaultType DEF RunFails, Crash
<1>3. /\ pc' = [pc EXCEPT ![r] = "over"] /\ jobDone' \in BOOLEAN
      /\ UNCHANGED <<intent, notification, attempt, accepted, report>>
      /\ UNCHANGED <<todo, channel, number, outcome, transient, abandoned>>
  BY <1>0, <1>1 DEF End, Goto, tables, TypeOK
<1>4. Others(r) /\ pc'[r] = "over" /\ pc' \in [Run -> PC]
  BY <1>0, <1>3 DEF Others, TypeOK, PC
<1>5. TypeOK'
  BY <1>0, <1>2, <1>3, <1>4 DEF TypeOK
<1>6. RunInv(r)'
  BY <1>4 DEF RunInv, Active, Reading
<1>7. \A c \in Channel : r \in Done(c) => r \in Done(c)'
  BY <1>4 DEF Done
<1>8. DispatchedMeansSettled' /\ ShownIsTrue'
  BY <1>3 DEF IInv, DispatchedMeansSettled, ShownIsTrue
<1> QED BY <1>3, <1>4, <1>5, <1>6, <1>7, <1>8, QuietStep

LEMMA AbandonInv ==
  ASSUME IInv, NEW r \in Run, Abandon(r), unroutable' = unroutable
  PROVE  IInv'
<1>0. TypeOK
  BY DEF IInv
<1>1. faults' \in [FaultKind -> Nat] /\ abandoned' \subseteq Run
  BY <1>0, FaultType DEF Abandon, TypeOK
<1>2. UNCHANGED <<intent, notification, attempt, accepted, report, pc, todo, channel, number,
                  outcome, transient, jobDone>>
  BY DEF Abandon, tables, runVars
<1>3. TypeOK'
  BY <1>0, <1>1, <1>2 DEF TypeOK
<1> QED BY <1>2, <1>3 DEF IInv, CountInv, RunInv, AcceptedInv, ReportInv, DispatchedMeansSettled,
      ShownIsTrue, Recorded, Done, Pending, Settled, Succeeded

LEMMA ReportDeliveryInv ==
  ASSUME IInv, NEW c \in Channel, ReportDelivery(c), unroutable' = unroutable
  PROVE  IInv'
<1>0. TypeOK /\ AttemptStatus # {} /\ "DELIVERED" \in Success
  BY Statuses DEF IInv, Success
<1>1. PICK n \in accepted[c] : attempt[c][n] = "SENT" /\ attempt' = [attempt EXCEPT ![c][n] = "DELIVERED"]
  BY DEF ReportDelivery
<1>2. n \in Run
  BY <1>0, <1>1 DEF TypeOK
<1>3. /\ UNCHANGED <<intent, notification, accepted, pc, todo, channel, number, outcome, transient,
                     abandoned, jobDone, faults>>
      /\ report' = report \union {c}
  BY DEF ReportDelivery, runVars, queueVars
<1>4. /\ attempt' \in [Channel -> [Run -> AttemptStatus]]
      /\ attempt'[c][n] = "DELIVERED"
      /\ \A m \in Run \ {n} : attempt'[c][m] = attempt[c][m]
      /\ \A d \in Channel \ {c} : attempt'[d] = attempt[d]
  BY <1>0, <1>1, <1>2, Statuses DEF TypeOK
<1>5. TypeOK'
  BY <1>0, <1>3, <1>4 DEF TypeOK
<1>6. Grows
  BY <1>0, <1>1, <1>2, <1>3, <1>4, Statuses DEF Grows
<1>7. \A s \in Run : RunInv(s)'
  <2> TAKE s \in Run
  <2>1. RunInv(s)
    BY DEF IInv
  <2> QED BY <1>0, <1>3, <1>6, <2>1, OthersInv
<1>8. ASSUME NEW d \in Channel PROVE Cardinality(Recorded(d)') <= Cardinality(Done(d)')
  <2>1. Recorded(d)' = Recorded(d)
    BY <1>1, <1>2, <1>4, Statuses DEF Recorded, Success
  <2>2. \A s \in Run : s \in Done(d) => s \in Done(d)'
    <3> TAKE s \in Run
    <3> QED BY <1>0, <1>3, <1>6, OthersDone
  <2>3. Done(d)' \in SUBSET Run /\ Recorded(d) \in SUBSET Run /\ Done(d) \in SUBSET Done(d)'
    BY <2>2 DEF Done, Recorded
  <2>4. Cardinality(Done(d)) <= Cardinality(Done(d)')
    BY <2>3, RunFinite, FS_Subset
  <2>5. Cardinality(Done(d)) \in Nat /\ Cardinality(Done(d)') \in Nat /\ Cardinality(Recorded(d)) \in Nat
    BY <2>3, RunFinite
  <2>6. Cardinality(Recorded(d)) <= Cardinality(Done(d))
    BY DEF IInv, CountInv
  <2> QED BY <2>1, <2>4, <2>5, <2>6
<1>9. AcceptedInv'
  BY <1>1, <1>2, <1>3, <1>4 DEF IInv, AcceptedInv
<1>10. ReportInv'
  <2>1. Succeeded(c)'
    BY <1>0, <1>2, <1>4 DEF Succeeded
  <2>2. \A d \in report : d \in Channel /\ Succeeded(d)'
    BY <1>0, <1>6, GrowsKeeps DEF IInv, ReportInv, TypeOK
  <2> QED BY <1>3, <2>1, <2>2 DEF ReportInv, Succeeded
<1>11. DispatchedMeansSettled'
  <2>1. \A d \in Channel : Settled(d) => Settled(d)'
    BY <1>6, GrowsKeeps
  <2> QED BY <1>3, <2>1 DEF IInv, DispatchedMeansSettled, Settled
<1>12. ShownIsTrue'
  <2>1. \A d \in Channel : \A k \in accepted[d] : k \in Run
    BY <1>0 DEF TypeOK
  <2> QED BY <1>3, <1>6, <2>1, GrowsKeeps DEF IInv, ShownIsTrue
<1> QED BY <1>5, <1>7, <1>8, <1>9, <1>10, <1>11, <1>12 DEF IInv, CountInv

LEMMA ShowDeliveryInv ==
  ASSUME IInv, NEW c \in Channel, ShowDelivery(c), unroutable' = unroutable
  PROVE  IInv'
<1>0. TypeOK
  BY DEF IInv
<1>1. /\ UNCHANGED <<intent, attempt, accepted, pc, todo, channel, number, outcome, transient,
                     abandoned, jobDone, faults>>
      /\ report' \subseteq report /\ c \in report
  BY DEF ShowDelivery, runVars, queueVars
<1>2. /\ notification' \in [Channel -> NotificationStatus]
      /\ \A d \in Channel \ {c} : notification'[d] = notification[d]
  BY <1>0 DEF ShowDelivery, TypeOK, NotificationStatus
<1>3. TypeOK'
  BY <1>0, <1>1, <1>2 DEF TypeOK
<1>4. \E n \in accepted[c] : attempt[c][n] \in Success
  <2>1. PICK n \in Run : attempt[c][n] \in Success
    BY <1>1 DEF IInv, ReportInv, Succeeded
  <2> QED BY <2>1 DEF IInv, AcceptedInv
<1>5. ShownIsTrue'
  BY <1>1, <1>2, <1>4 DEF IInv, ShownIsTrue
<1> QED BY <1>1, <1>3, <1>5 DEF IInv, CountInv, RunInv, AcceptedInv, ReportInv,
      DispatchedMeansSettled, Recorded, Done, Pending, Settled, Succeeded

-----------------------------------------------------------------------------
\* All steps

LEMMA StepInv == IInv /\ [Next]_vars => IInv'
<1> SUFFICES ASSUME IInv, [Next]_vars PROVE IInv'
  OBVIOUS
<1>1. ASSUME NEW r \in Run, Step(r), unroutable' = unroutable PROVE IInv'
  BY <1>1, BeginInv, NextChannelInv, FinishInv, CreateInv, FindInv, CountStepInv, ShowInv,
     DispatchInv, RecordInv, RecordFailureInv, ShowFailureInv DEF Step
<1>2. ASSUME NEW r \in Run, unroutable' = unroutable,
             \/ DispatchRefused(r) \/ DispatchTimedOut(r) \/ RecordError(r)
             \/ RunFails(r) \/ Crash(r) \/ Abandon(r)
      PROVE  IInv'
  BY <1>2, DispatchInv, RecordErrorInv, EndInv, AbandonInv
<1>3. ASSUME NEW c \in Channel, unroutable' = unroutable, ReportDelivery(c) \/ ShowDelivery(c)
      PROVE  IInv'
  BY <1>3, ReportDeliveryInv, ShowDeliveryInv
<1>4. CASE UNCHANGED vars
  <2>1. /\ UNCHANGED <<unroutable, intent, notification, attempt, accepted, report, pc, todo, channel>>
        /\ UNCHANGED <<number, outcome, transient, abandoned, jobDone, faults>>
    BY <1>4 DEF vars, tables, runVars, queueVars
  <2>2. TypeOK'
    BY <2>1 DEF IInv, TypeOK
  <2> QED BY <2>1, <2>2 DEF IInv, CountInv, RunInv, AcceptedInv, ReportInv, DispatchedMeansSettled,
        ShownIsTrue, Recorded, Done, Pending, Settled, Succeeded
<1> QED BY <1>1, <1>2, <1>3, <1>4 DEF Next

THEOREM Invariance == Spec => []IInv
BY InitInv, StepInv, PTL DEF Spec

\* The state of runs, tables and provider stays well-typed: in particular, a run never counts
\* more attempts on a channel than the job has runs.
THEOREM TypeCorrect == Spec => []TypeOK
<1>1. IInv => TypeOK
  BY DEF IInv
<1> QED BY <1>1, Invariance, PTL

\* dispatchNotificationIntent marks an intent DISPATCHED only when each channel has an attempt
\* that the provider accepted or refused for good, however many runs overlap.
THEOREM DispatchedIntentsAreSettled == Spec => []DispatchedMeansSettled
<1>1. IInv => DispatchedMeansSettled
  BY DEF IInv
<1> QED BY <1>1, Invariance, PTL

\* A notification that shows SENT or DELIVERED has a recorded attempt that the provider accepted.
THEOREM ShownStatusIsTrue == Spec => []ShownIsTrue
<1>1. IInv => ShownIsTrue
  BY DEF IInv
<1> QED BY <1>1, Invariance, PTL

-----------------------------------------------------------------------------
\* One message per channel: runs that follow one another number their attempts without gaps, so
\* that the number of an accepted message that is not recorded is the next one again.

NoOverlap == \A kind \in {"abandon", "slow", "dberror"} : faults[kind] = 0

IsNext(c, n) == attempt[c][n] = "none" /\ \A m \in Run : m < n => attempt[c][m] # "none"

ChannelAlone(c) ==
  /\ \A n, m \in Run : attempt[c][n] # "none" /\ m < n => attempt[c][m] # "none"
  /\ \A n \in accepted[c] : attempt[c][n] \in Success \/ IsNext(c, n)
  /\ \A n, m \in accepted[c] : n = m
  /\ c \in unroutable => accepted[c] = {}

RunAlone(r) ==
  /\ pc[r] \in {"count", "dispatch", "record"} => ~Succeeded(channel[r])
  /\ pc[r] \in {"dispatch", "record"} => IsNext(channel[r], number[r])
  /\ pc[r] \in {"find", "dispatch", "record"} => channel[r] \notin unroutable
  /\ pc[r] = "recordFailure" /\ attempt[channel[r]][number[r]] = "none" =>
       IsNext(channel[r], number[r]) /\ number[r] \notin accepted[channel[r]]

Alone(r) == \A s \in Run \ {r} : pc[s] \notin Active

AloneInv ==
  /\ abandoned = {}
  /\ \A r \in Run : pc[r] \in Active => Alone(r)
  /\ \A r \in Run : RunAlone(r)
  /\ \A c \in Channel : ChannelAlone(c)

SingleInv == IInv /\ (NoOverlap => AloneInv)

LEMMA FaultGrows ==
  ASSUME TypeOK, NEW kind, Fault(kind)
  PROVE  (NoOverlap' => NoOverlap) /\ (NoOverlap' => kind \notin {"abandon", "slow", "dberror"})
<1>1. kind \in FaultKind
  BY ConstantsAssumption DEF Fault
<1>2. \A k \in FaultKind : faults[k] \in Nat
  BY DEF TypeOK
<1>3. faults'[kind] = faults[kind] + 1 /\ \A k \in FaultKind \ {kind} : faults'[k] = faults[k]
  BY <1>1 DEF Fault, TypeOK
<1>4. faults'[kind] # 0
  BY <1>1, <1>2, <1>3
<1> QED BY <1>3, <1>4 DEF NoOverlap, FaultKind

\* The number after those of a gapless sequence of attempts is the next one.
LEMMA CountIsNext ==
  ASSUME NEW c \in Channel, ChannelAlone(c), NEW k \in Run, k = Cardinality(Recorded(c)) + 1
  PROVE  IsNext(c, k)
<1> DEFINE S == Recorded(c)
<1>1. S \in SUBSET Run /\ IsFiniteSet(S) /\ Cardinality(S) \in Nat
  BY RunFinite DEF Recorded
<1>2. \A n \in S : \A m \in 1 .. n : m \in S
  <2> TAKE n \in S
  <2> TAKE m \in 1 .. n
  <2>1. n \in Run /\ attempt[c][n] # "none"
    BY DEF Recorded
  <2>2. m \in Run /\ (m < n \/ m = n)
    BY <2>1, ConstantsAssumption DEF Run
  <2> QED BY <2>1, <2>2 DEF ChannelAlone, Recorded
<1>3. ASSUME NEW n \in S PROVE n <= Cardinality(S)
  <2>1. n \in Nat /\ 1 .. n \subseteq S
    BY <1>1, <1>2 DEF Run
  <2>2. Cardinality(1 .. n) = n
    BY <2>1, FS_Interval
  <2> QED BY <1>1, <2>1, <2>2, FS_Subset
<1>4. S \subseteq 1 .. Cardinality(S)
  BY <1>1, <1>3 DEF Run
<1>5. IsFiniteSet(1 .. Cardinality(S)) /\ Cardinality(1 .. Cardinality(S)) = Cardinality(S)
  BY <1>1, FS_Interval
<1>6. S = 1 .. Cardinality(S)
  BY <1>4, <1>5, FS_Subset
<1> HIDE DEF S
<1>7. k \notin S /\ \A m \in Run : m < k => m \in S
  BY <1>1, <1>6 DEF Run, S
<1> QED BY <1>7 DEF IsNext, Recorded, S

\* A step of a run that neither reaches a provider nor records anything.
LEMMA QuietAlone ==
  ASSUME AloneInv, NEW r \in Run, Alone(r), RunAlone(r)', \A s \in Run \ {r} : pc'[s] = pc[s],
         UNCHANGED <<unroutable, attempt, accepted, abandoned>>
  PROVE  AloneInv'
<1>1. \A s \in Run : pc'[s] \in Active => Alone(s)'
  BY DEF Alone
<1>2. \A s \in Run \ {r} : RunAlone(s)'
  BY DEF Alone, RunAlone, Active, Reading
<1> QED BY <1>1, <1>2 DEF AloneInv, ChannelAlone, IsNext

\* A run records its attempt under the next number.
LEMMA InsertAlone ==
  ASSUME IInv, AloneInv, NEW r \in Run, Alone(r), Insert(r), IsNext(channel[r], number[r]),
         outcome[r] \in Success \/ (outcome[r] \in Failure /\ number[r] \notin accepted[channel[r]]),
         pc'[r] \in {"show", "recordFailure", "showFailure"}, \A s \in Run \ {r} : pc'[s] = pc[s],
         UNCHANGED <<unroutable, accepted, abandoned, channel, number>>
  PROVE  AloneInv'
<1> DEFINE d == channel[r]
           m == number[r]
<1>0. TypeOK /\ d \in Channel /\ m \in Run
  BY DEF IInv, TypeOK
<1>1. /\ attempt'[d][m] = outcome[r] /\ outcome[r] # "none"
      /\ \A n \in Run \ {m} : attempt'[d][n] = attempt[d][n]
      /\ \A c \in Channel \ {d} : attempt'[c] = attempt[c]
  BY <1>0, Statuses DEF Insert, TypeOK
<1>2. \A s \in Run : pc'[s] \in Active => Alone(s)'
  BY DEF Alone
<1>3. \A s \in Run : RunAlone(s)'
  <2>1. RunAlone(r)'
    BY <1>1 DEF RunAlone
  <2>2. \A s \in Run \ {r} : RunAlone(s)'
    BY DEF Alone, RunAlone, Active, Reading
  <2> QED BY <2>1, <2>2
<1>4. ChannelAlone(d)'
  <2>1. \A n \in accepted[d] : n \in Run /\ (n = m \/ attempt[d][n] \in Success)
    <3> TAKE n \in accepted[d]
    <3>1. n \in Run /\ (attempt[d][n] \in Success \/ IsNext(d, n))
      BY <1>0 DEF AloneInv, ChannelAlone, TypeOK
    <3>2. IsNext(d, n) => n = m
      BY <1>0, <3>1 DEF IsNext, Run
    <3> QED BY <3>1, <3>2
  <2>2. \A n \in accepted[d] : attempt'[d][n] \in Success
    BY <1>1, <2>1
  <2>3. \A n, k \in Run : attempt'[d][n] # "none" /\ k < n => attempt'[d][k] # "none"
    BY <1>0, <1>1 DEF AloneInv, ChannelAlone, IsNext
  <2>4. /\ \A n, k \in accepted[d] : n = k
        /\ d \in unroutable => accepted[d] = {}
    BY <1>0 DEF AloneInv, ChannelAlone
  <2> QED BY <2>2, <2>3, <2>4 DEF ChannelAlone
<1>5. \A c \in Channel \ {d} : ChannelAlone(c)'
  BY <1>1 DEF AloneInv, ChannelAlone, IsNext
<1> QED BY <1>0, <1>2, <1>3, <1>4, <1>5 DEF AloneInv

\* The steps of a run that reach no provider and record nothing
LEMMA RunStepAlone ==
  ASSUME IInv, AloneInv, NEW r \in Run, unroutable' = unroutable,
         \/ Begin(r) \/ NextChannel(r) \/ Finish(r) \/ Create(r) \/ Find(r) \/ Count(r) \/ Show(r)
         \/ ShowFailure(r) \/ RunFails(r) \/ Crash(r)
  PROVE  AloneInv'
<1>0. /\ TypeOK /\ channel[r] \in Channel /\ number[r] \in Run /\ RunAlone(r)
      /\ ChannelAlone(channel[r]) /\ pc \in [Run -> PC]
  BY DEF IInv, TypeOK, AloneInv
<1>1. Succeeded(channel[r]) => accepted[channel[r]] # {}
  BY <1>0 DEF IInv, AcceptedInv, Succeeded
<1>2. CASE Begin(r)
  <2>1. Alone(r)
    BY <1>2 DEF Begin, AloneInv, Alone
  <2>2. /\ pc'[r] \in {"next", "over"} /\ \A s \in Run \ {r} : pc'[s] = pc[s]
        /\ UNCHANGED <<attempt, accepted, abandoned>>
    BY <1>0, <1>2 DEF Begin, Goto, tables
  <2>3. RunAlone(r)'
    BY <2>2 DEF RunAlone
  <2> QED BY <2>1, <2>2, <2>3, QuietAlone
<1>3. ASSUME pc[r] \in Active, pc'[r] \in {"next", "create", "skip", "over"},
             \A s \in Run \ {r} : pc'[s] = pc[s], UNCHANGED <<attempt, accepted, abandoned>>
      PROVE  AloneInv'
  <2>1. Alone(r)
    BY <1>3 DEF AloneInv
  <2>2. RunAlone(r)'
    BY <1>3 DEF RunAlone
  <2> QED BY <1>3, <2>1, <2>2, QuietAlone
<1>4. CASE NextChannel(r) \/ Finish(r) \/ Show(r) \/ ShowFailure(r) \/ RunFails(r) \/ Crash(r)
  <2>1. pc[r] \in Active
    <3>1. CASE RunFails(r)
      <4>1. pc[r] \in {"recordFailure", "showFailure", "next"} \/ pc[r] \in Reading
        BY <3>1 DEF RunFails
      <4> QED BY <4>1 DEF Active
    <3>2. CASE Crash(r)
      BY <3>2 DEF Crash
    <3>3. CASE NextChannel(r) \/ Finish(r) \/ Show(r) \/ ShowFailure(r)
      BY <3>3 DEF NextChannel, Finish, Show, ShowFailure, Active, Reading
    <3> QED BY <1>4, <3>1, <3>2, <3>3
  <2>2. /\ pc'[r] \in {"next", "create", "over"} /\ \A s \in Run \ {r} : pc'[s] = pc[s]
        /\ UNCHANGED <<attempt, accepted, abandoned>>
    BY <1>0, <1>4 DEF NextChannel, Finish, Show, ShowFailure, RunFails, Crash, End, Goto, tables, queueVars
  <2> QED BY <1>3, <2>1, <2>2
<1>5. CASE Create(r)
  <2>1. /\ pc'[r] = IF channel[r] \in unroutable THEN "count" ELSE "find"
        /\ \A s \in Run \ {r} : pc'[s] = pc[s]
        /\ UNCHANGED <<attempt, accepted, abandoned, channel>>
    BY <1>0, <1>5 DEF Create, Goto, queueVars
  <2>2. Alone(r)
    BY <1>5 DEF AloneInv, Create, Active, Reading
  <2>3. RunAlone(r)'
    <3>1. channel[r] \in unroutable => ~Succeeded(channel[r])
      BY <1>0, <1>1 DEF ChannelAlone
    <3> QED BY <2>1, <3>1 DEF RunAlone, Succeeded
  <2> QED BY <2>1, <2>2, <2>3, QuietAlone
<1>6. CASE Find(r)
  <2> DEFINE found == {n \in Recorded(channel[r]) : attempt[channel[r]][n] \in Success}
  <2>1. /\ pc'[r] = "skip" \/ (pc'[r] = "count" /\ found = {})
        /\ \A s \in Run \ {r} : pc'[s] = pc[s]
        /\ UNCHANGED <<attempt, accepted, abandoned, channel>>
    BY <1>0, <1>6 DEF Find, Goto, tables, queueVars
  <2>2. Alone(r)
    BY <1>6 DEF AloneInv, Find, Active, Reading
  <2>3. RunAlone(r)'
    <3>1. found = {} => ~Succeeded(channel[r])
      BY Statuses DEF Succeeded, Recorded
    <3> QED BY <2>1, <3>1 DEF RunAlone, Succeeded
  <2> QED BY <2>1, <2>2, <2>3, QuietAlone
<1>7. CASE Count(r)
  <2>1. /\ pc'[r] = IF channel[r] \in unroutable THEN "recordFailure" ELSE "dispatch"
        /\ \A s \in Run \ {r} : pc'[s] = pc[s]
        /\ UNCHANGED <<attempt, accepted, abandoned, channel>>
        /\ number'[r] = Cardinality(Recorded(channel[r])) + 1
    <3>1. pc' = [pc EXCEPT ![r] = IF channel[r] \in unroutable THEN "recordFailure" ELSE "dispatch"]
      BY <1>7 DEF Count, Goto
    <3>2. /\ UNCHANGED <<attempt, accepted, abandoned, channel>>
          /\ number' = [number EXCEPT ![r] = Cardinality(Recorded(channel[r])) + 1]
      BY <1>7 DEF Count, tables, queueVars
    <3>3. number'[r] = Cardinality(Recorded(channel[r])) + 1
      BY <1>0, <3>2 DEF TypeOK
    <3> QED BY <1>0, <3>1, <3>2, <3>3
  <2>2. Alone(r) /\ pc[r] = "count"
    BY <1>7 DEF AloneInv, Count, Active, Reading
  <2>3. number'[r] \in Run
    BY <1>7, CountStepInv DEF IInv, TypeOK
  <2>4. IsNext(channel[r], number'[r])
    BY <1>0, <2>1, <2>3, CountIsNext
  <2>5. channel[r] \in unroutable => accepted[channel[r]] = {}
    BY <1>0 DEF ChannelAlone
  <2>6. RunAlone(r)'
    BY <1>0, <2>1, <2>2, <2>4, <2>5 DEF RunAlone, Succeeded, IsNext
  <2> QED BY <2>1, <2>2, <2>6, QuietAlone
<1> QED BY <1>2, <1>4, <1>5, <1>6, <1>7

LEMMA ProviderAlone ==
  ASSUME IInv, AloneInv, NEW r \in Run, unroutable' = unroutable,
         DispatchAccepted(r) \/ DispatchRefused(r)
  PROVE  AloneInv'
<1>0. /\ TypeOK /\ channel[r] \in Channel /\ number[r] \in Run /\ RunAlone(r) /\ pc[r] = "dispatch"
      /\ Alone(r)
  BY DEF IInv, TypeOK, AloneInv, DispatchAccepted, DispatchRefused, DispatchRejected, Active
<1>1. /\ IsNext(channel[r], number[r]) /\ ~Succeeded(channel[r]) /\ channel[r] \notin unroutable
  BY <1>0 DEF RunAlone
<1>2. CASE DispatchRefused(r)
  <2>1. /\ pc'[r] = "recordFailure" /\ \A s \in Run \ {r} : pc'[s] = pc[s]
        /\ number[r] \notin accepted[channel[r]]
        /\ UNCHANGED <<attempt, accepted, abandoned, channel, number>>
    BY <1>0, <1>2 DEF DispatchRefused, DispatchRejected, Goto, tables, queueVars, TypeOK
  <2>2. RunAlone(r)'
    BY <1>1, <2>1 DEF RunAlone, IsNext
  <2> QED BY <1>0, <2>1, <2>2, QuietAlone
<1>3. CASE DispatchAccepted(r)
  <2> DEFINE d == channel[r]
             m == number[r]
  <2>1. /\ pc'[r] = "record" /\ \A s \in Run \ {r} : pc'[s] = pc[s]
        /\ accepted'[d] = accepted[d] \union {m}
        /\ \A c \in Channel \ {d} : accepted'[c] = accepted[c]
        /\ UNCHANGED <<attempt, abandoned, channel, number>>
    BY <1>0, <1>3 DEF DispatchAccepted, AcceptMessage, Goto, tables, queueVars, TypeOK
  <2>2. RunAlone(r)'
    BY <1>1, <2>1 DEF RunAlone, IsNext, Succeeded
  <2>3. \A s \in Run \ {r} : RunAlone(s)'
    BY <1>0, <2>1 DEF Alone, RunAlone, Active, Reading
  <2>4. \A s \in Run : pc'[s] \in Active => Alone(s)'
    BY <1>0, <2>1 DEF Alone
  <2>5. \A n \in accepted[d] : n = m
    <3> TAKE n \in accepted[d]
    <3>1. n \in Run /\ (attempt[d][n] \in Success \/ IsNext(d, n))
      BY <1>0 DEF AloneInv, ChannelAlone, TypeOK
    <3>2. IsNext(d, n)
      BY <1>1, <3>1 DEF Succeeded
    <3> QED BY <1>0, <1>1, <3>1, <3>2 DEF IsNext, Run
  <2>6. ChannelAlone(d)'
    <3>1. \A n, k \in Run : attempt[d][n] # "none" /\ k < n => attempt[d][k] # "none"
      BY <1>0 DEF AloneInv, ChannelAlone
    <3> QED BY <1>1, <2>1, <2>5, <3>1 DEF ChannelAlone, IsNext
  <2>7. \A c \in Channel \ {d} : ChannelAlone(c)'
    BY <2>1 DEF AloneInv, ChannelAlone, IsNext
  <2> QED BY <1>0, <2>1, <2>2, <2>3, <2>4, <2>6, <2>7 DEF AloneInv
<1> QED BY <1>2, <1>3

LEMMA RecordAlone ==
  ASSUME IInv, AloneInv, NoOverlap', NEW r \in Run, unroutable' = unroutable,
         Record(r) \/ RecordError(r) \/ RecordFailure(r)
  PROVE  AloneInv'
<1>0. /\ TypeOK /\ channel[r] \in Channel /\ number[r] \in Run /\ RunAlone(r) /\ RunInv(r)
      /\ pc \in [Run -> PC]
  BY DEF IInv, TypeOK, AloneInv
<1>1. CASE Record(r)
  <2>1. /\ pc[r] = "record" /\ pc'[r] = "show" /\ \A s \in Run \ {r} : pc'[s] = pc[s]
        /\ Insert(r) /\ UNCHANGED <<accepted, abandoned, channel, number>>
    BY <1>0, <1>1 DEF Record, Goto, queueVars
  <2>2. Alone(r)
    BY <2>1 DEF AloneInv, Active
  <2>3. IsNext(channel[r], number[r]) /\ outcome[r] \in Success
    BY <1>0, <2>1 DEF RunAlone, RunInv
  <2> QED BY <2>1, <2>2, <2>3, InsertAlone
<1>2. CASE RecordFailure(r)
  <2>1. /\ pc[r] = "recordFailure" /\ pc'[r] = "showFailure" /\ \A s \in Run \ {r} : pc'[s] = pc[s]
        /\ Insert(r) /\ UNCHANGED <<accepted, abandoned, channel, number>>
    BY <1>0, <1>2 DEF RecordFailure, Goto, queueVars
  <2>2. Alone(r)
    BY <2>1 DEF AloneInv, Active
  <2>3. /\ IsNext(channel[r], number[r]) /\ number[r] \notin accepted[channel[r]]
        /\ outcome[r] \in Failure
    BY <1>0, <2>1 DEF RunAlone, RunInv, Insert
  <2> QED BY <2>1, <2>2, <2>3, InsertAlone
<1>3. CASE RecordError(r)
  <2>1. /\ pc[r] \in {"record", "show"} /\ pc'[r] = "recordFailure"
        /\ \A s \in Run \ {r} : pc'[s] = pc[s]
        /\ UNCHANGED <<accepted, abandoned, channel, number>>
    BY <1>0, <1>3 DEF RecordError, SuccessRejected, Goto, queueVars
  <2>2. ~Fault("dberror")
    BY <1>0, FaultGrows
  <2>3. pc[r] = "record" => ~NumberTaken(r)
    BY <1>0 DEF RunAlone, IsNext, NumberTaken
  <2>4. pc[r] = "record" /\ Insert(r)
    BY <1>3, <2>2, <2>3 DEF RecordError
  <2>5. Alone(r)
    BY <2>4 DEF AloneInv, Active
  <2>6. IsNext(channel[r], number[r]) /\ outcome[r] \in Success
    BY <1>0, <2>4 DEF RunAlone, RunInv
  <2> QED BY <2>1, <2>4, <2>5, <2>6, InsertAlone
<1> QED BY <1>1, <1>2, <1>3

LEMMA ReportAlone ==
  ASSUME IInv, AloneInv, NEW c \in Channel, unroutable' = unroutable,
         ReportDelivery(c) \/ ShowDelivery(c)
  PROVE  AloneInv'
<1>0. TypeOK
  BY DEF IInv
<1>1. UNCHANGED <<accepted, pc, channel, number, abandoned>>
  BY DEF ReportDelivery, ShowDelivery, runVars, queueVars
<1>2. /\ attempt' \in [Channel -> [Run -> AttemptStatus]]
      /\ \A d \in Channel, n \in Run : /\ attempt'[d][n] = "none" <=> attempt[d][n] = "none"
                                       /\ attempt'[d][n] \in Success <=> attempt[d][n] \in Success
  <2>1. CASE ReportDelivery(c)
    <3>1. PICK n \in accepted[c] : /\ attempt[c][n] = "SENT"
                                   /\ attempt' = [attempt EXCEPT ![c][n] = "DELIVERED"]
      BY <2>1 DEF ReportDelivery
    <3>2. n \in Run
      BY <1>0, <3>1 DEF TypeOK
    <3> QED BY <1>0, <3>1, <3>2 DEF TypeOK, AttemptStatus, Success
  <2>2. CASE ShowDelivery(c)
    BY <1>0, <2>2 DEF ShowDelivery, TypeOK
  <2> QED BY <2>1, <2>2
<1>3. /\ \A d \in Channel : Succeeded(d)' <=> Succeeded(d)
      /\ \A d \in Channel, n \in Run : IsNext(d, n)' <=> IsNext(d, n)
  BY <1>2 DEF Succeeded, IsNext
<1>4. \A s \in Run : RunAlone(s)'
  <2> TAKE s \in Run
  <2>1. channel[s] \in Channel /\ number[s] \in Run /\ RunAlone(s)
    BY <1>0 DEF TypeOK, AloneInv
  <2> QED BY <1>1, <1>2, <1>3, <2>1 DEF RunAlone, Succeeded, IsNext
<1>5. \A d \in Channel : ChannelAlone(d)'
  <2> TAKE d \in Channel
  <2>1. ChannelAlone(d) /\ accepted[d] \subseteq Run
    BY <1>0 DEF TypeOK, AloneInv
  <2> QED BY <1>1, <1>2, <1>3, <2>1 DEF ChannelAlone, IsNext
<1> QED BY <1>1, <1>4, <1>5 DEF AloneInv, Alone

LEMMA SingleInit == Init => SingleInv
<1> SUFFICES ASSUME Init PROVE SingleInv
  OBVIOUS
<1>1. /\ abandoned = {} /\ \A r \in Run : pc[r] \notin Active
      /\ \A c \in Channel : accepted[c] = {} /\ \A n \in Run : attempt[c][n] = "none"
  BY DEF Init, Active, Reading
<1>2. \A r \in Run : RunAlone(r)
  BY <1>1 DEF RunAlone, Active, Reading
<1> QED BY <1>1, <1>2, InitInv DEF SingleInv, AloneInv, Alone, ChannelAlone

LEMMA SingleStep == SingleInv /\ [Next]_vars => SingleInv'
<1> SUFFICES ASSUME SingleInv, [Next]_vars, NoOverlap' PROVE AloneInv'
  BY StepInv DEF SingleInv
<1>0. IInv /\ TypeOK
  BY DEF SingleInv, IInv
<1>1. NoOverlap
  <2>1. CASE UNCHANGED faults
    BY <2>1 DEF NoOverlap
  <2>2. CASE \E kind : Fault(kind)
    BY <1>0, <2>2, FaultGrows
  <2> QED BY <2>1, <2>2 DEF Next, Step, vars, Begin, NextChannel, Finish, Create, Find, Count, Show,
        DispatchAccepted, DispatchRefused, DispatchTimedOut, Record, RecordError, RecordFailure,
        ShowFailure, RunFails, Crash, Abandon, ReportDelivery, ShowDelivery
<1>2. AloneInv
  BY <1>1 DEF SingleInv
<1>3. ASSUME NEW r \in Run, Step(r), unroutable' = unroutable PROVE AloneInv'
  BY <1>0, <1>2, <1>3, RunStepAlone, ProviderAlone, RecordAlone DEF Step
<1>4. ASSUME NEW r \in Run, unroutable' = unroutable,
             DispatchRefused(r) \/ RecordError(r) \/ RunFails(r) \/ Crash(r)
      PROVE  AloneInv'
  BY <1>0, <1>2, <1>4, RunStepAlone, ProviderAlone, RecordAlone
<1>5. ASSUME NEW r \in Run PROVE ~DispatchTimedOut(r) /\ ~Abandon(r)
  <2>1. ~Fault("slow") /\ ~Fault("abandon")
    BY <1>0, FaultGrows
  <2>2. DispatchTimedOut(r) => Fault("slow")
    BY DEF DispatchTimedOut
  <2>3. Abandon(r) => Fault("abandon")
    BY DEF Abandon
  <2> QED BY <2>1, <2>2, <2>3
<1>6. ASSUME NEW c \in Channel, unroutable' = unroutable, ReportDelivery(c) \/ ShowDelivery(c)
      PROVE  AloneInv'
  BY <1>0, <1>2, <1>6, ReportAlone
<1>7. CASE UNCHANGED vars
  <2>1. UNCHANGED <<unroutable, attempt, accepted, pc, channel, number, abandoned>>
    BY <1>7 DEF vars, tables, runVars, queueVars
  <2> QED BY <1>2, <2>1 DEF AloneInv, Alone, RunAlone, ChannelAlone, IsNext, Succeeded
<1> QED BY <1>3, <1>4, <1>5, <1>6, <1>7 DEF Next

\* Without runs beside their successors, calls that are given up and failed statements on a
\* success, a provider accepts one message per channel whatever the other faults: every run that
\* may send one counts the same attempts, and so uses the idempotency key of its predecessor.
THEOREM OneMessage == Spec => []OneMessagePerChannel
<1>1. SingleInv => OneMessagePerChannel
  <2> SUFFICES ASSUME SingleInv, NoOverlap, NEW c \in Channel
               PROVE  Cardinality(accepted[c]) <= 1
    BY DEF OneMessagePerChannel, NoOverlap
  <2>1. \A n, m \in accepted[c] : n = m
    BY DEF SingleInv, AloneInv, ChannelAlone
  <2>2. CASE accepted[c] = {}
    BY <2>2, FS_EmptySet
  <2>3. CASE accepted[c] # {}
    <3>1. PICK n \in accepted[c] : accepted[c] = {n}
      BY <2>1, <2>3
    <3> QED BY <3>1, FS_Singleton
  <2> QED BY <2>2, <2>3
<1> QED BY <1>1, SingleInit, SingleStep, PTL DEF Spec
=============================================================================
