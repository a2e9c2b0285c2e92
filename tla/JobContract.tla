---------------------------- MODULE JobContract ----------------------------
(***************************************************************************)
(* What the job queue promises the code that submits jobs, with no worker, *)
(* lease or timer in it: a job waits, is tried, and either waits again or  *)
(* gets one verdict that stands for ever.  A job is tried again only while *)
(* its tries, less the ones that were lost with a process, are fewer than  *)
(* MaxAttempts; it is given up only when they are not.                     *)
(***************************************************************************)
EXTENDS Naturals

CONSTANTS Job, MaxAttempts

VARIABLE job    \* state, tries and lost tries of each job

JobRecord == [state : {"absent", "waiting", "trying", "completed", "failed", "dead"},
              tries : Nat,
              lost  : Nat]

Init == job = [j \in Job |-> [state |-> "absent", tries |-> 0, lost |-> 0]]

Become(r, s, t, l) == r = [state |-> s, tries |-> t, lost |-> l]

Submit(r, n) == r.state = "absent" /\ Become(n, "waiting", r.tries, r.lost)

Try(r, n) ==
  /\ r.state = "waiting"
  /\ r.tries < MaxAttempts + r.lost
  /\ Become(n, "trying", r.tries + 1, r.lost)

Retry(r, n) ==
  /\ r.state = "trying"
  /\ r.tries < MaxAttempts
  /\ Become(n, "waiting", r.tries, r.lost)

Lose(r, n) == r.state = "trying" /\ Become(n, "waiting", r.tries, r.lost + 1)

Conclude(r, n) ==
  /\ r.state = "trying"
  /\ \/ Become(n, "completed", r.tries, r.lost)
     \/ Become(n, "failed", r.tries, r.lost)
     \/ r.tries >= MaxAttempts /\ Become(n, "dead", r.tries, r.lost)

JobStep(r, n) ==
  Submit(r, n) \/ Try(r, n) \/ Retry(r, n) \/ Lose(r, n) \/ Conclude(r, n)

\* Jobs advance independently; one statement may advance several.
Next == \A j \in Job : job'[j] = job[j] \/ JobStep(job[j], job'[j])

Spec == Init /\ [][Next]_job

=============================================================================
