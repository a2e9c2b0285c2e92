--------------------------- MODULE OutboxContract ---------------------------
(***************************************************************************)
(* What becomes of an event of the outbox, with no publisher, lease or     *)
(* timer in it.  An event waits, is tried, and either waits again or is    *)
(* published or failed for ever.  While it is tried it is recorded, in two *)
(* parts that are not written together: an event of which only the first   *)
(* part was written stays torn, whatever is tried later.  It is published  *)
(* once it is dispatched, or because it is torn.                           *)
(***************************************************************************)
EXTENDS Naturals

CONSTANTS Event, MaxAttempts

VARIABLE event    \* state, tries, recording and dispatch of each event

EventRecord == [state : {"absent", "waiting", "trying", "published", "failed"},
                tries : Nat,
                record : {"none", "part", "torn", "whole"},
                dispatched : BOOLEAN]

Init ==
  event = [e \in Event |->
             [state |-> "absent", tries |-> 0, record |-> "none", dispatched |-> FALSE]]

\* n is r but for its state, its tries, or what is recorded of it
Become(r, s, n) ==
  /\ n.state = s /\ n.tries = r.tries
  /\ n.record = r.record /\ n.dispatched = r.dispatched

Append(r, n) == r.state = "absent" /\ Become(r, "waiting", n)

Try(r, n) ==
  /\ r.state = "waiting" /\ n.state = "trying"
  /\ n.tries = r.tries + 1
  /\ n.record = r.record /\ n.dispatched = r.dispatched

\* The parts of the record are written one after the other, or torn.
Record(r, n) ==
  /\ r.state = "trying" /\ n.state = "trying"
  /\ n.tries = r.tries /\ n.dispatched = r.dispatched
  /\ \/ r.record = "none" /\ n.record = "part"
     \/ r.record = "part" /\ n.record \in {"whole", "torn"}

Dispatch(r, n) ==
  /\ r.state = "trying" /\ n.state = "trying"
  /\ r.record = "whole" /\ n.record = "whole"
  /\ n.tries = r.tries /\ n.dispatched

\* Nobody gives an event up, or takes it back, while it is being recorded.
Settle(r, n) ==
  /\ r.state = "trying" /\ r.record # "part"
  /\ \/ (r.dispatched \/ r.record = "torn") /\ Become(r, "published", n)
     \/ r.tries >= MaxAttempts /\ Become(r, "failed", n)
     \/ Become(r, "waiting", n)

EventStep(r, n) == Append(r, n) \/ Try(r, n) \/ Record(r, n) \/ Dispatch(r, n) \/ Settle(r, n)

\* Events advance independently; one statement may advance several.
Next == \A e \in Event : event'[e] = event[e] \/ EventStep(event[e], event'[e])

Spec == Init /\ [][Next]_event

=============================================================================
