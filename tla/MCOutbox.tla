------------------------------ MODULE MCOutbox ------------------------------
\* Instances of Outbox for TLC.
EXTENDS Outbox, TLC

CONSTANTS e1, e2, p1, p2

\* One aggregate for all events
SameAggregate == [e \in Event |-> 1]

\* computeOutboxBackoffDelayMs with base and cap of one tick
MCBackoff == [a \in Attempt |-> 1]

PublisherSymmetry == Permutations(Publisher)

=============================================================================
