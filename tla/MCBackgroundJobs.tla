-------------------------- MODULE MCBackgroundJobs --------------------------
\* Instances of BackgroundJobs for TLC.
EXTENDS BackgroundJobs, TLC

CONSTANTS j1, j2, w1, w2

\* computeBackoffDelayMs with base and cap of one tick
MCBackoff == [a \in Attempt |-> 1]

WorkerSymmetry == Permutations(Worker)
JobSymmetry == Permutations(Job)

=============================================================================
