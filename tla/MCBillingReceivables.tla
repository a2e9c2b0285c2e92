------------------------ MODULE MCBillingReceivables ------------------------
\* Instances of BillingReceivables for TLC.
EXTENDS BillingReceivables, TLC

CONSTANTS b1, b2, d1, d2, r1, r2, i1, k1, k2

Interchangeable ==
  Permutations(Record) \union Permutations(Document)
    \union Permutations(Request) \union Permutations(SettleKey)

=============================================================================
