------------------------ MODULE MCBankReconciliation ------------------------
\* Instances of BankReconciliation for TLC.
EXTENDS BankReconciliation, TLC

CONSTANTS f1, f2, m1, m2, r1, r2

\* Two files that share a line
MCLinesOf == (f1 :> {1, 2}) @@ (f2 :> {2})

\* Two movements that fit line 1, one of which fits line 2 as well
MCExact == {<<1, m1>>, <<1, m2>>, <<2, m2>>}

=============================================================================
