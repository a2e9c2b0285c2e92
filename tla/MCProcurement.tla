---------------------------- MODULE MCProcurement ----------------------------
\* Instances of Procurement for TLC.
EXTENDS Procurement, TLC

CONSTANTS p1, k1, k2, i1, i2, c1, c2

MCOrdered == [p \in Purchase |-> 2]

Interchangeable ==
  Permutations(ReceiptKey) \union Permutations(Invoice) \union Permutations(Call)

\* A call that what is committed refuses already, and for good, changes nothing.
MaySucceed(t) ==
  LET p == t.purchase
      k == t.key
      i == t.invoice
  IN
  CASE t.op \in RequestOp -> request[p].status \in From(t.op) /\ ~Issued(p)
    [] t.op = "cancelOrder" -> order[p].status # "CANCELLED" /\ order[p].received = 0
    [] t.op = "receive" /\ ~Posted(k) -> order[p].status # "CANCELLED" /\ Fits(p, t.quantity)
    [] t.op = "receive" /\ Posted(k) -> receipt[k].payable = NULL /\ receipt[k].quantity = t.quantity
    [] t.op = "validate" -> invoice[i].status = "DRAFT" /\ AmountMatches(i)

\* Bound: the calls that are begun are those that may succeed.
NoCallInVain ==
  \A c \in Call : pc[c] = "idle" /\ pc'[c] # "idle" => MaySucceed(task'[c])

\* Bound: a client opens one payable, of another amount than the receipt or the
\* invoice is of.  What has neither is worth nothing, and nothing is attached to it.
OneByClient ==
  \A o \in Origin :
    payable'[o].byClient /\ ~payable[o].byClient =>
      /\ Worth(o) > 0 /\ payable'[o].principal # Worth(o)
      /\ \A x \in Origin : ~payable[x].byClient

=============================================================================
