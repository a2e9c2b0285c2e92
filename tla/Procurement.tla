---------------------------- MODULE Procurement ----------------------------
(***************************************************************************)
(* From the purchase request to the payable (apps/api/src/procurement and  *)
(* the payables of apps/api/src/finance): requests and their approval, the *)
(* supplier's order, goods receipts, supplier invoices, and the payables   *)
(* that receipts and invoices open.                                        *)
(*                                                                         *)
(* A call reads, checks and then writes, each in a transaction of its own; *)
(* between them other calls run, or the call dies.  What a call writes to  *)
(* a request, an order or an invoice names the version its client has read.*)
(*                                                                         *)
(* An order has the id of the request it is issued for (one order each),   *)
(* one line and a unit price of 1: quantities are amounts.                 *)
(***************************************************************************)
EXTENDS Integers, FiniteSetsExt

CONSTANTS
  Purchase,    \* purchase requests and the orders issued for them
  Ordered,     \* the quantity of a purchase
  ReceiptKey,  \* idempotency keys of receipts
  Invoice,     \* supplier invoices, by number and key
  Call,        \* calls that may be under way at once
  NULL

Origin == ReceiptKey \union Invoice

ASSUME ConstantsAssumption ==
  /\ Ordered \in [Purchase -> Nat \ {0}]
  /\ NULL \notin Purchase \union Origin \union Call
  /\ ReceiptKey \intersect Invoice = {}
  /\ IsFiniteSet(ReceiptKey)  \* of the rows of a table

VARIABLES
  request,  \* rows of prc.purchase_requests
  order,    \* rows of prc.supplier_purchase_orders with their line
  receipt,  \* rows of prc.goods_receipts with their lines
  invoice,  \* rows of prc.supplier_invoices
  payable,  \* rows of fin.payables by origin_id, with what is paid net, and whether a
            \* client opened it (history)
  pc,       \* where a call stands
  task      \* its parameters and what it has read

documents == <<request, order, receipt, invoice>>
tables == <<documents, payable>>
vars == <<tables, pc, task>>

RequestStatus == {"DRAFT", "PENDING_APPROVAL", "APPROVED", "REJECTED", "CANCELLED"}
OrderStatus == {"ISSUED", "PARTIALLY_RECEIVED", "RECEIVED", "CANCELLED"}

RequestOp == {"submit", "approve", "reject", "cancelRequest", "issue"}
OrderOp == {"cancelOrder", "receive"}
Op == RequestOp \union OrderOp \union {"validate"}

PC == {"idle", "reading", "asking", "writing", "receiving", "owing", "opening", "attaching",
       "preparing", "invoicing", "validating"}

NoOrder == [status |-> "NONE", version |-> 0, received |-> 0]
NoReceipt == [purchase |-> NULL, quantity |-> 0, payable |-> NULL]
NoInvoice == [status |-> "NONE", purchase |-> NULL, receipt |-> NULL, amount |-> 0,
              version |-> 0, payable |-> NULL]
NoPayable == [lifecycle |-> "NONE", principal |-> 0, paid |-> 0, byClient |-> FALSE]
NoTask == [op |-> NULL, purchase |-> NULL, key |-> NULL, invoice |-> NULL, quantity |-> 0,
           version |-> 0, payable |-> NULL]

\* createRequest
Init ==
  /\ request = [p \in Purchase |-> [status |-> "DRAFT", version |-> 1]]
  /\ order = [p \in Purchase |-> NoOrder]
  /\ receipt = [k \in ReceiptKey |-> NoReceipt]
  /\ invoice = [i \in Invoice |-> NoInvoice]
  /\ payable = [o \in Origin |-> NoPayable]
  /\ pc = [c \in Call |-> "idle"]
  /\ task = [c \in Call |-> NoTask]

\* Bound on the amounts that clients choose
Amount == 1 .. Max({Ordered[q] : q \in Purchase})

Issued(p) == order[p].status # "NONE"
Posted(k) == receipt[k].purchase # NULL
Opened(o) == payable[o].lifecycle # "NONE"

-----------------------------------------------------------------------------
\* Calls

FirstStep(op) ==
  CASE op = "receive" -> "receiving"
    [] op = "validate" -> "preparing"
    [] OTHER -> "reading"

Goto(c, label) == pc' = [pc EXCEPT ![c] = label]

Start(c, t) ==
  /\ pc[c] = "idle"
  /\ task' = [task EXCEPT ![c] = t]
  /\ Goto(c, FirstStep(t.op))
  /\ UNCHANGED tables

\* What clients ask for, each with the version they have read
Begin(c) ==
  \/ \E op \in RequestOp, p \in Purchase :
       Start(c, [NoTask EXCEPT !.op = op, !.purchase = p, !.version = request[p].version])
  \/ \E p \in Purchase :
       /\ Issued(p)
       /\ Start(c, [NoTask EXCEPT !.op = "cancelOrder", !.purchase = p,
                                  !.version = order[p].version])
  \/ \E p \in Purchase, k \in ReceiptKey : \E n \in 1 .. Ordered[p] :
       /\ Issued(p)
       /\ Start(c, [NoTask EXCEPT !.op = "receive", !.purchase = p, !.version = order[p].version,
                                  !.key = k, !.quantity = n])
  \/ \E i \in Invoice :
       /\ invoice[i].status # "NONE"
       /\ Start(c, [NoTask EXCEPT !.op = "validate", !.invoice = i,
                                  !.version = invoice[i].version])

End(c) ==
  /\ Goto(c, "idle")
  /\ task' = [task EXCEPT ![c] = NoTask]

\* The call goes on, after its transaction, with what it has found.
GoOn(c, label, found) ==
  /\ Goto(c, label)
  /\ task' = [task EXCEPT ![c] = found]

\* A check refuses the call, a statement fails or the process dies: what the
\* call has committed stays, a transaction under way is rolled back.
Abort(c) ==
  /\ pc[c] # "idle"
  /\ End(c)
  /\ UNCHANGED tables

-----------------------------------------------------------------------------
\* Purchase requests and orders

\* assertRequestCanSubmit, ...Approve, ...Cancel, ...Issue
From(op) ==
  CASE op = "submit" -> {"DRAFT"}
    [] op \in {"approve", "reject"} -> {"PENDING_APPROVAL"}
    [] op = "cancelRequest" -> RequestStatus \ {"CANCELLED", "REJECTED"}
    [] op = "issue" -> {"APPROVED"}

To(op) ==
  CASE op = "submit" -> "PENDING_APPROVAL"
    [] op \in {"approve", "issue"} -> "APPROVED"
    [] op = "reject" -> "REJECTED"
    [] op = "cancelRequest" -> "CANCELLED"

\* The status is read and checked before the transaction.
Read(c) ==
  LET t == task[c] IN
  /\ pc[c] = "reading"
  /\ \/ t.op \in RequestOp /\ request[t.purchase].status \in From(t.op)
     \/ t.op = "cancelOrder" /\ order[t.purchase].status # "CANCELLED"
  /\ Goto(c, IF t.op \in {"cancelRequest", "cancelOrder"} THEN "asking" ELSE "writing")
  /\ UNCHANGED <<tables, task>>

\* So is what stands against a cancellation: the request's order, the order's
\* received quantity.
Ask(c) ==
  LET t == task[c] IN
  /\ pc[c] = "asking"
  /\ \/ t.op = "cancelRequest" /\ ~Issued(t.purchase)
     \/ t.op = "cancelOrder" /\ order[t.purchase].received = 0
  /\ Goto(c, "writing")
  /\ UNCHANGED <<tables, task>>

\* mutant: the UPDATE names no version
AnyVersion(c, row) == row.version > 0

\* UPDATE ... WHERE id = $1 AND version = $2
SameVersion(c, row) == row.version = task[c].version

\* transitionRequest, issueOrder
WriteRequest(c) ==
  LET t == task[c] IN
  /\ pc[c] = "writing"
  /\ t.op \in RequestOp
  /\ SameVersion(c, request[t.purchase])
  /\ request' = [request EXCEPT ![t.purchase] = [status |-> IF t.op = "issue" THEN @.status ELSE To(t.op),
                                                 version |-> @.version + 1]]
  /\ \/ /\ t.op = "issue"
        /\ ~Issued(t.purchase)  \* supplier_purchase_orders_request_uidx
        /\ order' = [order EXCEPT ![t.purchase] =
                       [status |-> "ISSUED", version |-> 1, received |-> 0]]
     \/ /\ t.op # "issue"
        /\ UNCHANGED order
  /\ End(c)
  /\ UNCHANGED <<receipt, invoice, payable>>

CancelOrder(c) ==
  LET t == task[c] IN
  /\ pc[c] = "writing"
  /\ t.op = "cancelOrder"
  /\ SameVersion(c, order[t.purchase])
  /\ order' = [order EXCEPT ![t.purchase] =
                 [status |-> "CANCELLED", version |-> @.version + 1, received |-> @.received]]
  /\ End(c)
  /\ UNCHANGED <<request, receipt, invoice, payable>>

-----------------------------------------------------------------------------
\* Goods receipts

\* assertReceiptDoesNotExceed
Fits(p, n) == order[p].received + n <= Ordered[p]

\* mutant: the status of a received order is not in the enum
DeriveDelivered(p, n) == IF n = Ordered[p] THEN "DELIVERED" ELSE "PARTIALLY_RECEIVED"

\* deriveSupplierPurchaseOrderStatus
Derive(p, n) == IF n = Ordered[p] THEN "RECEIVED" ELSE "PARTIALLY_RECEIVED"

\* The transaction of receive, under the lock of the order.
Receive(c) ==
  LET t == task[c]
      p == t.purchase
      total == order[p].received + t.quantity
  IN
  /\ pc[c] = "receiving"
  /\ ~Posted(t.key)
  /\ SameVersion(c, order[p])
  /\ order[p].status \in {"ISSUED", "PARTIALLY_RECEIVED"}
  /\ Fits(p, t.quantity)
  /\ receipt' = [receipt EXCEPT ![t.key] =
                   [purchase |-> p, quantity |-> t.quantity, payable |-> NULL]]
  /\ order' = [order EXCEPT ![p] =
                 [status |-> Derive(p, total), version |-> @.version + 1, received |-> total]]
  /\ GoOn(c, "owing", [NoTask EXCEPT !.key = t.key])
  /\ UNCHANGED <<request, invoice, payable>>

\* A repeated key: the receipt there is, of whichever order, and the end of
\* the work on it that an earlier call may have left.
ReceiveAgain(c) ==
  LET k == task[c].key IN
  /\ pc[c] = "receiving"
  /\ Posted(k)
  /\ \/ receipt[k].payable = NULL /\ GoOn(c, "owing", [NoTask EXCEPT !.key = k])
     \/ receipt[k].payable # NULL /\ End(c)
  /\ UNCHANGED tables

\* mutant: the payable of any validated invoice
InvoicePayablesOfAll(p) ==
  {invoice[i].payable : i \in {j \in Invoice : invoice[j].payable # NULL /\ Issued(p)}}

\* findValidatedInvoicePayableForOrder.  The statement takes the invoice that
\* was validated first; here any.
InvoicePayables(p) ==
  {invoice[i].payable : i \in {j \in Invoice :
     /\ invoice[j].purchase = p
     /\ invoice[j].status = "VALIDATED"
     /\ invoice[j].payable # NULL}}

FindInvoice(c) ==
  LET found == InvoicePayables(receipt[task[c].key].purchase) IN
  /\ pc[c] = "owing"
  /\ \/ /\ found = {}
        /\ Goto(c, "opening")
        /\ UNCHANGED task
     \/ \E o \in found : GoOn(c, "attaching", [task[c] EXCEPT !.payable = o])
  /\ UNCHANGED tables

\* PayablesRepository.open: the payable there is for the origin, whatever its
\* amount and its lifecycle, or a new one
OpenPayable(o, amount, byClient) ==
  payable' = IF Opened(o) THEN payable
             ELSE [payable EXCEPT ![o] =
                     [lifecycle |-> "ACTIVE", principal |-> amount, paid |-> 0,
                      byClient |-> byClient]]

\* openFromProcurementReceipt
OpenForReceipt(c) ==
  LET k == task[c].key IN
  /\ pc[c] = "opening"
  /\ OpenPayable(k, receipt[k].quantity, FALSE)
  /\ GoOn(c, "attaching", [task[c] EXCEPT !.payable = k])
  /\ UNCHANGED documents

\* attachPayable and attachPayableToReceipt, unless the receipt has a payable
Attach(c) ==
  /\ pc[c] = "attaching"
  /\ receipt' = [receipt EXCEPT ![task[c].key].payable = IF @ = NULL THEN task[c].payable ELSE @]
  /\ End(c)
  /\ UNCHANGED <<request, order, invoice, payable>>

-----------------------------------------------------------------------------
\* Supplier invoices

\* create: for an order, for a receipt (one invoice each), for both or for none
CreateInvoice(i) ==
  \E p \in Purchase \union {NULL}, k \in ReceiptKey \union {NULL}, n \in Amount :
    /\ invoice[i].status = "NONE"
    /\ p # NULL => Issued(p)
    /\ k # NULL => Posted(k) /\ p \in {NULL, receipt[k].purchase}
    /\ k # NULL => \A j \in Invoice : invoice[j].receipt # k
    /\ invoice' = [invoice EXCEPT ![i] = [status |-> "DRAFT", purchase |-> p, receipt |-> k,
                                          amount |-> n, version |-> 1, payable |-> NULL]]
    /\ UNCHANGED <<request, order, receipt, payable, pc, task>>

\* assertInvoiceAmountMatches, with the receipt or else with the whole order
AmountMatches(i) ==
  LET v == invoice[i] IN
  /\ v.receipt # NULL => v.amount = receipt[v.receipt].quantity
  /\ v.receipt = NULL /\ v.purchase # NULL => v.amount = Ordered[v.purchase]

ReceiptPayable(i) ==
  IF invoice[i].receipt = NULL THEN NULL ELSE receipt[invoice[i].receipt].payable

Validated(i, o) ==
  [invoice[i] EXCEPT !.status = "VALIDATED", !.payable = o, !.version = @ + 1]

\* The transaction of prepareValidation, under the locks of the invoice, the
\* receipt and the order: the receipt's payable serves the invoice, or else a
\* new one has to be opened.  Nothing marks the invoice meanwhile.
Prepare(c) ==
  LET i == task[c].invoice
      o == ReceiptPayable(i)
  IN
  /\ pc[c] = "preparing"
  /\ SameVersion(c, invoice[i])
  /\ invoice[i].status = "DRAFT"
  /\ AmountMatches(i)
  /\ \/ /\ o # NULL
        /\ invoice' = [invoice EXCEPT ![i] = Validated(i, o)]
        /\ End(c)
     \/ /\ o = NULL
        /\ GoOn(c, "invoicing", [NoTask EXCEPT !.invoice = i])
        /\ UNCHANGED invoice
  /\ UNCHANGED <<request, order, receipt, payable>>

\* openFromSupplierInvoice
OpenForInvoice(c) ==
  LET i == task[c].invoice IN
  /\ pc[c] = "invoicing"
  /\ OpenPayable(i, invoice[i].amount, FALSE)
  /\ Goto(c, "validating")
  /\ UNCHANGED <<documents, task>>

\* attachPayable, unless the invoice has a payable; then its receipt is next.
Validate(c) ==
  LET i == task[c].invoice IN
  /\ pc[c] = "validating"
  /\ invoice' = IF invoice[i].payable = NULL
                THEN [invoice EXCEPT ![i] = Validated(i, i)] ELSE invoice
  /\ \/ /\ invoice[i].receipt = NULL
        /\ End(c)
     \/ /\ invoice[i].receipt # NULL
        /\ GoOn(c, "attaching", [NoTask EXCEPT !.key = invoice[i].receipt, !.payable = i])
  /\ UNCHANGED <<request, order, receipt, payable>>

-----------------------------------------------------------------------------
\* The payables of clients and payments

\* POST finance/payables: a client names the origin and the principal; neither
\* whether there is such a receipt or invoice nor what it is worth is looked up.
OpenByClient(o) ==
  \E n \in Amount :
    /\ OpenPayable(o, n, TRUE)
    /\ UNCHANGED <<documents, pc, task>>

\* Payments.  Each is one transaction that locks the payable first.

Unpaid(o) == payable[o].principal - payable[o].paid

Pay(o) ==
  \E n \in 1 .. Unpaid(o) :
    /\ payable[o].lifecycle = "ACTIVE"
    /\ payable' = [payable EXCEPT ![o].paid = @ + n]
    /\ UNCHANGED <<documents, pc, task>>

Reverse(o) ==
  \E n \in 1 .. payable[o].paid :
    /\ payable[o].lifecycle = "ACTIVE"
    /\ payable' = [payable EXCEPT ![o].paid = @ - n]
    /\ UNCHANGED <<documents, pc, task>>

CancelPayable(o) ==
  /\ payable[o].lifecycle = "ACTIVE"
  /\ payable[o].paid = 0
  /\ payable' = [payable EXCEPT ![o].lifecycle = "CANCELLED"]
  /\ UNCHANGED <<documents, pc, task>>

-----------------------------------------------------------------------------
Next ==
  \/ \E c \in Call : \/ Begin(c)
                     \/ Abort(c)
                     \/ Read(c)
                     \/ Ask(c)
                     \/ WriteRequest(c)
                     \/ CancelOrder(c)
                     \/ Receive(c)
                     \/ ReceiveAgain(c)
                     \/ FindInvoice(c)
                     \/ OpenForReceipt(c)
                     \/ Attach(c)
                     \/ Prepare(c)
                     \/ OpenForInvoice(c)
                     \/ Validate(c)
  \/ \E i \in Invoice : CreateInvoice(i)
  \/ \E o \in Origin : OpenByClient(o) \/ Pay(o) \/ Reverse(o) \/ CancelPayable(o)

Spec == Init /\ [][Next]_vars

-----------------------------------------------------------------------------
\* Correctness

Task ==
  [op : Op \union {NULL}, purchase : Purchase \union {NULL}, key : ReceiptKey \union {NULL},
   invoice : Invoice \union {NULL}, quantity : Nat, version : Nat,
   payable : Origin \union {NULL}]

TypeOK ==
  /\ request \in [Purchase -> [status : RequestStatus, version : Nat]]
  /\ order \in [Purchase -> [status : OrderStatus \union {"NONE"}, version : Nat, received : Nat]]
  /\ receipt \in [ReceiptKey -> [purchase : Purchase \union {NULL}, quantity : Nat,
                                 payable : Origin \union {NULL}]]
  /\ invoice \in [Invoice -> [status : {"NONE", "DRAFT", "VALIDATED"},
                              purchase : Purchase \union {NULL},
                              receipt : ReceiptKey \union {NULL}, amount : Nat,
                              version : Nat, payable : Origin \union {NULL}]]
  /\ payable \in [Origin -> [lifecycle : {"NONE", "ACTIVE", "CANCELLED"}, principal : Nat,
                             paid : Nat, byClient : BOOLEAN]]
  /\ pc \in [Call -> PC]
  /\ task \in [Call -> Task]

ReceiptsOf(p) == {k \in ReceiptKey : receipt[k].purchase = p}

OnApproved(p) == Issued(p) => request[p].status = "APPROVED"
NothingOnCancelled(p) == order[p].status = "CANCELLED" => ReceiptsOf(p) = {}
ShowsReceipts(p) ==
  order[p].received = MapThenSumSet(LAMBDA k : receipt[k].quantity, ReceiptsOf(p))
WithinOrdered(p) == order[p].received <= Ordered[p]

\* An order stands on an approved request, which no cancellation or rejection
\* overtakes, and goods are never received on a cancelled order, although both
\* cancellations look for what stands against them before their transaction.
\* What overlapping receipts bring in is what the order shows, and fits it.
OrdersStand ==
  \A p \in Purchase :
    OnApproved(p) /\ NothingOnCancelled(p) /\ ShowsReceipts(p) /\ WithinOrdered(p)

Concerns(i, p) ==
  \/ invoice[i].purchase = p
  \/ invoice[i].receipt \in ReceiptsOf(p)

\* The goods attached to a payable
Attached(o) ==
  MapThenSumSet(LAMBDA k : receipt[k].quantity, {k \in ReceiptKey : receipt[k].payable = o})

\* What was received, or invoiced, under an origin's id
Worth(o) == IF o \in ReceiptKey THEN receipt[o].quantity ELSE invoice[o].amount

\* A payable is worth the goods attached to it, with two exceptions.  The payable
\* that a client opened ahead of the receipt or the invoice has whatever
\* principal the client chose, and is taken as it is; even then the goods are
\* worth no more than the document it names.  And an invoice that names both the
\* order and one of its receipts is taken for an invoice of the whole order:
\* later receipts are attached to a payable of the first.
GoodsAreOwed ==
  \A o \in Origin :
    Attached(o) > (IF payable[o].byClient THEN Worth(o) ELSE payable[o].principal) =>
      \E i \in Invoice :
        invoice[i].payable = o /\ invoice[i].purchase # NULL /\ invoice[i].receipt # NULL

\* Validation opens no second payable for goods whose receipt has opened one.
\* (A client may open any number.)
NoSecondPayable ==
  \A i \in Invoice, k \in ReceiptKey :
    Opened(i) /\ ~payable[i].byClient /\ Opened(k) /\ ~payable[k].byClient =>
      ~(invoice[i].receipt = k \/ (invoice[i].receipt = NULL /\ Concerns(i, receipt[k].purchase)))

=============================================================================
