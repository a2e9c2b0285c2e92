-------------------------- MODULE BillingReceivables --------------------------
(***************************************************************************)
(* From a measurement to the money: billing records and the documents      *)
(* issued for them (apps/api/src/billing), the receivable that a document  *)
(* opens, its settlements and its collection case (apps/api/src/finance).  *)
(*                                                                         *)
(* Billing and finance write their own schemas, each in transactions of    *)
(* its own, so issuing, cancelling and replacing a document take several   *)
(* of them and a request may end between any two.  A database transaction  *)
(* is one step, except the settlement, whose check and whose insert rest   *)
(* on a row lock and are two steps.                                        *)
(*                                                                         *)
(* All records are of one measurement.  A receivable is named by the       *)
(* document that opened it.  The caller's rowVersion is the current one:   *)
(* with any other a call changes nothing, or fails where Abort may end it. *)
(***************************************************************************)
EXTENDS Integers, FiniteSets

CONSTANTS
  Record,     \* ids that billing records may get
  Document,   \* ids that billing documents may get
  Request,    \* HTTP requests that may be under way at once
  IssueKey,   \* idempotency keys of issue calls
  SettleKey,  \* idempotency keys of settlements
  NULL,
  Principal   \* total_amount of a document, in units of money

ASSUME ConstantsAssumption ==
  /\ NULL \notin Record
  /\ NULL \notin Document
  /\ NULL \notin IssueKey \union SettleKey
  /\ Principal \in Nat \ {0}

VARIABLES
  record,      \* bil.billing_records: status
  document,    \* bil.billing_documents: status
  billed,      \* billing_record_id of a document
  issueKey,    \* idempotency key under which a document was issued, or NULL
  receivable,  \* fin.receivables: lifecycle
  posted,      \* idempotency keys of a receivable's rows in fin.settlements
  paid,        \* sum of their amounts
  collection,  \* status of a receivable's latest collection case
  promise,     \* status of the promises of that case
  request,     \* a request's next step and what it knows
  missed       \* history: documents whose receivable a cancellation did not find

billingVars == <<record, document, billed, issueKey>>
debtVars == <<receivable, posted, paid>>
caseVars == <<collection, promise>>
vars == <<billingVars, debtVars, caseVars, request, missed>>

\* What a request does next
Step == {"idle", "issue", "open", "cancel", "replace", "settle", "collect"}

Idle == [step |-> "idle", record |-> NULL, document |-> NULL, key |-> NULL, amount |-> 0]

Init ==
  /\ record = [b \in Record |-> "ABSENT"]
  /\ document = [d \in Document |-> "ABSENT"]
  /\ billed = [d \in Document |-> NULL]
  /\ issueKey = [d \in Document |-> NULL]
  /\ receivable = [d \in Document |-> "ABSENT"]
  /\ posted = [d \in Document |-> {}]
  /\ paid = [d \in Document |-> 0]
  /\ collection = [d \in Document |-> "NONE"]
  /\ promise = [d \in Document |-> "NONE"]
  /\ request = [r \in Request |-> Idle]
  /\ missed = {}

At(r, step) == request[r].step = step

Finalized(b) == {d \in Document : document[d] = "FINALIZED" /\ billed[d] = b}

-----------------------------------------------------------------------------
\* Billing records

\* prepareBillingRecord: no other record of the measurement is PREPARED, by
\* the check under the measurement's lock and by the unique index.
PrepareBillingRecord(b) ==
  /\ record[b] = "ABSENT"
  /\ \A c \in Record : record[c] # "PREPARED"
  /\ record' = [record EXCEPT ![b] = "PREPARED"]
  /\ UNCHANGED <<document, billed, issueKey, debtVars, caseVars, request, missed>>

\* voidBillingRecord asks for the record's status, not for its documents.
VoidBillingRecord(b) ==
  /\ record[b] = "PREPARED"
  /\ record' = [record EXCEPT ![b] = "VOIDED"]
  /\ UNCHANGED <<document, billed, issueKey, debtVars, caseVars, request, missed>>

-----------------------------------------------------------------------------
\* Issuing a document: the record is read, the document is inserted in one
\* transaction, its receivable is opened in another.

ReadRecord(r, b, k) ==
  /\ At(r, "idle")
  /\ record[b] = "PREPARED"
  /\ request' = [request EXCEPT ![r] = [Idle EXCEPT !.step = "issue", !.record = b, !.key = k]]
  /\ UNCHANGED <<billingVars, debtVars, caseVars, missed>>

\* The request goes on to open the receivable of a document.
OpenNext(r, d) ==
  request' = [request EXCEPT ![r] = [Idle EXCEPT !.step = "open", !.document = d]]

\* A key that was used before yields its document, whatever became of it.
ReplayIssue(r) ==
  /\ At(r, "issue")
  /\ request[r].key # NULL
  /\ \E d \in Document : /\ billed[d] = request[r].record
                         /\ issueKey[d] = request[r].key
                         /\ OpenNext(r, d)
  /\ UNCHANGED <<billingVars, debtVars, caseVars, missed>>

InsertDocument(d, b, k) ==
  /\ billed' = [billed EXCEPT ![d] = b]
  /\ issueKey' = [issueKey EXCEPT ![d] = k]

\* mutant: neither the check nor the unique index on active documents
IssueUnchecked(r) ==
  /\ At(r, "issue")
  /\ \E d \in Document :
       /\ document[d] = "ABSENT"
       /\ document' = [document EXCEPT ![d] = "FINALIZED"]
       /\ InsertDocument(d, request[r].record, request[r].key)
       /\ OpenNext(r, d)
  /\ UNCHANGED <<record, debtVars, caseVars, missed>>

\* issueBillingDocument locks the record but does not read its status again.
IssueDocument(r) ==
  /\ At(r, "issue")
  /\ Finalized(request[r].record) = {}
  /\ request[r].key # NULL =>
       \A d \in Document : billed[d] = request[r].record => issueKey[d] # request[r].key
  /\ \E d \in Document :
       /\ document[d] = "ABSENT"
       /\ document' = [document EXCEPT ![d] = "FINALIZED"]
       /\ InsertDocument(d, request[r].record, request[r].key)
       /\ OpenNext(r, d)
  /\ UNCHANGED <<record, debtVars, caseVars, missed>>

\* openFromBilling: a receivable that exists is left as it is.
OpenReceivable(r) ==
  /\ At(r, "open")
  /\ LET d == request[r].document IN
       receivable' = [receivable EXCEPT ![d] = IF @ = "ABSENT" THEN "ACTIVE" ELSE @]
  /\ request' = [request EXCEPT ![r] = Idle]
  /\ UNCHANGED <<billingVars, posted, paid, caseVars, missed>>

-----------------------------------------------------------------------------
\* Cancelling and replacing a document: the receivable first, then the document

\* A settlement under way holds the row lock of its receivable.
Locked(d) == \E r \in Request : At(r, "settle") /\ request[r].document = d

\* mutant: the row is read without FOR UPDATE
CancellableUnlocked(d) == receivable[d] = "ACTIVE" /\ posted[d] = {}

\* ReceivablesRepository.cancel: an active receivable must have no settlement.
Cancellable(d) == receivable[d] = "ACTIVE" /\ posted[d] = {} /\ ~Locked(d)

\* cancelFromBilling: a receivable that is not there, or is cancelled already,
\* is no reason to stop.
CancelFromBilling(d) ==
  \/ /\ Cancellable(d)
     /\ receivable' = [receivable EXCEPT ![d] = "CANCELLED"]
     /\ UNCHANGED missed
  \/ /\ receivable[d] = "CANCELLED"
     /\ UNCHANGED <<receivable, missed>>
  \/ /\ receivable[d] = "ABSENT"
     /\ missed' = missed \union {d}
     /\ UNCHANGED receivable

\* mutant: the document is taken back and its receivable is left
StartWithoutReceivable(r, d, step) ==
  /\ At(r, "idle")
  /\ document[d] # "ABSENT"
  /\ request' = [request EXCEPT ![r] = [Idle EXCEPT !.step = step, !.document = d]]
  /\ UNCHANGED <<billingVars, debtVars, caseVars, missed>>

\* cancel and replace begin alike.
StartTakingBack(r, d, step) ==
  /\ At(r, "idle")
  /\ document[d] # "ABSENT"
  /\ CancelFromBilling(d)
  /\ request' = [request EXCEPT ![r] = [Idle EXCEPT !.step = step, !.document = d]]
  /\ UNCHANGED <<billingVars, posted, paid, caseVars>>

\* mutant: the status of a record that is taken back
CancelDocumentVoided(r) ==
  /\ At(r, "cancel")
  /\ document[request[r].document] = "FINALIZED"
  /\ document' = [document EXCEPT ![request[r].document] = "VOIDED"]
  /\ request' = [request EXCEPT ![r] = Idle]
  /\ UNCHANGED <<record, billed, issueKey, debtVars, caseVars, missed>>

\* cancelBillingDocument
CancelDocument(r) ==
  /\ At(r, "cancel")
  /\ document[request[r].document] = "FINALIZED"
  /\ document' = [document EXCEPT ![request[r].document] = "CANCELLED"]
  /\ request' = [request EXCEPT ![r] = Idle]
  /\ UNCHANGED <<record, billed, issueKey, debtVars, caseVars, missed>>

\* replaceBillingDocument: the record's status is not asked for.
ReplaceDocument(r) ==
  /\ At(r, "replace")
  /\ LET old == request[r].document IN
     /\ document[old] = "FINALIZED"
     /\ Finalized(billed[old]) = {old}
     /\ \E d \in Document :
          /\ document[d] = "ABSENT"
          /\ document' = [document EXCEPT ![old] = "CANCELLED", ![d] = "FINALIZED"]
          /\ InsertDocument(d, billed[old], NULL)
          /\ OpenNext(r, d)
  /\ UNCHANGED <<record, debtVars, caseVars, missed>>

\* A user of finance cancels the receivable itself.
CancelReceivable(d) ==
  /\ Cancellable(d)
  /\ receivable' = [receivable EXCEPT ![d] = "CANCELLED"]
  /\ UNCHANGED <<billingVars, posted, paid, caseVars, request, missed>>

-----------------------------------------------------------------------------
\* Settlements

\* mutant: the row is read without FOR UPDATE
SettleableUnlocked(d, k, amount) ==
  /\ receivable[d] = "ACTIVE"
  /\ k \notin posted[d]
  /\ amount <= Principal - paid[d]

\* settle, under the row's lock: a key that was posted before is replayed, a
\* cancelled receivable and an overpayment are refused.
Settleable(d, k, amount) ==
  /\ receivable[d] = "ACTIVE"
  /\ ~Locked(d)
  /\ k \notin posted[d]
  /\ amount <= Principal - paid[d]

CheckSettlement(r, d, k, amount) ==
  /\ At(r, "idle")
  /\ Settleable(d, k, amount)
  /\ request' = [request EXCEPT ![r] = [Idle EXCEPT !.step = "settle", !.document = d,
                                                    !.key = k, !.amount = amount]]
  /\ UNCHANGED <<billingVars, debtVars, caseVars, missed>>

\* mutant: any payment closes the case
SettlementOutcomeAny(d, total) ==
  IF collection[d] = "OPEN"
    THEN /\ collection' = [collection EXCEPT ![d] = "CLOSED"]
         /\ promise' = [promise EXCEPT ![d] = IF @ = "OPEN" THEN "KEPT" ELSE @]
    ELSE UNCHANGED caseVars

\* applySettlementOutcome: nothing remains, so the open case is closed and its
\* promises are kept.
SettlementOutcome(d, total) ==
  IF collection[d] = "OPEN" /\ total >= Principal
    THEN /\ collection' = [collection EXCEPT ![d] = "CLOSED"]
         /\ promise' = [promise EXCEPT ![d] = IF @ = "OPEN" THEN "KEPT" ELSE @]
    ELSE UNCHANGED caseVars

PostSettlement(r) ==
  /\ At(r, "settle")
  /\ LET d == request[r].document
         total == paid[d] + request[r].amount IN
     /\ request[r].key \notin posted[d]
     /\ posted' = [posted EXCEPT ![d] = @ \union {request[r].key}]
     /\ paid' = [paid EXCEPT ![d] = total]
     /\ SettlementOutcome(d, total)
  /\ request' = [request EXCEPT ![r] = Idle]
  /\ UNCHANGED <<billingVars, receivable, missed>>

-----------------------------------------------------------------------------
\* Collection

\* open reads the receivable and its settlements outside any transaction.
\* Whether the debt is overdue by now is left open.
ReadDebt(r, d) ==
  /\ At(r, "idle")
  /\ receivable[d] = "ACTIVE"
  /\ paid[d] < Principal
  /\ request' = [request EXCEPT ![r] = [Idle EXCEPT !.step = "collect", !.document = d]]
  /\ UNCHANGED <<billingVars, debtVars, caseVars, missed>>

\* openCase: an open case is returned as it is.
OpenCase(r) ==
  /\ At(r, "collect")
  /\ LET d == request[r].document IN
       IF collection[d] = "OPEN" THEN UNCHANGED caseVars
       ELSE /\ collection' = [collection EXCEPT ![d] = "OPEN"]
            /\ promise' = [promise EXCEPT ![d] = "NONE"]
  /\ request' = [request EXCEPT ![r] = Idle]
  /\ UNCHANGED <<billingVars, debtVars, missed>>

\* recordPromise, and renegotiate with a promise
RecordPromise(d) ==
  /\ collection[d] = "OPEN"
  /\ promise' = [promise EXCEPT ![d] = "OPEN"]
  /\ UNCHANGED <<billingVars, debtVars, collection, request, missed>>

-----------------------------------------------------------------------------
\* A request ends early: a check or a statement fails, the process dies, or a
\* later guard refuses what an earlier step has prepared.
Abort(r) ==
  /\ ~At(r, "idle")
  /\ request' = [request EXCEPT ![r] = Idle]
  /\ UNCHANGED <<billingVars, debtVars, caseVars, missed>>

Next ==
  \/ \E b \in Record : PrepareBillingRecord(b) \/ VoidBillingRecord(b)
  \/ \E r \in Request, b \in Record, k \in IssueKey \union {NULL} : ReadRecord(r, b, k)
  \/ \E r \in Request, d \in Document :
       \/ \E step \in {"cancel", "replace"} : StartTakingBack(r, d, step)
       \/ \E k \in SettleKey, amount \in 1 .. Principal : CheckSettlement(r, d, k, amount)
       \/ ReadDebt(r, d)
  \/ \E d \in Document : CancelReceivable(d) \/ RecordPromise(d)
  \/ \E r \in Request :
       \/ ReplayIssue(r) \/ IssueDocument(r) \/ OpenReceivable(r)
       \/ CancelDocument(r) \/ ReplaceDocument(r)
       \/ PostSettlement(r) \/ OpenCase(r) \/ Abort(r)

Spec == Init /\ [][Next]_vars

-----------------------------------------------------------------------------
\* Correctness

Key == IssueKey \union SettleKey

RequestType == [step : Step, record : Record \union {NULL},
                document : Document \union {NULL}, key : Key \union {NULL},
                amount : 0 .. Principal]

TypeOK ==
  /\ record \in [Record -> {"ABSENT", "PREPARED", "VOIDED"}]
  /\ document \in [Document -> {"ABSENT", "FINALIZED", "CANCELLED"}]
  /\ billed \in [Document -> Record \union {NULL}]
  /\ issueKey \in [Document -> Key \union {NULL}]
  /\ receivable \in [Document -> {"ABSENT", "ACTIVE", "CANCELLED"}]
  /\ posted \in [Document -> SUBSET Key]
  /\ paid \in [Document -> Nat]
  /\ collection \in [Document -> {"NONE", "OPEN", "CLOSED"}]
  /\ promise \in [Document -> {"NONE", "OPEN", "KEPT"}]
  /\ request \in [Request -> RequestType]
  /\ missed \subseteq Document

\* However settlements of a receivable overlap, they never add up to more than
\* it is worth.
NoOverpayment == \A d \in Document : paid[d] <= Principal

\* Cancelling and settling exclude each other: no money is posted to a
\* receivable that is cancelled or was never opened.
OnlyActiveDebtsArePaid == \A d \in Document : receivable[d] # "ACTIVE" => paid[d] = 0

\* Because the receivable goes first, an active receivable outlives its
\* document only when the cancellation came before the receivable was opened.
OrphansWereMissed ==
  \A d \in Document :
    document[d] = "CANCELLED" /\ receivable[d] = "ACTIVE" => d \in missed

\* Two live documents of the measurement are of different records, and all but
\* one of these were voided under their document.
DoubleBillingNeedsVoid ==
  \A c, d \in Document :
    c # d /\ document[c] = "FINALIZED" /\ document[d] = "FINALIZED"
      => /\ billed[c] # billed[d]
         /\ record[billed[c]] = "VOIDED" \/ record[billed[d]] = "VOIDED"

\* A case is closed only on a debt that is paid in full, and a promise waits
\* only in an open case.
ClosedCasesArePaid ==
  \A d \in Document :
    /\ collection[d] = "CLOSED" => paid[d] = Principal
    /\ promise[d] = "OPEN" => collection[d] = "OPEN"

=============================================================================
