---------------------- MODULE BillingReceivables_proofs ----------------------
(***************************************************************************)
(* Theorems about billing and receivables, for any records, documents,     *)
(* requests, keys and principal: types, that overlapping settlements never *)
(* overpay nor pay a cancelled debt, that only a receivable which a        *)
(* cancellation did not find outlives its document, that a measurement is  *)
(* billed twice only over a voided record, and that closed cases are paid. *)
(***************************************************************************)
EXTENDS BillingReceivables, TLAPS

-----------------------------------------------------------------------------
\* Types

\* What a request knows at each of its steps
RequestInv ==
  \A r \in Request :
    /\ At(r, "issue") => request[r].record \in Record
    /\ request[r].step \notin {"idle", "issue"} => request[r].document \in Document
    /\ At(r, "settle") => request[r].key \in Key

TypeInv == TypeOK /\ RequestInv

\* The requests a step may leave behind
LEMMA RequestTypes ==
  /\ Idle \in RequestType
  /\ \A s \in Step, b \in Record, k \in Key \union {NULL} :
       [Idle EXCEPT !.step = s, !.record = b, !.key = k] \in RequestType
  /\ \A s \in Step, d \in Document :
       [Idle EXCEPT !.step = s, !.document = d] \in RequestType
  /\ \A d \in Document, k \in Key, n \in 0 .. Principal :
       [Idle EXCEPT !.step = "settle", !.document = d, !.key = k, !.amount = n]
         \in RequestType
<1>1. 0 \in 0 .. Principal
  BY ConstantsAssumption
<1>2. Idle \in RequestType
  BY <1>1 DEF Idle, RequestType, Step
<1>3. ASSUME NEW s \in Step, NEW b \in Record, NEW k \in Key \union {NULL}
      PROVE  [Idle EXCEPT !.step = s, !.record = b, !.key = k] \in RequestType
  BY <1>2 DEF RequestType
<1>4. ASSUME NEW s \in Step, NEW d \in Document
      PROVE  [Idle EXCEPT !.step = s, !.document = d] \in RequestType
  BY <1>2 DEF RequestType
<1>5. ASSUME NEW d \in Document, NEW k \in Key, NEW n \in 0 .. Principal
      PROVE  [Idle EXCEPT !.step = "settle", !.document = d, !.key = k, !.amount = n]
               \in RequestType
  BY <1>2 DEF RequestType, Step
<1> QED BY <1>2, <1>3, <1>4, <1>5

\* A request that ends is idle.
LEMMA EndType ==
  ASSUME TypeInv, NEW r \in Request, request' = [request EXCEPT ![r] = Idle]
  PROVE  request' \in [Request -> RequestType] /\ RequestInv'
<1>1. request' \in [Request -> RequestType]
  BY RequestTypes DEF TypeInv, TypeOK
<1>2. RequestInv'
  BY DEF TypeInv, TypeOK, RequestInv, At, Idle
<1> QED BY <1>1, <1>2

\* A request that goes on with a document knows it.
LEMMA GoOnType ==
  ASSUME TypeInv, NEW r \in Request, NEW d \in Document,
         NEW s \in Step \ {"idle", "issue", "settle"},
         request' = [request EXCEPT ![r] = [Idle EXCEPT !.step = s, !.document = d]]
  PROVE  request' \in [Request -> RequestType] /\ RequestInv'
<1>1. request' \in [Request -> RequestType]
  BY RequestTypes DEF TypeInv, TypeOK
<1>2. RequestInv'
  BY DEF TypeInv, TypeOK, RequestInv, At, Idle
<1> QED BY <1>1, <1>2

LEMMA InitType == Init => TypeInv
<1> SUFFICES ASSUME Init PROVE TypeInv
  OBVIOUS
<1>1. TypeOK
  BY RequestTypes DEF Init, TypeOK
<1>2. RequestInv
  BY DEF Init, RequestInv, At, Idle
<1> QED BY <1>1, <1>2 DEF TypeInv

LEMMA StepType == TypeInv /\ [Next]_vars => TypeInv'
<1> SUFFICES ASSUME TypeInv, [Next]_vars PROVE TypeInv'
  OBVIOUS
<1> USE DEF billingVars, debtVars, caseVars
<1>1. ASSUME NEW b \in Record, PrepareBillingRecord(b) \/ VoidBillingRecord(b)
      PROVE  TypeInv'
  BY <1>1 DEF PrepareBillingRecord, VoidBillingRecord, TypeInv, TypeOK, RequestInv, At
<1>2. ASSUME NEW r \in Request, NEW b \in Record, NEW k \in IssueKey \union {NULL},
             ReadRecord(r, b, k)
      PROVE  TypeInv'
  <2>1. request' \in [Request -> RequestType]
    BY <1>2, RequestTypes DEF ReadRecord, TypeInv, TypeOK, Key, Step
  <2>2. RequestInv'
    BY <1>2 DEF ReadRecord, TypeInv, TypeOK, RequestInv, At, Idle
  <2> QED BY <1>2, <2>1, <2>2 DEF ReadRecord, TypeInv, TypeOK
<1>3. ASSUME NEW r \in Request, ReplayIssue(r) PROVE TypeInv'
  <2>1. request' \in [Request -> RequestType] /\ RequestInv'
    BY <1>3, GoOnType DEF ReplayIssue, OpenNext, Step
  <2> QED BY <1>3, <2>1 DEF ReplayIssue, TypeInv, TypeOK
<1>4. ASSUME NEW r \in Request, IssueDocument(r) PROVE TypeInv'
  <2>1. request' \in [Request -> RequestType] /\ RequestInv'
    BY <1>4, GoOnType DEF IssueDocument, OpenNext, Step
  <2>2. request[r].record \in Record /\ request[r].key \in Key \union {NULL}
    BY <1>4 DEF IssueDocument, TypeInv, TypeOK, RequestInv, RequestType
  <2> QED BY <1>4, <2>1, <2>2 DEF IssueDocument, InsertDocument, TypeInv, TypeOK
<1>5. ASSUME NEW r \in Request, OpenReceivable(r) PROVE TypeInv'
  <2>1. request' \in [Request -> RequestType] /\ RequestInv'
    BY <1>5, EndType DEF OpenReceivable
  <2> QED BY <1>5, <2>1 DEF OpenReceivable, TypeInv, TypeOK
<1>6. ASSUME NEW r \in Request, NEW d \in Document, NEW s \in {"cancel", "replace"},
             StartTakingBack(r, d, s)
      PROVE  TypeInv'
  <2>1. request' \in [Request -> RequestType] /\ RequestInv'
    BY <1>6, GoOnType DEF StartTakingBack, Step
  <2> QED BY <1>6, <2>1 DEF StartTakingBack, CancelFromBilling, TypeInv, TypeOK
<1>7. ASSUME NEW r \in Request, CancelDocument(r) PROVE TypeInv'
  <2>1. request' \in [Request -> RequestType] /\ RequestInv'
    BY <1>7, EndType DEF CancelDocument
  <2> QED BY <1>7, <2>1 DEF CancelDocument, TypeInv, TypeOK
<1>8. ASSUME NEW r \in Request, ReplaceDocument(r) PROVE TypeInv'
  <2>1. request' \in [Request -> RequestType] /\ RequestInv'
    <3>1. PICK d \in Document : OpenNext(r, d)
      BY <1>8 DEF ReplaceDocument
    <3> QED BY <3>1, GoOnType DEF OpenNext, Step
  <2>2. request[r].document \in Document
    BY <1>8 DEF ReplaceDocument, TypeInv, RequestInv, At
  <2> QED BY <1>8, <2>1, <2>2 DEF ReplaceDocument, InsertDocument, TypeInv, TypeOK
<1>9. ASSUME NEW d \in Document, CancelReceivable(d) \/ RecordPromise(d) PROVE TypeInv'
  BY <1>9 DEF CancelReceivable, RecordPromise, TypeInv, TypeOK, RequestInv, At
<1>10. ASSUME NEW r \in Request, NEW d \in Document, NEW k \in SettleKey,
              NEW n \in 1 .. Principal, CheckSettlement(r, d, k, n)
       PROVE  TypeInv'
  <2>1. k \in Key /\ n \in 0 .. Principal
    BY ConstantsAssumption DEF Key
  <2>2. request' \in [Request -> RequestType]
    BY <1>10, <2>1, RequestTypes DEF CheckSettlement, TypeInv, TypeOK
  <2>3. RequestInv'
    BY <1>10, <2>1 DEF CheckSettlement, TypeInv, TypeOK, RequestInv, At, Idle
  <2> QED BY <1>10, <2>2, <2>3 DEF CheckSettlement, TypeInv, TypeOK
<1>11. ASSUME NEW r \in Request, PostSettlement(r) PROVE TypeInv'
  <2>1. request' \in [Request -> RequestType] /\ RequestInv'
    BY <1>11, EndType DEF PostSettlement
  <2>2. /\ request[r].document \in Document
        /\ request[r].key \in Key
        /\ request[r].amount \in Nat
    BY <1>11, ConstantsAssumption
       DEF PostSettlement, TypeInv, TypeOK, RequestInv, RequestType, At
  <2>3. posted' \in [Document -> SUBSET Key] /\ paid' \in [Document -> Nat]
    BY <1>11, <2>2 DEF PostSettlement, TypeInv, TypeOK
  <2>4. /\ collection' \in [Document -> {"NONE", "OPEN", "CLOSED"}]
        /\ promise' \in [Document -> {"NONE", "OPEN", "KEPT"}]
    BY <1>11, <2>2 DEF PostSettlement, SettlementOutcome, TypeInv, TypeOK
  <2> QED BY <1>11, <2>1, <2>3, <2>4 DEF PostSettlement, TypeInv, TypeOK
<1>12. ASSUME NEW r \in Request, NEW d \in Document, ReadDebt(r, d) PROVE TypeInv'
  <2>1. request' \in [Request -> RequestType] /\ RequestInv'
    BY <1>12, GoOnType DEF ReadDebt, Step
  <2> QED BY <1>12, <2>1 DEF ReadDebt, TypeInv, TypeOK
<1>13. ASSUME NEW r \in Request, OpenCase(r) PROVE TypeInv'
  <2>1. request' \in [Request -> RequestType] /\ RequestInv'
    BY <1>13, EndType DEF OpenCase
  <2> QED BY <1>13, <2>1 DEF OpenCase, TypeInv, TypeOK
<1>14. ASSUME NEW r \in Request, Abort(r) PROVE TypeInv'
  <2>1. request' \in [Request -> RequestType] /\ RequestInv'
    BY <1>14, EndType DEF Abort
  <2> QED BY <1>14, <2>1 DEF Abort, TypeInv, TypeOK
<1>15. CASE UNCHANGED vars
  BY <1>15 DEF vars, TypeInv, TypeOK, RequestInv, At
<1> QED BY <1>1, <1>2, <1>3, <1>4, <1>5, <1>6, <1>7, <1>8, <1>9, <1>10, <1>11, <1>12,
           <1>13, <1>14, <1>15 DEF Next

LEMMA TypesHold == Spec => []TypeInv
BY InitType, StepType, PTL DEF Spec

\* Every variable keeps its type: tables of bil.* and fin.*, and requests.
THEOREM TypeCorrect == Spec => []TypeOK
<1>1. TypeInv => TypeOK
  BY DEF TypeInv
<1> QED BY <1>1, TypesHold, PTL

-----------------------------------------------------------------------------
\* Debts: the row lock makes a settlement's check hold until its insert.

SettleInv ==
  /\ \A r \in Request : At(r, "settle") =>
       /\ receivable[request[r].document] = "ACTIVE"
       /\ paid[request[r].document] + request[r].amount <= Principal
  /\ \A r, s \in Request :
       At(r, "settle") /\ At(s, "settle") /\ request[r].document = request[s].document
         => r = s

DebtInv ==
  /\ SettleInv
  /\ NoOverpayment
  /\ OnlyActiveDebtsArePaid
  /\ \A d \in Document : posted[d] = {} => paid[d] = 0

\* A step that leaves debts alone and starts no settlement keeps the invariant.
LEMMA DebtUntouched ==
  ASSUME TypeInv, DebtInv, UNCHANGED debtVars, NEW r \in Request,
         NEW q, q.step # "settle", request' = [request EXCEPT ![r] = q]
  PROVE  DebtInv'
BY DEF DebtInv, SettleInv, NoOverpayment, OnlyActiveDebtsArePaid, debtVars, At,
       TypeInv, TypeOK

\* So does one that leaves the requests alone.
LEMMA DebtUnmoved ==
  ASSUME DebtInv, UNCHANGED <<debtVars, request>>
  PROVE  DebtInv'
BY DEF DebtInv, SettleInv, NoOverpayment, OnlyActiveDebtsArePaid, debtVars, At

\* Cancelling a receivable without settlements, which nobody is settling, keeps
\* the invariant.
LEMMA DebtCancelled ==
  ASSUME TypeInv, DebtInv, NEW d \in Document, Cancellable(d),
         receivable' = [receivable EXCEPT ![d] = "CANCELLED"],
         UNCHANGED <<posted, paid>>,
         \A r \in Request : At(r, "settle")' => UNCHANGED request[r]
  PROVE  DebtInv'
<1>1. \A r \in Request : At(r, "settle")' =>
        /\ At(r, "settle")
        /\ request'[r] = request[r]
        /\ request[r].document # d
  BY DEF At, Cancellable, Locked
<1>2. SettleInv'
  <2>1. ASSUME NEW r \in Request, At(r, "settle")'
        PROVE  /\ receivable'[request'[r].document] = "ACTIVE"
               /\ paid'[request'[r].document] + request'[r].amount <= Principal
    <3>1. request[r].document \in Document
      BY <1>1, <2>1 DEF TypeInv, RequestInv, At
    <3> QED BY <1>1, <2>1, <3>1 DEF DebtInv, SettleInv, TypeInv, TypeOK
  <2>2. \A r, s \in Request :
          At(r, "settle")' /\ At(s, "settle")' /\ request'[r].document = request'[s].document
            => r = s
    BY <1>1 DEF DebtInv, SettleInv
  <2> QED BY <2>1, <2>2 DEF SettleInv, At
<1>3. paid[d] = 0
  BY DEF DebtInv, Cancellable
<1> QED BY <1>2, <1>3 DEF DebtInv, NoOverpayment, OnlyActiveDebtsArePaid, TypeInv, TypeOK

LEMMA InitDebt == Init => DebtInv
BY ConstantsAssumption
   DEF Init, DebtInv, SettleInv, NoOverpayment, OnlyActiveDebtsArePaid, At, Idle

LEMMA StepDebt == TypeInv /\ DebtInv /\ [Next]_vars => DebtInv'
<1> SUFFICES ASSUME TypeInv, DebtInv, [Next]_vars PROVE DebtInv'
  OBVIOUS
<1>1. ASSUME NEW b \in Record, PrepareBillingRecord(b) \/ VoidBillingRecord(b)
      PROVE  DebtInv'
  BY <1>1, DebtUnmoved DEF PrepareBillingRecord, VoidBillingRecord
<1>2. ASSUME NEW r \in Request, NEW b \in Record, NEW k \in IssueKey \union {NULL},
             ReadRecord(r, b, k)
      PROVE  DebtInv'
  BY <1>2, DebtUntouched DEF ReadRecord, Idle
<1>3. ASSUME NEW r \in Request, ReplayIssue(r) \/ IssueDocument(r) \/ ReplaceDocument(r)
      PROVE  DebtInv'
  <2>1. PICK d \in Document : OpenNext(r, d)
    BY <1>3 DEF ReplayIssue, IssueDocument, ReplaceDocument
  <2>2. UNCHANGED debtVars
    BY <1>3 DEF ReplayIssue, IssueDocument, ReplaceDocument
  <2> QED BY <2>1, <2>2, DebtUntouched DEF OpenNext, Idle
<1>4. ASSUME NEW r \in Request, OpenReceivable(r) PROVE DebtInv'
  <2> DEFINE d == request[r].document
  <2>1. d \in Document
    BY <1>4 DEF OpenReceivable, TypeInv, RequestInv, At
  <2>2. receivable' = [receivable EXCEPT ![d] = IF @ = "ABSENT" THEN "ACTIVE" ELSE @]
    BY <1>4 DEF OpenReceivable
  <2>3. \A c \in Document : receivable[c] = "ACTIVE" => receivable'[c] = "ACTIVE"
    BY <2>1, <2>2 DEF TypeInv, TypeOK
  <2>4. \A s \in Request : At(s, "settle")' => At(s, "settle") /\ request'[s] = request[s]
    BY <1>4 DEF OpenReceivable, At, Idle, TypeInv, TypeOK
  <2>5. SettleInv'
    <3>1. \A s \in Request : At(s, "settle") => request[s].document \in Document
      BY DEF TypeInv, RequestInv, At
    <3> QED BY <1>4, <2>3, <2>4, <3>1 DEF OpenReceivable, DebtInv, SettleInv, At
  <2> QED BY <1>4, <2>3, <2>5 DEF OpenReceivable, DebtInv, NoOverpayment, OnlyActiveDebtsArePaid
<1>5. ASSUME NEW r \in Request, NEW d \in Document, NEW s \in {"cancel", "replace"},
             StartTakingBack(r, d, s)
      PROVE  DebtInv'
  <2>1. request' = [request EXCEPT ![r] = [Idle EXCEPT !.step = s, !.document = d]]
    BY <1>5 DEF StartTakingBack
  <2>2. CASE UNCHANGED receivable
    BY <1>5, <2>1, <2>2, DebtUntouched DEF StartTakingBack, debtVars, Idle
  <2>3. CASE Cancellable(d) /\ receivable' = [receivable EXCEPT ![d] = "CANCELLED"]
    <3>1. \A q \in Request : At(q, "settle")' => UNCHANGED request[q]
      BY <2>1 DEF At, Idle, TypeInv, TypeOK
    <3> QED BY <1>5, <2>3, <3>1, DebtCancelled DEF StartTakingBack
  <2> QED BY <1>5, <2>2, <2>3 DEF StartTakingBack, CancelFromBilling
<1>6. ASSUME NEW r \in Request, CancelDocument(r) \/ OpenCase(r) \/ Abort(r)
      PROVE  DebtInv'
  BY <1>6, DebtUntouched DEF CancelDocument, OpenCase, Abort, Idle
<1>7. ASSUME NEW d \in Document, CancelReceivable(d) PROVE DebtInv'
  BY <1>7, DebtCancelled DEF CancelReceivable
<1>8. ASSUME NEW d \in Document, RecordPromise(d) PROVE DebtInv'
  BY <1>8, DebtUnmoved DEF RecordPromise
<1>9. ASSUME NEW r \in Request, NEW d \in Document, NEW k \in SettleKey,
             NEW n \in 1 .. Principal, CheckSettlement(r, d, k, n)
      PROVE  DebtInv'
  <2>1. /\ receivable[d] = "ACTIVE"
        /\ paid[d] + n <= Principal
        /\ \A s \in Request : At(s, "settle") => request[s].document # d
    BY <1>9, ConstantsAssumption
       DEF CheckSettlement, Settleable, Locked, TypeInv, TypeOK
  <2>2. /\ request'[r].step = "settle"
        /\ request'[r].document = d
        /\ request'[r].amount = n
        /\ \A s \in Request \ {r} : request'[s] = request[s]
    BY <1>9 DEF CheckSettlement, Idle, TypeInv, TypeOK
  <2>3. SettleInv'
    BY <1>9, <2>1, <2>2 DEF CheckSettlement, debtVars, DebtInv, SettleInv, At
  <2> QED BY <1>9, <2>3
          DEF CheckSettlement, debtVars, DebtInv, NoOverpayment, OnlyActiveDebtsArePaid
<1>10. ASSUME NEW r \in Request, PostSettlement(r) PROVE DebtInv'
  <2> DEFINE d == request[r].document
             n == request[r].amount
  <2>1. /\ d \in Document
        /\ n \in Nat
        /\ paid[d] \in Nat
        /\ receivable[d] = "ACTIVE"
        /\ paid[d] + n <= Principal
    BY <1>10, ConstantsAssumption
       DEF PostSettlement, TypeInv, TypeOK, RequestInv, RequestType, DebtInv, SettleInv, At
  <2>2. /\ paid' = [paid EXCEPT ![d] = paid[d] + n]
        /\ posted' = [posted EXCEPT ![d] = @ \union {request[r].key}]
        /\ UNCHANGED receivable
    BY <1>10 DEF PostSettlement
  <2>3. \A s \in Request : At(s, "settle")' =>
          /\ At(s, "settle")
          /\ request'[s] = request[s]
          /\ request[s].document \in Document \ {d}
    BY <1>10 DEF PostSettlement, At, Idle, TypeInv, TypeOK, RequestInv, DebtInv, SettleInv
  <2>4. SettleInv'
    BY <2>2, <2>3 DEF DebtInv, SettleInv, At, TypeInv, TypeOK
  <2>5. NoOverpayment' /\ OnlyActiveDebtsArePaid'
    BY <2>1, <2>2 DEF DebtInv, NoOverpayment, OnlyActiveDebtsArePaid, TypeInv, TypeOK
  <2>6. \A c \in Document : posted'[c] = {} => paid'[c] = 0
    BY <2>1, <2>2 DEF DebtInv, TypeInv, TypeOK
  <2> QED BY <2>4, <2>5, <2>6 DEF DebtInv
<1>11. ASSUME NEW r \in Request, NEW d \in Document, ReadDebt(r, d) PROVE DebtInv'
  BY <1>11, DebtUntouched DEF ReadDebt, Idle
<1>12. CASE UNCHANGED vars
  BY <1>12, DebtUnmoved DEF vars
<1> QED BY <1>1, <1>2, <1>3, <1>4, <1>5, <1>6, <1>7, <1>8, <1>9, <1>10, <1>11, <1>12
        DEF Next

LEMMA DebtsHold == Spec => []DebtInv
<1>1. Init => TypeInv /\ DebtInv
  BY InitType, InitDebt
<1>2. TypeInv /\ DebtInv /\ [Next]_vars => (TypeInv /\ DebtInv)'
  BY StepType, StepDebt
<1> QED BY <1>1, <1>2, PTL DEF Spec

\* Settlements that overlap never add up to more than the principal.
THEOREM NeverOverpaid == Spec => []NoOverpayment
<1>1. DebtInv => NoOverpayment
  BY DEF DebtInv
<1> QED BY <1>1, DebtsHold, PTL

\* No money is ever posted to a cancelled receivable.
THEOREM CancelledStayUnpaid == Spec => []OnlyActiveDebtsArePaid
<1>1. DebtInv => OnlyActiveDebtsArePaid
  BY DEF DebtInv
<1> QED BY <1>1, DebtsHold, PTL

-----------------------------------------------------------------------------
\* Only the request that goes on to open a receivable moves.
LEMMA OpenNextMoves ==
  ASSUME TypeInv, NEW r \in Request, NEW d, OpenNext(r, d)
  PROVE  /\ request'[r].step = "open"
         /\ \A q \in Request \ {r} : request'[q] = request[q]
BY DEF OpenNext, Idle, TypeInv, TypeOK

-----------------------------------------------------------------------------
\* Orphans: a cancellation that goes on has found its receivable and cancelled
\* it, or has missed it.

TakenBack(d) == receivable[d] = "CANCELLED" \/ d \in missed

OrphanInv ==
  /\ \A d \in Document : document[d] = "CANCELLED" => TakenBack(d)
  /\ \A r \in Request :
       At(r, "cancel") \/ At(r, "replace") => TakenBack(request[r].document)

\* A document that is taken back stays so: its receivable is never revived.
LEMMA TakenBackStays ==
  ASSUME TypeInv, [Next]_vars, NEW d \in Document, TakenBack(d)
  PROVE  TakenBack(d)'
<1>1. CASE UNCHANGED <<receivable, missed>>
  BY <1>1 DEF TakenBack
<1>2. ASSUME NEW r \in Request, OpenReceivable(r) PROVE TakenBack(d)'
  BY <1>2 DEF OpenReceivable, TakenBack, TypeInv, TypeOK
<1>3. ASSUME NEW r \in Request, NEW c \in Document, NEW s \in {"cancel", "replace"},
             StartTakingBack(r, c, s)
      PROVE  TakenBack(d)'
  BY <1>3 DEF StartTakingBack, CancelFromBilling, TakenBack, TypeInv, TypeOK
<1>4. ASSUME NEW c \in Document, CancelReceivable(c) PROVE TakenBack(d)'
  BY <1>4 DEF CancelReceivable, TakenBack, TypeInv, TypeOK
<1> QED BY <1>1, <1>2, <1>3, <1>4
     DEF Next, vars, debtVars, PrepareBillingRecord, VoidBillingRecord, ReadRecord,
         ReplayIssue, IssueDocument, CancelDocument, ReplaceDocument, CheckSettlement,
         PostSettlement, ReadDebt, OpenCase, RecordPromise, Abort

\* A step that cancels no document and starts no cancellation keeps the invariant.
LEMMA OrphanUntouched ==
  ASSUME TypeInv, OrphanInv, [Next]_vars,
         \A d \in Document : document'[d] = "CANCELLED" => document[d] = "CANCELLED",
         \A r \in Request : At(r, "cancel")' \/ At(r, "replace")' => UNCHANGED request[r]
  PROVE  OrphanInv'
<1>1. \A d \in Document : document'[d] = "CANCELLED" => TakenBack(d)'
  BY TakenBackStays DEF OrphanInv
<1>2. ASSUME NEW r \in Request, At(r, "cancel")' \/ At(r, "replace")'
      PROVE  TakenBack(request[r].document)' /\ UNCHANGED request[r]
  <2>1. UNCHANGED request[r]
    BY <1>2
  <2>2. request[r].document \in Document /\ TakenBack(request[r].document)
    BY <1>2, <2>1 DEF OrphanInv, TypeInv, RequestInv, At
  <2>3. PICK d \in Document : d = request[r].document
    BY <2>2
  <2>4. TakenBack(d)'
    BY <2>2, <2>3, TakenBackStays
  <2> QED BY <2>1, <2>3, <2>4 DEF TakenBack
<1> QED BY <1>1, <1>2 DEF OrphanInv, TakenBack

LEMMA InitOrphan == Init => OrphanInv
BY DEF Init, OrphanInv, At, Idle

LEMMA StepOrphan == TypeInv /\ OrphanInv /\ [Next]_vars => OrphanInv'
<1> SUFFICES ASSUME TypeInv, OrphanInv, [Next]_vars PROVE OrphanInv'
  OBVIOUS
<1>1. ASSUME NEW r \in Request, NEW d \in Document, NEW s \in {"cancel", "replace"},
             StartTakingBack(r, d, s)
      PROVE  OrphanInv'
  <2>1. TakenBack(d)'
    BY <1>1 DEF StartTakingBack, CancelFromBilling, TakenBack, TypeInv, TypeOK
  <2>2. \A c \in Document : document'[c] = "CANCELLED" => TakenBack(c)'
    BY <1>1, TakenBackStays DEF StartTakingBack, billingVars, OrphanInv
  <2>3. request'[r].document = d /\ \A q \in Request \ {r} : request'[q] = request[q]
    BY <1>1 DEF StartTakingBack, Idle, TypeInv, TypeOK
  <2>4. ASSUME NEW q \in Request, At(q, "cancel")' \/ At(q, "replace")'
        PROVE  TakenBack(request[q].document)'
    <3>1. CASE q = r
      BY <2>1, <2>3, <3>1 DEF TakenBack
    <3>2. CASE q # r
      <4>1. PICK c \in Document : c = request[q].document /\ TakenBack(c)
        BY <2>3, <2>4, <3>2 DEF OrphanInv, TypeInv, RequestInv, At
      <4> QED BY <2>3, <3>2, <4>1, TakenBackStays DEF TakenBack
    <3> QED BY <3>1, <3>2
  <2> QED BY <2>2, <2>4 DEF OrphanInv
<1>2. ASSUME NEW r \in Request, CancelDocument(r) \/ ReplaceDocument(r) PROVE OrphanInv'
  <2> DEFINE old == request[r].document
  <2>1. old \in Document /\ TakenBack(old)
    BY <1>2 DEF CancelDocument, ReplaceDocument, OrphanInv, TypeInv, RequestInv, At
  <2>2. \A d \in Document : document'[d] = "CANCELLED" => d = old \/ document[d] = "CANCELLED"
    BY <1>2, <2>1 DEF CancelDocument, ReplaceDocument, TypeInv, TypeOK
  <2>3. \A d \in Document : document'[d] = "CANCELLED" => TakenBack(d)'
    BY <2>1, <2>2, TakenBackStays DEF OrphanInv
  <2>4. ASSUME NEW q \in Request, At(q, "cancel")' \/ At(q, "replace")'
        PROVE  TakenBack(request[q].document)'
    <3>1. q # r /\ request'[q] = request[q]
      <4>1. CASE CancelDocument(r)
        BY <2>4, <4>1 DEF CancelDocument, At, Idle, TypeInv, TypeOK
      <4>2. CASE ReplaceDocument(r)
        <5>1. PICK d \in Document : OpenNext(r, d)
          BY <4>2 DEF ReplaceDocument
        <5> QED BY <2>4, <5>1, OpenNextMoves DEF At
      <4> QED BY <1>2, <4>1, <4>2
    <3>2. PICK c \in Document : c = request[q].document /\ TakenBack(c)
      BY <2>4, <3>1 DEF OrphanInv, TypeInv, RequestInv, At
    <3> QED BY <3>1, <3>2, TakenBackStays DEF TakenBack
  <2> QED BY <2>3, <2>4 DEF OrphanInv
<1>3. ASSUME NEW b \in Record, PrepareBillingRecord(b) \/ VoidBillingRecord(b)
      PROVE  OrphanInv'
  BY <1>3, OrphanUntouched DEF PrepareBillingRecord, VoidBillingRecord
<1>4. ASSUME NEW r \in Request, NEW b \in Record, NEW k \in IssueKey \union {NULL},
             ReadRecord(r, b, k)
      PROVE  OrphanInv'
  BY <1>4, OrphanUntouched DEF ReadRecord, billingVars, At, Idle, TypeInv, TypeOK
<1>5. ASSUME NEW r \in Request, ReplayIssue(r) \/ IssueDocument(r) PROVE OrphanInv'
  <2>1. \A d \in Document : document'[d] = "CANCELLED" => document[d] = "CANCELLED"
    BY <1>5 DEF ReplayIssue, IssueDocument, billingVars, TypeInv, TypeOK
  <2>2. \A q \in Request : At(q, "cancel")' \/ At(q, "replace")' => UNCHANGED request[q]
    <3>1. PICK d \in Document : OpenNext(r, d)
      BY <1>5 DEF ReplayIssue, IssueDocument
    <3> QED BY <3>1, OpenNextMoves DEF At
  <2> QED BY <2>1, <2>2, OrphanUntouched
<1>6. ASSUME NEW r \in Request,
             OpenReceivable(r) \/ PostSettlement(r) \/ OpenCase(r) \/ Abort(r)
      PROVE  OrphanInv'
  <2>1. UNCHANGED document /\ request' = [request EXCEPT ![r] = Idle]
    BY <1>6 DEF OpenReceivable, PostSettlement, OpenCase, Abort, billingVars
  <2>2. \A q \in Request : At(q, "cancel")' \/ At(q, "replace")' => UNCHANGED request[q]
    BY <2>1 DEF At, Idle, TypeInv, TypeOK
  <2> QED BY <2>1, <2>2, OrphanUntouched
<1>7. ASSUME NEW d \in Document, CancelReceivable(d) \/ RecordPromise(d) PROVE OrphanInv'
  BY <1>7, OrphanUntouched DEF CancelReceivable, RecordPromise, billingVars
<1>8. ASSUME NEW r \in Request, NEW d \in Document, NEW k \in SettleKey,
             NEW n \in 1 .. Principal, CheckSettlement(r, d, k, n)
      PROVE  OrphanInv'
  BY <1>8, OrphanUntouched DEF CheckSettlement, billingVars, At, Idle, TypeInv, TypeOK
<1>9. ASSUME NEW r \in Request, NEW d \in Document, ReadDebt(r, d) PROVE OrphanInv'
  BY <1>9, OrphanUntouched DEF ReadDebt, billingVars, At, Idle, TypeInv, TypeOK
<1>10. CASE UNCHANGED vars
  BY <1>10, OrphanUntouched DEF vars, billingVars
<1> QED BY <1>1, <1>2, <1>3, <1>4, <1>5, <1>6, <1>7, <1>8, <1>9, <1>10 DEF Next

\* Only a receivable that a cancellation looked for too early outlives its
\* document.
THEOREM OrphansNeedARace == Spec => []OrphansWereMissed
<1>1. Init => TypeInv /\ OrphanInv
  BY InitType, InitOrphan
<1>2. TypeInv /\ OrphanInv /\ [Next]_vars => (TypeInv /\ OrphanInv)'
  BY StepType, StepOrphan
<1>3. OrphanInv => OrphansWereMissed
  BY DEF OrphanInv, OrphansWereMissed, TakenBack
<1> QED BY <1>1, <1>2, <1>3, PTL DEF Spec

-----------------------------------------------------------------------------
\* Billing: one record is prepared at a time, and a record has one live document.

Live(d) == document[d] = "FINALIZED"

BillingInv ==
  /\ \A d \in Document : Live(d) => billed[d] \in Record /\ record[billed[d]] # "ABSENT"
  /\ \A c, d \in Document : Live(c) /\ Live(d) /\ billed[c] = billed[d] => c = d
  /\ \A r \in Request : At(r, "issue") => record[request[r].record] # "ABSENT"
  /\ \A a, b \in Record : record[a] = "PREPARED" /\ record[b] = "PREPARED" => a = b

\* A step that leaves records and documents alone and does not begin to issue
\* one keeps the invariant.
LEMMA BillingUntouched ==
  ASSUME BillingInv, UNCHANGED billingVars,
         \A r \in Request : At(r, "issue")' => UNCHANGED request[r]
  PROVE  BillingInv'
BY DEF BillingInv, Live, billingVars, At

LEMMA InitBilling == Init => BillingInv
BY DEF Init, BillingInv, Live, At, Idle

LEMMA StepBilling == TypeInv /\ BillingInv /\ [Next]_vars => BillingInv'
<1> SUFFICES ASSUME TypeInv, BillingInv, [Next]_vars PROVE BillingInv'
  OBVIOUS
<1>1. ASSUME NEW b \in Record, PrepareBillingRecord(b) \/ VoidBillingRecord(b)
      PROVE  BillingInv'
  <2>1. \A a \in Record : record[a] # "ABSENT" => record'[a] # "ABSENT"
    BY <1>1 DEF PrepareBillingRecord, VoidBillingRecord, TypeInv, TypeOK
  <2>2. \A a, c \in Record : record'[a] = "PREPARED" /\ record'[c] = "PREPARED" => a = c
    BY <1>1 DEF PrepareBillingRecord, VoidBillingRecord, BillingInv, TypeInv, TypeOK
  <2>3. UNCHANGED <<document, billed, request>>
    BY <1>1 DEF PrepareBillingRecord, VoidBillingRecord
  <2> QED BY <2>1, <2>2, <2>3 DEF BillingInv, Live, At, TypeInv, RequestInv
<1>2. ASSUME NEW r \in Request, NEW b \in Record, NEW k \in IssueKey \union {NULL},
             ReadRecord(r, b, k)
      PROVE  BillingInv'
  <2>1. /\ request'[r].record = b
        /\ record[b] # "ABSENT"
        /\ \A q \in Request \ {r} : request'[q] = request[q]
        /\ UNCHANGED billingVars
    BY <1>2 DEF ReadRecord, Idle, TypeInv, TypeOK
  <2> QED BY <2>1 DEF BillingInv, Live, billingVars, At
<1>3. ASSUME NEW r \in Request, IssueDocument(r) PROVE BillingInv'
  <2> DEFINE b == request[r].record
  <2>1. b \in Record /\ record[b] # "ABSENT"
    BY <1>3 DEF IssueDocument, BillingInv, TypeInv, RequestInv
  <2>2. PICK d \in Document : /\ document' = [document EXCEPT ![d] = "FINALIZED"]
                              /\ billed' = [billed EXCEPT ![d] = b]
                              /\ OpenNext(r, d)
    BY <1>3 DEF IssueDocument, InsertDocument
  <2>3. \A c \in Document : Live(c) => billed[c] # b
    BY <1>3 DEF IssueDocument, Finalized, Live
  <2>4. \A c \in Document : Live(c)' /\ c # d => Live(c) /\ billed'[c] = billed[c]
    BY <2>2 DEF Live, TypeInv, TypeOK
  <2>5. billed'[d] = b
    BY <2>1, <2>2 DEF TypeInv, TypeOK
  <2>6. \A q \in Request : At(q, "issue")' => At(q, "issue") /\ request'[q] = request[q]
    BY <2>2, OpenNextMoves DEF At
  <2>7. UNCHANGED record
    BY <1>3 DEF IssueDocument
  <2>8. \A c \in Document : Live(c)' => billed'[c] \in Record /\ record'[billed'[c]] # "ABSENT"
    BY <2>1, <2>4, <2>5, <2>7 DEF BillingInv
  <2>9. \A c, e \in Document : Live(c)' /\ Live(e)' /\ billed'[c] = billed'[e] => c = e
    BY <2>3, <2>4, <2>5 DEF BillingInv
  <2> QED BY <2>6, <2>7, <2>8, <2>9 DEF BillingInv, Live, At
<1>4. ASSUME NEW r \in Request, ReplaceDocument(r) PROVE BillingInv'
  <2> DEFINE old == request[r].document
  <2>1. old \in Document /\ Live(old)
    BY <1>4 DEF ReplaceDocument, Live, TypeInv, RequestInv, At
  <2>2. PICK d \in Document :
          /\ document[d] = "ABSENT"
          /\ document' = [document EXCEPT ![old] = "CANCELLED", ![d] = "FINALIZED"]
          /\ billed' = [billed EXCEPT ![d] = billed[old]]
          /\ OpenNext(r, d)
    BY <1>4 DEF ReplaceDocument, InsertDocument
  <2>3. \A c \in Document : Live(c)' /\ c # d => Live(c) /\ c # old /\ billed'[c] = billed[c]
    BY <2>1, <2>2 DEF Live, TypeInv, TypeOK
  <2>4. billed'[d] = billed[old]
    BY <2>2 DEF TypeInv, TypeOK
  <2>5. \A q \in Request : At(q, "issue")' => At(q, "issue") /\ request'[q] = request[q]
    BY <2>2, OpenNextMoves DEF At
  <2>6. UNCHANGED record
    BY <1>4 DEF ReplaceDocument
  <2>7. \A c \in Document : Live(c)' => billed'[c] \in Record /\ record'[billed'[c]] # "ABSENT"
    BY <2>1, <2>3, <2>4, <2>6 DEF BillingInv
  <2>8. \A c, e \in Document : Live(c)' /\ Live(e)' /\ billed'[c] = billed'[e] => c = e
    BY <2>1, <2>3, <2>4 DEF BillingInv
  <2> QED BY <2>5, <2>6, <2>7, <2>8 DEF BillingInv, Live, At
<1>5. ASSUME NEW r \in Request, CancelDocument(r) PROVE BillingInv'
  <2>1. \A d \in Document : Live(d)' => Live(d)
    BY <1>5 DEF CancelDocument, Live, TypeInv, TypeOK
  <2>2. \A q \in Request : At(q, "issue")' => At(q, "issue") /\ request'[q] = request[q]
    BY <1>5 DEF CancelDocument, At, Idle, TypeInv, TypeOK
  <2> QED BY <1>5, <2>1, <2>2 DEF CancelDocument, BillingInv, Live, At
<1>6. ASSUME NEW r \in Request, ReplayIssue(r) PROVE BillingInv'
  <2>1. PICK d \in Document : OpenNext(r, d)
    BY <1>6 DEF ReplayIssue
  <2>2. \A q \in Request : At(q, "issue")' => UNCHANGED request[q]
    BY <2>1, OpenNextMoves DEF At
  <2> QED BY <1>6, <2>2, BillingUntouched DEF ReplayIssue
<1>7. ASSUME NEW r \in Request,
             OpenReceivable(r) \/ PostSettlement(r) \/ OpenCase(r) \/ Abort(r)
      PROVE  BillingInv'
  <2>1. UNCHANGED billingVars /\ request' = [request EXCEPT ![r] = Idle]
    BY <1>7 DEF OpenReceivable, PostSettlement, OpenCase, Abort
  <2>2. \A q \in Request : At(q, "issue")' => UNCHANGED request[q]
    BY <2>1 DEF At, Idle, TypeInv, TypeOK
  <2> QED BY <2>1, <2>2, BillingUntouched
<1>8. ASSUME NEW d \in Document, CancelReceivable(d) \/ RecordPromise(d) PROVE BillingInv'
  BY <1>8, BillingUntouched DEF CancelReceivable, RecordPromise
<1>9. ASSUME NEW r \in Request, NEW d \in Document, NEW s \in {"cancel", "replace"},
             StartTakingBack(r, d, s)
      PROVE  BillingInv'
  BY <1>9, BillingUntouched DEF StartTakingBack, At, Idle, TypeInv, TypeOK
<1>10. ASSUME NEW r \in Request, NEW d \in Document, NEW k \in SettleKey,
              NEW n \in 1 .. Principal, CheckSettlement(r, d, k, n)
       PROVE  BillingInv'
  BY <1>10, BillingUntouched DEF CheckSettlement, At, Idle, TypeInv, TypeOK
<1>11. ASSUME NEW r \in Request, NEW d \in Document, ReadDebt(r, d) PROVE BillingInv'
  BY <1>11, BillingUntouched DEF ReadDebt, At, Idle, TypeInv, TypeOK
<1>12. CASE UNCHANGED vars
  BY <1>12, BillingUntouched DEF vars
<1> QED BY <1>1, <1>2, <1>3, <1>4, <1>5, <1>6, <1>7, <1>8, <1>9, <1>10, <1>11, <1>12
        DEF Next

\* A measurement with two live documents has a record that was voided under one.
THEOREM DoubleBillingIsVoided == Spec => []DoubleBillingNeedsVoid
<1>1. Init => TypeInv /\ BillingInv
  BY InitType, InitBilling
<1>2. TypeInv /\ BillingInv /\ [Next]_vars => (TypeInv /\ BillingInv)'
  BY StepType, StepBilling
<1>3. TypeInv /\ BillingInv => DoubleBillingNeedsVoid
  BY DEF BillingInv, Live, DoubleBillingNeedsVoid, TypeInv, TypeOK
<1> QED BY <1>1, <1>2, <1>3, PTL DEF Spec

-----------------------------------------------------------------------------
\* Cases

\* What closes a case is a payment in full, which the debt invariant keeps.
LEMMA StepCases == TypeInv /\ DebtInv /\ ClosedCasesArePaid /\ [Next]_vars
                     => ClosedCasesArePaid'
<1> SUFFICES ASSUME TypeInv, DebtInv, ClosedCasesArePaid, [Next]_vars
             PROVE  ClosedCasesArePaid'
  OBVIOUS
<1>1. CASE UNCHANGED <<paid, collection, promise>>
  BY <1>1 DEF ClosedCasesArePaid
<1>2. ASSUME NEW r \in Request, PostSettlement(r) PROVE ClosedCasesArePaid'
  <2> DEFINE d == request[r].document
             total == paid[d] + request[r].amount
  <2>1. d \in Document /\ paid[d] <= total /\ total <= Principal
    BY <1>2, ConstantsAssumption
       DEF PostSettlement, TypeInv, TypeOK, RequestInv, RequestType, DebtInv, SettleInv, At
  <2>2. paid' = [paid EXCEPT ![d] = total] /\ SettlementOutcome(d, total)
    BY <1>2 DEF PostSettlement
  <2>3. paid[d] \in Nat /\ total \in Int /\ Principal \in Nat
    BY <1>2, <2>1, ConstantsAssumption
       DEF PostSettlement, TypeInv, TypeOK, RequestType
  <2>4. CASE collection[d] = "OPEN" /\ total >= Principal
    BY <2>1, <2>2, <2>3, <2>4 DEF SettlementOutcome, ClosedCasesArePaid, TypeInv, TypeOK
  <2>5. CASE ~(collection[d] = "OPEN" /\ total >= Principal)
    BY <2>1, <2>2, <2>3, <2>5
       DEF SettlementOutcome, caseVars, ClosedCasesArePaid, TypeInv, TypeOK
  <2> QED BY <2>4, <2>5
<1>3. ASSUME NEW r \in Request, OpenCase(r) PROVE ClosedCasesArePaid'
  BY <1>3 DEF OpenCase, caseVars, debtVars, ClosedCasesArePaid, TypeInv, TypeOK,
              RequestInv, At
<1>4. ASSUME NEW d \in Document, RecordPromise(d) PROVE ClosedCasesArePaid'
  BY <1>4 DEF RecordPromise, debtVars, ClosedCasesArePaid, TypeInv, TypeOK
<1> QED BY <1>1, <1>2, <1>3, <1>4
     DEF Next, vars, debtVars, caseVars, PrepareBillingRecord, VoidBillingRecord, ReadRecord,
         ReplayIssue, IssueDocument, OpenReceivable, StartTakingBack, CancelDocument,
         ReplaceDocument, CancelReceivable, CheckSettlement, ReadDebt, Abort

\* A case is closed on a debt paid in full only, and takes its promises along.
THEOREM ClosedCasesStayPaid == Spec => []ClosedCasesArePaid
<1>1. Init => TypeInv /\ DebtInv /\ ClosedCasesArePaid
  BY InitType, InitDebt DEF Init, ClosedCasesArePaid
<1>2. TypeInv /\ DebtInv /\ ClosedCasesArePaid /\ [Next]_vars
        => (TypeInv /\ DebtInv /\ ClosedCasesArePaid)'
  BY StepType, StepDebt, StepCases
<1> QED BY <1>1, <1>2, PTL DEF Spec

=============================================================================
